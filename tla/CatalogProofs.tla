--------------------------- MODULE CatalogProofs ---------------------------
(***************************************************************************)
(* Theorems about the recording catalogue and the continuity tracker, for  *)
(* any number of files, registrations, handler threads and instants, and   *)
(* any set of fault scenarios.                                             *)
(***************************************************************************)
EXTENDS RecordingCatalog, Integers, TLAPS

Made == 1..made

\* The types.  That the times of rows are never negative is not needed here.
CatalogTypeOK ==
  /\ faults \in Scenarios
  /\ now \in Nat /\ source \in Nat /\ sourceAt \in Nat /\ gens \in Nat
  /\ recording \in 0..NFiles /\ made \in 0..NFiles
  /\ disk \in [Files -> {"none", "open", "hidden", "final"}]
  /\ gen \in [Files -> Nat] /\ from \in [Files -> Nat]
  /\ lead \in [Files -> {0, 1}] /\ upto \in [Files -> Nat]
  /\ mp4Hooks \subseteq Files
  /\ active \in Generation /\ closed \in Generation /\ ids \in Nat
  /\ status \in [Files -> {"NONE", "PROVISIONAL", "FINAL"}]
  /\ timing \in [Files -> {"HOOK_RAW", "NEXT_SEGMENT_BOUNDARY", "RECOVERY"}]
  /\ startedAt \in [Files -> Int] /\ endedAt \in [Files -> Int]
  /\ completion \in [Files -> {"NORMAL", "source_lost", "RECOVERY", "RECOVERY_INTERRUPTED"}]
  /\ pc \in [Handlers -> {"idle", "resolved", "read", "written"}]
  /\ job \in [Handlers -> 0..NFiles]
  /\ found \in [Handlers -> Resolution]
  /\ fresh \in [Handlers -> BOOLEAN]
  /\ adjusts \in [Handlers -> BOOLEAN]
  /\ tail \in [Handlers -> BOOLEAN]

\* Files are made one after the other: only the last one can be open, and what
\* was made before it was closed before it began.
FilesInOrder ==
  /\ recording = 0 \/ recording = made
  /\ \A f \in Files : f > made => disk[f] = "none"
  /\ \A f \in Made : f # recording => disk[f] \in {"hidden", "final"} /\ upto[f] > from[f] + lead[f]
  /\ recording # 0 => disk[recording] = "open"
  /\ \A f, g \in Made : f < g => upto[f] <= from[g] /\ from[f] <= from[g]
  /\ \A f \in Made : from[f] <= now
  /\ \A f \in Files : upto[f] <= now

\* A row and a hook belong to a file that is closed under its final name.
ClosedFiles ==
  /\ \A f \in Files : status[f] # "NONE" => disk[f] = "final"
  /\ \A f \in mp4Hooks : disk[f] = "final"
  /\ \A h \in Handlers : pc[h] # "idle" => job[h] # 0 /\ disk[job[h]] = "final"
  /\ \A h \in Handlers : pc[h] = "idle" =>
       job[h] = 0 /\ found[h].id = 0 /\ found[h].previous = 0 /\ ~adjusts[h] /\ ~tail[h]

\* What a handler has read of the rows: its own row, and the row before it.
RowsRead ==
  /\ \A f \in Files : status[f] = "PROVISIONAL" => startedAt[f] = from[f] /\ timing[f] = "HOOK_RAW"
  /\ \A h, i \in Handlers : Writing(h) /\ Writing(i) => h = i
  /\ \A h \in Handlers : Writing(h) /\ fresh[h] => status[job[h]] = "NONE"
  /\ \A h \in Handlers : adjusts[h] =>
       /\ pc[h] \in {"read", "written"} /\ found[h].previous # 0
       /\ from[job[h]] > from[found[h].previous]
       /\ status[found[h].previous] # "NONE"

\* One handler at a time: nobody settles the row before in the meantime.
Alone == "threads" \notin faults
OneHandler ==
  Alone => /\ \A h, i \in Handlers : pc[h] # "idle" /\ pc[i] # "idle" => h = i
           /\ \A h \in Handlers : adjusts[h] => status[found[h].previous] = "PROVISIONAL"

RowsInv == CatalogTypeOK /\ FilesInOrder /\ ClosedFiles /\ RowsRead /\ OneHandler

-----------------------------------------------------------------------------
\* Stream hooks are handled when they are sent, and the source is not lost
\* again while a file of an earlier registration is under way.
Steady == "late" \notin faults /\ "flap" \notin faults

\* What the tracker knows while a hook about the stream is under way.
TrackerPhase ==
  \/ source = 0 /\ hooks = <<>> /\ active.id = 0
  \/ source = gens /\ gens > 0 /\ hooks = <<"register">> /\ active.id = 0
  \/ source = gens /\ gens > 0 /\ hooks = <<>> /\ (active.id = 0 => closed.id = 0)
  \/ source = 0 /\ hooks = <<"unregister">> /\ (active.id = 0 => closed.id = 0)
  \/ source = 0 /\ hooks = <<"server-started">> /\ mp4Hooks = {}

AtRest == source = 0 /\ hooks = <<>>

\* The registration the closed generation stands for.
ClosedGen == IF AtRest THEN gens ELSE gens - 1

\* Registrations follow each other in time.
GensInTime ==
  /\ sourceAt <= now /\ (hooks # <<>> => sourceAt = now)
  /\ \A f \in Made : gen[f] \in 1..gens
  /\ \A f, g \in Made : f < g => gen[f] <= gen[g]
  /\ recording # 0 => source # 0 /\ gen[recording] = gens
  /\ source = 0 => \A f \in Made : from[f] <= sourceAt
  /\ source # 0 => \A f \in Made : gen[f] = gens <=> from[f] >= sourceAt
  /\ active.id # 0 => active.at <= now /\ \A f \in Made : gen[f] = gens <=> from[f] >= active.at
  /\ closed.id # 0 /\ source # 0 => closed.closedAt < sourceAt
  /\ closed.id # 0 /\ AtRest => closed.closedAt <= sourceAt
  /\ closed.id # 0 => \A f \in Made : gen[f] = ClosedGen => from[f] <= closed.closedAt

\* The files a generation was given are files of its registration, and so is
\* the predecessor a handler has found.
TrackerKnows ==
  /\ active.id <= ids /\ closed.id <= ids /\ (active.id # 0 => active.id # closed.id)
  /\ active.id # 0 /\ active.last # 0 => active.last \in Made /\ gen[active.last] = gens
  /\ closed.id # 0 /\ closed.last # 0 => closed.last \in Made /\ gen[closed.last] = ClosedGen

HandlerKnows(h) ==
  /\ found[h].id <= ids
  /\ found[h].id # 0 /\ found[h].id = active.id => gen[job[h]] = gens
  /\ found[h].id # 0 /\ found[h].id = closed.id => gen[job[h]] = ClosedGen
  /\ found[h].previous # 0 => found[h].previous \in Made /\ gen[found[h].previous] = gen[job[h]]

GensKnown ==
  /\ TrackerKnows
  /\ \A h \in Handlers : HandlerKnows(h)
  /\ \A f \in mp4Hooks : gen[f] >= IF source = 0 THEN gens ELSE gens - 1

\* GenerationsStaySplit, about files that have been made.
SplitInMade ==
  \A f \in Files : Normalized(f) =>
    \E g \in Made : f < g /\ gen[g] = gen[f] /\ from[g] = endedAt[f]

SplitInv == Steady /\ RowsInv /\ TrackerPhase /\ GensInTime /\ GensKnown /\ SplitInMade

-----------------------------------------------------------------------------
Marked(f) == completion[f] = "source_lost"

\* The mark of a registration is on the last file of its closed generation, or
\* the one handler is about to move it there.
MarksPlaced == \A f \in Files : Marked(f) => f \in Made /\ (gen[f] < gens \/ AtRest)

MarkIsLast ==
  closed.id # 0 => \A f \in Files : Marked(f) /\ gen[f] = ClosedGen =>
    closed.last = f \/ \E h \in Handlers : tail[h] /\ gen[job[h]] = ClosedGen

TailPending(h) ==
  tail[h] => /\ pc[h] = "written" /\ (gen[job[h]] < gens \/ AtRest)
             /\ \A f \in Files : Marked(f) /\ gen[f] = gen[job[h]] => f \in {found[h].previous, job[h]}
             /\ closed.id # 0 /\ gen[job[h]] = ClosedGen => closed.last = job[h]

\* What a handler has found of the closed generation is still so; a generation
\* that was closed only afterwards has no mark yet.
HandlerSees(h) ==
  pc[h] \in {"resolved", "read"} /\ found[h].id # 0 /\ found[h].id = closed.id =>
    IF found[h].closed THEN found[h].previous = closed.last
                       ELSE \A f \in Files : Marked(f) => gen[f] # ClosedGen

ClosedStays(h) == found[h].closed => found[h].id # active.id /\ found[h].id # 0

TailKnown ==
  /\ MarksPlaced /\ MarkIsLast
  /\ \A h \in Handlers : TailPending(h) /\ HandlerSees(h) /\ ClosedStays(h)

TailInv == SplitInv /\ (Alone => OneTail /\ TailKnown)

-----------------------------------------------------------------------------
IsCalm == faults \subseteq {"repeat", "crash", "restart"}

\* Without a stop a registration is recorded without a gap.
NoGaps ==
  /\ source # 0 /\ recording = 0 => \A f \in Made : gen[f] < gens
  /\ \A f, g \in Made : g = f + 1 /\ gen[f] = gen[g] => upto[f] = from[g]

\* Hooks come in the order of their files.
InOrder ==
  /\ \A f \in mp4Hooks, g \in Made : f < g /\ g # recording => g \in mp4Hooks
  /\ \A h \in Handlers : pc[h] # "idle" => \A f \in mp4Hooks : job[h] <= f
  /\ hooks # <<"server-started">> =>
       \A h \in Handlers : pc[h] # "idle" /\ found[h].id # 0 /\ found[h].id \in {active.id, closed.id} =>
         \A g \in Made : job[h] < g /\ g # recording => g \in mp4Hooks

\* The hook of g is under way, or a handler has resolved it to generation id.
Comes(g, id) == g \in mp4Hooks \/ \E h \in Handlers : job[h] = g /\ found[h].id = id /\ pc[h] \in {"resolved", "read"}

\* A generation has missed nothing after its last file.
NothingMissed(G, r) ==
  G.id # 0 /\ G.last # 0 =>
    /\ G.lastAt <= from[G.last] + lead[G.last]
    /\ hooks # <<"server-started">> =>
         \A g \in Made : G.last < g /\ gen[g] = r /\ g # recording => Comes(g, G.id)
    /\ \A g \in mp4Hooks : G.last <= g
    /\ \A h \in Handlers : pc[h] # "idle" => G.last <= job[h]

CalmRows ==
  /\ NormalizedTimingIsTrue
  /\ \A f \in Files : status[f] # "NONE" => from[f] <= startedAt[f] /\ startedAt[f] <= from[f] + lead[f]
  /\ \A f \in Files : status[f] = "FINAL" => startedAt[f] >= from[f] /\ endedAt[f] <= upto[f]
  /\ \A h \in Handlers : pc[h] \in {"read", "written"} => (fresh[h] <=> status[job[h]] = "NONE")
  /\ \A h \in Handlers : found[h].previous # 0 => job[h] \in {found[h].previous, found[h].previous + 1}

ActiveMissedNothing == NothingMissed(active, gens)
ClosedMissedNothing == NothingMissed(closed, ClosedGen)

CalmKnown == NoGaps /\ InOrder /\ CalmRows /\ ActiveMissedNothing /\ ClosedMissedNothing

CalmInv == SplitInv /\ (IsCalm => CalmKnown)
-----------------------------------------------------------------------------
(* Rows and files, whatever fails.                                         *)

LEMMA RowsStart == Init => RowsInv
<1> SUFFICES ASSUME Init PROVE RowsInv
  OBVIOUS
<1>1. NoGeneration \in Generation /\ NoResolution \in Resolution
  BY CatalogAssumption DEF NoGeneration, Generation, NoResolution, Resolution
<1>2. CatalogTypeOK
  BY <1>1, CatalogAssumption DEF Init, CatalogTypeOK, Files
<1>3. FilesInOrder
  BY DEF Init, FilesInOrder, Made, Files
<1>4. ClosedFiles
  BY DEF Init, ClosedFiles, NoResolution
<1>5. RowsRead /\ OneHandler
  BY DEF Init, RowsRead, OneHandler, Writing
<1> QED
  BY <1>2, <1>3, <1>4, <1>5 DEF RowsInv

\* Steps that leave files, rows and handlers alone.
LEMMA RowsLeftAlone ==
  ASSUME RowsInv, UNCHANGED <<faults, media, rows, threads, recording, made>>,
         now' \in Nat, now <= now', mp4Hooks' \subseteq mp4Hooks,
         source' \in Nat, sourceAt' \in Nat, gens' \in Nat,
         active' \in Generation, closed' \in Generation, ids' \in Nat
  PROVE  RowsInv'
<1>1. CatalogTypeOK'
  BY DEF RowsInv, CatalogTypeOK, media, rows, threads
<1>2. FilesInOrder'
  <2>1. /\ UNCHANGED <<disk, gen, from, lead, upto, recording, made, Made>> /\ now \in Nat
        /\ \A f \in Files : from[f] \in Nat /\ upto[f] \in Nat
        /\ Made \subseteq Files
    BY CatalogAssumption DEF RowsInv, CatalogTypeOK, Made, Files, media
  <2>2. (\A f \in Made : from[f] <= now') /\ \A f \in Files : upto[f] <= now'
    BY <2>1 DEF RowsInv, FilesInOrder
  <2> QED
    BY <2>1, <2>2 DEF RowsInv, FilesInOrder
<1>3. ClosedFiles'
  BY DEF RowsInv, ClosedFiles, media, rows, threads
<1>4. RowsRead' /\ OneHandler'
  BY DEF RowsInv, RowsRead, OneHandler, Alone, Writing, media, rows, threads
<1> QED
  BY <1>1, <1>2, <1>3, <1>4 DEF RowsInv

LEMMA GenerationTyped ==
  ASSUME NEW G \in Generation, NEW i \in Nat, NEW at \in Nat, NEW f \in 0..NFiles
  PROVE  /\ NoGeneration \in Generation
         /\ [NoGeneration EXCEPT !.id = i, !.at = at] \in Generation
         /\ [NoGeneration EXCEPT !.id = i, !.at = at].id = i
         /\ [NoGeneration EXCEPT !.id = i, !.at = at].at = at
         /\ [NoGeneration EXCEPT !.id = i, !.at = at].last = 0
         /\ NoGeneration.id = 0
         /\ [G EXCEPT !.closedAt = at] \in Generation
         /\ [G EXCEPT !.closedAt = at].id = G.id
         /\ [G EXCEPT !.closedAt = at].last = G.last
         /\ [G EXCEPT !.closedAt = at].lastAt = G.lastAt
         /\ [G EXCEPT !.closedAt = at].closedAt = at
         /\ [G EXCEPT !.last = f, !.lastAt = at] \in Generation
         /\ [G EXCEPT !.last = f, !.lastAt = at].id = G.id
         /\ [G EXCEPT !.last = f, !.lastAt = at].at = G.at
         /\ [G EXCEPT !.last = f, !.lastAt = at].last = f
         /\ [G EXCEPT !.last = f, !.lastAt = at].lastAt = at
         /\ [G EXCEPT !.last = f, !.lastAt = at].closedAt = G.closedAt
<1>1. NoGeneration \in Generation /\ NoGeneration.id = 0 /\ NoGeneration.last = 0
  BY CatalogAssumption DEF NoGeneration, Generation
<1> HIDE DEF NoGeneration
<1> QED
  BY <1>1 DEF Generation

\* The hooks about the stream change the tracker only.
LEMMA RowsStreamHooks ==
  ASSUME RowsInv, UNCHANGED faults
  PROVE  /\ Tick => RowsInv'
         /\ RegisterSource => RowsInv'
         /\ HandleRegister => RowsInv'
         /\ HandleUnregister => RowsInv'
         /\ HandleServerStarted => RowsInv'
         /\ \A f \in Files : LoseHook(f) => RowsInv'
<1>0. /\ now \in Nat /\ source \in Nat /\ sourceAt \in Nat /\ gens \in Nat /\ ids \in Nat
      /\ active \in Generation /\ closed \in Generation /\ 0 \in 0..NFiles /\ ids + 1 \in Nat
  BY CatalogAssumption DEF RowsInv, CatalogTypeOK
<1>a. /\ NoGeneration \in Generation /\ [NoGeneration EXCEPT !.id = ids + 1, !.at = now] \in Generation
      /\ [active EXCEPT !.closedAt = now] \in Generation
  BY <1>0, GenerationTyped
<1>1. Tick => RowsInv'
  BY <1>0, RowsLeftAlone DEF Tick, zlm, net, tracker
<1>2. RegisterSource => RowsInv'
  BY <1>0, RowsLeftAlone DEF RegisterSource, tracker
<1>3. HandleRegister => RowsInv'
  BY <1>0, <1>a, RowsLeftAlone DEF HandleRegister, Registered, zlm
<1>4. HandleUnregister => RowsInv'
  <2>1. HandleUnregister => active' \in Generation /\ closed' \in Generation
    BY <1>0, <1>a DEF HandleUnregister, Unregistered
  <2> QED
    BY <1>0, <2>1, RowsLeftAlone DEF HandleUnregister, zlm
<1>5. HandleServerStarted => RowsInv'
  BY <1>0, <1>a, RowsLeftAlone DEF HandleServerStarted, Reset, zlm
<1>6. ASSUME NEW f \in Files, LoseHook(f) PROVE RowsInv'
  BY <1>0, <1>6, RowsLeftAlone DEF LoseHook, zlm, tracker
<1> QED
  BY <1>1, <1>2, <1>3, <1>4, <1>5, <1>6

\* What the types say of single files and handlers.
LEMMA FileFacts ==
  ASSUME RowsInv
  PROVE  /\ NFiles \in Nat /\ made \in Nat /\ made <= NFiles /\ recording \in Nat /\ now \in Nat
         /\ 0 \notin Files /\ Made \subseteq Files
         /\ \A f \in Files : f \in Nat /\ f >= 1 /\ f <= NFiles /\ (f \in Made <=> f <= made)
         /\ recording # 0 => recording \in Made /\ recording \in Files /\ recording = made
         /\ made < NFiles => made + 1 \in Files /\ made + 1 \notin Made /\ made + 1 \in 0..NFiles
         /\ \A f \in Files : /\ from[f] \in Nat /\ upto[f] \in Nat /\ lead[f] \in Nat /\ gen[f] \in Nat
                             /\ startedAt[f] \in Int /\ endedAt[f] \in Int
         /\ mp4Hooks \subseteq Files
         /\ \A h \in Handlers : pc[h] # "idle" => job[h] \in Files
         /\ \A h \in Handlers : found[h].id \in Nat /\ found[h].previous \in Nat
         /\ \A h \in Handlers : found[h].previous # 0 => found[h].previous \in Files
         /\ \A h \in Handlers : adjusts[h] => pc[h] # "idle" /\ found[h].previous # 0
<1>1. NFiles \in Nat /\ made \in 0..NFiles /\ recording \in 0..NFiles /\ now \in Nat
  BY CatalogAssumption DEF RowsInv, CatalogTypeOK
<1>2. recording = 0 \/ recording = made
  BY DEF RowsInv, FilesInOrder
<1>3. \A h \in Handlers : found[h] \in Resolution /\ job[h] \in 0..NFiles
  BY DEF RowsInv, CatalogTypeOK
<1>4. \A h \in Handlers : found[h].id \in Nat /\ found[h].previous \in 0..NFiles
  BY <1>3 DEF Resolution
<1>5. \A h \in Handlers : (pc[h] # "idle" => job[h] # 0) /\ (adjusts[h] => pc[h] # "idle" /\ found[h].previous # 0)
  BY DEF RowsInv, ClosedFiles, RowsRead
<1>6. mp4Hooks \subseteq Files
  BY DEF RowsInv, CatalogTypeOK
<1>7. \A f \in Files : /\ from[f] \in Nat /\ upto[f] \in Nat /\ lead[f] \in {0, 1} /\ gen[f] \in Nat
                       /\ startedAt[f] \in Int /\ endedAt[f] \in Int
  BY DEF RowsInv, CatalogTypeOK
<1>8. \A f \in Files : lead[f] \in Nat
  BY <1>7
<1> QED
  BY <1>1, <1>2, <1>4, <1>5, <1>6, <1>7, <1>8, <1>3 DEF Files, Made

\* ZLM closes the file it was writing, if there is one, and may create the next.
FilesMove(name, created, keyframe) ==
  /\ recording # 0 => Closable
  /\ created # 0 => created = made + 1 /\ made < NFiles
  /\ recording' = created /\ made' = IF created = 0 THEN made ELSE created
  /\ disk' \in [Files -> {"none", "open", "hidden", "final"}]
  /\ gen' \in [Files -> Nat] /\ from' \in [Files -> Nat]
  /\ lead' \in [Files -> {0, 1}] /\ upto' \in [Files -> Nat]
  /\ \A f \in Files : f # created => gen'[f] = gen[f] /\ from'[f] = from[f] /\ lead'[f] = lead[f]
  /\ created # 0 => /\ gen'[created] = source /\ from'[created] = now /\ lead'[created] = keyframe
                    /\ disk'[created] = "open"
  /\ \A f \in Files : f # recording => upto'[f] = upto[f]
  /\ \A f \in Files \ {recording, created} : disk'[f] = disk[f]
  /\ recording # 0 => upto'[recording] = now /\ disk'[recording] = name
  /\ mp4Hooks' \subseteq Files
  /\ \A f \in mp4Hooks' : f \in mp4Hooks \/ (name = "final" /\ f = recording /\ f # 0)

LEMMA RowsFilesMove ==
  ASSUME RowsInv, UNCHANGED <<faults, now, rows, threads, tracker>>,
         NEW name \in {"hidden", "final"}, NEW created \in 0..NFiles, NEW keyframe \in {0, 1},
         FilesMove(name, created, keyframe),
         source' \in Nat, sourceAt' \in Nat, gens' \in Nat
  PROVE  RowsInv'
<1>0. /\ made \in Nat /\ made <= NFiles /\ NFiles \in Nat /\ now \in Nat /\ recording \in Nat
      /\ recording # 0 => recording \in Made /\ recording \in Files /\ recording = made
      /\ Made \subseteq Files /\ 0 \notin Files
      /\ \A f \in Files : f \in Nat /\ f >= 1 /\ f <= NFiles /\ (f \in Made <=> f <= made)
      /\ \A f \in Files : from[f] \in Nat /\ upto[f] \in Nat /\ lead[f] \in Nat
  BY FileFacts
<1>1. /\ \A f \in Files : from'[f] \in Nat /\ upto'[f] \in Nat /\ lead'[f] \in {0, 1}
      /\ \A f \in Files : f # created => from'[f] = from[f] /\ lead'[f] = lead[f]
      /\ \A f \in Files : f # recording => upto'[f] = upto[f]
      /\ created # 0 => /\ from'[created] = now /\ lead'[created] = keyframe
                        /\ disk'[created] = "open" /\ created = made + 1 /\ made < NFiles
      /\ recording # 0 => /\ upto'[recording] = now /\ disk'[recording] = name
                          /\ now > from[recording] + lead[recording]
      /\ \A f \in Files \ {recording, created} : disk'[f] = disk[f]
      /\ recording' = created /\ made' = IF created = 0 THEN made ELSE created
      /\ now' = now
  BY DEF FilesMove, Closable
<1>2. CatalogTypeOK'
  <2>1. recording' \in 0..NFiles /\ made' \in 0..NFiles
    BY <1>0, <1>1
  <2> QED
    BY <2>1 DEF RowsInv, CatalogTypeOK, FilesMove, rows, threads, tracker
<1>a. made' \in Nat /\ \A f \in Nat : f \in Made' <=> 1 <= f /\ f <= made'
  BY <1>0, <1>1 DEF Made
<1>3. /\ created # 0 => created \in Files /\ created \notin Made
      /\ \A f \in Made' : f \in Made \/ (f = created /\ f # 0)
      /\ \A f \in Made : f # created
      /\ \A f \in Files : f > made' => f > made
  <2>1. created # 0 => created \in Files /\ created \notin Made
    BY <1>0, <1>1 DEF Made, Files
  <2>2. \A f \in Made' : f \in Nat
    BY <1>a DEF Made
  <2>3. \A f \in Nat : f \in Made <=> 1 <= f /\ f <= made
    BY <1>0 DEF Made
  <2>4. \A f \in Made' : f \in Made \/ (f = created /\ f # 0)
    BY <2>2, <2>3, <1>a, <1>0, <1>1
  <2>5. \A f \in Made : f # created
    BY <2>1, <1>0
  <2>6. \A f \in Files : f > made' => f > made
    BY <1>0, <1>1
  <2> QED
    BY <2>1, <2>4, <2>5, <2>6
<1>b. \A f \in Made : f = recording \/ upto[f] > from[f] + lead[f]
  BY DEF RowsInv, FilesInOrder
<1>4. \A f \in Files : disk[f] = "final" => f # recording /\ f # created /\ disk'[f] = "final"
  <2> SUFFICES ASSUME NEW f \in Files, disk[f] = "final"
               PROVE  f # recording /\ f # created
    BY <1>1
  <2>1. created # 0 => disk[created] = "none"
    BY <1>0, <1>1, <1>3 DEF RowsInv, FilesInOrder
  <2> QED
    BY <2>1, <1>0 DEF RowsInv, FilesInOrder
<1>5. ClosedFiles'
  <2>1. \A h \in Handlers : pc[h] # "idle" => job[h] \in Files
    BY FileFacts
  <2>2. \A f \in mp4Hooks' : disk'[f] = "final"
    BY <1>4 DEF FilesMove, RowsInv, ClosedFiles, CatalogTypeOK
  <2> QED
    BY <1>4, <2>1, <2>2 DEF RowsInv, ClosedFiles, rows, threads
<1>6. RowsRead'
  <2>1. \A f \in Files : status[f] # "NONE" => from'[f] = from[f]
    BY <1>1, <1>4 DEF RowsInv, ClosedFiles
  <2>2. \A h \in Handlers : adjusts[h] => from'[job[h]] = from[job[h]] /\ from'[found[h].previous] = from[found[h].previous]
    <3> SUFFICES ASSUME NEW h \in Handlers, adjusts[h]
                 PROVE  from'[job[h]] = from[job[h]] /\ from'[found[h].previous] = from[found[h].previous]
      OBVIOUS
    <3>0. pc[h] # "idle" /\ job[h] \in Files /\ found[h].previous \in Files
      BY FileFacts
    <3>1. disk[job[h]] = "final" /\ status[found[h].previous] # "NONE"
      BY <3>0 DEF RowsInv, RowsRead, ClosedFiles
    <3> QED
      BY <3>0, <3>1, <2>1, <1>1, <1>4
  <2> QED
    BY <2>1, <2>2 DEF RowsInv, RowsRead, Writing, rows, threads
<1>7. FilesInOrder'
  <2>1. \A f \in Files : f > made' => disk'[f] = "none"
    <3> SUFFICES ASSUME NEW f \in Files, f > made' PROVE disk'[f] = "none"
      OBVIOUS
    <3>1. f > made /\ f # recording /\ f # created
      BY <1>0, <1>1, <1>3
    <3> QED
      BY <3>1, <1>1 DEF RowsInv, FilesInOrder
  <2>2. \A f \in Made' : f # recording' => disk'[f] \in {"hidden", "final"} /\ upto'[f] > from'[f] + lead'[f]
    <3> SUFFICES ASSUME NEW f \in Made, f # created
                 PROVE  disk'[f] \in {"hidden", "final"} /\ upto'[f] > from'[f] + lead'[f]
      BY <1>1, <1>3
    <3>1. CASE f = recording
      BY <1>0, <1>1, <3>1
    <3>2. CASE f # recording
      BY <1>0, <1>1, <1>b, <3>2 DEF RowsInv, FilesInOrder
    <3> QED
      BY <3>1, <3>2
  <2>3. \A f, g \in Made' : f < g => upto'[f] <= from'[g] /\ from'[f] <= from'[g]
    <3> SUFFICES ASSUME NEW f \in Made', NEW g \in Made', f < g
                 PROVE  upto'[f] <= from'[g] /\ from'[f] <= from'[g]
      OBVIOUS
    <3>1. f \in Made /\ f # created
      BY <1>0, <1>1, <1>3
    <3>2. CASE g \notin Made
      <4>1. from'[g] = now /\ from'[f] = from[f] /\ f \in Files
        BY <3>1, <3>2, <1>0, <1>1, <1>3
      <4>2. upto'[f] <= now /\ from[f] <= now
        BY <3>1, <1>0, <1>1 DEF RowsInv, FilesInOrder
      <4> QED
        BY <4>1, <4>2
    <3>3. CASE g \in Made
      <4>1. f # recording /\ from'[f] = from[f] /\ from'[g] = from[g] /\ upto'[f] = upto[f]
        BY <3>1, <3>3, <1>0, <1>1, <1>3
      <4> QED
        BY <4>1, <3>1, <3>3 DEF RowsInv, FilesInOrder
    <3> QED
      BY <3>2, <3>3
  <2>4. \A f \in Made' : from'[f] <= now'
    <3> SUFFICES ASSUME NEW f \in Made' PROVE from'[f] <= now
      BY <1>1
    <3>1. CASE f \in Made
      BY <3>1, <1>0, <1>1, <1>3 DEF RowsInv, FilesInOrder
    <3> QED
      BY <3>1, <1>0, <1>1, <1>3
  <2>5. \A f \in Files : upto'[f] <= now'
    BY <1>0, <1>1 DEF RowsInv, FilesInOrder
  <2>6. (recording' = 0 \/ recording' = made') /\ (recording' # 0 => disk'[recording'] = "open")
    BY <1>1
  <2> QED
    BY <2>1, <2>2, <2>3, <2>4, <2>5, <2>6 DEF FilesInOrder
<1>8. OneHandler'
  BY DEF RowsInv, OneHandler, Alone, rows, threads
<1> QED
  BY <1>2, <1>5, <1>6, <1>7, <1>8 DEF RowsInv

\* The steps of ZLM on its files are such moves.
LEMMA FilesAreMoved ==
  ASSUME RowsInv
  PROVE  /\ \A keyframe \in {0, 1} : StartRecording(keyframe) => FilesMove("final", made + 1, keyframe)
         /\ RollOver => FilesMove("final", made + 1, 0)
         /\ StopRecording => FilesMove("final", 0, 0)
         /\ LoseSource => FilesMove("final", 0, 0)
         /\ Crash => FilesMove("hidden", 0, 0)
<1>z. /\ made \in Nat /\ recording \in Nat /\ now \in Nat
      /\ recording # 0 => recording \in Files /\ recording = made
      /\ mp4Hooks \subseteq Files /\ 0 \notin Files
      /\ made < NFiles => made + 1 \in Files
  BY FileFacts
<1>y. recording # made + 1 /\ made + 1 # 0
  BY <1>z
<1>0. /\ source \in Nat /\ disk \in [Files -> {"none", "open", "hidden", "final"}]
      /\ gen \in [Files -> Nat] /\ from \in [Files -> Nat]
      /\ lead \in [Files -> {0, 1}] /\ upto \in [Files -> Nat]
  BY DEF RowsInv, CatalogTypeOK
<1>1. ASSUME NEW keyframe \in {0, 1}, StartRecording(keyframe) PROVE FilesMove("final", made + 1, keyframe)
  BY <1>0, <1>z, <1>y, <1>1 DEF StartRecording, FilesMove, Create, net
<1>2. ASSUME RollOver PROVE FilesMove("final", made + 1, 0)
  BY <1>0, <1>z, <1>y, <1>2 DEF RollOver, FilesMove, Create, Close
<1>3. ASSUME StopRecording PROVE FilesMove("final", 0, 0)
  BY <1>0, <1>z, <1>y, <1>3 DEF StopRecording, FilesMove, Close
<1>4. ASSUME LoseSource PROVE FilesMove("final", 0, 0)
  <2>1. CASE recording = 0
    BY <1>0, <1>z, <1>y, <1>4, <2>1 DEF LoseSource, FilesMove, Close
  <2>2. CASE recording # 0
    BY <1>0, <1>z, <1>y, <1>4, <2>2 DEF LoseSource, FilesMove, Close
  <2> QED
    BY <2>1, <2>2
<1>5. ASSUME Crash PROVE FilesMove("hidden", 0, 0)
  <2>1. CASE recording = 0
    BY <1>0, <1>z, <1>y, <1>5, <2>1 DEF Crash, FilesMove
  <2>2. CASE recording # 0
    BY <1>0, <1>z, <1>y, <1>5, <2>2 DEF Crash, FilesMove
  <2> QED
    BY <2>1, <2>2
<1> QED
  BY <1>1, <1>2, <1>3, <1>4, <1>5

LEMMA RowsZlm ==
  ASSUME RowsInv, UNCHANGED faults
  PROVE  /\ \A keyframe \in {0, 1} : StartRecording(keyframe) => RowsInv'
         /\ RollOver => RowsInv'
         /\ StopRecording => RowsInv'
         /\ LoseSource => RowsInv'
         /\ Crash => RowsInv'
<1>0. /\ source \in Nat /\ sourceAt \in Nat /\ gens \in Nat /\ now \in Nat /\ 0 \in 0..NFiles
      /\ made < NFiles => made + 1 \in 0..NFiles
  BY CatalogAssumption DEF RowsInv, CatalogTypeOK
<1>1. ASSUME NEW keyframe \in {0, 1}, StartRecording(keyframe) PROVE RowsInv'
  BY <1>0, <1>1, FilesAreMoved, RowsFilesMove DEF StartRecording
<1>2. ASSUME RollOver PROVE RowsInv'
  BY <1>0, <1>2, FilesAreMoved, RowsFilesMove DEF RollOver
<1>3. ASSUME StopRecording PROVE RowsInv'
  BY <1>0, <1>3, FilesAreMoved, RowsFilesMove DEF StopRecording
<1>4. ASSUME LoseSource PROVE RowsInv'
  BY <1>0, <1>4, FilesAreMoved, RowsFilesMove DEF LoseSource
<1>5. ASSUME Crash PROVE RowsInv'
  BY <1>0, <1>5, FilesAreMoved, RowsFilesMove DEF Crash
<1> QED
  BY <1>1, <1>2, <1>3, <1>4, <1>5
\* A handler that is done knows nothing; the others know what they knew.
HandlerIdle(h) ==
  /\ pc' \in [Handlers -> {"idle", "resolved", "read", "written"}]
  /\ job' \in [Handlers -> 0..NFiles] /\ found' \in [Handlers -> Resolution]
  /\ fresh' \in [Handlers -> BOOLEAN] /\ adjusts' \in [Handlers -> BOOLEAN]
  /\ tail' \in [Handlers -> BOOLEAN]
  /\ pc'[h] = "idle" /\ job'[h] = 0 /\ found'[h].id = 0 /\ found'[h].previous = 0
  /\ found'[h].closed = FALSE /\ ~adjusts'[h] /\ ~tail'[h] /\ ~fresh'[h]
  /\ \A i \in Handlers : i # h =>
       /\ pc'[i] = pc[i] /\ job'[i] = job[i] /\ found'[i] = found[i]
       /\ fresh'[i] = fresh[i] /\ adjusts'[i] = adjusts[i] /\ tail'[i] = tail[i]

LEMMA HandlerDone ==
  ASSUME RowsInv, NEW h \in Handlers, Done(h)
  PROVE  HandlerIdle(h)
<1>1. NoResolution \in Resolution /\ NoResolution.id = 0 /\ NoResolution.previous = 0 /\ NoResolution.closed = FALSE
  BY CatalogAssumption DEF NoResolution, Resolution
<1>2. 0 \in 0..NFiles
  BY CatalogAssumption
<1> HIDE DEF NoResolution
<1> QED
  BY <1>1, <1>2 DEF Done, RowsInv, CatalogTypeOK, HandlerIdle

LEMMA ResolutionTyped ==
  ASSUME RowsInv, NEW start
  PROVE  ResolveRecord(start) \in Resolution
<1>1. active \in Generation /\ closed \in Generation /\ NFiles \in Nat
  BY CatalogAssumption DEF RowsInv, CatalogTypeOK
<1>2. active.id \in Nat /\ active.last \in 0..NFiles /\ closed.id \in Nat /\ closed.last \in 0..NFiles
  BY <1>1 DEF Generation
<1> QED
  BY <1>1, <1>2 DEF ResolveRecord, Resolution, NoResolution

LEMMA RowsResolve ==
  ASSUME RowsInv, UNCHANGED faults, NEW h \in Handlers, NEW f \in Files, Resolve(h, f)
  PROVE  RowsInv'
<1>0. /\ NFiles \in Nat /\ f \in 0..NFiles /\ f # 0
      /\ ResolveRecord(from[f]) \in Resolution
  BY ResolutionTyped, CatalogAssumption DEF Files
<1>1. /\ pc[h] = "idle" /\ f \in mp4Hooks /\ mp4Hooks' \subseteq mp4Hooks
      /\ pc' = [pc EXCEPT ![h] = "resolved"] /\ job' = [job EXCEPT ![h] = f]
      /\ found' = [found EXCEPT ![h] = ResolveRecord(from[f])]
      /\ UNCHANGED <<faults, now, source, sourceAt, gens, recording, made, disk, gen, from, lead, upto,
                     active, closed, ids, status, timing, startedAt, endedAt, completion,
                     fresh, adjusts, tail>>
      /\ Alone => \A i \in Handlers : pc[i] = "idle"
  BY DEF Resolve, zlm, media, tracker, rows, Alone
<1>2. CatalogTypeOK'
  BY <1>0, <1>1 DEF RowsInv, CatalogTypeOK
<1>3. /\ pc'[h] = "resolved" /\ job'[h] = f
      /\ \A i \in Handlers : i # h => pc'[i] = pc[i] /\ job'[i] = job[i] /\ found'[i] = found[i]
  BY <1>1 DEF RowsInv, CatalogTypeOK
<1>4. ~adjusts[h] /\ disk[f] = "final"
  BY <1>1 DEF RowsInv, ClosedFiles
<1>5. FilesInOrder'
  BY <1>1 DEF RowsInv, FilesInOrder, Made
<1>6. ClosedFiles'
  BY <1>0, <1>1, <1>3, <1>4 DEF RowsInv, ClosedFiles
<1>7. RowsRead'
  BY <1>1, <1>3, <1>4 DEF RowsInv, RowsRead, Writing
<1>8. OneHandler'
  BY <1>1, <1>3, <1>4 DEF RowsInv, OneHandler, Alone
<1> QED
  BY <1>2, <1>5, <1>6, <1>7, <1>8 DEF RowsInv

LEMMA RowsReadCatalog ==
  ASSUME RowsInv, UNCHANGED faults, NEW h \in Handlers, ReadCatalog(h)
  PROVE  RowsInv'
<1> DEFINE p == found[h].previous
           fr == status[job[h]] = "NONE"
           ad == status[job[h]] = "NONE" /\ AdjustsPrevious(found[h].previous, from[job[h]])
<1>1. /\ pc[h] = "resolved" /\ pc' = [pc EXCEPT ![h] = "read"]
      /\ fresh' = [fresh EXCEPT ![h] = fr] /\ adjusts' = [adjusts EXCEPT ![h] = ad]
      /\ UNCHANGED <<faults, now, source, sourceAt, gens, recording, made, disk, gen, from, lead, upto,
                     active, closed, ids, status, timing, startedAt, endedAt, completion,
                     job, found, tail, mp4Hooks>>
  BY DEF ReadCatalog, zlm, media, tracker, rows, net
<1>2. ad => /\ p # 0 /\ p \in Files /\ status[p] = "PROVISIONAL" /\ from[job[h]] > from[p]
  <2> SUFFICES ASSUME ad PROVE p # 0 /\ p \in Files /\ status[p] = "PROVISIONAL" /\ from[job[h]] > from[p]
    OBVIOUS
  <2>1. p # 0 /\ status[p] = "PROVISIONAL" /\ from[job[h]] > startedAt[p]
    BY DEF AdjustsPrevious
  <2>2. p \in Files
    BY <2>1, FileFacts
  <2>3. startedAt[p] = from[p]
    BY <2>1, <2>2 DEF RowsInv, RowsRead
  <2> QED
    BY <2>1, <2>2, <2>3
<1>3. ad \in BOOLEAN /\ fr \in BOOLEAN
  BY DEF AdjustsPrevious
<1> HIDE DEF ad, fr
<1>4. CatalogTypeOK'
  BY <1>1, <1>3 DEF RowsInv, CatalogTypeOK
<1>5. /\ pc'[h] = "read" /\ (adjusts'[h] <=> ad)
      /\ \A i \in Handlers : i # h => pc'[i] = pc[i] /\ fresh'[i] = fresh[i] /\ adjusts'[i] = adjusts[i]
  BY <1>1, <1>3 DEF RowsInv, CatalogTypeOK
<1>6. FilesInOrder'
  BY <1>1 DEF RowsInv, FilesInOrder, Made
<1>7. ClosedFiles'
  BY <1>1, <1>5 DEF RowsInv, ClosedFiles
<1>8. RowsRead'
  BY <1>1, <1>2, <1>5 DEF RowsInv, RowsRead, Writing
<1>9. OneHandler'
  BY <1>1, <1>2, <1>5 DEF RowsInv, OneHandler, Alone
<1> QED
  BY <1>4, <1>6, <1>7, <1>8, <1>9 DEF RowsInv

LEMMA RowsConflict ==
  ASSUME RowsInv, UNCHANGED faults, NEW h \in Handlers, Conflict(h)
  PROVE  RowsInv'
<1>1. UNCHANGED <<faults, now, source, sourceAt, gens, recording, made, disk, gen, from, lead, upto,
                  active, closed, ids, status, timing, startedAt, endedAt, completion, mp4Hooks>>
  BY DEF Conflict, zlm, media, tracker, rows, net
<1>2. HandlerIdle(h)
  BY HandlerDone DEF Conflict
<1>3. CatalogTypeOK'
  BY <1>1, <1>2 DEF HandlerIdle, RowsInv, CatalogTypeOK
<1>4. FilesInOrder'
  BY <1>1 DEF RowsInv, FilesInOrder, Made
<1>5. ClosedFiles'
  BY <1>1, <1>2 DEF HandlerIdle, RowsInv, ClosedFiles
<1>6. RowsRead' /\ OneHandler'
  BY <1>1, <1>2 DEF HandlerIdle, RowsInv, RowsRead, OneHandler, Alone, Writing
<1> QED
  BY <1>3, <1>4, <1>5, <1>6 DEF RowsInv

LEMMA RememberTyped ==
  ASSUME RowsInv, NEW id \in Nat, NEW f \in Files, NEW start \in Int, Remember(id, f, start)
  PROVE  active' \in Generation /\ closed' \in Generation
<1>0. active \in Generation /\ closed \in Generation /\ f \in 0..NFiles
  BY CatalogAssumption DEF RowsInv, CatalogTypeOK, Files
<1>1. ASSUME NEW G \in Generation, Accepts(G, id, start)
      PROVE  start \in Nat
  BY <1>1 DEF Accepts, Generation
<1>2. ASSUME start \in Nat
      PROVE  [active EXCEPT !.last = f, !.lastAt = start] \in Generation
             /\ [closed EXCEPT !.last = f, !.lastAt = start] \in Generation
  BY <1>0, <1>2 DEF Generation
<1> QED
  BY <1>0, <1>1, <1>2 DEF Remember

LEMMA RowsWrite ==
  ASSUME RowsInv, UNCHANGED faults, NEW h \in Handlers, Write(h)
  PROVE  RowsInv'
<1> DEFINE f == job[h]
           start == IF fresh[h] THEN from[f] ELSE startedAt[f]
           t == Accepts(IF active.id = found[h].id THEN active ELSE closed, found[h].id, start) /\ found[h].closed
<1>1. /\ pc[h] = "read" /\ (\A i \in Handlers : ~Writing(i)) /\ (fresh[h] => status[f] = "NONE")
      /\ Remember(found[h].id, f, start)
      /\ tail' = [tail EXCEPT ![h] = t] /\ pc' = [pc EXCEPT ![h] = "written"]
      /\ UNCHANGED <<faults, now, source, sourceAt, gens, recording, made, disk, gen, from, lead, upto,
                     ids, status, timing, startedAt, endedAt, completion, mp4Hooks,
                     job, found, fresh, adjusts>>
  BY DEF Write, zlm, media, rows, net
<1>2. f \in Files /\ found[h].id \in Nat /\ start \in Int
  BY <1>1, FileFacts
<1>3. active' \in Generation /\ closed' \in Generation
  BY <1>1, <1>2, RememberTyped
<1>4. t \in BOOLEAN
  <2>1. found[h].closed \in BOOLEAN
    BY DEF RowsInv, CatalogTypeOK, Resolution
  <2> QED
    BY <2>1 DEF Accepts
<1> HIDE DEF t, start
<1>5. CatalogTypeOK'
  BY <1>1, <1>3, <1>4 DEF RowsInv, CatalogTypeOK
<1>6. pc'[h] = "written" /\ \A i \in Handlers : i # h => pc'[i] = pc[i] /\ tail'[i] = tail[i]
  BY <1>1 DEF RowsInv, CatalogTypeOK
<1>7. FilesInOrder'
  BY <1>1 DEF RowsInv, FilesInOrder, Made
<1>8. ClosedFiles'
  BY <1>1, <1>6 DEF RowsInv, ClosedFiles
<1>9. RowsRead' /\ OneHandler'
  BY <1>1, <1>6 DEF RowsInv, RowsRead, OneHandler, Alone, Writing
<1> QED
  BY <1>5, <1>7, <1>8, <1>9 DEF RowsInv
\* The rows after a commit: the row before is settled, the handler's own row is
\* new, the others stay.
LEMMA CommittedRows ==
  ASSUME RowsInv, NEW h \in Handlers, Commit(h)
  PROVE  /\ \A e \in Files : Adjusted(h, e) =>
              /\ status'[e] = "FINAL" /\ timing'[e] = "NEXT_SEGMENT_BOUNDARY"
              /\ startedAt'[e] = from[job[h]] - Duration(e) /\ endedAt'[e] = from[job[h]]
              /\ e = found[h].previous /\ adjusts[h]
         /\ \A e \in Files : ~Adjusted(h, e) /\ Inserted(h, e) =>
              /\ status'[e] = "PROVISIONAL" /\ timing'[e] = "HOOK_RAW"
              /\ startedAt'[e] = from[job[h]] /\ e = job[h] /\ fresh[h]
         /\ \A e \in Files : ~Adjusted(h, e) /\ ~Inserted(h, e) =>
              /\ status'[e] = status[e] /\ timing'[e] = timing[e]
              /\ startedAt'[e] = startedAt[e] /\ endedAt'[e] = endedAt[e]
BY DEF Commit, Adjusted, Inserted

LEMMA RowsCommit ==
  ASSUME RowsInv, UNCHANGED faults, NEW h \in Handlers, Commit(h)
  PROVE  RowsInv'
<1> DEFINE f == job[h]
           p == found[h].previous
<1>1. /\ pc[h] = "written" /\ Done(h)
      /\ UNCHANGED <<faults, now, source, sourceAt, gens, recording, made, disk, gen, from, lead, upto,
                     mp4Hooks, active, closed, ids>>
  BY DEF Commit, Writing, zlm, media, net, tracker
<1>d. HandlerIdle(h)
  BY <1>1, HandlerDone
<1>2. f \in Files /\ disk[f] = "final" /\ (fresh[h] => status[f] = "NONE")
      /\ (adjusts[h] => p \in Files /\ status[p] # "NONE" /\ p # f)
  <2>1. f \in Files
    BY <1>1, FileFacts
  <2>2. adjusts[h] => p \in Files /\ status[p] # "NONE" /\ from[f] > from[p]
    BY FileFacts DEF RowsInv, RowsRead
  <2> QED
    BY <2>1, <2>2, <1>1, FileFacts DEF RowsInv, RowsRead, ClosedFiles, Writing
<1>3. /\ \A e \in Files : Duration(e) \in Int /\ from[f] - Duration(e) \in Int /\ from[f] + Duration(f) \in Int
      /\ \A e \in Files : from[f] \in Int
  BY <1>2, FileFacts DEF Duration
<1>4. CatalogTypeOK'
  <2>1. status' \in [Files -> {"NONE", "PROVISIONAL", "FINAL"}]
        /\ timing' \in [Files -> {"HOOK_RAW", "NEXT_SEGMENT_BOUNDARY", "RECOVERY"}]
    BY DEF Commit, RowsInv, CatalogTypeOK
  <2>2. startedAt' \in [Files -> Int] /\ endedAt' \in [Files -> Int]
    BY <1>3 DEF Commit, RowsInv, CatalogTypeOK
  <2>3. completion' \in [Files -> {"NORMAL", "source_lost", "RECOVERY", "RECOVERY_INTERRUPTED"}]
    <3> DEFINE ins == [e \in Files |-> IF Inserted(h, e) THEN "NORMAL" ELSE completion[e]]
    <3>1. ins \in [Files -> {"NORMAL", "source_lost", "RECOVERY", "RECOVERY_INTERRUPTED"}]
      BY DEF RowsInv, CatalogTypeOK
    <3>2. TailMarked(ins, p, f) \in [Files -> {"NORMAL", "source_lost", "RECOVERY", "RECOVERY_INTERRUPTED"}]
      BY <3>1 DEF TailMarked
    <3>3. completion' = TailMarked(ins, p, f) \/ completion' = ins
      BY DEF Commit
    <3> QED
      BY <3>1, <3>2, <3>3
  <2> QED
    BY <1>1, <1>d, <2>1, <2>2, <2>3 DEF HandlerIdle, RowsInv, CatalogTypeOK
<1>5. FilesInOrder'
  BY <1>1 DEF RowsInv, FilesInOrder, Made
<1>6. \A e \in Files : status[e] # "NONE" => status'[e] # "NONE"
  BY <1>2, CommittedRows
<1>7. \A e \in Files : status'[e] # "NONE" => status[e] # "NONE" \/ e = f
  BY <1>2, CommittedRows
<1>8. ClosedFiles'
  BY <1>1, <1>d, <1>2, <1>7 DEF HandlerIdle, RowsInv, ClosedFiles
<1>9. RowsRead'
  <2>1. \A e \in Files : status'[e] = "PROVISIONAL" => startedAt'[e] = from'[e] /\ timing'[e] = "HOOK_RAW"
    BY <1>1, <1>2, CommittedRows DEF RowsInv, RowsRead
  <2>2. \A i \in Handlers : ~Writing(i)'
    BY <1>1, <1>d DEF HandlerIdle, RowsInv, RowsRead, Writing
  <2>3. \A i \in Handlers : adjusts'[i] => i # h /\ adjusts[i] /\ found'[i] = found[i] /\ job'[i] = job[i]
                                           /\ pc'[i] = pc[i] /\ found[i].previous \in Files
    BY <1>d, FileFacts DEF HandlerIdle
  <2> QED
    BY <1>1, <1>6, <2>1, <2>2, <2>3 DEF RowsInv, RowsRead
<1>10. OneHandler'
  BY <1>1, <1>d DEF HandlerIdle, RowsInv, OneHandler, Alone, ClosedFiles, RowsRead
<1> QED
  BY <1>4, <1>5, <1>8, <1>9, <1>10 DEF RowsInv

\* Reconciliation makes a row where there was none.
LEMMA RowsRecover ==
  ASSUME RowsInv, UNCHANGED faults, NEW f \in Files, RecoverFile(f) \/ RecoverPartialFile(f)
  PROVE  RowsInv' /\ status[f] = "NONE"
<1>0. \E reason \in {"RECOVERY", "RECOVERY_INTERRUPTED"} : RecoveredRow(f, reason)
  BY DEF RecoverFile, RecoverPartialFile
<1>1. /\ UNCHANGED <<faults, now, source, sourceAt, gens, recording, made, gen, from, lead, upto,
                     mp4Hooks, active, closed, ids, pc, job, found, fresh, adjusts, tail>>
      /\ disk[f] \in {"final", "hidden"}
      /\ disk' = [disk EXCEPT ![f] = "final"]
      /\ \A h \in Handlers : ~Writing(h)
  <2>1. CASE RecoverFile(f)
    BY <2>1 DEF RecoverFile, zlm, media, net, tracker, threads, RowsInv, CatalogTypeOK
  <2>2. CASE RecoverPartialFile(f)
    BY <2>2 DEF RecoverPartialFile, zlm, net, tracker, threads
  <2> QED
    BY <2>1, <2>2
<1>2. status[f] = "NONE"
  BY DEF RecoverFile, RecoverPartialFile, RowsInv, ClosedFiles
<1>3. from[f] \in Int /\ from[f] + Duration(f) \in Int
  BY FileFacts DEF Duration
<1>4. CatalogTypeOK'
  BY <1>0, <1>1, <1>3 DEF RecoveredRow, RowsInv, CatalogTypeOK
<1>5. /\ disk'[f] = "final" /\ status'[f] = "FINAL"
      /\ \A e \in Files : e # f => /\ disk'[e] = disk[e] /\ status'[e] = status[e]
                                   /\ timing'[e] = timing[e] /\ startedAt'[e] = startedAt[e]
  BY <1>0, <1>1 DEF RecoveredRow, RowsInv, CatalogTypeOK
<1>6. FilesInOrder'
  <2>1. Made \subseteq Files /\ f # 0
    BY FileFacts
  <2>2. f # recording /\ ~(f > made)
    BY <1>1, <2>1 DEF RowsInv, FilesInOrder
  <2> QED
    BY <1>1, <1>5, <2>1, <2>2 DEF RowsInv, FilesInOrder, Made
<1>7. ClosedFiles'
  <2>1. \A h \in Handlers : pc[h] # "idle" => job[h] \in Files
    BY FileFacts
  <2> QED
    BY <1>1, <1>5, <2>1 DEF RowsInv, ClosedFiles, CatalogTypeOK
<1>8. RowsRead'
  <2>1. \A h \in Handlers : adjusts[h] => found[h].previous \in Files /\ found[h].previous # f
    BY <1>2, FileFacts DEF RowsInv, RowsRead
  <2> QED
    BY <1>1, <1>5, <2>1 DEF RowsInv, RowsRead, Writing
<1>9. OneHandler'
  <2>1. \A h \in Handlers : adjusts[h] => found[h].previous \in Files /\ found[h].previous # f
    BY <1>2, FileFacts DEF RowsInv, RowsRead
  <2> QED
    BY <1>1, <1>5, <2>1 DEF RowsInv, OneHandler, Alone
<1> QED
  BY <1>2, <1>4, <1>6, <1>7, <1>8, <1>9 DEF RowsInv

LEMMA RowsRestart ==
  ASSUME RowsInv, UNCHANGED faults, Restart
  PROVE  RowsInv'
<1>0. NoGeneration \in Generation /\ NoResolution \in Resolution /\ 0 \in 0..NFiles
      /\ NoResolution.id = 0 /\ NoResolution.previous = 0
  BY CatalogAssumption DEF NoGeneration, Generation, NoResolution, Resolution
<1>1. [NoGeneration EXCEPT !.id = ids + 1, !.at = sourceAt] \in Generation /\ ids + 1 \in Nat
  <2>1. ids + 1 \in Nat /\ sourceAt \in Nat
    BY DEF RowsInv, CatalogTypeOK
  <2> QED
    BY <2>1, <1>0, GenerationTyped
<1>2. UNCHANGED <<faults, now, source, sourceAt, gens, recording, made, disk, gen, from, lead, upto,
                  status, timing, startedAt, endedAt, completion>>
  BY DEF Restart, zlm, media, rows
<1> HIDE DEF NoGeneration, NoResolution
<1>3. CatalogTypeOK'
  <2>1. active' \in Generation /\ closed' \in Generation /\ ids' \in Nat /\ mp4Hooks' \subseteq Files
    BY <1>0, <1>1 DEF Restart, RowsInv, CatalogTypeOK
  <2>2. /\ pc' \in [Handlers -> {"idle", "resolved", "read", "written"}]
        /\ job' \in [Handlers -> 0..NFiles] /\ found' \in [Handlers -> Resolution]
        /\ fresh' \in [Handlers -> BOOLEAN] /\ adjusts' \in [Handlers -> BOOLEAN] /\ tail' \in [Handlers -> BOOLEAN]
    BY <1>0 DEF Restart
  <2> QED
    BY <1>2, <2>1, <2>2 DEF RowsInv, CatalogTypeOK
<1>4. FilesInOrder'
  BY <1>2 DEF RowsInv, FilesInOrder, Made
<1>5. ClosedFiles'
  BY <1>0, <1>2 DEF Restart, RowsInv, ClosedFiles
<1>6. RowsRead' /\ OneHandler'
  BY <1>2 DEF Restart, RowsInv, RowsRead, OneHandler, Alone, Writing
<1> QED
  BY <1>3, <1>4, <1>5, <1>6 DEF RowsInv

LEMMA RowsStep == RowsInv /\ [Next]_vars => RowsInv'
<1> SUFFICES ASSUME RowsInv, [Next]_vars PROVE RowsInv'
  OBVIOUS
<1>1. CASE UNCHANGED vars
  <2>1. UNCHANGED <<faults, now, source, sourceAt, gens, recording, made, disk, gen, from, lead, upto,
                    mp4Hooks, active, closed, ids, status, timing, startedAt, endedAt, completion,
                    pc, job, found, fresh, adjusts, tail>>
    BY <1>1 DEF vars, zlm, media, net, tracker, rows, threads
  <2> QED
    BY <2>1, RowsLeftAlone DEF media, rows, threads, RowsInv, CatalogTypeOK
<1>2. CASE Next
  <2>0. UNCHANGED faults
    BY <1>2 DEF Next
  <2>1. CASE ZlmStep
    BY <2>0, <2>1, RowsZlm, RowsStreamHooks DEF ZlmStep
  <2>2. CASE HookStep
    BY <2>0, <2>2, RowsStreamHooks, RowsResolve, RowsReadCatalog, RowsConflict, RowsWrite, RowsCommit DEF HookStep
  <2>3. CASE RecoveryStep
    BY <2>0, <2>3, RowsRecover, RowsRestart DEF RecoveryStep
  <2> QED
    BY <1>2, <2>1, <2>2, <2>3 DEF Next
<1> QED
  BY <1>1, <1>2

LEMMA FinalKept ==
  ASSUME RowsInv, [Next]_vars, Alone
  PROVE  FinalSpansKept
<1>1. ASSUME UNCHANGED rows PROVE FinalSpansKept
  BY <1>1 DEF rows, FinalSpansKept
<1>2. ASSUME NEW h \in Handlers, Commit(h) PROVE FinalSpansKept
  <2> SUFFICES ASSUME NEW e \in Files, status[e] = "FINAL" PROVE ~Adjusted(h, e) /\ ~Inserted(h, e)
    BY <1>2, CommittedRows DEF FinalSpansKept
  <2> QED
    BY <1>2 DEF Commit, Adjusted, Inserted, RowsInv, RowsRead, OneHandler
<1>3. ASSUME NEW f \in Files, RecoverFile(f) \/ RecoverPartialFile(f) PROVE FinalSpansKept
  <2>1. status[f] = "NONE"
    BY <1>3 DEF RecoverFile, RecoverPartialFile, RowsInv, ClosedFiles
  <2> QED
    BY <1>3, <2>1 DEF RecoverFile, RecoverPartialFile, RecoveredRow, FinalSpansKept, RowsInv, CatalogTypeOK
<1>4. Restart => FinalSpansKept
  BY <1>1 DEF Restart
<1>5. ZlmStep => FinalSpansKept
  BY <1>1 DEF ZlmStep, Tick, RegisterSource, LoseSource, Crash, StartRecording, RollOver, StopRecording, LoseHook
<1>6. HookStep => FinalSpansKept
  BY <1>1, <1>2 DEF HookStep, HandleRegister, HandleUnregister, HandleServerStarted, Resolve, ReadCatalog,
    Conflict, Write
<1>7. UNCHANGED vars => FinalSpansKept
  BY <1>1 DEF vars
<1> QED
  BY <1>3, <1>4, <1>5, <1>6, <1>7 DEF Next, RecoveryStep

\* A FINAL span is final: as long as one record-mp4 hook is handled at a time,
\* no hook that comes late, again or out of order, no recovery and no restart
\* ever changes the times of a row that is FINAL, in any scenario of faults
\* (catalog._finalize_previous_from_boundary settles PROVISIONAL rows only, and
\* what it has read of the row cannot be overtaken).
THEOREM FinalSpansStayFinal == Spec => SerialFinalIsStable
<1>1. RowsInv /\ [Next]_vars => ["threads" \notin faults => FinalSpansKept]_vars
  BY FinalKept DEF Alone
<1> QED
  BY RowsStart, RowsStep, <1>1, PTL DEF Spec, SerialFinalIsStable
-----------------------------------------------------------------------------
(* The generations of the tracker and the registrations of the source.     *)

LEMMA OneHook ==
  ASSUME NEW x
  PROVE  Append(<<>>, x) = <<x>> /\ Head(<<x>>) = x /\ Tail(<<x>>) = <<>> /\ <<x>> # <<>>
OBVIOUS

LEMMA SplitStart == Steady /\ Init => SplitInv
<1> SUFFICES ASSUME Steady, Init PROVE SplitInv
  OBVIOUS
<1>1. NoGeneration.id = 0 /\ NoResolution.id = 0 /\ NoResolution.previous = 0
  BY DEF NoGeneration, NoResolution
<1>2. Made = {}
  BY DEF Init, Made
<1> HIDE DEF NoGeneration, NoResolution
<1>3. TrackerPhase
  BY <1>1 DEF Init, TrackerPhase
<1>4. GensInTime
  BY <1>1, <1>2 DEF Init, GensInTime
<1>5. GensKnown
  BY <1>1, <1>2 DEF Init, GensKnown, TrackerKnows, HandlerKnows
<1>6. SplitInMade
  BY DEF Init, SplitInMade, Normalized
<1> QED
  BY <1>3, <1>4, <1>5, <1>6, RowsStart DEF SplitInv

\* A stream hook under way holds ZLM up.
LEMMA HooksArePrompt ==
  ASSUME SplitInv
  PROVE  Prompt => hooks = <<>>
BY DEF SplitInv, Steady, Prompt, RowsInv, CatalogTypeOK

LEMMA GensTyped ==
  ASSUME SplitInv
  PROVE  /\ source \in Nat /\ sourceAt \in Nat /\ gens \in Nat /\ ids \in Nat /\ now \in Nat
         /\ active.id \in Nat /\ active.at \in Nat /\ active.last \in Nat /\ active.lastAt \in Nat
         /\ closed.id \in Nat /\ closed.closedAt \in Nat /\ closed.last \in Nat /\ closed.lastAt \in Nat
         /\ active \in Generation /\ closed \in Generation
         /\ ClosedGen \in Int
         /\ \A f \in Files : gen[f] \in Nat /\ from[f] \in Nat
<1>1. active \in Generation /\ closed \in Generation
  BY DEF SplitInv, RowsInv, CatalogTypeOK
<1>2. 0..NFiles \subseteq Nat
  BY CatalogAssumption
<1>3. /\ active.id \in Nat /\ active.at \in Nat /\ active.last \in Nat /\ active.lastAt \in Nat
      /\ closed.id \in Nat /\ closed.closedAt \in Nat /\ closed.last \in Nat /\ closed.lastAt \in Nat
  BY <1>1, <1>2 DEF Generation
<1>4. source \in Nat /\ sourceAt \in Nat /\ gens \in Nat /\ ids \in Nat /\ now \in Nat
  BY DEF SplitInv, RowsInv, CatalogTypeOK
<1>5. \A f \in Files : gen[f] \in Nat /\ from[f] \in Nat
  BY DEF SplitInv, RowsInv, CatalogTypeOK
<1> QED
  BY <1>1, <1>3, <1>4, <1>5 DEF ClosedGen

\* The files, the source and the bounds of the generations stay.
GensFrame ==
  /\ UNCHANGED <<faults, now, source, sourceAt, gens, recording, made, gen, from, hooks, ids>>
  /\ active'.id = active.id /\ active'.at = active.at
  /\ closed'.id = closed.id /\ closed'.closedAt = closed.closedAt
  /\ mp4Hooks' \subseteq mp4Hooks

LEMMA SplitQuiet ==
  ASSUME SplitInv, RowsInv', GensFrame, TrackerKnows', \A h \in Handlers : HandlerKnows(h)', SplitInMade'
  PROVE  SplitInv'
<1>1. Made' = Made /\ ClosedGen' = ClosedGen /\ AtRest' = AtRest
  BY DEF GensFrame, Made, ClosedGen, AtRest
<1>2. TrackerPhase'
  BY DEF GensFrame, SplitInv, TrackerPhase
<1>3. GensInTime'
  BY <1>1 DEF GensFrame, SplitInv, GensInTime
<1>4. GensKnown'
  BY DEF GensFrame, SplitInv, GensKnown
<1> QED
  BY <1>2, <1>3, <1>4 DEF SplitInv, Steady, GensFrame

\* A handler that keeps what it found, while the generations keep their bounds.
LEMMA StillKnows ==
  ASSUME SplitInv, GensFrame, NEW h \in Handlers,
         \/ found'[h] = found[h] /\ job'[h] = job[h]
         \/ found'[h].id = 0 /\ found'[h].previous = 0
  PROVE  HandlerKnows(h)'
<1>1. Made' = Made /\ ClosedGen' = ClosedGen /\ UNCHANGED <<gens, gen, ids>> /\ ids \in Nat
  BY GensTyped DEF GensFrame, Made, ClosedGen, AtRest
<1>2. HandlerKnows(h)
  BY DEF SplitInv, GensKnown
<1> QED
  BY <1>1, <1>2 DEF HandlerKnows, GensFrame

LEMMA TrackerStillKnows ==
  ASSUME SplitInv, GensFrame, UNCHANGED <<active, closed>>
  PROVE  TrackerKnows'
<1>1. Made' = Made /\ ClosedGen' = ClosedGen /\ UNCHANGED <<gens, gen, ids>>
  BY DEF GensFrame, Made, ClosedGen, AtRest
<1> QED
  BY <1>1 DEF SplitInv, GensKnown, TrackerKnows

LEMMA SplitStillHolds ==
  ASSUME SplitInv, UNCHANGED <<rows, gen, from, made>>
  PROVE  SplitInMade'
BY DEF SplitInv, SplitInMade, Normalized, rows, Made

\* resolve_record gives a file to the generation of its own registration, and
\* finds a predecessor of the same one.
LEMMA ResolvedToItsOwn ==
  ASSUME SplitInv, NEW f \in mp4Hooks, NEW r, r = ResolveRecord(from[f])
  PROVE  /\ r.id \in {0, active.id, closed.id}
         /\ r.id = 0 => r.previous = 0
         /\ r.id # 0 /\ r.id = active.id => gen[f] = gens /\ ~r.closed /\ r.previous = active.last
         /\ r.id # 0 /\ r.id = closed.id => gen[f] = ClosedGen /\ r.closed /\ r.previous = closed.last
         /\ r.closed => r.id # active.id /\ r.id # 0
<1>0. f \in Files /\ f \in Made /\ gen[f] \in Nat /\ from[f] \in Nat
  <2>1. f \in Files /\ disk[f] = "final"
    BY FileFacts DEF SplitInv, RowsInv, ClosedFiles
  <2>2. f \in Made
    BY <2>1, FileFacts DEF SplitInv, RowsInv, FilesInOrder
  <2> QED
    BY <2>1, <2>2, GensTyped
<1>1. active.id # 0 => active.id # closed.id
  BY DEF SplitInv, GensKnown, TrackerKnows
<1>2. CASE closed.id # 0 /\ from[f] <= closed.closedAt /\ (active.id = 0 \/ from[f] < active.at)
  <2>1. r.id = closed.id /\ r.previous = closed.last /\ r.closed
    BY <1>2 DEF ResolveRecord
  <2>2. gen[f] = ClosedGen
    <3>1. gen[f] >= (IF source = 0 THEN gens ELSE gens - 1) /\ gen[f] \in 1..gens
      BY <1>0 DEF SplitInv, GensKnown, GensInTime
    <3>2. CASE source = 0 /\ hooks = <<>>
      BY <3>1, <3>2, GensTyped DEF ClosedGen, AtRest
    <3>3. CASE source # 0 /\ hooks = <<"register">>
      <4>1. from[f] < sourceAt
        BY <1>0, <1>2, <3>3, GensTyped DEF SplitInv, GensInTime
      <4>2. gen[f] # gens
        BY <1>0, <4>1, <3>3, GensTyped DEF SplitInv, GensInTime
      <4> QED
        BY <3>1, <3>3, <4>2, GensTyped DEF ClosedGen, AtRest
    <3>4. CASE active.id # 0 /\ ~AtRest
      <4>1. gen[f] # gens
        BY <1>0, <1>2, <3>4, GensTyped DEF SplitInv, GensInTime
      <4> QED
        BY <3>1, <3>4, <4>1, GensTyped DEF ClosedGen
    <3>5. CASE mp4Hooks = {}
      BY <3>5
    <3>6. (source = 0 /\ hooks = <<>>) \/ (source # 0 /\ hooks = <<"register">>)
          \/ (active.id # 0 /\ ~AtRest) \/ mp4Hooks = {}
      BY <1>2, OneHook DEF SplitInv, TrackerPhase, AtRest
    <3> QED
      BY <3>2, <3>3, <3>4, <3>5, <3>6
  <2> QED
    BY <1>1, <1>2, <2>1, <2>2
<1>3. CASE /\ ~(closed.id # 0 /\ from[f] <= closed.closedAt /\ (active.id = 0 \/ from[f] < active.at))
           /\ active.id # 0 /\ from[f] >= active.at
  <2>1. r.id = active.id /\ r.previous = active.last /\ ~r.closed
    BY <1>3 DEF ResolveRecord
  <2>2. gen[f] = gens
    BY <1>0, <1>3 DEF SplitInv, GensInTime
  <2> QED
    BY <1>1, <1>3, <2>1, <2>2
<1>4. CASE /\ ~(closed.id # 0 /\ from[f] <= closed.closedAt /\ (active.id = 0 \/ from[f] < active.at))
           /\ ~(active.id # 0 /\ from[f] >= active.at)
  BY <1>4 DEF ResolveRecord, NoResolution
<1> QED
  BY <1>2, <1>3, <1>4
\* The steps of handlers and of recovery keep generations and registrations.
LEMMA SplitResolve ==
  ASSUME SplitInv, RowsInv', UNCHANGED faults, NEW h \in Handlers, NEW f \in Files, Resolve(h, f)
  PROVE  SplitInv'
<1> DEFINE r == ResolveRecord(from[f])
<1>1. /\ f \in mp4Hooks /\ GensFrame /\ UNCHANGED <<active, closed, rows, gen, from, made>>
      /\ job' = [job EXCEPT ![h] = f] /\ found' = [found EXCEPT ![h] = r]
  BY DEF Resolve, GensFrame, zlm, media, tracker
<1>2. /\ job'[h] = f /\ found'[h] = r
      /\ \A i \in Handlers : i # h => job'[i] = job[i] /\ found'[i] = found[i]
  BY <1>1 DEF SplitInv, RowsInv, CatalogTypeOK
<1>3. \A i \in Handlers : i # h => HandlerKnows(i)'
  BY <1>1, <1>2, StillKnows
<1>4. HandlerKnows(h)'
  <2>1. /\ r.id \in {0, active.id, closed.id}
        /\ r.id = 0 => r.previous = 0
        /\ r.id # 0 /\ r.id = active.id => gen[f] = gens /\ r.previous = active.last
        /\ r.id # 0 /\ r.id = closed.id => gen[f] = ClosedGen /\ r.previous = closed.last
    BY <1>1, ResolvedToItsOwn
  <2>2. UNCHANGED <<gens, gen, ids, active, closed, Made, ClosedGen>> /\ ids \in Nat
    BY <1>1, GensTyped DEF GensFrame, Made, ClosedGen, AtRest
  <2>3. TrackerKnows
    BY DEF SplitInv, GensKnown
  <2> HIDE DEF r
  <2> QED
    BY <1>2, <2>1, <2>2, <2>3 DEF HandlerKnows, TrackerKnows
<1>5. TrackerKnows' /\ SplitInMade'
  BY <1>1, TrackerStillKnows, SplitStillHolds
<1> QED
  BY <1>1, <1>3, <1>4, <1>5, SplitQuiet

LEMMA SplitReadAndConflict ==
  ASSUME SplitInv, RowsInv', UNCHANGED faults, NEW h \in Handlers, ReadCatalog(h) \/ Conflict(h)
  PROVE  SplitInv'
<1>1. GensFrame /\ UNCHANGED <<active, closed, rows, gen, from, made>>
  BY DEF ReadCatalog, Conflict, GensFrame, zlm, media, tracker, net
<1>2. \A i \in Handlers : \/ found'[i] = found[i] /\ job'[i] = job[i]
                          \/ found'[i].id = 0 /\ found'[i].previous = 0
  <2>1. CASE ReadCatalog(h)
    BY <2>1 DEF ReadCatalog
  <2>2. CASE Conflict(h)
    BY <2>2, HandlerDone DEF SplitInv, Conflict, HandlerIdle
  <2> QED
    BY <2>1, <2>2
<1>3. (\A i \in Handlers : HandlerKnows(i)') /\ TrackerKnows' /\ SplitInMade'
  BY <1>1, <1>2, StillKnows, TrackerStillKnows, SplitStillHolds
<1> QED
  BY <1>1, <1>3, SplitQuiet

\* A generation remembers a segment that was resolved to it.
LEMMA SplitWrite ==
  ASSUME SplitInv, RowsInv', UNCHANGED faults, NEW h \in Handlers, Write(h)
  PROVE  SplitInv'
<1> DEFINE f == job[h]
           id == found[h].id
           start == IF fresh[h] THEN from[f] ELSE startedAt[f]
<1>1. /\ pc[h] = "read" /\ Remember(id, f, start)
      /\ UNCHANGED <<faults, now, zlm, gen, from, mp4Hooks, hooks, ids, rows, job, found>>
  BY DEF Write, media, net
<1>2. active \in Generation /\ closed \in Generation /\ f \in Made /\ f \in Files
  <2>1. f \in Files /\ disk[f] = "final"
    BY <1>1, FileFacts DEF SplitInv, RowsInv, ClosedFiles
  <2>2. f \in Made
    BY <2>1, FileFacts DEF SplitInv, RowsInv, FilesInOrder
  <2> QED
    BY <2>1, <2>2, GensTyped
<1>3. /\ active'.id = active.id /\ active'.at = active.at
      /\ active'.last = active.last \/ (active'.last = f /\ id # 0 /\ id = active.id)
      /\ closed'.id = closed.id /\ closed'.closedAt = closed.closedAt
      /\ closed'.last = closed.last \/ (closed'.last = f /\ id # 0 /\ id = closed.id)
  BY <1>1, <1>2 DEF Remember, Accepts, Generation
<1>4. GensFrame
  BY <1>1, <1>3 DEF GensFrame, zlm
<1>5. \A i \in Handlers : HandlerKnows(i)'
  BY <1>1, <1>4, StillKnows
<1>6. SplitInMade'
  BY <1>1, SplitStillHolds DEF zlm
<1>7. TrackerKnows'
  <2>1. Made' = Made /\ ClosedGen' = ClosedGen /\ UNCHANGED <<gens, gen, ids>>
    BY <1>4 DEF GensFrame, Made, ClosedGen, AtRest
  <2>2. HandlerKnows(h) /\ TrackerKnows
    BY DEF SplitInv, GensKnown
  <2> QED
    BY <1>2, <1>3, <2>1, <2>2 DEF TrackerKnows, HandlerKnows
<1> QED
  BY <1>4, <1>5, <1>6, <1>7, SplitQuiet

\* A row is normalized from the start of its successor.
LEMMA SplitCommit ==
  ASSUME SplitInv, RowsInv', UNCHANGED faults, NEW h \in Handlers, Commit(h)
  PROVE  SplitInv'
<1>1. GensFrame /\ UNCHANGED <<active, closed, gen, from, made>> /\ pc[h] # "idle"
  BY DEF Commit, Writing, GensFrame, zlm, media, tracker, net
<1>2. \A i \in Handlers : \/ found'[i] = found[i] /\ job'[i] = job[i]
                          \/ found'[i].id = 0 /\ found'[i].previous = 0
  BY HandlerDone DEF SplitInv, Commit, HandlerIdle
<1>3. SplitInMade'
  <2> SUFFICES ASSUME NEW e \in Files, Normalized(e)'
               PROVE  \E g \in Made : e < g /\ gen[g] = gen[e] /\ from[g] = endedAt'[e]
    BY <1>1 DEF SplitInMade, Made
  <2>1. CASE Adjusted(h, e)
    <3>1. e = found[h].previous /\ adjusts[h] /\ endedAt'[e] = from[job[h]]
      BY <2>1, CommittedRows DEF SplitInv
    <3>2. job[h] \in Files /\ disk[job[h]] = "final"
      BY <1>1, FileFacts DEF SplitInv, RowsInv, ClosedFiles
    <3>3. job[h] \in Made
      BY <3>2, FileFacts DEF SplitInv, RowsInv, FilesInOrder
    <3>4. gen[e] = gen[job[h]] /\ e \in Made
      <4>1. HandlerKnows(h) /\ found[h].previous # 0
        BY <3>1, FileFacts DEF SplitInv, GensKnown
      <4> QED
        BY <3>1, <4>1 DEF HandlerKnows
    <3>5. from[job[h]] > from[e]
      BY <3>1 DEF SplitInv, RowsInv, RowsRead
    <3>6. ~(job[h] <= e)
      BY <3>2, <3>3, <3>4, <3>5, FileFacts DEF SplitInv, RowsInv, FilesInOrder
    <3> QED
      BY <3>1, <3>2, <3>3, <3>4, <3>6, FileFacts DEF SplitInv
  <2>2. CASE ~Adjusted(h, e)
    <3>1. Normalized(e) /\ endedAt'[e] = endedAt[e]
      BY <2>2, CommittedRows DEF Normalized, SplitInv
    <3> QED
      BY <3>1 DEF SplitInv, SplitInMade
  <2> QED
    BY <2>1, <2>2
<1>4. (\A i \in Handlers : HandlerKnows(i)') /\ TrackerKnows'
  BY <1>1, <1>2, StillKnows, TrackerStillKnows
<1> QED
  BY <1>1, <1>3, <1>4, SplitQuiet

LEMMA SplitRecover ==
  ASSUME SplitInv, RowsInv', UNCHANGED faults, NEW f \in Files, RecoverFile(f) \/ RecoverPartialFile(f)
  PROVE  SplitInv'
<1>1. GensFrame /\ UNCHANGED <<active, closed, gen, from, made, job, found>>
  BY DEF RecoverFile, RecoverPartialFile, GensFrame, zlm, media, tracker, net, threads
<1>2. SplitInMade'
  <2> SUFFICES ASSUME NEW e \in Files, Normalized(e)'
               PROVE  Normalized(e) /\ endedAt'[e] = endedAt[e]
    BY <1>1 DEF SplitInMade, SplitInv, Made
  <2>1. \E reason \in {"RECOVERY", "RECOVERY_INTERRUPTED"} : RecoveredRow(f, reason)
    BY DEF RecoverFile, RecoverPartialFile
  <2> QED
    BY <2>1 DEF RecoveredRow, Normalized, SplitInv, RowsInv, CatalogTypeOK
<1>3. (\A i \in Handlers : HandlerKnows(i)') /\ TrackerKnows'
  BY <1>1, StillKnows, TrackerStillKnows
<1> QED
  BY <1>1, <1>2, <1>3, SplitQuiet

LEMMA SplitLoseHook ==
  ASSUME SplitInv, RowsInv', UNCHANGED faults, NEW f \in Files, LoseHook(f)
  PROVE  SplitInv'
<1>1. GensFrame /\ UNCHANGED <<active, closed, rows, gen, from, made, job, found>>
  BY DEF LoseHook, GensFrame, zlm, media, tracker, threads
<1>2. (\A i \in Handlers : HandlerKnows(i)') /\ TrackerKnows' /\ SplitInMade'
  BY <1>1, StillKnows, TrackerStillKnows, SplitStillHolds
<1> QED
  BY <1>1, <1>2, SplitQuiet
LEMMA SplitTick ==
  ASSUME SplitInv, RowsInv', UNCHANGED faults, Tick
  PROVE  SplitInv'
<1>1. /\ hooks = <<>> /\ now' = now + 1
      /\ UNCHANGED <<source, sourceAt, gens, recording, made, gen, from, hooks, mp4Hooks,
                     active, closed, ids, rows, job, found>>
  BY HooksArePrompt DEF Tick, zlm, media, net, tracker, threads
<1>2. Made' = Made /\ ClosedGen' = ClosedGen /\ AtRest' = AtRest
  BY <1>1 DEF Made, ClosedGen, AtRest
<1>3. TrackerPhase'
  BY <1>1 DEF SplitInv, TrackerPhase
<1>4. GensInTime'
  BY <1>1, <1>2, GensTyped DEF SplitInv, GensInTime
<1>5. GensKnown'
  BY <1>1, <1>2 DEF SplitInv, GensKnown, TrackerKnows, HandlerKnows
<1>6. SplitInMade'
  BY <1>1, SplitStillHolds
<1> QED
  BY <1>3, <1>4, <1>5, <1>6 DEF SplitInv, Steady

\* A new registration begins after everything of the ones before.
LEMMA SplitRegister ==
  ASSUME SplitInv, RowsInv', UNCHANGED faults, RegisterSource
  PROVE  SplitInv'
<1>1. /\ hooks = <<>> /\ source = 0 /\ sourceAt < now /\ gens' = gens + 1 /\ source' = gens + 1
      /\ sourceAt' = now /\ hooks' = <<"register">>
      /\ UNCHANGED <<now, recording, made, gen, from, mp4Hooks, active, closed, ids, rows, job, found>>
  BY HooksArePrompt, OneHook DEF RegisterSource, media, tracker, threads
<1>2. active.id = 0 /\ recording = 0
  BY <1>1, OneHook DEF SplitInv, TrackerPhase, GensInTime
<1>3. Made' = Made /\ ClosedGen' = ClosedGen /\ ~AtRest' /\ ClosedGen = gens /\ Made \subseteq Files
  BY <1>1, OneHook, GensTyped, FileFacts DEF Made, ClosedGen, AtRest, SplitInv
<1>4. TrackerPhase'
  BY <1>1, <1>2, GensTyped DEF TrackerPhase
<1>5. \A f \in Made : gen[f] \in Nat /\ from[f] \in Nat /\ gen[f] <= gens /\ gen[f] >= 1 /\ from[f] < now
  BY <1>1, <1>3, GensTyped DEF SplitInv, GensInTime
<1>6. GensInTime'
  <2>1. closed.id # 0 => closed.closedAt < now
    BY <1>1, GensTyped DEF SplitInv, GensInTime, AtRest
  <2> QED
    BY <1>1, <1>2, <1>3, <1>5, <2>1, GensTyped DEF SplitInv, GensInTime, AtRest
<1>7. GensKnown'
  <2>1. \A f \in mp4Hooks : gen[f] >= gens
    BY <1>1 DEF SplitInv, GensKnown
  <2> QED
    BY <1>1, <1>2, <1>3, <2>1, GensTyped DEF SplitInv, GensKnown, TrackerKnows, HandlerKnows
<1>8. SplitInMade'
  BY <1>1, SplitStillHolds
<1> QED
  BY <1>4, <1>6, <1>7, <1>8 DEF SplitInv, Steady

LEMMA SplitHandleRegister ==
  ASSUME SplitInv, RowsInv', UNCHANGED faults, HandleRegister
  PROVE  SplitInv'
<1>1. hooks = <<"register">> /\ source = gens /\ gens > 0 /\ active.id = 0 /\ sourceAt = now
  <2>1. hooks = <<"register">> /\ source = gens /\ gens > 0 /\ active.id = 0
    BY OneHook DEF HandleRegister, SplitInv, TrackerPhase
  <2> QED
    BY <2>1, OneHook DEF SplitInv, GensInTime
<1>2. /\ hooks' = <<>> /\ ids' = ids + 1
      /\ active' = [NoGeneration EXCEPT !.id = ids + 1, !.at = now]
      /\ UNCHANGED <<now, source, sourceAt, gens, recording, made, gen, from, mp4Hooks, closed, rows, job, found>>
  BY <1>1, OneHook DEF HandleRegister, Registered, zlm, media, threads
<1>3. active'.id = ids + 1 /\ active'.at = now /\ active'.last = 0
  BY <1>2 DEF NoGeneration
<1>4. Made' = Made /\ ClosedGen' = ClosedGen /\ ~AtRest' /\ ~AtRest
  BY <1>1, <1>2, OneHook, GensTyped DEF Made, ClosedGen, AtRest
<1>5. TrackerPhase'
  BY <1>1, <1>2, <1>3, GensTyped DEF TrackerPhase
<1>6. GensInTime'
  BY <1>1, <1>2, <1>3, <1>4, GensTyped DEF SplitInv, GensInTime
<1>7. GensKnown'
  <2>1. GensKnown /\ ids \in Nat /\ closed.id \in Nat /\ \A i \in Handlers : found[i].id \in Nat
    BY GensTyped, FileFacts DEF SplitInv
  <2>2. TrackerKnows'
    BY <1>1, <1>2, <1>3, <1>4, <2>1 DEF GensKnown, TrackerKnows
  <2>3. \A i \in Handlers : HandlerKnows(i)'
    BY <1>1, <1>2, <1>3, <1>4, <2>1 DEF GensKnown, HandlerKnows
  <2> QED
    BY <1>2, <2>1, <2>2, <2>3 DEF GensKnown
<1>8. SplitInMade'
  BY <1>2, SplitStillHolds
<1> QED
  BY <1>5, <1>6, <1>7, <1>8 DEF SplitInv, Steady

LEMMA SplitHandleUnregister ==
  ASSUME SplitInv, RowsInv', UNCHANGED faults, HandleUnregister
  PROVE  SplitInv'
<1>1. /\ hooks = <<"unregister">> /\ source = 0 /\ (active.id = 0 => closed.id = 0) /\ sourceAt = now
  <2>1. hooks = <<"unregister">> /\ source = 0 /\ (active.id = 0 => closed.id = 0)
    BY OneHook, GensTyped DEF HandleUnregister, SplitInv, TrackerPhase
  <2> QED
    BY <2>1, OneHook DEF SplitInv, GensInTime
<1>2. /\ hooks' = <<>> /\ active' = NoGeneration
      /\ closed' = IF active.id # 0 THEN [active EXCEPT !.closedAt = now] ELSE closed
      /\ UNCHANGED <<now, source, sourceAt, gens, recording, made, gen, from, mp4Hooks, ids, rows, job, found>>
  BY <1>1, OneHook DEF HandleUnregister, Unregistered, zlm, media, threads
<1>3. /\ active'.id = 0 /\ closed'.id = active.id
      /\ active.id # 0 => closed'.last = active.last /\ closed'.closedAt = now
  BY <1>1, <1>2, GensTyped DEF NoGeneration, Generation
<1>4. Made' = Made /\ ClosedGen' = gens /\ AtRest' /\ ~AtRest
  BY <1>1, <1>2, OneHook DEF Made, ClosedGen, AtRest
<1>5. TrackerPhase'
  BY <1>1, <1>2, <1>3 DEF TrackerPhase
<1>6. GensInTime'
  <2>1. \A f \in Made : from[f] <= now
    BY <1>1 DEF SplitInv, GensInTime
  <2> QED
    BY <1>1, <1>2, <1>3, <1>4, <2>1, GensTyped DEF SplitInv, GensInTime
<1>7. GensKnown'
  BY <1>1, <1>2, <1>3, <1>4, GensTyped DEF SplitInv, GensKnown, TrackerKnows, HandlerKnows
<1>8. SplitInMade'
  BY <1>2, SplitStillHolds
<1> QED
  BY <1>5, <1>6, <1>7, <1>8 DEF SplitInv, Steady

LEMMA SplitHandleServerStarted ==
  ASSUME SplitInv, RowsInv', UNCHANGED faults, HandleServerStarted
  PROVE  SplitInv'
<1>1. hooks = <<"server-started">> /\ source = 0 /\ mp4Hooks = {}
  BY OneHook, GensTyped DEF HandleServerStarted, SplitInv, TrackerPhase
<1>2. /\ hooks' = <<>> /\ active' = NoGeneration /\ closed' = NoGeneration
      /\ UNCHANGED <<now, source, sourceAt, gens, recording, made, gen, from, mp4Hooks, ids, rows, job, found>>
  BY <1>1, OneHook DEF HandleServerStarted, Reset, zlm, media, threads
<1>3. active'.id = 0 /\ closed'.id = 0
  BY <1>2 DEF NoGeneration
<1>4. Made' = Made
  BY <1>2 DEF Made
<1>5. TrackerPhase'
  BY <1>1, <1>2, <1>3 DEF TrackerPhase
<1>6. GensInTime'
  BY <1>1, <1>2, <1>3, <1>4, GensTyped DEF SplitInv, GensInTime
<1>7. GensKnown'
  BY <1>1, <1>2, <1>3, <1>4, GensTyped DEF SplitInv, GensKnown, TrackerKnows, HandlerKnows
<1>8. SplitInMade'
  BY <1>2, SplitStillHolds
<1> QED
  BY <1>5, <1>6, <1>7, <1>8 DEF SplitInv, Steady

LEMMA SplitRestart ==
  ASSUME SplitInv, RowsInv', UNCHANGED faults, Restart
  PROVE  SplitInv'
<1>1. /\ hooks' = <<>> /\ mp4Hooks' = {} /\ closed' = NoGeneration
      /\ UNCHANGED <<now, source, sourceAt, gens, recording, made, gen, from, rows>>
  BY DEF Restart, zlm, media
<1>2. closed'.id = 0 /\ \A h \in Handlers : found'[h].id = 0 /\ found'[h].previous = 0
  BY DEF Restart, NoGeneration, NoResolution
<1>3. \/ source # 0 /\ active'.id = ids + 1 /\ active'.at = sourceAt /\ active'.last = 0 /\ ids' = ids + 1
      \/ active'.id = 0 /\ ids' = ids
  <2>1. /\ [NoGeneration EXCEPT !.id = ids + 1, !.at = sourceAt].id = ids + 1
        /\ [NoGeneration EXCEPT !.id = ids + 1, !.at = sourceAt].at = sourceAt
        /\ [NoGeneration EXCEPT !.id = ids + 1, !.at = sourceAt].last = 0
        /\ NoGeneration.id = 0
    BY DEF NoGeneration
  <2> HIDE DEF NoGeneration
  <2> QED
    BY <2>1 DEF Restart
<1>4. Made' = Made
  BY <1>1 DEF Made
<1>5. TrackerPhase'
  <2>1. source = 0 \/ (source = gens /\ gens > 0)
    BY DEF SplitInv, TrackerPhase
  <2> QED
    BY <2>1, <1>1, <1>2, <1>3, GensTyped DEF TrackerPhase
<1>6. GensInTime'
  BY <1>1, <1>2, <1>3, <1>4, GensTyped DEF SplitInv, GensInTime
<1>7. GensKnown'
  BY <1>1, <1>2, <1>3, <1>4, GensTyped DEF SplitInv, GensKnown, TrackerKnows, HandlerKnows
<1>8. SplitInMade'
  BY <1>1, SplitStillHolds
<1> QED
  BY <1>5, <1>6, <1>7, <1>8 DEF SplitInv, Steady

\* The source is lost, with or without ZLM: no file is created.
LEMMA SplitLose ==
  ASSUME SplitInv, RowsInv', UNCHANGED faults, LoseSource \/ Crash
  PROVE  SplitInv'
<1>1. /\ source # 0 /\ source' = 0 /\ sourceAt' = now /\ recording' = 0
      /\ UNCHANGED <<now, gens, made, gen, from, active, closed, ids, rows, job, found>>
  BY DEF LoseSource, Crash, tracker, threads
<1>2. /\ source = gens /\ gens > 0
      /\ (hooks = <<>> /\ (active.id = 0 => closed.id = 0)) \/ (hooks = <<"register">> /\ active.id = 0)
  BY <1>1 DEF SplitInv, TrackerPhase
<1>3. \/ /\ hooks' = <<"unregister">> /\ (active.id = 0 => closed.id = 0)
         /\ \A f \in mp4Hooks' : gen[f] >= gens
      \/ hooks' = <<"server-started">> /\ mp4Hooks' = {}
  <2>1. CASE Crash
    BY <2>1 DEF Crash
  <2>2. CASE LoseSource
    <3>1. hooks = <<>> /\ hooks' = <<"unregister">> /\ CaughtUp
      BY <2>2, HooksArePrompt, OneHook DEF LoseSource, SplitInv, Steady, RowsInv, CatalogTypeOK
    <3>2. \A f \in mp4Hooks' : f \in mp4Hooks \/ (f = recording /\ recording # 0)
      BY <2>2 DEF LoseSource, Close
    <3>3. \A f \in mp4Hooks : f \in Files /\ f \in Made
      <4>1. \A f \in mp4Hooks : f \in Files /\ disk[f] = "final"
        BY FileFacts DEF SplitInv, RowsInv, ClosedFiles
      <4> QED
        BY <4>1, FileFacts DEF SplitInv, RowsInv, FilesInOrder
    <3>4. \A f \in mp4Hooks : gen[f] >= gens
      <4> SUFFICES ASSUME NEW f \in mp4Hooks PROVE ~(gen[f] < gens)
        BY <3>3, GensTyped
      <4>1. gen[f] > 0
        BY <3>3, GensTyped DEF SplitInv, GensInTime
      <4> QED
        BY <4>1, <3>1, <3>3, <1>2 DEF CaughtUp, Outstanding
    <3>5. recording # 0 => gen[recording] >= gens
      BY GensTyped DEF SplitInv, GensInTime
    <3> QED
      BY <3>1, <3>2, <3>4, <3>5, <1>2, OneHook
  <2> QED
    BY <2>1, <2>2
<1>4. Made' = Made /\ ClosedGen' = ClosedGen /\ ~AtRest' /\ ~AtRest /\ Made \subseteq Files
  BY <1>1, <1>2, <1>3, OneHook, FileFacts DEF Made, ClosedGen, AtRest, SplitInv
<1>5. TrackerPhase'
  BY <1>1, <1>3 DEF TrackerPhase
<1>6. GensInTime'
  <2>1. \A f \in Made : from[f] <= now
    BY DEF SplitInv, RowsInv, FilesInOrder
  <2> QED
    BY <1>1, <1>2, <1>4, <2>1, GensTyped DEF SplitInv, GensInTime
<1>7. GensKnown'
  BY <1>1, <1>3, <1>4 DEF SplitInv, GensKnown, TrackerKnows, HandlerKnows
<1>8. SplitInMade'
  BY <1>1, SplitStillHolds
<1> QED
  BY <1>5, <1>6, <1>7, <1>8 DEF SplitInv, Steady
\* A file is closed or created while the source stays: it belongs to the
\* registration that is under way.
LEMMA SplitFiles ==
  ASSUME SplitInv, RowsInv', NEW created \in 0..NFiles, NEW keyframe \in {0, 1},
         FilesMove("final", created, keyframe), created # 0 => source # 0,
         UNCHANGED <<faults, now, hooks, source, sourceAt, gens, tracker, rows, threads>>
  PROVE  SplitInv'
<1>0. /\ UNCHANGED <<active, closed, ids, job, found, status, timing, endedAt>>
      /\ now \in Nat /\ gens \in Nat /\ made \in Nat /\ made <= NFiles /\ recording \in Nat
      /\ Made \subseteq Files /\ 0 \notin Files
      /\ \A f \in Files : f \in Nat /\ f >= 1 /\ (f \in Made <=> f <= made)
      /\ recording # 0 => recording \in Made /\ recording = made
  BY FileFacts, GensTyped DEF SplitInv, tracker, threads, rows
<1>1. /\ created # 0 => /\ created = made + 1 /\ made < NFiles /\ gen'[created] = source /\ from'[created] = now
      /\ recording' = created /\ made' = IF created = 0 THEN made ELSE created
      /\ \A f \in Files : f # created => gen'[f] = gen[f] /\ from'[f] = from[f]
      /\ \A f \in mp4Hooks' : f \in mp4Hooks \/ (f = recording /\ f # 0)
  BY DEF FilesMove
<1>2. source # 0 => source = gens /\ gens > 0
  BY DEF SplitInv, TrackerPhase
<1>3. /\ \A f \in Made : f # created /\ gen'[f] = gen[f] /\ from'[f] = from[f] /\ f \in Made'
      /\ \A f \in Made' : f \in Made \/ (f = created /\ created # 0)
      /\ Made' \subseteq Files
  <2>1. \A f \in Made : f # created /\ f \in Files
    BY <1>0, <1>1
  <2>2. made' \in Nat /\ made' <= NFiles /\ made <= made'
    BY <1>0, <1>1
  <2>3. \A f \in Made' : f \in Nat /\ f >= 1 /\ f <= made'
    BY <2>2 DEF Made
  <2>4. NFiles \in Nat
    BY CatalogAssumption
  <2>5. Made' \subseteq Files
    BY <2>2, <2>3, <2>4 DEF Files
  <2>6. \A f \in Made : f \in Made'
    BY <1>0, <2>2 DEF Made
  <2>7. \A f \in Made' : f \in Made \/ (f = created /\ created # 0)
    BY <1>0, <1>1, <2>3, <2>5
  <2> QED
    BY <1>1, <2>1, <2>5, <2>6, <2>7
<1>4. \A f \in Made' : f \notin Made => /\ gen'[f] = gens /\ from'[f] = now /\ f = created /\ source # 0
                                         /\ \A e \in Made : e < f
  BY <1>0, <1>1, <1>2, <1>3
<1>5. ClosedGen' = ClosedGen /\ AtRest' = AtRest
  BY DEF ClosedGen, AtRest
<1>6. TrackerPhase'
  <2>1. mp4Hooks = {} /\ source = 0 => mp4Hooks' = {}
    BY <1>1 DEF SplitInv, GensInTime
  <2> QED
    BY <1>0, <2>1 DEF SplitInv, TrackerPhase
<1>7. GensInTime'
  <2>0. \A f \in Made : gen[f] \in 1..gens /\ from[f] \in Nat /\ gen[f] \in Nat
    BY <1>0, GensTyped DEF SplitInv, GensInTime
  <2>1. sourceAt' <= now' /\ (hooks' # <<>> => sourceAt' = now')
    BY DEF SplitInv, GensInTime
  <2>2. \A f \in Made' : gen'[f] \in 1..gens'
    BY <1>2, <1>3, <1>4, <2>0, <1>0
  <2>3. \A f, g \in Made' : f < g => gen'[f] <= gen'[g]
    <3> SUFFICES ASSUME NEW f \in Made', NEW g \in Made', f < g PROVE gen'[f] <= gen'[g]
      OBVIOUS
    <3>1. CASE g \in Made /\ f \in Made
      BY <3>1, <1>3 DEF SplitInv, GensInTime
    <3>2. CASE g \notin Made
      BY <3>2, <2>2, <1>4, <1>0
    <3>3. CASE g \in Made /\ f \notin Made
      BY <3>3, <1>4, <1>3, <1>0
    <3> QED
      BY <3>1, <3>2, <3>3
  <2>4. recording' # 0 => source' # 0 /\ gen'[recording'] = gens'
    BY <1>1, <1>2
  <2>5. source' = 0 => \A f \in Made' : from'[f] <= sourceAt'
    BY <1>3, <1>4 DEF SplitInv, GensInTime
  <2>6. source' # 0 => \A f \in Made' : gen'[f] = gens' <=> from'[f] >= sourceAt'
    BY <1>3, <1>4, <2>1, GensTyped DEF SplitInv, GensInTime
  <2>7. active'.id # 0 => active'.at <= now' /\ \A f \in Made' : gen'[f] = gens' <=> from'[f] >= active'.at
    BY <1>0, <1>3, <1>4, GensTyped DEF SplitInv, GensInTime
  <2>8. /\ closed'.id # 0 /\ source' # 0 => closed'.closedAt < sourceAt'
        /\ closed'.id # 0 /\ AtRest' => closed'.closedAt <= sourceAt'
    BY <1>0, <1>5 DEF SplitInv, GensInTime
  <2>9. closed'.id # 0 => \A f \in Made' : gen'[f] = ClosedGen' => from'[f] <= closed'.closedAt
    <3>1. source # 0 => ClosedGen = gens - 1
      BY DEF ClosedGen, AtRest
    <3> QED
      BY <1>0, <1>3, <1>4, <1>5, <3>1 DEF SplitInv, GensInTime
  <2> QED
    BY <2>1, <2>2, <2>3, <2>4, <2>5, <2>6, <2>7, <2>8, <2>9 DEF GensInTime
<1>8. GensKnown'
  <2>1. TrackerKnows'
    BY <1>0, <1>3, <1>5 DEF SplitInv, GensKnown, TrackerKnows
  <2>2. ASSUME NEW h \in Handlers PROVE HandlerKnows(h)'
    <3>1. found[h].id # 0 \/ found[h].previous # 0 => job[h] \in Files /\ disk[job[h]] = "final"
      BY FileFacts DEF SplitInv, RowsInv, ClosedFiles
    <3>2. found[h].id # 0 \/ found[h].previous # 0 => job[h] \in Made
      BY <3>1, FileFacts DEF SplitInv, RowsInv, FilesInOrder
    <3>3. HandlerKnows(h)
      BY DEF SplitInv, GensKnown
    <3> QED
      BY <1>0, <1>3, <1>5, <3>2, <3>3 DEF HandlerKnows
  <2>3. \A f \in mp4Hooks' : gen'[f] >= IF source' = 0 THEN gens' ELSE gens' - 1
    <3> SUFFICES ASSUME NEW f \in mp4Hooks' PROVE gen'[f] >= IF source = 0 THEN gens ELSE gens - 1
      OBVIOUS
    <3>1. CASE f \in mp4Hooks
      <4>1. f \in Files /\ disk[f] = "final"
        BY <3>1, FileFacts DEF SplitInv, RowsInv, ClosedFiles
      <4>2. f \in Made
        BY <4>1, FileFacts DEF SplitInv, RowsInv, FilesInOrder
      <4> QED
        BY <3>1, <4>2, <1>3 DEF SplitInv, GensKnown
    <3>2. CASE f = recording /\ f # 0
      BY <3>2, <1>0, <1>3 DEF SplitInv, GensInTime
    <3> QED
      BY <3>1, <3>2, <1>1
  <2> QED
    BY <2>1, <2>2, <2>3 DEF GensKnown
<1>9. SplitInMade'
  <2> SUFFICES ASSUME NEW f \in Files, Normalized(f)
               PROVE  \E g \in Made' : f < g /\ gen'[g] = gen'[f] /\ from'[g] = endedAt[f]
    BY <1>0 DEF SplitInMade, Normalized
  <2>1. PICK g \in Made : f < g /\ gen[g] = gen[f] /\ from[g] = endedAt[f]
    BY DEF SplitInv, SplitInMade
  <2>2. f \in Made
    BY <2>1, <1>0
  <2> QED
    BY <2>1, <2>2, <1>3
<1> QED
  BY <1>6, <1>7, <1>8, <1>9 DEF SplitInv, Steady

LEMMA SplitZlmFiles ==
  ASSUME SplitInv, RowsInv', UNCHANGED faults
  PROVE  /\ \A keyframe \in {0, 1} : StartRecording(keyframe) => SplitInv'
         /\ RollOver => SplitInv'
         /\ StopRecording => SplitInv'
<1>0. /\ 0 \in 0..NFiles /\ RowsInv /\ (made < NFiles => made + 1 \in 0..NFiles)
      /\ recording # 0 => source # 0
  BY CatalogAssumption, FileFacts DEF SplitInv, GensInTime
<1>1. ASSUME NEW keyframe \in {0, 1}, StartRecording(keyframe) PROVE SplitInv'
  BY <1>0, <1>1, FilesAreMoved, SplitFiles DEF StartRecording, net
<1>2. ASSUME RollOver PROVE SplitInv'
  BY <1>0, <1>2, FilesAreMoved, SplitFiles DEF RollOver
<1>3. ASSUME StopRecording PROVE SplitInv'
  BY <1>0, <1>3, FilesAreMoved, SplitFiles DEF StopRecording
<1> QED
  BY <1>1, <1>2, <1>3

LEMMA SplitStep == SplitInv /\ [Next]_vars => SplitInv'
<1> SUFFICES ASSUME SplitInv, [Next]_vars PROVE SplitInv'
  OBVIOUS
<1>0. RowsInv'
  BY RowsStep DEF SplitInv
<1>1. CASE UNCHANGED vars
  <2>1. GensFrame /\ UNCHANGED <<active, closed, rows, gen, from, made, job, found>>
    BY <1>1 DEF GensFrame, vars, zlm, media, net, tracker, threads
  <2>2. (\A i \in Handlers : HandlerKnows(i)') /\ TrackerKnows' /\ SplitInMade'
    BY <2>1, StillKnows, TrackerStillKnows, SplitStillHolds
  <2> QED
    BY <1>0, <2>1, <2>2, SplitQuiet
<1>2. CASE Next
  <2>0. UNCHANGED faults
    BY <1>2 DEF Next
  <2>1. CASE ZlmStep
    BY <1>0, <2>0, <2>1, SplitTick, SplitRegister, SplitLose, SplitZlmFiles, SplitLoseHook DEF ZlmStep
  <2>2. CASE HookStep
    BY <1>0, <2>0, <2>2, SplitHandleRegister, SplitHandleUnregister, SplitHandleServerStarted, SplitResolve,
      SplitReadAndConflict, SplitWrite, SplitCommit DEF HookStep
  <2>3. CASE RecoveryStep
    BY <1>0, <2>0, <2>3, SplitRecover, SplitRestart DEF RecoveryStep
  <2> QED
    BY <1>2, <2>1, <2>2, <2>3 DEF Next
<1> QED
  BY <1>1, <1>2

\* Registrations of the source always split the timeline (ADR 0011): whatever
\* record-mp4 hooks are lost, repeated, slow, out of order or handled by several
\* threads at once, and however often ZLM crashes and the API restarts, a row is
\* only ever normalized from the start of a later file of its own registration.
\* The tracker (ZlmContinuityTracker.resolve_record, remember_segment) is relied
\* on for two things that the hypothesis Steady names: stream-changed hooks are
\* handled before ZLM goes on, and the source is not lost twice while a file of
\* the first registration is under way.
THEOREM RegistrationsSplit == Steady /\ Spec => []GenerationsStaySplit
<1>1. SplitInv => GenerationsStaySplit
  <2> SUFFICES ASSUME SplitInv PROVE GenerationsStaySplit
    OBVIOUS
  <2>1. Made \subseteq Files
    BY FileFacts DEF SplitInv
  <2> QED
    BY <2>1 DEF SplitInv, SplitInMade, GenerationsStaySplit
<1> QED
  BY <1>1, SplitStart, SplitStep, PTL DEF Spec
-----------------------------------------------------------------------------
(* The tail of a registration, one handler at a time.                      *)

LEMMA TailStart == Steady /\ Init => TailInv
<1> SUFFICES ASSUME Steady, Init PROVE TailInv
  OBVIOUS
<1>1. NoGeneration.id = 0 /\ NoResolution.id = 0 /\ NoResolution.closed = FALSE
  BY DEF NoGeneration, NoResolution
<1> HIDE DEF NoGeneration, NoResolution
<1>2. \A f \in Files : ~Marked(f)
  BY DEF Init, Marked
<1>3. OneTail
  BY <1>2 DEF OneTail, Marked
<1>4. TailKnown
  BY <1>1, <1>2 DEF Init, TailKnown, MarksPlaced, MarkIsLast, TailPending, HandlerSees, ClosedStays
<1> QED
  BY <1>3, <1>4, SplitStart DEF TailInv

\* No mark is set, nothing about the source or the tracker changes, and a
\* handler at most reads or is done.
LEMMA TailQuiet ==
  ASSUME TailInv, SplitInv', Alone, Alone',
         UNCHANGED <<source, gens, hooks>>,
         active'.id = active.id, closed'.id = closed.id, closed'.last = closed.last,
         \A f \in Made : f \in Made' /\ gen'[f] = gen[f],
         \A f \in Files : Marked(f)' => Marked(f),
         \A h \in Handlers :
           \/ /\ job'[h] = job[h] /\ found'[h] = found[h] /\ tail'[h] = tail[h]
              /\ pc'[h] = pc[h] \/ (pc[h] = "resolved" /\ pc'[h] = "read" /\ ~tail[h])
           \/ ~tail[h] /\ ~tail'[h] /\ pc'[h] = "idle" /\ ~found'[h].closed
  PROVE  TailInv'
<1>1. ClosedGen' = ClosedGen /\ AtRest' = AtRest /\ gens' = gens
  BY DEF ClosedGen, AtRest
<1>2. OneTail /\ TailKnown
  BY DEF TailInv
<1>3. \A f \in Files : Marked(f)' => f \in Made /\ f \in Made' /\ gen'[f] = gen[f] /\ Marked(f)
  BY <1>2 DEF TailKnown, MarksPlaced
<1>4. \A h \in Handlers : pc[h] # "idle" => job[h] \in Made
  <2>1. \A h \in Handlers : pc[h] # "idle" => job[h] \in Files /\ disk[job[h]] = "final"
    BY FileFacts DEF TailInv, SplitInv, RowsInv, ClosedFiles
  <2> QED
    BY <2>1, FileFacts DEF TailInv, SplitInv, RowsInv, FilesInOrder
<1>5. OneTail'
  BY <1>2, <1>3 DEF OneTail, Marked
<1>6. MarksPlaced'
  BY <1>1, <1>2, <1>3 DEF TailKnown, MarksPlaced
<1>7. MarkIsLast'
  <2> SUFFICES ASSUME closed'.id # 0, NEW f \in Files, Marked(f)', gen'[f] = ClosedGen'
               PROVE  closed'.last = f \/ \E h \in Handlers : tail'[h] /\ gen'[job'[h]] = ClosedGen'
    BY DEF MarkIsLast
  <2>1. closed.last = f \/ \E h \in Handlers : tail[h] /\ gen[job[h]] = ClosedGen
    BY <1>1, <1>2, <1>3 DEF TailKnown, MarkIsLast
  <2>2. ASSUME NEW h \in Handlers, tail[h] PROVE pc[h] = "written" /\ tail'[h] /\ job'[h] = job[h]
    BY <2>2, <1>2 DEF TailKnown, TailPending
  <2> QED
    BY <2>1, <2>2, <1>1, <1>4
<1>8. ASSUME NEW h \in Handlers PROVE TailPending(h)'
  <2> SUFFICES ASSUME tail'[h] PROVE TailPending(h)'
    BY DEF TailPending
  <2>1. tail[h] /\ job'[h] = job[h] /\ found'[h] = found[h] /\ pc'[h] = pc[h] /\ TailPending(h)
    BY <1>2 DEF TailKnown, TailPending
  <2>2. pc[h] = "written" /\ job[h] \in Made
    BY <2>1, <1>4 DEF TailPending
  <2> QED
    BY <2>1, <2>2, <1>1, <1>3 DEF TailPending
<1>9. ASSUME NEW h \in Handlers PROVE HandlerSees(h)' /\ ClosedStays(h)'
  BY <1>1, <1>2, <1>3 DEF TailKnown, HandlerSees, ClosedStays
<1> QED
  BY <1>5, <1>6, <1>7, <1>8, <1>9 DEF TailInv, TailKnown

\* Steps that change what is registered, and no row and no handler.
LEMMA TailOfStream ==
  ASSUME TailInv, SplitInv', Alone, UNCHANGED <<faults, gen, made, completion, pc, job, found, tail>>,
         RegisterSource \/ LoseSource \/ Crash \/ HandleRegister \/ HandleUnregister \/ HandleServerStarted
  PROVE  TailInv'
<1>0. /\ OneTail /\ TailKnown /\ gens \in Nat /\ ids \in Nat /\ Made' = Made
      /\ \A f \in Files : gen[f] \in Nat
      /\ \A h \in Handlers : found[h].id \in Nat /\ found[h].id <= ids
      /\ \A h \in Handlers : tail[h] => job[h] \in Files /\ job[h] \in Made
      /\ \A f \in Made : gen[f] <= gens
  <2>1. \A h \in Handlers : tail[h] => job[h] \in Files /\ disk[job[h]] = "final"
    BY FileFacts DEF TailInv, SplitInv, RowsInv, ClosedFiles
  <2>2. \A h \in Handlers : tail[h] => job[h] \in Made
    BY <2>1, FileFacts DEF TailInv, SplitInv, RowsInv, FilesInOrder
  <2>3. \A h \in Handlers : found[h].id \in Nat /\ found[h].id <= ids
    BY FileFacts DEF TailInv, SplitInv, GensKnown, HandlerKnows
  <2>4. \A f \in Made : gen[f] <= gens
    BY DEF TailInv, SplitInv, GensInTime
  <2> QED
    BY <2>1, <2>2, <2>3, <2>4, GensTyped DEF TailInv, Made
<1>1. \A f \in Files : Marked(f)' = Marked(f)
  BY DEF Marked
<1>2. OneTail'
  BY <1>0 DEF OneTail
<1>3. CASE RegisterSource
  <2>1. AtRest /\ ~AtRest' /\ gens' = gens + 1 /\ UNCHANGED <<active, closed>>
    BY <1>3, HooksArePrompt, OneHook, GensTyped DEF RegisterSource, AtRest, tracker, TailInv
  <2>2. ClosedGen' = gens /\ ClosedGen = gens
    BY <2>1, <1>0 DEF ClosedGen
  <2>3. TailKnown'
    BY <1>0, <1>1, <2>1, <2>2 DEF TailKnown, MarksPlaced, MarkIsLast, TailPending, HandlerSees, ClosedStays
  <2> QED
    BY <2>3, <1>2 DEF TailInv
<1>4. CASE LoseSource \/ Crash
  <2>1. ~AtRest /\ ~AtRest' /\ gens' = gens /\ UNCHANGED <<active, closed>>
    BY <1>4, HooksArePrompt, OneHook DEF LoseSource, Crash, AtRest, tracker, TailInv
  <2>2. ClosedGen' = ClosedGen
    BY <2>1 DEF ClosedGen
  <2>3. TailKnown'
    BY <1>0, <1>1, <2>1, <2>2 DEF TailKnown, MarksPlaced, MarkIsLast, TailPending, HandlerSees, ClosedStays
  <2> QED
    BY <2>3, <1>2 DEF TailInv
<1>5. CASE HandleRegister
  <2>1. hooks = <<"register">> /\ source # 0 /\ active.id = 0
    BY <1>5, OneHook, GensTyped DEF HandleRegister, TailInv, SplitInv, TrackerPhase
  <2>2. ~AtRest /\ ~AtRest' /\ gens' = gens /\ UNCHANGED closed /\ active'.id = ids + 1
    BY <1>5, <2>1, OneHook DEF HandleRegister, Registered, NoGeneration, AtRest, zlm
  <2>3. ClosedGen' = ClosedGen
    BY <2>2 DEF ClosedGen
  <2>4. TailKnown'
    BY <1>0, <1>1, <2>2, <2>3 DEF TailKnown, MarksPlaced, MarkIsLast, TailPending, HandlerSees, ClosedStays
  <2> QED
    BY <2>4, <1>2 DEF TailInv
<1>6. CASE HandleUnregister
  <2>1. hooks = <<"unregister">> /\ source = 0 /\ (active.id = 0 => closed.id = 0)
    BY <1>6, OneHook, GensTyped DEF HandleUnregister, TailInv, SplitInv, TrackerPhase
  <2>2. /\ ~AtRest /\ AtRest' /\ gens' = gens /\ active' = NoGeneration
        /\ closed' = IF active.id # 0 THEN [active EXCEPT !.closedAt = now] ELSE closed
    BY <1>6, <2>1, OneHook DEF HandleUnregister, Unregistered, AtRest, zlm
  <2>3. ClosedGen' = gens /\ active'.id = 0 /\ closed'.id = active.id
    BY <2>1, <2>2, GensTyped DEF ClosedGen, NoGeneration, Generation, TailInv
  <2>4. \A f \in Files : Marked(f) => gen[f] # gens /\ f \in Made
    BY <1>0, <2>2 DEF TailKnown, MarksPlaced
  <2>5. \A h \in Handlers : tail[h] => gen[job[h]] # gens
    BY <1>0, <2>2 DEF TailKnown, TailPending
  <2>6. \A h \in Handlers : found[h].closed => found[h].id # active.id /\ found[h].id # 0
    BY <1>0 DEF TailKnown, ClosedStays
  <2>7. TailKnown'
    BY <1>0, <1>1, <2>2, <2>3, <2>4, <2>5, <2>6
       DEF TailKnown, MarksPlaced, MarkIsLast, TailPending, HandlerSees, ClosedStays
  <2> QED
    BY <2>7, <1>2 DEF TailInv
<1>7. CASE HandleServerStarted
  <2>1. hooks = <<"server-started">> /\ source = 0
    BY <1>7, OneHook, GensTyped DEF HandleServerStarted, TailInv, SplitInv, TrackerPhase
  <2>2. AtRest' /\ gens' = gens /\ active'.id = 0 /\ closed'.id = 0
    BY <1>7, <2>1, OneHook DEF HandleServerStarted, Reset, NoGeneration, AtRest, zlm
  <2>3. TailKnown'
    BY <1>0, <1>1, <2>2 DEF TailKnown, MarksPlaced, MarkIsLast, TailPending, HandlerSees, ClosedStays
  <2> QED
    BY <2>3, <1>2 DEF TailInv
<1> QED
  BY <1>3, <1>4, <1>5, <1>6, <1>7

LEMMA TailRestart ==
  ASSUME TailInv, SplitInv', Alone, UNCHANGED faults, Restart
  PROVE  TailInv'
<1>1. /\ closed'.id = 0 /\ UNCHANGED <<source, gens, gen, made, completion>> /\ hooks' = <<>>
      /\ \A h \in Handlers : ~tail'[h] /\ ~found'[h].closed /\ pc'[h] = "idle"
  BY DEF Restart, NoGeneration, NoResolution, zlm, media, rows
<1>2. Made' = Made /\ (AtRest => AtRest') /\ \A f \in Files : Marked(f)' = Marked(f)
  BY <1>1 DEF Made, AtRest, Marked
<1>3. OneTail /\ TailKnown
  BY DEF TailInv
<1>4. OneTail'
  BY <1>1, <1>3 DEF OneTail
<1>5. TailKnown'
  BY <1>1, <1>2, <1>3 DEF TailKnown, MarksPlaced, MarkIsLast, TailPending, HandlerSees, ClosedStays
<1> QED
  BY <1>4, <1>5 DEF TailInv
LEMMA TailResolve ==
  ASSUME TailInv, SplitInv', Alone, UNCHANGED faults, NEW h \in Handlers, NEW f \in Files, Resolve(h, f)
  PROVE  TailInv'
<1> DEFINE r == ResolveRecord(from[f])
<1>1. /\ f \in mp4Hooks /\ pc' = [pc EXCEPT ![h] = "resolved"]
      /\ UNCHANGED <<active, closed, source, gens, hooks, gen, made, completion, tail>>
      /\ job' = [job EXCEPT ![h] = f] /\ found' = [found EXCEPT ![h] = r]
      /\ \A i \in Handlers : pc[i] = "idle"
  BY DEF Resolve, zlm, media, tracker, rows, Alone
<1>2. /\ job'[h] = f /\ found'[h] = r
      /\ \A i \in Handlers : i # h => pc'[i] = pc[i] /\ job'[i] = job[i] /\ found'[i] = found[i]
  BY <1>1 DEF TailInv, SplitInv, RowsInv, CatalogTypeOK
<1>3. \A i \in Handlers : ~tail[i] /\ ~tail'[i]
  BY <1>1 DEF TailInv, SplitInv, RowsInv, ClosedFiles
<1>4. /\ r.id # 0 /\ r.id = closed.id => r.closed /\ r.previous = closed.last
      /\ r.closed => r.id # active.id /\ r.id # 0
  BY <1>1, ResolvedToItsOwn DEF TailInv
<1> HIDE DEF r
<1>5. Made' = Made /\ ClosedGen' = ClosedGen /\ AtRest' = AtRest /\ \A e \in Files : Marked(e)' = Marked(e)
  BY <1>1 DEF Made, ClosedGen, AtRest, Marked
<1>6. OneTail /\ TailKnown
  BY DEF TailInv
<1>7. OneTail' /\ MarksPlaced'
  BY <1>1, <1>5, <1>6 DEF OneTail, TailKnown, MarksPlaced
<1>8. MarkIsLast'
  BY <1>1, <1>3, <1>5, <1>6 DEF TailKnown, MarkIsLast
<1>9. ASSUME NEW i \in Handlers PROVE TailPending(i)' /\ HandlerSees(i)' /\ ClosedStays(i)'
  BY <1>1, <1>2, <1>3, <1>4, <1>5, <1>6 DEF TailKnown, TailPending, HandlerSees, ClosedStays
<1> QED
  BY <1>7, <1>8, <1>9 DEF TailInv, TailKnown

LEMMA TailWrite ==
  ASSUME TailInv, SplitInv', Alone, UNCHANGED faults, NEW h \in Handlers, Write(h)
  PROVE  TailInv'
<1> DEFINE f == job[h]
           id == found[h].id
           start == IF fresh[h] THEN from[f] ELSE startedAt[f]
           t == Accepts(IF active.id = id THEN active ELSE closed, id, start) /\ found[h].closed
<1>1. /\ pc[h] = "read" /\ (\A i \in Handlers : ~Writing(i)) /\ Remember(id, f, start)
      /\ tail' = [tail EXCEPT ![h] = t] /\ pc' = [pc EXCEPT ![h] = "written"]
      /\ UNCHANGED <<source, gens, hooks, gen, made, completion, job, found>>
  BY DEF Write, zlm, media, rows, net
<1>2. OneTail /\ TailKnown
  BY DEF TailInv
<1>3. \A i \in Handlers : ~tail[i] /\ (i # h => pc[i] = "idle")
  BY <1>1, <1>2 DEF TailKnown, TailPending, Writing, TailInv, SplitInv, RowsInv, OneHandler
<1>4. /\ pc'[h] = "written" /\ (tail'[h] <=> t)
      /\ \A i \in Handlers : i # h => pc'[i] = "idle" /\ ~tail'[i]
  <2>1. t \in BOOLEAN
    <3>1. found[h].closed \in BOOLEAN
      BY DEF TailInv, SplitInv, RowsInv, CatalogTypeOK, Resolution
    <3> QED
      BY <3>1 DEF Accepts
  <2> HIDE DEF t
  <2> QED
    BY <2>1, <1>1, <1>3 DEF TailInv, SplitInv, RowsInv, CatalogTypeOK
<1>5. /\ active'.id = active.id /\ closed'.id = closed.id
      /\ t => id # active.id /\ id = closed.id /\ id # 0 /\ closed'.last = f /\ found[h].closed
      /\ ~t => closed'.last = closed.last \/ (~found[h].closed /\ id # 0 /\ id = closed.id /\ closed'.last = f)
  <2>1. active \in Generation /\ closed \in Generation
    BY GensTyped DEF TailInv
  <2>2. found[h].closed => id # active.id
    BY <1>2 DEF TailKnown, ClosedStays
  <2> QED
    BY <2>1, <2>2, <1>1 DEF Remember, Accepts, Generation
<1> HIDE DEF t, start
<1>6. Made' = Made /\ ClosedGen' = ClosedGen /\ AtRest' = AtRest /\ \A e \in Files : Marked(e)' = Marked(e)
  BY <1>1 DEF Made, ClosedGen, AtRest, Marked
<1>7. OneTail' /\ MarksPlaced'
  BY <1>1, <1>2, <1>6 DEF OneTail, TailKnown, MarksPlaced
<1>8. id # 0 /\ id = closed.id => gen[f] = ClosedGen
  BY DEF TailInv, SplitInv, GensKnown, HandlerKnows
<1>9. HandlerSees(h) /\ MarkIsLast
  BY <1>2 DEF TailKnown
<1>10. \A e \in Files : closed.id # 0 /\ Marked(e) /\ gen[e] = ClosedGen => closed.last = e
  BY <1>3, <1>9 DEF MarkIsLast
<1>11. MarkIsLast'
  <2>1. CASE t
    BY <2>1, <1>1, <1>4, <1>5, <1>6, <1>8 DEF MarkIsLast
  <2>2. CASE ~t
    BY <2>2, <1>1, <1>5, <1>6, <1>9, <1>10 DEF MarkIsLast, HandlerSees
  <2> QED
    BY <2>1, <2>2
<1>12. TailPending(h)'
  <2> SUFFICES ASSUME t PROVE TailPending(h)'
    BY <1>4 DEF TailPending
  <2>1. gen[f] = ClosedGen /\ closed.id # 0 /\ found[h].previous = closed.last
    BY <1>1, <1>5, <1>8, <1>9 DEF HandlerSees
  <2>2. gen[f] < gens \/ AtRest
    BY <2>1, GensTyped DEF ClosedGen, TailInv
  <2> QED
    BY <2>1, <2>2, <1>1, <1>4, <1>5, <1>6, <1>10 DEF TailPending
<1>13. ASSUME NEW i \in Handlers PROVE TailPending(i)' /\ HandlerSees(i)' /\ ClosedStays(i)'
  BY <1>1, <1>2, <1>4, <1>5, <1>12 DEF TailKnown, TailPending, HandlerSees, ClosedStays
<1> QED
  BY <1>7, <1>11, <1>13 DEF TailInv, TailKnown

LEMMA MarksAfter ==
  ASSUME RowsInv, NEW h \in Handlers, Commit(h), NEW e \in Files, Marked(e)'
  PROVE  /\ tail[h] => e = job[h] \/ (Marked(e) /\ e # found[h].previous)
         /\ ~tail[h] => Marked(e)
BY DEF Commit, TailMarked, Marked

LEMMA TailCommit ==
  ASSUME TailInv, SplitInv', Alone, UNCHANGED faults, NEW h \in Handlers, Commit(h)
  PROVE  TailInv'
<1>1. /\ pc[h] = "written" /\ Done(h) /\ UNCHANGED <<source, gens, hooks, gen, made, active, closed>>
  BY DEF Commit, Writing, zlm, media, net, tracker
<1>2. HandlerIdle(h) /\ RowsInv
  BY <1>1, HandlerDone DEF TailInv, SplitInv
<1>3. CASE ~tail[h]
  <2>1. \A i \in Handlers :
           \/ /\ job'[i] = job[i] /\ found'[i] = found[i] /\ tail'[i] = tail[i] /\ pc'[i] = pc[i]
           \/ ~tail[i] /\ ~tail'[i] /\ pc'[i] = "idle" /\ ~found'[i].closed
    BY <1>2, <1>3 DEF HandlerIdle
  <2>2. \A e \in Files : Marked(e)' => Marked(e)
    BY <1>2, <1>3, MarksAfter
  <2>3. Alone' /\ \A e \in Made : e \in Made' /\ gen'[e] = gen[e]
    BY <1>1 DEF Made, Alone
  <2> QED
    BY <1>1, <2>1, <2>2, <2>3, TailQuiet
<1>4. CASE tail[h]
  <2> DEFINE f == job[h]
  <2>1. Made' = Made /\ ClosedGen' = ClosedGen /\ AtRest' = AtRest
    BY <1>1 DEF Made, ClosedGen, AtRest
  <2>2. OneTail /\ TailKnown /\ TailPending(h)
    BY DEF TailInv, TailKnown
  <2>3. \A i \in Handlers : ~tail'[i] /\ pc'[i] = "idle" /\ ~found'[i].closed
    <3>1. \A i \in Handlers : i # h => pc[i] = "idle"
      BY <1>1 DEF TailInv, SplitInv, RowsInv, OneHandler
    <3>2. \A i \in Handlers : i # h => ~tail[i] /\ found[i].id = 0
      BY <3>1, <1>2 DEF RowsInv, ClosedFiles
    <3>3. \A i \in Handlers : i # h => ~found[i].closed
      BY <3>2, <2>2 DEF TailKnown, ClosedStays
    <3> QED
      BY <3>1, <3>2, <3>3, <1>2 DEF HandlerIdle
  <2>4. \A e \in Files : Marked(e)' => e = f \/ (Marked(e) /\ e # found[h].previous)
    BY <1>2, <1>4, MarksAfter
  <2>5. \A e \in Files : Marked(e)' /\ gen[e] = gen[f] => e = f
    BY <1>4, <2>2, <2>4 DEF TailPending
  <2>6. f \in Files /\ f \in Made
    <3>1. f \in Files /\ disk[f] = "final"
      BY <1>1, <1>2, FileFacts DEF RowsInv, ClosedFiles
    <3> QED
      BY <3>1, <1>2, FileFacts DEF RowsInv, FilesInOrder
  <2>7. OneTail'
    <3> SUFFICES ASSUME NEW e \in Files, NEW g \in Files, Marked(e)', Marked(g)', gen[e] = gen[g] PROVE e = g
      BY <1>1 DEF OneTail, Marked
    <3>1. CASE gen[e] = gen[f]
      BY <3>1, <2>5
    <3>2. CASE gen[e] # gen[f]
      BY <3>2, <2>2, <2>4 DEF OneTail, Marked
    <3> QED
      BY <3>1, <3>2
  <2>8. MarksPlaced'
    BY <1>1, <1>4, <2>1, <2>2, <2>4, <2>6 DEF TailKnown, MarksPlaced, TailPending
  <2>9. MarkIsLast'
    <3> SUFFICES ASSUME closed.id # 0, NEW e \in Files, Marked(e)', gen[e] = ClosedGen
                 PROVE  closed.last = e
      BY <1>1, <2>1 DEF MarkIsLast
    <3>1. CASE gen[f] = ClosedGen
      BY <3>1, <1>4, <2>2, <2>5 DEF TailPending
    <3>2. CASE gen[f] # ClosedGen
      <4>1. Marked(e)
        BY <3>2, <2>4
      <4>2. \A i \in Handlers : tail[i] => i = h
        BY <1>1, <2>2 DEF TailKnown, TailPending, TailInv, SplitInv, RowsInv, OneHandler
      <4> QED
        BY <3>2, <4>1, <4>2, <2>2 DEF TailKnown, MarkIsLast
    <3> QED
      BY <3>1, <3>2
  <2>10. ASSUME NEW i \in Handlers PROVE TailPending(i)' /\ HandlerSees(i)' /\ ClosedStays(i)'
    BY <2>3 DEF TailPending, HandlerSees, ClosedStays
  <2> QED
    BY <2>7, <2>8, <2>9, <2>10 DEF TailInv, TailKnown
<1> QED
  BY <1>3, <1>4

\* The other steps set no mark and leave the tracker alone.
LEMMA TailOther ==
  ASSUME TailInv, SplitInv', Alone, UNCHANGED faults,
         \/ Tick \/ RollOver \/ StopRecording \/ UNCHANGED vars
         \/ \E keyframe \in {0, 1} : StartRecording(keyframe)
         \/ \E f \in Files : LoseHook(f) \/ RecoverFile(f) \/ RecoverPartialFile(f)
         \/ \E h \in Handlers : ReadCatalog(h) \/ Conflict(h)
  PROVE  TailInv'
<1>0. RowsInv /\ Alone'
  BY DEF TailInv, SplitInv, Alone
<1>1. UNCHANGED <<source, gens, hooks, active, closed>>
  BY DEF Tick, RollOver, StopRecording, vars, StartRecording, LoseHook, RecoverFile, RecoverPartialFile,
    ReadCatalog, Conflict, zlm, tracker, net
<1>2. \A f \in Made : f \in Made' /\ gen'[f] = gen[f]
  <2>1. ASSUME NEW created, NEW keyframe, FilesMove("final", created, keyframe)
        PROVE  \A f \in Made : f \in Made' /\ gen'[f] = gen[f]
    <3>1. /\ created # 0 => created = made + 1 
          /\ made' = IF created = 0 THEN made ELSE created
          /\ \A f \in Files : f # created => gen'[f] = gen[f]
      BY <2>1 DEF FilesMove
    <3>2. made \in Nat /\ Made \subseteq Files /\ 0 \notin Files /\ \A f \in Made : f <= made /\ f \in Nat
      BY <1>0, FileFacts
    <3> QED
      BY <3>1, <3>2 DEF Made
  <2>2. CASE RollOver \/ StopRecording \/ \E keyframe \in {0, 1} : StartRecording(keyframe)
    BY <1>0, <2>1, <2>2, FilesAreMoved
  <2>3. CASE UNCHANGED <<gen, made>>
    BY <2>3 DEF Made
  <2> QED
    BY <2>2, <2>3 DEF Tick, vars, LoseHook, RecoverFile, RecoverPartialFile, ReadCatalog, Conflict, zlm, media
<1>3. \A f \in Files : Marked(f)' => Marked(f)
  <2>1. CASE UNCHANGED completion
    BY <2>1 DEF Marked
  <2>2. ASSUME NEW f \in Files, RecoverFile(f) \/ RecoverPartialFile(f)
        PROVE  \A e \in Files : Marked(e)' => Marked(e)
    BY <2>2, <1>0 DEF RecoverFile, RecoverPartialFile, RecoveredRow, Marked, RowsInv, CatalogTypeOK
  <2> QED
    BY <2>1, <2>2 DEF Tick, RollOver, StopRecording, vars, StartRecording, LoseHook, ReadCatalog, Conflict, rows
<1>4. \A h \in Handlers :
           \/ /\ job'[h] = job[h] /\ found'[h] = found[h] /\ tail'[h] = tail[h]
              /\ pc'[h] = pc[h] \/ (pc[h] = "resolved" /\ pc'[h] = "read" /\ ~tail[h])
           \/ ~tail[h] /\ ~tail'[h] /\ pc'[h] = "idle" /\ ~found'[h].closed
  <2>0. \A h \in Handlers : pc[h] # "written" => ~tail[h]
    BY DEF TailInv, TailKnown, TailPending
  <2>1. CASE UNCHANGED <<pc, job, found, tail>>
    BY <2>1
  <2>2. ASSUME NEW h \in Handlers, ReadCatalog(h)
        PROVE  \A i \in Handlers : /\ job'[i] = job[i] /\ found'[i] = found[i] /\ tail'[i] = tail[i]
                                   /\ pc'[i] = pc[i] \/ (pc[i] = "resolved" /\ pc'[i] = "read" /\ ~tail[i])
    BY <2>0, <2>2, <1>0 DEF ReadCatalog, RowsInv, CatalogTypeOK
  <2>3. ASSUME NEW h \in Handlers, Conflict(h)
        PROVE  \A i \in Handlers : \/ /\ job'[i] = job[i] /\ found'[i] = found[i] /\ tail'[i] = tail[i]
                                      /\ pc'[i] = pc[i]
                                   \/ ~tail[i] /\ ~tail'[i] /\ pc'[i] = "idle" /\ ~found'[i].closed
    <3>1. HandlerIdle(h) /\ ~tail[h]
      BY <2>0, <2>3, <1>0, HandlerDone DEF Conflict
    <3> QED
      BY <3>1 DEF HandlerIdle
  <2> QED
    BY <2>1, <2>2, <2>3 DEF Tick, RollOver, StopRecording, vars, StartRecording, LoseHook, RecoverFile,
      RecoverPartialFile, threads
<1> QED
  BY <1>0, <1>1, <1>2, <1>3, <1>4, TailQuiet

LEMMA TailStep == TailInv /\ [Next]_vars => TailInv'
<1> SUFFICES ASSUME TailInv, [Next]_vars PROVE TailInv'
  OBVIOUS
<1>1. SplitInv'
  BY SplitStep DEF TailInv
<1>2. UNCHANGED faults
  BY DEF Next, vars
<1>3. CASE ~Alone
  BY <1>1, <1>2, <1>3 DEF TailInv, Alone
<1>4. CASE Alone
  <2>1. CASE \/ RegisterSource \/ LoseSource \/ Crash \/ HandleRegister \/ HandleUnregister \/ HandleServerStarted
    <3>1. UNCHANGED <<gen, made, completion, pc, job, found, tail>>
      BY <2>1 DEF RegisterSource, LoseSource, Crash, HandleRegister, HandleUnregister, HandleServerStarted,
        zlm, media, rows, threads
    <3> QED
      BY <1>1, <1>2, <1>4, <2>1, <3>1, TailOfStream
  <2> QED
    BY <1>1, <1>2, <1>4, <2>1, TailOther, TailResolve, TailWrite, TailCommit, TailRestart
       DEF Next, ZlmStep, HookStep, RecoveryStep
<1> QED
  BY <1>3, <1>4

\* A lost source ends at one file: as long as record-mp4 hooks are handled one
\* at a time, two rows of one registration are never both marked source_lost,
\* in whatever order the hooks come, however often, and whatever crashes and
\* restarts in between (catalog.mark_source_loss_tail moves the mark from the
\* predecessor that resolve_record found).  Steady as in RegistrationsSplit.
THEOREM SourceEndsOnce == Steady /\ Spec => []SerialOneTail
<1>1. TailInv => SerialOneTail
  BY DEF TailInv, SerialOneTail, Alone
<1> QED
  BY <1>1, TailStart, TailStep, PTL DEF Spec
-----------------------------------------------------------------------------
(* Timing, when nothing is lost, overtaken or stopped.                     *)

LEMMA CalmMeans ==
  IsCalm => /\ Alone /\ Steady /\ "lost" \notin faults /\ "reorder" \notin faults
            /\ "stop" \notin faults /\ "slow" \notin faults
BY DEF IsCalm, Alone, Steady

LEMMA CalmStart == Steady /\ Init => CalmInv
<1> SUFFICES ASSUME Steady, Init PROVE CalmInv
  OBVIOUS
<1>1. NoGeneration.id = 0 /\ NoResolution.id = 0 /\ NoResolution.previous = 0
  BY DEF NoGeneration, NoResolution
<1>2. Made = {}
  BY DEF Init, Made
<1> HIDE DEF NoGeneration, NoResolution
<1>3. NoGaps /\ InOrder
  BY <1>1, <1>2 DEF Init, NoGaps, InOrder
<1>4. CalmRows
  BY <1>1 DEF Init, CalmRows, NormalizedTimingIsTrue, Normalized
<1>5. ActiveMissedNothing /\ ClosedMissedNothing
  BY <1>1 DEF Init, ActiveMissedNothing, ClosedMissedNothing, NothingMissed
<1> QED
  BY <1>3, <1>4, <1>5, SplitStart DEF CalmInv, CalmKnown

\* Steps that leave files, record-mp4 hooks, rows and handlers alone.
CalmFrame == UNCHANGED <<faults, recording, made, gen, from, lead, upto, mp4Hooks, rows, threads>>

LEMMA CalmRowsStay ==
  ASSUME CalmRows, CalmFrame
  PROVE  CalmRows' /\ Made' = Made
BY DEF CalmFrame, CalmRows, NormalizedTimingIsTrue, Normalized, rows, threads, Made

LEMMA CalmStream ==
  ASSUME CalmInv, SplitInv', IsCalm, UNCHANGED faults
  PROVE  /\ Tick => CalmKnown'
         /\ RegisterSource => CalmKnown'
         /\ HandleRegister => CalmKnown'
         /\ HandleUnregister => CalmKnown'
         /\ HandleServerStarted => CalmKnown'
<1>0. /\ NoGaps /\ InOrder /\ CalmRows /\ ActiveMissedNothing /\ ClosedMissedNothing
      /\ SplitInv /\ RowsInv /\ TrackerPhase /\ GensInTime /\ TrackerKnows
      /\ \A h \in Handlers : HandlerKnows(h)
  BY DEF CalmInv, CalmKnown, SplitInv, GensKnown
<1>1. /\ source \in Nat /\ gens \in Nat /\ ids \in Nat /\ active.id \in Nat /\ closed.id \in Nat
      /\ \A f \in Made : gen[f] \in Nat
      /\ \A h \in Handlers : found[h].id \in Nat /\ found[h].id <= ids
  BY <1>0, GensTyped, FileFacts DEF HandlerKnows
<1>2. ASSUME Tick PROVE CalmKnown'
  <2>1. CalmFrame /\ UNCHANGED <<source, gens, hooks, active, closed>>
    BY <1>2 DEF Tick, CalmFrame, zlm, media, net, tracker
  <2>2. ClosedGen' = ClosedGen
    BY <2>1 DEF ClosedGen, AtRest
  <2>3. NoGaps' /\ InOrder'
    BY <1>0, <2>1, CalmRowsStay DEF CalmFrame, NoGaps, InOrder, threads
  <2>4. ActiveMissedNothing' /\ ClosedMissedNothing'
    BY <1>0, <2>1, <2>2, CalmRowsStay DEF CalmFrame, ActiveMissedNothing, ClosedMissedNothing, NothingMissed,
      Comes, threads
  <2> QED
    BY <1>0, <2>1, <2>3, <2>4, CalmRowsStay DEF CalmKnown
<1>3. ASSUME RegisterSource PROVE CalmKnown'
  <2>1. /\ CalmFrame /\ UNCHANGED <<active, closed>> /\ source = 0 /\ hooks = <<>> /\ hooks' = <<"register">>
        /\ gens' = gens + 1 /\ source' = gens + 1
    BY <1>3, <1>0, HooksArePrompt, OneHook DEF RegisterSource, CalmFrame, zlm, media, net, tracker
  <2>2. active.id = 0 /\ ClosedGen = gens /\ ClosedGen' = gens
    BY <1>0, <1>1, <2>1, OneHook DEF TrackerPhase, ClosedGen, AtRest
  <2>3. NoGaps'
    <3>1. \A f \in Made : gen[f] < gens'
      BY <1>0, <1>1, <2>1 DEF GensInTime
    <3> QED
      BY <1>0, <2>1, <3>1, CalmRowsStay DEF CalmFrame, NoGaps
  <2>4. InOrder'
    BY <1>0, <2>1, CalmRowsStay, OneHook DEF CalmFrame, InOrder, threads
  <2>5. ActiveMissedNothing' /\ ClosedMissedNothing'
    BY <1>0, <2>1, <2>2, CalmRowsStay, OneHook DEF CalmFrame, ActiveMissedNothing, ClosedMissedNothing,
      NothingMissed, Comes, threads
  <2> QED
    BY <1>0, <2>1, <2>3, <2>4, <2>5, CalmRowsStay DEF CalmKnown
<1>4. ASSUME HandleRegister PROVE CalmKnown'
  <2>0. hooks = <<"register">> /\ active.id = 0 /\ source = gens /\ gens > 0
    BY <1>4, <1>0, OneHook DEF HandleRegister, TrackerPhase
  <2>1. /\ CalmFrame /\ UNCHANGED <<closed, source, gens>> /\ hooks = <<"register">> /\ hooks' = <<>>
        /\ active.id = 0 /\ active' = [NoGeneration EXCEPT !.id = ids + 1, !.at = now] /\ source # 0
    BY <1>4, <1>1, <2>0, OneHook DEF HandleRegister, Registered, CalmFrame, zlm, media
  <2>2. active'.id = ids + 1 /\ active'.last = 0
    BY <2>1 DEF NoGeneration
  <2>3. ClosedGen' = ClosedGen
    BY <2>1 DEF ClosedGen, AtRest
  <2>4. NoGaps' /\ InOrder'
    BY <1>0, <1>1, <2>1, <2>2, CalmRowsStay, OneHook DEF CalmFrame, NoGaps, InOrder, threads
  <2>5. ActiveMissedNothing' /\ ClosedMissedNothing'
    BY <1>0, <2>1, <2>2, <2>3, CalmRowsStay, OneHook DEF CalmFrame, ActiveMissedNothing, ClosedMissedNothing,
      NothingMissed, Comes, threads
  <2> QED
    BY <1>0, <2>1, <2>4, <2>5, CalmRowsStay DEF CalmKnown
<1>5. ASSUME HandleUnregister PROVE CalmKnown'
  <2>1. /\ CalmFrame /\ UNCHANGED <<source, gens>> /\ hooks = <<"unregister">> /\ hooks' = <<>>
        /\ source = 0 /\ (active.id = 0 => closed.id = 0) /\ active' = NoGeneration
        /\ closed' = IF active.id # 0 THEN [active EXCEPT !.closedAt = now] ELSE closed
    BY <1>5, <1>0, <1>1, OneHook DEF HandleUnregister, Unregistered, TrackerPhase, CalmFrame, zlm, media
  <2>2. /\ active'.id = 0 /\ closed'.id = active.id
        /\ active.id # 0 => closed'.last = active.last /\ closed'.lastAt = active.lastAt
    BY <1>0, <2>1, GensTyped DEF NoGeneration, Generation
  <2>3. ClosedGen' = gens
    BY <2>1 DEF ClosedGen, AtRest
  <2>4. NoGaps' /\ InOrder'
    BY <1>0, <1>1, <2>1, <2>2, CalmRowsStay, OneHook DEF CalmFrame, NoGaps, InOrder, threads
  <2>5. ActiveMissedNothing' /\ ClosedMissedNothing'
    BY <1>0, <2>1, <2>2, <2>3, CalmRowsStay, OneHook DEF CalmFrame, ActiveMissedNothing, ClosedMissedNothing,
      NothingMissed, Comes, threads
  <2> QED
    BY <1>0, <2>1, <2>4, <2>5, CalmRowsStay DEF CalmKnown
<1>6. ASSUME HandleServerStarted PROVE CalmKnown'
  <2>1. /\ CalmFrame /\ UNCHANGED <<source, gens>> /\ active' = NoGeneration /\ closed' = NoGeneration
    BY <1>6 DEF HandleServerStarted, Reset, CalmFrame, zlm, media
  <2>2. active'.id = 0 /\ closed'.id = 0
    BY <2>1 DEF NoGeneration
  <2>3. NoGaps' /\ InOrder'
    BY <1>0, <1>1, <2>1, <2>2, CalmRowsStay DEF CalmFrame, NoGaps, InOrder, threads
  <2>4. ActiveMissedNothing' /\ ClosedMissedNothing'
    BY <2>2 DEF ActiveMissedNothing, ClosedMissedNothing, NothingMissed
  <2> QED
    BY <1>0, <2>1, <2>3, <2>4, CalmRowsStay DEF CalmKnown
<1> QED
  BY <1>2, <1>3, <1>4, <1>5, <1>6

\* ZLM moves from one file to the next: the hook of the closed one comes last.
LEMMA CalmFiles ==
  ASSUME CalmInv, SplitInv', IsCalm, UNCHANGED <<faults, now, gens, rows, threads, active, closed>>,
         NEW name \in {"hidden", "final"}, NEW created \in 0..NFiles, NEW keyframe \in {0, 1},
         FilesMove(name, created, keyframe),
         \/ created # 0 /\ UNCHANGED <<source, hooks>> /\ source # 0 /\ (recording # 0 => keyframe = 0)
         \/ created = 0 /\ source # 0 /\ source' = 0 /\ hooks = <<>> /\ hooks' = <<"unregister">>
         \/ created = 0 /\ source # 0 /\ source' = 0 /\ hooks' = <<"server-started">>,
         \/ name = "final" /\ mp4Hooks' = mp4Hooks \cup ({recording} \ {0})
         \/ mp4Hooks' = {} /\ hooks' = <<"server-started">>
  PROVE  CalmKnown'
<1>0. /\ NoGaps /\ InOrder /\ CalmRows /\ ActiveMissedNothing /\ ClosedMissedNothing
      /\ SplitInv /\ RowsInv /\ TrackerPhase /\ GensInTime /\ TrackerKnows
      /\ \A h \in Handlers : HandlerKnows(h)
  BY DEF CalmInv, CalmKnown, SplitInv, GensKnown
<1>a. source # 0 /\ source = gens
  BY <1>0 DEF TrackerPhase
<1>1. /\ source \in Nat /\ gens \in Nat /\ ids \in Nat /\ active.id \in Nat /\ closed.id \in Nat
      /\ active.last \in Nat /\ closed.last \in Nat /\ source # 0 /\ source = gens
      /\ made \in Nat /\ recording \in Nat /\ NFiles \in Nat /\ created \in Nat /\ 0 \notin Files
      /\ recording # 0 => recording = made /\ recording \in Files /\ recording \in Made
      /\ \A f \in Files : f \in Nat /\ f >= 1 /\ (f \in Made <=> f <= made)
      /\ Made \subseteq Files
      /\ mp4Hooks \subseteq Files
      /\ \A h \in Handlers : pc[h] # "idle" => job[h] \in Files
  BY <1>0, <1>a, GensTyped, FileFacts
<1>2. /\ \A f \in Files : f # created => gen'[f] = gen[f] /\ from'[f] = from[f] /\ lead'[f] = lead[f]
      /\ \A f \in Files : f # recording => upto'[f] = upto[f]
      /\ created # 0 => /\ gen'[created] = gens /\ from'[created] = now /\ created = made + 1
                        /\ created \in Files /\ created \notin Made
      /\ recording # 0 => upto'[recording] = now
      /\ recording' = created
  BY <1>1 DEF FilesMove, Files
<1>3. /\ \A f \in Files : f \in Made' <=> f \in Made \/ (f = created /\ created # 0)
      /\ Made' \subseteq Files
  <2>1. made' = IF created = 0 THEN made ELSE created
    BY DEF FilesMove
  <2> QED
    BY <1>1, <1>2, <2>1 DEF Made, Files
<1>4. /\ \A f \in mp4Hooks : f \in Made /\ f # recording
      /\ \A h \in Handlers : pc[h] # "idle" => job[h] \in Made /\ job[h] # recording
      /\ \A f \in Files : status[f] # "NONE" => f \in Made /\ f # recording
      /\ \A h \in Handlers : pc[h] = "idle" => found[h].id = 0 /\ found[h].previous = 0
  <2>1. \A f \in Files : disk[f] = "final" => f \in Made /\ f # recording
    BY <1>0, <1>1 DEF RowsInv, FilesInOrder
  <2> QED
    BY <1>0, <1>1, <2>1 DEF RowsInv, ClosedFiles
<1>5. /\ \A f \in Made : f # created /\ gen'[f] = gen[f] /\ from'[f] = from[f] /\ lead'[f] = lead[f]
      /\ \A f \in Made : f # recording => upto'[f] = upto[f]
  BY <1>1, <1>2
<1>6. NoGaps'
  <2>1. source' # 0 /\ recording' = 0 => \A f \in Made' : gen'[f] < gens'
    BY <1>1, <1>2
  <2>2. ASSUME NEW f \in Made', NEW g \in Made', g = f + 1, gen'[f] = gen'[g] PROVE upto'[f] = from'[g]
    <3>0. f \in Files /\ g \in Files /\ f \in Nat /\ g \in Nat
      BY <1>1, <1>3
    <3>1. CASE g \in Made
      <4>1. f \in Made /\ f # recording
        BY <1>1, <3>0, <3>1, <2>2
      <4> QED
        BY <1>0, <1>5, <2>2, <3>1, <4>1 DEF NoGaps
    <3>2. CASE g \notin Made
      <4>1. g = created /\ created # 0 /\ f = made /\ f \in Made
        BY <1>1, <1>2, <1>3, <2>2, <3>0, <3>2
      <4>2. gen[f] = gens /\ from'[g] = now
        BY <1>2, <1>5, <2>2, <4>1
      <4>3. recording # 0
        BY <1>0, <1>1, <4>1, <4>2, GensTyped DEF NoGaps
      <4> QED
        BY <1>1, <1>2, <4>1, <4>2, <4>3
    <3> QED
      BY <3>1, <3>2
  <2> QED
    BY <2>1, <2>2 DEF NoGaps
<1>7. CalmRows'
  <2>1. \A f \in Files : status[f] # "NONE" => from'[f] = from[f] /\ lead'[f] = lead[f] /\ upto'[f] = upto[f]
    BY <1>4, <1>5
  <2>2. UNCHANGED <<status, timing, startedAt, endedAt, pc, fresh, job, found>>
    BY DEF rows, threads
  <2>3. NormalizedTimingIsTrue'
    BY <1>0, <2>1, <2>2 DEF CalmRows, NormalizedTimingIsTrue, Normalized
  <2> QED
    BY <1>0, <2>1, <2>2, <2>3 DEF CalmRows
<1>8. UNCHANGED <<pc, job, found>>
  BY DEF threads
<1>9. \A g \in Made : /\ mp4Hooks' # {} => mp4Hooks \subseteq mp4Hooks'
                      /\ mp4Hooks' # {} /\ g # recording /\ g \in mp4Hooks => g \in mp4Hooks'
                      /\ g = recording /\ hooks' # <<"server-started">> => g \in mp4Hooks'
  BY <1>1
<1>10. InOrder'
  <2>1. ASSUME NEW f \in mp4Hooks', NEW g \in Made', f < g, g # recording' PROVE g \in mp4Hooks'
    <3>1. g \in Made /\ g \in Files
      BY <1>1, <1>2, <1>3, <2>1
    <3>2. mp4Hooks' = mp4Hooks \cup ({recording} \ {0})
      BY <2>1
    <3>3. CASE f \in mp4Hooks
      BY <1>0, <1>1, <2>1, <3>1, <3>2, <3>3 DEF InOrder
    <3>4. CASE f = recording
      BY <1>1, <2>1, <3>1, <3>2, <3>4
    <3> QED
      BY <3>2, <3>3, <3>4
  <2>2. ASSUME NEW h \in Handlers, pc'[h] # "idle", NEW f \in mp4Hooks' PROVE job'[h] <= f
    <3>1. pc[h] # "idle" /\ job'[h] = job[h] /\ job[h] \in Made /\ job[h] \in Files
      BY <1>1, <1>4, <1>8, <2>2
    <3> QED
      BY <1>0, <1>1, <2>2, <3>1 DEF InOrder
  <2>3. ASSUME hooks' # <<"server-started">>, NEW h \in Handlers, pc'[h] # "idle", found'[h].id # 0,
               found'[h].id \in {active'.id, closed'.id}, NEW g \in Made', job'[h] < g, g # recording'
        PROVE  g \in mp4Hooks'
    <3>1. g \in Made
      BY <1>2, <1>3, <1>1, <2>3
    <3>2. hooks # <<"server-started">>
      BY <2>3, OneHook
    <3>3. g # recording => g \in mp4Hooks
      BY <1>0, <1>8, <2>3, <3>1, <3>2 DEF InOrder
    <3> QED
      BY <1>1, <2>3, <3>1, <3>3
  <2> QED
    BY <2>1, <2>2, <2>3 DEF InOrder
<1>11. ASSUME NEW r, NEW q, NEW G, NothingMissed(G, r), hooks' # <<"server-started">> => q = r,
              G.id # 0 /\ G.last # 0 => G.last \in Made
       PROVE  NothingMissed(G, q)'
  <2> SUFFICES ASSUME G.id # 0, G.last # 0 PROVE NothingMissed(G, q)'
    BY DEF NothingMissed
  <2>0. G.last \in Made /\ G.last \in Files
    BY <1>1, <1>11
  <2>1. G.lastAt <= from'[G.last] + lead'[G.last]
    BY <1>5, <1>11, <2>0 DEF NothingMissed
  <2>2. ASSUME hooks' # <<"server-started">>, NEW g \in Made', G.last < g, gen'[g] = q, g # recording'
        PROVE  Comes(g, G.id)'
    <3>1. g \in Made /\ gen[g] = r
      BY <1>1, <1>2, <1>3, <1>5, <1>11, <2>2
    <3>2. hooks # <<"server-started">> /\ mp4Hooks' = mp4Hooks \cup ({recording} \ {0})
      BY <2>2, OneHook
    <3>3. g # recording => Comes(g, G.id)
      BY <1>11, <2>2, <3>1, <3>2 DEF NothingMissed
    <3> QED
      BY <1>1, <1>8, <3>1, <3>2, <3>3 DEF Comes
  <2>3. \A g \in mp4Hooks' : G.last <= g
    BY <1>1, <1>11, <2>0 DEF NothingMissed
  <2>4. \A h \in Handlers : pc'[h] # "idle" => G.last <= job'[h]
    BY <1>8, <1>11 DEF NothingMissed
  <2> QED
    BY <2>1, <2>2, <2>3, <2>4 DEF NothingMissed
<1>12. ActiveMissedNothing'
  <2>1. active' = active /\ gens' = gens
    OBVIOUS
  <2> QED
    BY <1>0, <1>11, <2>1 DEF ActiveMissedNothing, TrackerKnows
<1>13. ClosedMissedNothing'
  <2>1. closed' = closed /\ (hooks' # <<"server-started">> => ClosedGen' = ClosedGen)
    BY <1>1, OneHook DEF ClosedGen, AtRest
  <2> QED
    BY <1>0, <1>11, <2>1 DEF ClosedMissedNothing, TrackerKnows
<1> QED
  BY <1>6, <1>7, <1>10, <1>12, <1>13 DEF CalmKnown

LEMMA CalmZlm ==
  ASSUME CalmInv, SplitInv', IsCalm, UNCHANGED faults
  PROVE  /\ \A keyframe \in {0, 1} : StartRecording(keyframe) => CalmKnown'
         /\ RollOver => CalmKnown'
         /\ LoseSource => CalmKnown'
         /\ Crash => CalmKnown'
         /\ ~StopRecording /\ \A f \in Files : ~LoseHook(f)
<1>0. /\ SplitInv /\ RowsInv /\ 0 \in 0..NFiles
      /\ made < NFiles => made + 1 \in 0..NFiles /\ made + 1 # 0
      /\ recording # 0 => recording \in Files
      /\ recording # 0 => source # 0
  BY FileFacts, CatalogAssumption DEF CalmInv, SplitInv, GensInTime
<1>1. ASSUME NEW keyframe \in {0, 1}, StartRecording(keyframe) PROVE CalmKnown'
  <2>1. /\ FilesMove("final", made + 1, keyframe) /\ UNCHANGED <<now, gens, rows, threads, active, closed, source, hooks>>
        /\ mp4Hooks' = mp4Hooks \cup ({recording} \ {0}) /\ source # 0 /\ recording = 0 /\ made < NFiles
    BY <1>0, <1>1, FilesAreMoved DEF StartRecording, net, tracker
  <2> QED
    BY <1>0, <2>1, CalmFiles
<1>2. ASSUME RollOver PROVE CalmKnown'
  <2>1. /\ FilesMove("final", made + 1, 0) /\ UNCHANGED <<now, gens, rows, threads, active, closed, source, hooks>>
        /\ mp4Hooks' = mp4Hooks \cup ({recording} \ {0}) /\ source # 0 /\ made < NFiles
    BY <1>0, <1>2, FilesAreMoved DEF RollOver, Close, tracker
  <2> QED
    BY <1>0, <2>1, CalmFiles
<1>3. ASSUME LoseSource PROVE CalmKnown'
  <2>1. /\ FilesMove("final", 0, 0) /\ UNCHANGED <<now, gens, rows, threads, active, closed>>
        /\ mp4Hooks' = mp4Hooks \cup ({recording} \ {0}) /\ source # 0 /\ source' = 0
        /\ hooks = <<>> /\ hooks' = <<"unregister">>
    BY <1>0, <1>3, FilesAreMoved, HooksArePrompt, OneHook DEF LoseSource, Close, tracker
  <2> QED
    BY <1>0, <2>1, CalmFiles
<1>4. ASSUME Crash PROVE CalmKnown'
  <2>1. /\ FilesMove("hidden", 0, 0) /\ UNCHANGED <<now, gens, rows, threads, active, closed>>
        /\ mp4Hooks' = {} /\ source # 0 /\ source' = 0 /\ hooks' = <<"server-started">>
    BY <1>0, <1>4, FilesAreMoved DEF Crash, tracker
  <2> QED
    BY <1>0, <2>1, CalmFiles
<1>5. ~StopRecording /\ \A f \in Files : ~LoseHook(f)
  BY CalmMeans DEF StopRecording, LoseHook
<1> QED
  BY <1>1, <1>2, <1>3, <1>4, <1>5

\* A file whose generation the tracker holds is resolved to that generation.
LEMMA OwnIsFound ==
  ASSUME SplitInv, NEW f \in mp4Hooks, NEW r, r = ResolveRecord(from[f])
  PROVE  /\ active.id # 0 /\ gen[f] = gens => r.id = active.id
         /\ closed.id # 0 /\ gen[f] = ClosedGen => r.id = closed.id
<1>0. f \in Made /\ gen[f] \in Nat /\ from[f] \in Nat
  <2>1. f \in Files /\ disk[f] = "final"
    BY FileFacts DEF SplitInv, RowsInv, ClosedFiles
  <2>2. f \in Made
    BY <2>1, FileFacts DEF SplitInv, RowsInv, FilesInOrder
  <2> QED
    BY <2>1, <2>2, GensTyped
<1>1. ASSUME active.id # 0, gen[f] = gens PROVE r.id = active.id
  <2>1. from[f] >= active.at
    BY <1>0, <1>1 DEF SplitInv, GensInTime
  <2> QED
    BY <1>0, <1>1, <2>1, GensTyped DEF ResolveRecord
<1>2. ASSUME closed.id # 0, gen[f] = ClosedGen PROVE r.id = closed.id
  <2>1. from[f] <= closed.closedAt
    BY <1>0, <1>2 DEF SplitInv, GensInTime
  <2>2. ASSUME active.id # 0 PROVE from[f] < active.at
    <3>0. source = 0 => hooks # <<>>
      BY <2>2, OneHook DEF SplitInv, TrackerPhase
    <3>1. ~AtRest
      BY <3>0 DEF AtRest
    <3>2. gen[f] # gens
      BY <1>2, <3>1, GensTyped DEF ClosedGen
    <3>3. ~(from[f] >= active.at)
      BY <1>0, <2>2, <3>2 DEF SplitInv, GensInTime
    <3> QED
      BY <1>0, <3>3, GensTyped
  <2> QED
    BY <1>2, <2>1, <2>2 DEF ResolveRecord
<1> QED
  BY <1>1, <1>2

\* In order, the file before the one a hook reports is the last of its generation.
LEMMA NextOfItsGeneration ==
  ASSUME SplitInv, InOrder, NEW G, NEW r \in Int, NothingMissed(G, r), NEW f \in mp4Hooks,
         G.id # 0, G.last # 0, G.last \in Made, gen[G.last] = r, gen[f] = r,
         \A e \in mp4Hooks : f <= e, \A i \in Handlers : pc[i] = "idle"
  PROVE  f \in {G.last, G.last + 1}
<1>0. /\ made \in Nat /\ recording \in Nat /\ Made \subseteq Files
      /\ \A e \in Files : e \in Nat /\ e >= 1 /\ (e \in Made <=> e <= made) /\ gen[e] \in Nat
      /\ f \in Files /\ G.last \in Files
      /\ recording # 0 => recording = made
  BY FileFacts, GensTyped DEF SplitInv
<1>1. f \in Made
  <2>1. disk[f] = "final"
    BY DEF SplitInv, RowsInv, ClosedFiles
  <2> QED
    BY <1>0, <2>1 DEF SplitInv, RowsInv, FilesInOrder
<1>2. G.last <= f
  BY DEF NothingMissed
<1>3. SUFFICES ASSUME f > G.last + 1 PROVE FALSE
  BY <1>0, <1>2
<1> DEFINE g == G.last + 1
<1>4. g \in Made /\ G.last < g /\ g < f /\ g # recording /\ g \in Files
  BY <1>0, <1>1, <1>3 DEF Made, Files
<1>5. gen[g] = r
  <2>1. gen[G.last] <= gen[g] /\ gen[g] <= gen[f]
    BY <1>1, <1>4 DEF SplitInv, GensInTime
  <2> QED
    BY <1>0, <1>4, <2>1
<1>6. hooks # <<"server-started">>
  BY OneHook DEF SplitInv, TrackerPhase
<1>7. g \in mp4Hooks
  BY <1>4, <1>5, <1>6 DEF NothingMissed, Comes
<1> QED
  BY <1>0, <1>4, <1>7

LEMMA CalmResolve ==
  ASSUME CalmInv, SplitInv', IsCalm, UNCHANGED faults, NEW h \in Handlers, NEW f \in Files, Resolve(h, f)
  PROVE  CalmKnown'
<1> DEFINE r == ResolveRecord(from[f])
<1>0. /\ NoGaps /\ InOrder /\ CalmRows /\ ActiveMissedNothing /\ ClosedMissedNothing
      /\ SplitInv /\ RowsInv /\ TrackerKnows
  BY DEF CalmInv, CalmKnown, SplitInv, GensKnown
<1>1. /\ f \in mp4Hooks /\ pc' = [pc EXCEPT ![h] = "resolved"]
      /\ UNCHANGED <<active, closed, source, gens, hooks, gen, from, lead, upto, recording, made,
                     status, timing, startedAt, endedAt, fresh>>
      /\ job' = [job EXCEPT ![h] = f] /\ found' = [found EXCEPT ![h] = r]
      /\ \A i \in Handlers : pc[i] = "idle"
      /\ \A e \in mp4Hooks : f <= e
      /\ mp4Hooks' \subseteq mp4Hooks /\ mp4Hooks \ {f} \subseteq mp4Hooks'
  BY CalmMeans DEF Resolve, zlm, media, tracker, rows, Alone
<1>2. /\ pc'[h] = "resolved" /\ job'[h] = f /\ found'[h] = r
      /\ \A i \in Handlers : i # h => pc'[i] = "idle" /\ job'[i] = job[i] /\ found'[i] = found[i]
      /\ \A i \in Handlers : found[i].previous = 0
  BY <1>0, <1>1 DEF RowsInv, CatalogTypeOK, ClosedFiles
<1>3. /\ r.id \in {0, active.id, closed.id}
      /\ r.id = 0 => r.previous = 0
      /\ r.id # 0 /\ r.id = active.id => gen[f] = gens /\ r.previous = active.last
      /\ r.id # 0 /\ r.id = closed.id => gen[f] = ClosedGen /\ r.previous = closed.last
      /\ active.id # 0 /\ gen[f] = gens => r.id = active.id
      /\ closed.id # 0 /\ gen[f] = ClosedGen => r.id = closed.id
  BY <1>0, <1>1, ResolvedToItsOwn, OwnIsFound
<1> HIDE DEF r
<1>4. /\ Made' = Made /\ ClosedGen' = ClosedGen /\ ClosedGen \in Int /\ gens \in Int
      /\ Made \subseteq Files /\ mp4Hooks \subseteq Files /\ \A e \in Files : e \in Nat
  <2>1. Made' = Made /\ ClosedGen' = ClosedGen
    BY <1>1 DEF Made, ClosedGen, AtRest
  <2> QED
    BY <1>0, <2>1, GensTyped, FileFacts
<1>5. NoGaps'
  BY <1>0, <1>1, <1>4 DEF NoGaps
<1>6. InOrder'
  <2>1. \A e \in mp4Hooks', g \in Made : e < g /\ g # recording => g \in mp4Hooks'
    <3> SUFFICES ASSUME NEW e \in mp4Hooks', NEW g \in Made, e < g, g # recording PROVE g \in mp4Hooks'
      OBVIOUS
    <3>1. g \in mp4Hooks /\ f <= e
      BY <1>0, <1>1 DEF InOrder
    <3> QED
      BY <1>1, <1>4, <3>1
  <2>2. \A i \in Handlers : pc'[i] # "idle" => \A e \in mp4Hooks' : job'[i] <= e
    BY <1>1, <1>2
  <2>3. \A g \in Made : f < g /\ g # recording => g \in mp4Hooks'
    BY <1>0, <1>1, <1>4 DEF InOrder
  <2> QED
    BY <1>1, <1>2, <1>4, <2>1, <2>2, <2>3 DEF InOrder
<1>7. r.previous # 0 => f \in {r.previous, r.previous + 1}
  <2>1. CASE r.id = 0
    BY <1>3, <2>1
  <2>2. CASE r.id # 0 /\ r.id = active.id
    <3> SUFFICES ASSUME r.previous # 0 PROVE f \in {r.previous, r.previous + 1}
      OBVIOUS
    <3>1. active.last # 0 /\ active.last \in Made /\ gen[active.last] = gens /\ gen[f] = gens
      BY <1>0, <1>3, <2>2 DEF TrackerKnows
    <3>2. NothingMissed(active, gens)
      BY <1>0 DEF ActiveMissedNothing
    <3> QED
      BY <1>0, <1>1, <1>3, <1>4, <2>2, <3>1, <3>2, NextOfItsGeneration
  <2>3. CASE r.id # 0 /\ r.id = closed.id
    <3> SUFFICES ASSUME r.previous # 0 PROVE f \in {r.previous, r.previous + 1}
      OBVIOUS
    <3>1. closed.last # 0 /\ closed.last \in Made /\ gen[closed.last] = ClosedGen /\ gen[f] = ClosedGen
      BY <1>0, <1>3, <2>3 DEF TrackerKnows
    <3>2. NothingMissed(closed, ClosedGen)
      BY <1>0 DEF ClosedMissedNothing
    <3> QED
      BY <1>0, <1>1, <1>3, <1>4, <2>3, <3>1, <3>2, NextOfItsGeneration
  <2> QED
    BY <1>3, <2>1, <2>2, <2>3
<1>8. CalmRows'
  <2>1. NormalizedTimingIsTrue'
    BY <1>0, <1>1 DEF CalmRows, NormalizedTimingIsTrue, Normalized
  <2> QED
    BY <1>0, <1>1, <1>2, <1>7, <2>1 DEF CalmRows
<1>9. ASSUME NEW G, NEW q, NothingMissed(G, q), G.id # 0 /\ gen[f] = q => r.id = G.id
      PROVE  NothingMissed(G, q)'
  <2> SUFFICES ASSUME G.id # 0, G.last # 0 PROVE NothingMissed(G, q)'
    BY DEF NothingMissed
  <2>1. ASSUME hooks # <<"server-started">>, NEW g \in Made, G.last < g, gen[g] = q, g # recording
        PROVE  Comes(g, G.id)'
    <3>1. g \in mp4Hooks
      BY <1>1, <1>9, <2>1 DEF NothingMissed, Comes
    <3>2. CASE g = f
      BY <1>2, <1>9, <2>1, <3>2 DEF Comes
    <3>3. CASE g # f
      BY <1>1, <3>1, <3>3 DEF Comes
    <3> QED
      BY <3>2, <3>3
  <2>2. (\A g \in mp4Hooks : G.last <= g) /\ G.lastAt <= from[G.last] + lead[G.last]
    BY <1>9 DEF NothingMissed
  <2>3. \A i \in Handlers : pc'[i] # "idle" => G.last <= job'[i]
    BY <1>1, <1>2, <2>2
  <2> QED
    BY <1>1, <1>4, <2>1, <2>2, <2>3 DEF NothingMissed
<1>10. ActiveMissedNothing' /\ ClosedMissedNothing'
  <2>1. active' = active /\ closed' = closed /\ gens' = gens
    BY <1>1
  <2> QED
    BY <1>0, <1>3, <1>4, <1>9, <2>1 DEF ActiveMissedNothing, ClosedMissedNothing
<1> QED
  BY <1>5, <1>6, <1>8, <1>10 DEF CalmKnown

LEMMA CalmReadCatalog ==
  ASSUME CalmInv, SplitInv', IsCalm, UNCHANGED faults, NEW h \in Handlers, ReadCatalog(h)
  PROVE  CalmKnown'
<1>0. /\ NoGaps /\ InOrder /\ CalmRows /\ ActiveMissedNothing /\ ClosedMissedNothing
      /\ SplitInv /\ RowsInv
  BY DEF CalmInv, CalmKnown, SplitInv, GensKnown
<1>1. /\ pc[h] = "resolved" /\ pc' = [pc EXCEPT ![h] = "read"]
      /\ fresh' = [fresh EXCEPT ![h] = status[job[h]] = "NONE"]
      /\ UNCHANGED <<active, closed, source, gens, hooks, gen, from, lead, upto, recording, made, mp4Hooks,
                     status, timing, startedAt, endedAt, job, found>>
  BY DEF ReadCatalog, zlm, media, net, tracker, rows
<1>2. /\ pc'[h] = "read" /\ fresh'[h] = (status[job[h]] = "NONE")
      /\ \A i \in Handlers : i # h => pc'[i] = pc[i] /\ fresh'[i] = fresh[i]
  BY <1>0, <1>1 DEF RowsInv, CatalogTypeOK
<1>3. Made' = Made /\ ClosedGen' = ClosedGen
  BY <1>1 DEF Made, ClosedGen, AtRest
<1>4. NoGaps' /\ InOrder'
  BY <1>0, <1>1, <1>2, <1>3 DEF NoGaps, InOrder
<1>5. CalmRows'
  <2>1. NormalizedTimingIsTrue'
    BY <1>0, <1>1 DEF CalmRows, NormalizedTimingIsTrue, Normalized
  <2> QED
    BY <1>0, <1>1, <1>2, <2>1 DEF CalmRows
<1>6. ActiveMissedNothing' /\ ClosedMissedNothing'
  <2>1. \A i \in Handlers : /\ pc'[i] # "idle" => pc[i] # "idle"
                            /\ pc[i] \in {"resolved", "read"} => pc'[i] \in {"resolved", "read"}
    BY <1>1, <1>2
  <2>2. \A g \in Made, id \in Nat : Comes(g, id) => Comes(g, id)'
    BY <1>1, <2>1 DEF Comes
  <2>3. active.id \in Nat /\ closed.id \in Nat
    BY <1>0, GensTyped
  <2> QED
    BY <1>0, <1>1, <1>3, <2>1, <2>2, <2>3 DEF ActiveMissedNothing, ClosedMissedNothing, NothingMissed
<1> QED
  BY <1>4, <1>5, <1>6 DEF CalmKnown

\* A generation that does not take a segment already has it, or a later one.
LEMMA RefusedIsKnown ==
  ASSUME RowsInv, CalmRows, NEW G \in Generation, NEW f \in Files, NEW start \in Int,
         f \in Made, f # recording, G.last \in Made, from[f] <= start,
         G.lastAt <= from[G.last] + lead[G.last], start < G.lastAt
  PROVE  f <= G.last
<1>1. /\ G.last \in Files /\ f \in Nat /\ G.last \in Nat /\ from[f] \in Nat /\ made \in Nat
      /\ from[G.last] \in Nat /\ upto[G.last] \in Nat /\ lead[G.last] \in Nat /\ G.lastAt \in Nat
      /\ recording # 0 => recording = made
      /\ f <= made /\ G.last <= made
  BY FileFacts DEF Generation
<1>2. SUFFICES ASSUME G.last < f PROVE FALSE
  BY <1>1
<1>3. G.last # recording
  BY <1>1, <1>2, FileFacts
<1>4. upto[G.last] > from[G.last] + lead[G.last] /\ upto[G.last] <= from[f]
  BY <1>2, <1>3 DEF RowsInv, FilesInOrder
<1> QED
  BY <1>1, <1>4

LEMMA CalmWrite ==
  ASSUME CalmInv, SplitInv', IsCalm, UNCHANGED faults, NEW h \in Handlers, Write(h)
  PROVE  CalmKnown'
<1> DEFINE f == job[h]
           id == found[h].id
           start == IF fresh[h] THEN from[f] ELSE startedAt[f]
<1>0. /\ NoGaps /\ InOrder /\ CalmRows /\ ActiveMissedNothing /\ ClosedMissedNothing
      /\ SplitInv /\ RowsInv /\ TrackerKnows /\ TrackerPhase
      /\ active \in Generation /\ closed \in Generation
  BY GensTyped DEF CalmInv, CalmKnown, SplitInv, GensKnown
<1>1. /\ pc[h] = "read" /\ Remember(id, f, start) /\ pc' = [pc EXCEPT ![h] = "written"]
      /\ UNCHANGED <<source, gens, hooks, gen, from, lead, upto, recording, made, mp4Hooks,
                     status, timing, startedAt, endedAt, job, found, fresh>>
  BY DEF Write, zlm, media, rows, net
<1>2. /\ pc'[h] = "written"
      /\ \A i \in Handlers : i # h => pc'[i] = "idle" /\ pc[i] = "idle"
  BY <1>0, <1>1, CalmMeans DEF RowsInv, CatalogTypeOK, OneHandler
<1>3. f \in Files /\ f \in Made /\ f # recording /\ f \in 0..NFiles
  <2>1. f \in Files /\ disk[f] = "final"
    BY <1>0, <1>1, FileFacts DEF RowsInv, ClosedFiles
  <2> QED
    BY <1>0, <2>1, FileFacts DEF RowsInv, FilesInOrder, Files
<1>4. start \in Int /\ from[f] <= start /\ start <= from[f] + lead[f]
  <2>1. from[f] \in Nat /\ lead[f] \in Nat /\ startedAt[f] \in Int
    BY <1>0, <1>3, FileFacts
  <2>2. CASE fresh[h]
    BY <2>1, <2>2
  <2>3. CASE ~fresh[h]
    BY <1>0, <1>1, <1>3, <2>1, <2>3 DEF CalmRows
  <2> QED
    BY <2>2, <2>3
<1> HIDE DEF start
<1>5. Made' = Made /\ ClosedGen' = ClosedGen
  BY <1>1 DEF Made, ClosedGen, AtRest
<1>6. active'.id = active.id /\ closed'.id = closed.id
  BY <1>0, <1>1 DEF Remember, Generation
<1>7. NoGaps' /\ InOrder'
  BY <1>0, <1>1, <1>2, <1>5, <1>6 DEF NoGaps, InOrder
<1>8. CalmRows'
  <2>1. NormalizedTimingIsTrue'
    BY <1>0, <1>1 DEF CalmRows, NormalizedTimingIsTrue, Normalized
  <2> QED
    BY <1>0, <1>1, <1>2, <2>1 DEF CalmRows
<1>9. ASSUME NEW G \in Generation, NEW H, NEW q, NothingMissed(G, q), H.id = G.id, G.id \in {active.id, closed.id},
             G.id # 0 /\ G.last # 0 => G.last \in Made,
             \/ H.last = f /\ H.lastAt = start /\ id = G.id
             \/ H = G /\ id # G.id
             \/ H = G /\ start < G.lastAt
      PROVE  NothingMissed(H, q)'
  <2> SUFFICES ASSUME H.id # 0, H.last # 0 PROVE NothingMissed(H, q)'
    BY DEF NothingMissed
  <2>1. CASE H.last = f /\ H.lastAt = start /\ id = G.id
    <3>1. H.lastAt <= from'[H.last] + lead'[H.last]
      BY <1>1, <1>4, <2>1
    <3>2. hooks # <<"server-started">> => \A g \in Made : f < g /\ g # recording => g \in mp4Hooks
      BY <1>0, <1>1, <1>9, <2>1 DEF InOrder
    <3>3. \A g \in mp4Hooks : f <= g
      BY <1>0, <1>1 DEF InOrder
    <3>4. \A i \in Handlers : pc'[i] # "idle" => f <= job'[i]
      BY <1>0, <1>1, <1>2, <1>3, FileFacts
    <3> QED
      BY <1>1, <1>5, <2>1, <3>1, <3>2, <3>3, <3>4 DEF NothingMissed, Comes
  <2>2. CASE H = G /\ (id # G.id \/ start < G.lastAt)
    <3>0. /\ G.id # 0 /\ G.last # 0 /\ G.last \in Made /\ G.lastAt <= from[G.last] + lead[G.last]
          /\ hooks # <<"server-started">> =>
               \A g \in Made : G.last < g /\ gen[g] = q /\ g # recording => Comes(g, G.id)
          /\ \A g \in mp4Hooks : G.last <= g
          /\ \A i \in Handlers : pc[i] # "idle" => G.last <= job[i]
      BY <1>9, <2>2 DEF NothingMissed
    <3>1. ASSUME hooks # <<"server-started">>, NEW g \in Made, G.last < g, gen[g] = q, g # recording
          PROVE  Comes(g, G.id)'
      <4>1. Comes(g, G.id)
        BY <3>0, <3>1
      <4>2. CASE g \in mp4Hooks
        BY <1>1, <4>2 DEF Comes
      <4>3. CASE g = f /\ id = G.id
        <5>1. f <= G.last
          BY <1>0, <1>3, <1>4, <1>9, <2>2, <3>0, <4>3, RefusedIsKnown
        <5> QED
          BY <3>1, <4>3, <5>1, <1>0, <1>3, <3>0, FileFacts
      <4> QED
        BY <1>2, <4>1, <4>2, <4>3 DEF Comes
    <3>2. \A i \in Handlers : pc'[i] # "idle" => G.last <= job'[i]
      BY <1>1, <1>2, <3>0
    <3> QED
      BY <1>1, <1>5, <2>2, <3>0, <3>1, <3>2 DEF NothingMissed
  <2> QED
    BY <1>9, <2>1, <2>2
<1>10. ActiveMissedNothing'
  <2>1. \/ active'.last = f /\ active'.lastAt = start /\ id = active.id
        \/ active' = active /\ id # active.id
        \/ active' = active /\ start < active.lastAt
        \/ active' = active /\ active.id = 0
    <3>1. active.lastAt \in Nat /\ active.id \in Nat
      BY <1>0, GensTyped
    <3> QED
      BY <1>0, <1>1, <1>4, <3>1 DEF Remember, Accepts, Generation
  <2>2. gens' = gens /\ NothingMissed(active, gens) /\ active'.id = active.id
    BY <1>0, <1>1, <1>6 DEF ActiveMissedNothing
  <2>3. CASE active.id = 0
    BY <2>2, <2>3 DEF ActiveMissedNothing, NothingMissed
  <2>4. CASE active.id # 0
    BY <1>0, <1>9, <2>1, <2>2, <2>4 DEF ActiveMissedNothing, TrackerKnows
  <2> QED
    BY <2>3, <2>4
<1>11. ClosedMissedNothing'
  <2>0. active.id # 0 => active.id # closed.id
    BY <1>0 DEF TrackerKnows
  <2>1. \/ closed'.last = f /\ closed'.lastAt = start /\ id = closed.id
        \/ closed' = closed /\ id # closed.id
        \/ closed' = closed /\ start < closed.lastAt
        \/ closed' = closed /\ closed.id = 0
    <3>1. closed.lastAt \in Nat /\ closed.id \in Nat
      BY <1>0, GensTyped
    <3> QED
      BY <1>0, <1>1, <1>4, <2>0, <3>1 DEF Remember, Accepts, Generation
  <2>2. NothingMissed(closed, ClosedGen) /\ closed'.id = closed.id
    BY <1>0, <1>1, <1>6 DEF ClosedMissedNothing
  <2>3. CASE closed.id = 0
    BY <2>2, <2>3 DEF ClosedMissedNothing, NothingMissed
  <2>4. CASE closed.id # 0
    BY <1>0, <1>5, <1>9, <2>1, <2>2, <2>4 DEF ClosedMissedNothing, TrackerKnows
  <2> QED
    BY <2>3, <2>4
<1> QED
  BY <1>7, <1>8, <1>10, <1>11 DEF CalmKnown

\* The row before the handler's own is the file that ended where its file begins.
LEMMA CalmCommit ==
  ASSUME CalmInv, SplitInv', IsCalm, UNCHANGED faults, NEW h \in Handlers, Commit(h)
  PROVE  CalmKnown'
<1> DEFINE f == job[h]
           p == found[h].previous
<1>0. /\ NoGaps /\ InOrder /\ CalmRows /\ ActiveMissedNothing /\ ClosedMissedNothing
      /\ SplitInv /\ RowsInv /\ HandlerKnows(h)
  BY DEF CalmInv, CalmKnown, SplitInv, GensKnown
<1>1. /\ pc[h] = "written" /\ Done(h)
      /\ UNCHANGED <<active, closed, source, gens, hooks, gen, from, lead, upto, recording, made, mp4Hooks>>
  BY DEF Commit, Writing, zlm, media, net, tracker
<1>2. HandlerIdle(h)
  BY <1>0, <1>1, HandlerDone
<1>3. /\ pc'[h] = "idle" /\ found'[h].id = 0 /\ found'[h].previous = 0
      /\ \A i \in Handlers : i # h => /\ pc'[i] = "idle" /\ pc[i] = "idle" /\ job'[i] = job[i]
                                      /\ found'[i] = found[i]
  BY <1>0, <1>1, <1>2, CalmMeans DEF HandlerIdle, RowsInv, OneHandler
<1>4. Made' = Made /\ ClosedGen' = ClosedGen
  BY <1>1 DEF Made, ClosedGen, AtRest
<1>5. NoGaps' /\ InOrder'
  BY <1>0, <1>1, <1>3, <1>4 DEF NoGaps, InOrder
<1>6. ActiveMissedNothing' /\ ClosedMissedNothing'
  <2>1. \A g \in Made, id \in Nat : Comes(g, id) => Comes(g, id)'
    BY <1>1, <1>3 DEF Comes
  <2>2. active.id \in Nat /\ closed.id \in Nat
    BY <1>0, GensTyped
  <2> QED
    BY <1>0, <1>1, <1>3, <1>4, <2>1, <2>2 DEF ActiveMissedNothing, ClosedMissedNothing, NothingMissed
<1>7. f \in Files /\ f \in Nat
  BY <1>0, <1>1, FileFacts
<1>8. ASSUME adjusts[h] PROVE p \in Made /\ p \in Files /\ upto[p] = from[f] /\ p # f
  <2>1. p # 0 /\ from[f] > from[p] /\ p \in Made /\ gen[p] = gen[f] /\ f \in {p, p + 1}
    BY <1>0, <1>8 DEF RowsInv, RowsRead, HandlerKnows, CalmRows
  <2>2. p \in Files /\ f \in Made /\ from[p] \in Nat
    <3>1. p \in Files /\ from[p] \in Nat /\ disk[f] = "final"
      BY <1>0, <1>1, <2>1, FileFacts DEF RowsInv, ClosedFiles
    <3> QED
      BY <1>0, <1>7, <3>1, FileFacts DEF RowsInv, FilesInOrder
  <2>3. f = p + 1
    BY <2>1, <2>2
  <2> QED
    BY <1>0, <1>7, <2>1, <2>2, <2>3 DEF NoGaps
<1>9. ASSUME NEW e \in Files
      PROVE  /\ Normalized(e)' => startedAt'[e] = from[e] + lead[e] /\ endedAt'[e] = upto[e]
             /\ status'[e] # "NONE" => from[e] <= startedAt'[e] /\ startedAt'[e] <= from[e] + lead[e]
             /\ status'[e] = "FINAL" => startedAt'[e] >= from[e] /\ endedAt'[e] <= upto[e]
  <2>1. from[e] \in Nat /\ lead[e] \in Nat /\ upto[e] \in Nat /\ from[f] \in Nat
    BY <1>0, <1>7, <1>9, FileFacts
  <2>2. CASE Adjusted(h, e)
    <3>1. e = p /\ adjusts[h] /\ startedAt'[e] = from[f] - Duration(e) /\ endedAt'[e] = from[f]
      BY <1>0, <2>2, CommittedRows
    <3>2. Duration(e) = from[f] - from[e] - lead[e] /\ upto[e] = from[f]
      BY <1>8, <3>1 DEF Duration
    <3> QED
      BY <2>1, <3>1, <3>2
  <2>3. CASE ~Adjusted(h, e) /\ Inserted(h, e)
    <3>1. status'[e] = "PROVISIONAL" /\ startedAt'[e] = from[e]
      BY <1>0, <2>3, CommittedRows DEF Inserted
    <3> QED
      BY <2>1, <3>1 DEF Normalized
  <2>4. CASE ~Adjusted(h, e) /\ ~Inserted(h, e)
    <3>1. /\ status'[e] = status[e] /\ timing'[e] = timing[e]
          /\ startedAt'[e] = startedAt[e] /\ endedAt'[e] = endedAt[e]
      BY <1>0, <2>4, CommittedRows
    <3> QED
      BY <1>0, <3>1 DEF CalmRows, NormalizedTimingIsTrue, Normalized
  <2> QED
    BY <2>2, <2>3, <2>4
<1>10. CalmRows'
  <2>1. UNCHANGED <<from, lead, upto>>
    BY <1>1
  <2>2. NormalizedTimingIsTrue'
    BY <1>9, <2>1 DEF NormalizedTimingIsTrue
  <2>3. \A i \in Handlers : pc'[i] = "idle" /\ (i # h => job'[i] = job[i] /\ found'[i] = found[i])
    BY <1>3
  <2> QED
    BY <1>0, <1>3, <1>9, <2>1, <2>2, <2>3 DEF CalmRows
<1> QED
  BY <1>5, <1>6, <1>10 DEF CalmKnown

LEMMA CalmRecover ==
  ASSUME CalmInv, SplitInv', IsCalm, UNCHANGED faults, NEW f \in Files, RecoverFile(f) \/ RecoverPartialFile(f)
  PROVE  CalmKnown'
<1>0. /\ NoGaps /\ InOrder /\ CalmRows /\ ActiveMissedNothing /\ ClosedMissedNothing
      /\ SplitInv /\ RowsInv
  BY DEF CalmInv, CalmKnown, SplitInv
<1>1. /\ UNCHANGED <<active, closed, source, gens, hooks, gen, from, lead, upto, recording, made, mp4Hooks,
                     pc, job, found, fresh>>
      /\ \E reason : RecoveredRow(f, reason)
      /\ disk[f] = "hidden" \/ ~Outstanding(f)
  BY CalmMeans DEF RecoverFile, RecoverPartialFile, zlm, media, net, tracker, threads
<1>2. /\ status' = [status EXCEPT ![f] = "FINAL"] /\ timing' = [timing EXCEPT ![f] = "RECOVERY"]
      /\ startedAt' = [startedAt EXCEPT ![f] = from[f]]
      /\ endedAt' = [endedAt EXCEPT ![f] = from[f] + Duration(f)]
  BY <1>1 DEF RecoveredRow
<1>3. /\ status'[f] = "FINAL" /\ timing'[f] = "RECOVERY" /\ startedAt'[f] = from[f]
      /\ endedAt'[f] = from[f] + Duration(f)
      /\ \A e \in Files : e # f => /\ status'[e] = status[e] /\ timing'[e] = timing[e]
                                   /\ startedAt'[e] = startedAt[e] /\ endedAt'[e] = endedAt[e]
  BY <1>0, <1>2 DEF RowsInv, CatalogTypeOK
<1>4. \A h \in Handlers : pc[h] # "idle" => job[h] # f /\ job[h] \in Files
  <2>1. \A h \in Handlers : pc[h] # "idle" => disk[job[h]] = "final" /\ job[h] \in Files
    BY <1>0, FileFacts DEF RowsInv, ClosedFiles
  <2> QED
    BY <1>1, <2>1 DEF Outstanding
<1>5. Made' = Made /\ ClosedGen' = ClosedGen
  BY <1>1 DEF Made, ClosedGen, AtRest
<1>6. NoGaps' /\ InOrder' /\ ActiveMissedNothing' /\ ClosedMissedNothing'
  BY <1>0, <1>1, <1>5 DEF NoGaps, InOrder, ActiveMissedNothing, ClosedMissedNothing, NothingMissed, Comes
<1>7. endedAt'[f] <= upto[f] /\ from[f] <= from[f] + lead[f]
  <2>1. from[f] \in Nat /\ lead[f] \in Nat /\ upto[f] \in Nat
    BY <1>0, FileFacts
  <2> QED
    BY <1>3, <2>1 DEF Duration
<1>8. CalmRows'
  <2>0. from[f] \in Nat /\ UNCHANGED <<from, lead, upto, pc, job, found, fresh>>
    BY <1>0, <1>1, FileFacts
  <2>1. NormalizedTimingIsTrue'
    BY <1>0, <1>3, <2>0 DEF CalmRows, NormalizedTimingIsTrue, Normalized
  <2>2. \A h \in Handlers : pc[h] \in {"read", "written"} => (fresh[h] <=> status'[job[h]] = "NONE")
    BY <1>0, <1>3, <1>4 DEF CalmRows
  <2> QED
    BY <1>0, <1>3, <1>7, <2>0, <2>1, <2>2 DEF CalmRows
<1> QED
  BY <1>6, <1>8 DEF CalmKnown

LEMMA CalmRestart ==
  ASSUME CalmInv, SplitInv', IsCalm, Restart
  PROVE  CalmKnown'
<1>0. NoGaps /\ InOrder /\ CalmRows
  BY DEF CalmInv, CalmKnown
<1>1. NoGeneration.id = 0 /\ NoGeneration.last = 0 /\ NoResolution.id = 0 /\ NoResolution.previous = 0
  BY DEF NoGeneration, NoResolution
<1>2. /\ closed'.id = 0 /\ (active'.id = 0 \/ active'.last = 0)
      /\ UNCHANGED <<source, gens, gen, from, lead, upto, recording, made, status, timing, startedAt, endedAt>>
      /\ mp4Hooks' = {} /\ \A h \in Handlers : pc'[h] = "idle" /\ found'[h].previous = 0
  BY <1>1 DEF Restart, zlm, media, rows, NoGeneration, NoResolution
<1>3. NoGaps' /\ InOrder'
  BY <1>0, <1>2 DEF NoGaps, InOrder, Made
<1>4. CalmRows'
  BY <1>0, <1>2 DEF CalmRows, NormalizedTimingIsTrue, Normalized
<1>5. ActiveMissedNothing' /\ ClosedMissedNothing'
  BY <1>2 DEF ActiveMissedNothing, ClosedMissedNothing, NothingMissed
<1> QED
  BY <1>3, <1>4, <1>5 DEF CalmKnown

LEMMA CalmStep == CalmInv /\ [Next]_vars => CalmInv'
<1> SUFFICES ASSUME CalmInv, [Next]_vars PROVE CalmInv'
  OBVIOUS
<1>0. SplitInv' /\ faults' = faults
  BY SplitStep DEF CalmInv, Next, vars
<1> SUFFICES ASSUME IsCalm PROVE CalmKnown'
  BY <1>0 DEF CalmInv, IsCalm
<1>1. CASE UNCHANGED vars
  <2>1. /\ CalmKnown /\ CalmFrame /\ UNCHANGED <<source, gens, hooks, active, closed>>
    BY <1>1 DEF CalmInv, CalmFrame, vars, zlm, media, net, tracker
  <2>2. ClosedGen' = ClosedGen /\ Made' = Made /\ CalmRows'
    BY <2>1, CalmRowsStay DEF CalmKnown, ClosedGen, AtRest
  <2>3. NoGaps' /\ InOrder' /\ ActiveMissedNothing' /\ ClosedMissedNothing'
    BY <2>1, <2>2 DEF CalmKnown, CalmFrame, NoGaps, InOrder, ActiveMissedNothing, ClosedMissedNothing,
      NothingMissed, Comes, threads
  <2> QED
    BY <2>2, <2>3 DEF CalmKnown
<1>2. CASE Next
  <2>1. CASE ZlmStep
    BY <1>0, <2>1, CalmStream, CalmZlm DEF ZlmStep
  <2>2. CASE HookStep
    <3>1. \A h \in Handlers : ~Conflict(h)
      BY DEF CalmInv, CalmKnown, CalmRows, Conflict
    <3> QED
      BY <1>0, <2>2, <3>1, CalmStream, CalmResolve, CalmReadCatalog, CalmWrite, CalmCommit DEF HookStep
  <2>3. CASE RecoveryStep
    BY <1>0, <2>3, CalmRecover, CalmRestart DEF RecoveryStep
  <2> QED
    BY <1>2, <2>1, <2>2, <2>3 DEF Next
<1> QED
  BY <1>1, <1>2

\* When no hook is lost, overtaken or slow and the recorder is not stopped, the
\* catalogue tells the truth for any number of files and registrations: a row
\* normalized from the next boundary (_finalize_previous_from_boundary) spans
\* what its media covers, and FINAL rows never claim the same time twice, also
\* when hooks are repeated and when ZLM crashes and the API restarts in between.
THEOREM CalmCatalogueIsTrue == Spec => []CalmTimingIsTrue
<1>1. CalmInv => CalmTimingIsTrue
  <2> SUFFICES ASSUME CalmInv, IsCalm PROVE NormalizedTimingIsTrue /\ FinalSpansDisjoint
    BY DEF CalmTimingIsTrue, IsCalm
  <2>1. CalmRows /\ RowsInv
    BY DEF CalmInv, CalmKnown, SplitInv
  <2>2. ASSUME NEW f \in Files, NEW g \in Files, f < g, status[f] = "FINAL", status[g] = "FINAL"
        PROVE  endedAt[f] <= startedAt[g]
    <3>1. /\ f \in Made /\ g \in Made /\ upto[f] \in Nat /\ from[g] \in Nat
          /\ endedAt[f] \in Int /\ startedAt[g] \in Int
      <4>1. disk[f] = "final" /\ disk[g] = "final"
        BY <2>1, <2>2 DEF RowsInv, ClosedFiles
      <4> QED
        BY <2>1, <4>1, FileFacts DEF RowsInv, FilesInOrder
    <3>2. upto[f] <= from[g]
      BY <2>1, <2>2, <3>1 DEF RowsInv, FilesInOrder
    <3>3. endedAt[f] <= upto[f] /\ startedAt[g] >= from[g]
      BY <2>1, <2>2 DEF CalmRows
    <3> QED
      BY <3>1, <3>2, <3>3
  <2> QED
    BY <2>1, <2>2 DEF CalmRows, FinalSpansDisjoint
<1>2. ~Steady => CalmTimingIsTrue
  BY DEF Steady, CalmTimingIsTrue
<1>3. ~Steady /\ [Next]_vars => ~Steady'
  BY DEF Steady, Next, vars
<1> QED
  BY <1>1, <1>2, <1>3, CalmStart, CalmStep, PTL DEF Spec
=============================================================================
