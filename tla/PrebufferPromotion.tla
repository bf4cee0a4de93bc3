------------------------- MODULE PrebufferPromotion -------------------------
(***************************************************************************)
(* EVENT_ONLY recording of one camera.  ZLMediaKit keeps writing short     *)
(* fragments to a tmpfs; an event creates a RecordingTrigger with a window *)
(* of time, and background tasks move the fragments that overlap a window  *)
(* to storage before the others are thrown away (ADR 0010, spec 0003):     *)
(*   - promote_prebuffer_fragment, queued by the record-mp4 hook           *)
(*   - gc_prebuffer_fragment, scheduled by the same hook for the time when *)
(*     the buffer window of the fragment is over                           *)
(*   - reconcile_camera_prebuffer, which scans the tmpfs, queued when a    *)
(*     trigger changes, a source registers or the API starts               *)
(* The worker runs them in threads that share the file system, the queue   *)
(* and the database, and no lock.                                          *)
(***************************************************************************)
EXTENDS Naturals

CONSTANTS
  NFrags,          \* bound: fragments, numbered in the order of their time
  Triggers,        \* bound: RecordingTriggers of the camera
  Workers,         \* threads of the Huey consumer
  PromoteRetries,  \* retries of the three tasks: 3, 3 and 2 in the code
  GcRetries,
  ScanRetries,
  Scenarios        \* the combinations of what may happen that an instance explores

\* "threads": the worker runs several tasks at a time; "many": there is more than
\* one fragment; "lost": hooks are lost and a trigger is saved without a task
\* being queued; "late": a trigger arrives for fragments whose buffer window is
\* over; "full": storage has no room; "bad": ffprobe fails on a fragment; "crash":
\* the worker process dies; "again": sources register and the API starts at any time.
Kinds == {"threads", "many", "lost", "late", "full", "bad", "crash", "again"}

ASSUME PrebufferAssumption ==
  /\ NFrags \in Nat
  /\ PromoteRetries \in Nat /\ GcRetries \in Nat /\ ScanRetries \in Nat
  /\ \A s \in Scenarios : s \subseteq Kinds
  /\ 0 \notin Triggers

Frags == 1..NFrags

VARIABLES
  faults,     \* the scenario of this behaviour, chosen once
  made,       \* fragments finalized so far
  src,        \* src[f]: the finalized fragment is in the tmpfs
  bad,        \* bad[f]: ffprobe cannot read it
  expired,    \* expired[f]: the buffer window of its hook is over
  hooks,      \* fragments whose record-mp4 hook is under way
  first,      \* first[t], last[t]: the fragments trigger t's window overlaps;
  last,       \* first is 0 without a trigger, last is Open without an end
  partial,    \* partial[f], dest[f]: the file of that name in storage
  dest,
  row,        \* row[f]: an AVAILABLE RecordingLocation for dest[f]
  queue,      \* tasks that are queued or scheduled
  pc, task,   \* pc[w], task[w]: the step and the task of a thread
  cur,        \* cur[w]: the fragment it works on
  todo,       \* todo[w]: the files its scan has listed and not yet seen
  at,         \* at[w]: the name of the file it writes, "none" when unlinked
  owns        \* owns[w]: nobody has truncated that file since

buffer == <<made, src, bad, expired, hooks>>
windows == <<first, last>>
files == <<partial, dest>>
threads == <<pc, task, cur, todo, at, owns>>
vars == <<faults, buffer, windows, files, row, queue, threads>>

Open == NFrags + 1

\* A file in storage: truncated and being written, of full size with a hole at
\* its start, or a copy of the fragment.
FileStates == {"none", "short", "holed", "full"}

Task(kind, key) == [kind |-> kind, key |-> key, tries |-> 0]
NoTask == Task("none", 0)
Scan(t) == Task("scan", t)

Retries(kind) ==
  CASE kind = "promote" -> PromoteRetries
    [] kind = "gc" -> GcRetries
    [] OTHER -> ScanRetries

\* RecordingTriggerService.overlaps_fragment
Required(f) == \E t \in Triggers : first[t] # 0 /\ first[t] <= f /\ f <= last[t]

-----------------------------------------------------------------------------
(* ZLMediaKit, time and the hook *)

\* ZLM gives the fragment its final name and reports it.
Finalize ==
  /\ made < NFrags
  /\ "many" \in faults \/ made = 0
  /\ made' = made + 1
  /\ src' = [src EXCEPT ![made + 1] = TRUE]
  /\ bad' \in IF "bad" \in faults
              THEN {bad, [bad EXCEPT ![made + 1] = TRUE]} ELSE {bad}
  /\ hooks' = hooks \cup {made + 1}
  /\ UNCHANGED <<expired, windows, files, row, queue, threads>>

\* zlm_record_mp4 for a fragment of the tmpfs, finalized_prebuffer_fragment.
HandleHook(f) ==
  /\ f \in hooks
  /\ hooks' = hooks \ {f}
  /\ queue' = queue \cup {Task("promote", f), Task("gc", f)}
  /\ UNCHANGED <<made, src, bad, expired, windows, files, row, threads>>

LoseHook(f) ==
  /\ "lost" \in faults
  /\ f \in hooks
  /\ hooks' = hooks \ {f}
  /\ UNCHANGED <<made, src, bad, expired, windows, files, row, queue, threads>>

\* prebuffer_buffer_seconds have passed since the hook: the task may run.
Expire(f) ==
  /\ f <= made /\ f \notin hooks /\ ~expired[f]
  /\ expired' = [expired EXCEPT ![f] = TRUE]
  /\ UNCHANGED <<made, src, bad, hooks, windows, files, row, queue, threads>>

-----------------------------------------------------------------------------
(* RecordingTriggerService, and the callers that queue the scan *)

\* Fault: the hook alone is trusted to promote the fragments.
QueueNothing(t) == UNCHANGED queue

\* The trigger is committed and reconcile_camera_prebuffer is queued; the
\* callers log a failure to queue and go on.
QueueScan(t) ==
  \/ queue' = queue \cup {Scan(t)}
  \/ "lost" \in faults /\ UNCHANGED queue

\* An event whose window begins at fragment i, with its end when it is known.
\* The buffer window is long enough for pre-roll and delivery unless "late".
CreateTrigger(t, i, j) ==
  /\ first[t] = 0
  /\ i <= made + 1 /\ i <= j
  /\ "late" \in faults \/ \A f \in Frags : expired[f] => f < i
  /\ first' = [first EXCEPT ![t] = i]
  /\ last' = [last EXCEPT ![t] = j]
  /\ QueueScan(t)
  /\ UNCHANGED <<buffer, files, row, threads>>

\* upsert_provider and stop_manual: the end becomes known, or later.
EndTrigger(t, j) ==
  /\ first[t] # 0 /\ first[t] <= j /\ j < Open
  /\ last[t] = Open \/ last[t] < j
  /\ "late" \in faults \/ \A f \in Frags : expired[f] => f <= last[t] \/ j < f
  /\ last' = [last EXCEPT ![t] = j]
  /\ QueueScan(t)
  /\ UNCHANGED <<buffer, first, files, row, threads>>

\* stream-changed and RuntimeReconciler.enqueue_all.
QueueRecovery ==
  /\ "again" \in faults
  /\ queue' = queue \cup {Scan(0)}
  /\ UNCHANGED <<buffer, windows, files, row, threads>>

-----------------------------------------------------------------------------
(* The Huey consumer *)

\* A task leaves the queue before it runs.
Dequeue(w, k) ==
  /\ pc[w] = "idle"
  /\ "threads" \in faults \/ \A v \in Workers : pc[v] = "idle"
  /\ k \in queue
  /\ k.kind = "gc" => expired[k.key]
  /\ queue' = queue \ {k}
  /\ task' = [task EXCEPT ![w] = k]
  /\ pc' = [pc EXCEPT ![w] = k.kind]
  /\ cur' = [cur EXCEPT ![w] = IF k.kind = "scan" THEN 0 ELSE k.key]
  /\ UNCHANGED <<buffer, windows, files, row, todo, at, owns>>

\* The thread has nothing left to do.
Release(w) ==
  /\ pc' = [pc EXCEPT ![w] = "idle"]
  /\ task' = [task EXCEPT ![w] = NoTask]
  /\ cur' = [cur EXCEPT ![w] = 0]
  /\ todo' = [todo EXCEPT ![w] = {}]

Return(w) == Release(w) /\ UNCHANGED queue

\* The task raises: it is queued again while it has retries left.
Raise(w) ==
  /\ Release(w)
  /\ queue' = IF task[w].tries < Retries(task[w].kind)
              THEN queue \cup {[task[w] EXCEPT !.tries = @ + 1]} ELSE queue

\* _promote is done with its fragment: a scan takes the next one.
Promoted(w) ==
  IF task[w].kind = "scan"
  THEN /\ pc' = [pc EXCEPT ![w] = "next"]
       /\ cur' = [cur EXCEPT ![w] = 0]
       /\ UNCHANGED <<task, todo, queue>>
  ELSE Return(w)

Goto(w, step) ==
  /\ pc' = [pc EXCEPT ![w] = step]
  /\ UNCHANGED <<task, cur, todo, queue>>

Crash ==
  /\ "crash" \in faults
  /\ \E w \in Workers : pc[w] # "idle"
  /\ pc' = [w \in Workers |-> "idle"]
  /\ task' = [w \in Workers |-> NoTask]
  /\ cur' = [w \in Workers |-> 0]
  /\ todo' = [w \in Workers |-> {}]
  /\ at' = [w \in Workers |-> "none"]
  /\ owns' = [w \in Workers |-> FALSE]
  /\ UNCHANGED <<buffer, windows, files, row, queue>>

-----------------------------------------------------------------------------
(* reconcile_camera_prebuffer *)

ScanList(w) ==
  /\ pc[w] = "scan"
  /\ pc' = [pc EXCEPT ![w] = "next"]
  /\ todo' = [todo EXCEPT ![w] = {f \in Frags : src[f]}]
  /\ UNCHANGED <<buffer, windows, files, row, queue, task, cur, at, owns>>

\* The next file of the listing, in any order; is_file skips one that is gone.
ScanNext(w, f) ==
  /\ pc[w] = "next"
  /\ f \in todo[w]
  /\ todo' = [todo EXCEPT ![w] = @ \ {f}]
  /\ pc' = [pc EXCEPT ![w] = IF src[f] THEN "probe" ELSE "next"]
  /\ cur' = [cur EXCEPT ![w] = IF src[f] THEN f ELSE 0]
  /\ UNCHANGED <<buffer, windows, files, row, queue, task, at, owns>>

\* _probe_duration: ffprobe fails on a file that is gone or cannot be read, and
\* the scan with it.
Probe(w) ==
  /\ pc[w] = "probe"
  /\ IF ~src[cur[w]] \/ bad[cur[w]] THEN Raise(w) ELSE Goto(w, "promote")
  /\ UNCHANGED <<buffer, windows, files, row, at, owns>>

ScanEnd(w) ==
  /\ pc[w] = "next" /\ todo[w] = {}
  /\ Return(w)
  /\ UNCHANGED <<buffer, windows, files, row, at, owns>>

-----------------------------------------------------------------------------
(* _promote *)

\* _promotion_target
Select(w) ==
  /\ pc[w] = "promote"
  /\ \/ ~Required(cur[w]) /\ Promoted(w)
     \/ Required(cur[w]) /\ Goto(w, "prepare")
     \/ Required(cur[w]) /\ "full" \in faults /\ Raise(w)
  /\ UNCHANGED <<buffer, windows, files, row, at, owns>>

\* prepare: a published file of the right size needs no copy.
Prepare(w) ==
  /\ pc[w] = "prepare"
  /\ CASE dest[cur[w]] \in {"holed", "full"} -> Goto(w, "commit")
       [] dest[cur[w]] = "short" -> Raise(w)
       [] dest[cur[w]] = "none" /\ ~src[cur[w]] -> Raise(w)
       [] OTHER -> Goto(w, "open")
  /\ UNCHANGED <<buffer, windows, files, row, at, owns>>

\* Fault: what an earlier attempt has left is kept and verified.
ReusePartial(w) ==
  LET f == cur[w] IN
  /\ pc[w] = "open"
  /\ IF ~src[f]
     THEN Raise(w) /\ UNCHANGED <<partial, at, owns>>
     ELSE /\ Goto(w, IF partial[f] = "none" THEN "copy" ELSE "publish")
          /\ partial' = [partial EXCEPT ![f] = IF @ = "none" THEN "short" ELSE @]
          /\ at' = [at EXCEPT ![w] = IF partial[f] = "none" THEN "partial" ELSE @]
          /\ owns' = [owns EXCEPT ![w] = partial[f] = "none"]
  /\ UNCHANGED <<buffer, windows, dest, row>>

\* Fault: the copy is made under its final name.
OpenDestination(w) ==
  LET f == cur[w] IN
  /\ pc[w] = "open"
  /\ IF ~src[f]
     THEN Raise(w) /\ UNCHANGED <<partial, dest, at, owns>>
     ELSE /\ Goto(w, "copy")
          /\ partial' = [partial EXCEPT ![f] = "short"]
          /\ dest' = [dest EXCEPT ![f] = "short"]
          /\ at' = [at EXCEPT ![w] = "partial"]
          /\ owns' = [owns EXCEPT ![w] = TRUE]
  /\ UNCHANGED <<buffer, windows, row>>

\* copy2 opens the fragment, then creates or truncates the .partial file.
OpenPartial(w) ==
  LET f == cur[w] IN
  /\ pc[w] = "open"
  /\ IF ~src[f]
     THEN Raise(w) /\ UNCHANGED <<partial, at, owns>>
     ELSE /\ Goto(w, "copy")
          /\ partial' = [partial EXCEPT ![f] = "short"]
          /\ at' = [at EXCEPT ![w] = "partial"]
          /\ owns' = [v \in Workers |->
               v = w \/ (owns[v] /\ ~(cur[v] = f /\ at[v] = "partial"))]
  /\ UNCHANGED <<buffer, windows, dest, row>>

\* What a file is once a writer has written its last byte: bytes it wrote before
\* another writer truncated the file are missing.
Written(file, own) == IF own \/ file = "full" THEN "full" ELSE "holed"

NotWriting(w) ==
  /\ at' = [at EXCEPT ![w] = "none"]
  /\ owns' = [owns EXCEPT ![w] = FALSE]

\* The copy is complete, wherever the file now is.
CopyDone(w) ==
  LET f == cur[w] IN
  /\ pc[w] = "copy"
  /\ partial' = IF at[w] = "partial"
                THEN [partial EXCEPT ![f] = Written(@, owns[w])] ELSE partial
  /\ dest' = IF at[w] = "dest"
             THEN [dest EXCEPT ![f] = Written(@, owns[w])] ELSE dest
  /\ NotWriting(w)
  /\ Goto(w, "verify")
  /\ UNCHANGED <<buffer, windows, row>>

\* No room for the copy.
CopyFails(w) ==
  /\ "full" \in faults
  /\ pc[w] = "copy"
  /\ NotWriting(w)
  /\ Raise(w)
  /\ UNCHANGED <<buffer, windows, files, row>>

\* The others that write a file of f under the name go on under its new name.
Renamed(f, name, newName) ==
  at' = [v \in Workers |->
           IF cur[v] = f /\ at[v] = name THEN newName
           ELSE IF cur[v] = f /\ at[v] = newName THEN "none" ELSE at[v]]

\* copystat needs both names; then the size of the .partial file is compared, and
\* the file removed when it differs.
Verify(w) ==
  LET f == cur[w] IN
  /\ pc[w] = "verify"
  /\ CASE ~src[f] \/ partial[f] = "none" ->
            Raise(w) /\ UNCHANGED <<partial, at>>
       [] src[f] /\ partial[f] = "short" ->
            /\ partial' = [partial EXCEPT ![f] = "none"]
            /\ Renamed(f, "partial", "none")
            /\ Raise(w)
       [] OTHER -> Goto(w, "publish") /\ UNCHANGED <<partial, at>>
  /\ UNCHANGED <<buffer, windows, dest, row, owns>>

\* replace_durably
Publish(w) ==
  LET f == cur[w] IN
  /\ pc[w] = "publish"
  /\ IF partial[f] = "none"
     THEN Raise(w) /\ UNCHANGED <<files, at>>
     ELSE /\ dest' = [dest EXCEPT ![f] = partial[f]]
          /\ partial' = [partial EXCEPT ![f] = "none"]
          /\ Renamed(f, "partial", "dest")
          /\ Goto(w, "commit")
  /\ UNCHANGED <<buffer, windows, row, owns>>

\* PrebufferPromotionService.commit looks for the row ...
FindRow(w) ==
  /\ pc[w] = "commit"
  /\ IF row[cur[w]] THEN Promoted(w) ELSE Goto(w, "insert")
  /\ UNCHANGED <<buffer, windows, files, row, at, owns>>

\* ... and inserts it: a second insert breaks the unique constraint.
InsertRow(w) ==
  /\ pc[w] = "insert"
  /\ row' = [row EXCEPT ![cur[w]] = TRUE]
  /\ IF row[cur[w]] THEN Raise(w) ELSE Promoted(w)
  /\ UNCHANGED <<buffer, windows, files, at, owns>>

-----------------------------------------------------------------------------
(* gc_prebuffer_fragment *)

\* Fault: a fragment whose promotion has begun is not needed any more.
GcUnchecked(w) ==
  /\ pc[w] = "gc"
  /\ CASE ~src[cur[w]] -> Return(w)
       [] src[cur[w]] /\ Required(cur[w]) /\ partial[cur[w]] = "none" -> Goto(w, "gc-row")
       [] OTHER -> Goto(w, "unlink")
  /\ UNCHANGED <<buffer, windows, files, row, at, owns>>

GcBegin(w) ==
  /\ pc[w] = "gc"
  /\ CASE ~src[cur[w]] -> Return(w)
       [] src[cur[w]] /\ Required(cur[w]) -> Goto(w, "gc-row")
       [] OTHER -> Goto(w, "unlink")
  /\ UNCHANGED <<buffer, windows, files, row, at, owns>>

\* _canonical_available
GcRow(w) ==
  /\ pc[w] = "gc-row"
  /\ IF row[cur[w]] THEN Goto(w, "unlink") ELSE Raise(w)
  /\ UNCHANGED <<buffer, windows, files, row, at, owns>>

GcUnlink(w) ==
  /\ pc[w] = "unlink"
  /\ src' = [src EXCEPT ![cur[w]] = FALSE]
  /\ Return(w)
  /\ UNCHANGED <<made, bad, expired, hooks, windows, files, row, at, owns>>

-----------------------------------------------------------------------------
Init ==
  /\ faults \in Scenarios
  /\ made = 0
  /\ src = [f \in Frags |-> FALSE]
  /\ bad = src /\ expired = src /\ row = src
  /\ hooks = {}
  /\ first = [t \in Triggers |-> 0]
  /\ last = first
  /\ partial = [f \in Frags |-> "none"]
  /\ dest = partial
  /\ queue = {}
  /\ pc = [w \in Workers |-> "idle"]
  /\ task = [w \in Workers |-> NoTask]
  /\ cur = [w \in Workers |-> 0]
  /\ todo = [w \in Workers |-> {}]
  /\ at = [w \in Workers |-> "none"]
  /\ owns = [w \in Workers |-> FALSE]

TriggerStep ==
  \E t \in Triggers :
    \/ \E i \in Frags, j \in 1..Open : CreateTrigger(t, i, j)
    \/ \E j \in Frags : EndTrigger(t, j)

\* The steps of a thread within a task.
TaskStep(w) ==
  \/ ScanList(w) \/ Probe(w) \/ ScanEnd(w)
  \/ \E f \in Frags : ScanNext(w, f)
  \/ Select(w) \/ Prepare(w) \/ OpenPartial(w) \/ CopyDone(w) \/ CopyFails(w)
  \/ Verify(w) \/ Publish(w) \/ FindRow(w) \/ InsertRow(w)
  \/ GcBegin(w) \/ GcRow(w) \/ GcUnlink(w)

Next ==
  /\ \/ Finalize
     \/ \E f \in Frags : HandleHook(f) \/ LoseHook(f) \/ Expire(f)
     \/ TriggerStep \/ QueueRecovery \/ Crash
     \/ \E w \in Workers : TaskStep(w) \/ \E k \in queue : Dequeue(w, k)
  /\ UNCHANGED faults

Spec == Init /\ [][Next]_vars

\* Hooks are handled, time passes, and a thread goes on with its task and then
\* takes another one; which one is left open.
Fairness ==
  /\ \A f \in Frags : /\ WF_vars(HandleHook(f) /\ UNCHANGED faults)
                      /\ WF_vars(Expire(f) /\ UNCHANGED faults)
  /\ \A w \in Workers :
       WF_vars((TaskStep(w) \/ \E k \in queue : Dequeue(w, k)) /\ UNCHANGED faults)

FairSpec == Spec /\ Fairness

-----------------------------------------------------------------------------
Steps ==
  {"idle", "scan", "next", "probe", "promote", "prepare", "open", "copy",
   "verify", "publish", "commit", "insert", "gc", "gc-row", "unlink"}

Tasks == [kind : {"promote", "gc", "scan", "none"},
          key : Frags \cup Triggers \cup {0}, tries : Nat]

\* What changes has its type, and a thread at a step about a fragment has one.
Typed ==
  /\ made \in 0..NFrags
  /\ src \in [Frags -> BOOLEAN] /\ bad \in [Frags -> BOOLEAN]
  /\ expired \in [Frags -> BOOLEAN] /\ hooks \subseteq Frags
  /\ first \in [Triggers -> 0..NFrags] /\ last \in [Triggers -> 0..Open]
  /\ partial \in [Frags -> FileStates] /\ dest \in [Frags -> FileStates]
  /\ row \in [Frags -> BOOLEAN]
  /\ queue \subseteq Tasks
  /\ pc \in [Workers -> Steps] /\ task \in [Workers -> Tasks]
  /\ cur \in [Workers -> 0..NFrags] /\ todo \in [Workers -> SUBSET Frags]
  /\ at \in [Workers -> {"none", "partial", "dest"}]
  /\ owns \in [Workers -> BOOLEAN]
  /\ \A w \in Workers :
       pc[w] \in {"probe", "promote", "prepare", "open", "copy", "verify", "publish",
                  "commit", "insert", "gc", "gc-row", "unlink"} => cur[w] \in Frags

\* Every variable keeps its type.
TypeOK == faults \in Scenarios /\ Typed

\* A fragment that a trigger needs is only removed from the tmpfs once a
\* RecordingLocation is AVAILABLE for it, whatever the tasks meet.
\* (gc_prebuffer_fragment; spec 0003, "Before unlink, re-check eligibility.")
GcKeepsRequired ==
  [][\A f \in Frags : src[f] /\ ~src'[f] /\ Required(f) => row[f]]_vars

\* A fragment that a trigger needs exists, in the tmpfs or as a complete file in
\* storage.  (ADR 0010, invariant 6: "Promotion failure never deletes the only
\* required prebuffer copy before the failure is surfaced.")
RequiredMediaKept ==
  \A f \in Frags : f <= made /\ Required(f) => src[f] \/ dest[f] = "full"

\* The complete file behind an AVAILABLE row is never truncated or removed by
\* another attempt to promote the same fragment.
\* (PrebufferPromotionService.prepare, replace_durably)
PublishedCopyStays ==
  [][\A f \in Frags : row[f] /\ dest[f] = "full" => dest'[f] = "full"]_vars

\* An AVAILABLE row stands for a complete copy of the fragment, apart from one
\* that a thread is about to complete.  (ADR 0010, invariant 5: "Only
\* verified/published persistent fragments become canonical RecordingLocations.")
AvailableIsComplete ==
  \A f \in Frags : row[f] =>
    \/ dest[f] = "full"
    \/ \E w \in Workers : cur[w] = f /\ pc[w] = "copy" /\ at[w] = "dest" /\ owns[w]

\* When the worker runs one task at a time, whatever fails and whenever it dies:
\* a fragment that a trigger needs exists, and every AVAILABLE row stands for a
\* complete copy.  (promotion.prepare and replace_durably; ADR 0010, invariants
\* 5 and 6.)
AloneNothingIsLost ==
  "threads" \notin faults => RequiredMediaKept /\ AvailableIsComplete

\* A readable fragment that a trigger needs becomes a recording while it is needed.
\* (spec 0003: "protect/promote any fragment overlapping a still-required window")
RequiredPromoted ==
  \A f \in Frags : src[f] /\ ~bad[f] /\ Required(f) ~> row[f] \/ ~Required(f)

\* A finalized fragment leaves the tmpfs.  (gc_prebuffer_fragment; spec 0003:
\* "oldest finalized ephemeral files are deleted after the buffer window expires")
BufferDrains == \A f \in Frags : src[f] ~> ~src[f]
=============================================================================
