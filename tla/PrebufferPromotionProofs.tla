---------------------- MODULE PrebufferPromotionProofs ----------------------
(***************************************************************************)
(* Theorems about PrebufferPromotion, for any number of fragments,         *)
(* triggers, threads and retries.                                          *)
(***************************************************************************)
EXTENDS PrebufferPromotion, TLAPS

USE DEF Frags

LEMMA OpenIsNat == Open \in Nat /\ Frags \subseteq Nat /\ 0 \in 0..NFrags
BY PrebufferAssumption DEF Open

LEMMA NoTaskIsTask == NoTask \in Tasks
BY DEF NoTask, Task, Tasks

\* Typed is inductive with what it leaves open about tasks: one that is queued
\* or runs is of one of the three kinds, and about a fragment unless it is a scan.
Proper(k) ==
  /\ k \in Tasks
  /\ k.kind \in {"promote", "gc", "scan"}
  /\ k.kind # "scan" => k.key \in Frags

TasksProper ==
  /\ \A k \in queue : Proper(k)
  /\ \A w \in Workers : pc[w] # "idle" => Proper(task[w])

TypeInv == Typed /\ TasksProper

-----------------------------------------------------------------------------
(* The ways to leave a step *)

\* What they do to the queue and to the thread.
Leaves(w) ==
  /\ \A k \in queue' : Proper(k)
  /\ pc' \in [Workers -> Steps] /\ task' \in [Workers -> Tasks]
  /\ cur' \in [Workers -> 0..NFrags] /\ todo' \in [Workers -> SUBSET Frags]
  /\ \A v \in Workers \ {w} : pc'[v] = pc[v] /\ cur'[v] = cur[v] /\ task'[v] = task[v]
  /\ pc[w] = "next" \/ pc'[w] \in {"idle", "next"} \/ cur'[w] = cur[w]
  /\ pc'[w] # "idle" => task'[w] = task[w]

LEMMA ReturnLeaves ==
  ASSUME TypeInv, NEW w \in Workers, Return(w)
  PROVE  Leaves(w) /\ pc'[w] = "idle"
BY NoTaskIsTask, OpenIsNat
   DEF TypeInv, TasksProper, Typed, Return, Release, Leaves, Steps

LEMMA RaiseLeaves ==
  ASSUME TypeInv, NEW w \in Workers, pc[w] # "idle", Raise(w)
  PROVE  Leaves(w) /\ pc'[w] = "idle"
<1>1. Proper(task[w])
  BY DEF TypeInv, TasksProper
<1> DEFINE again == [task[w] EXCEPT !.tries = @ + 1]
<1>2. again \in Tasks /\ again.kind = task[w].kind /\ again.key = task[w].key
  BY <1>1 DEF Proper, Tasks
<1>3. Proper(again)
  BY <1>1, <1>2 DEF Proper
<1>4. \A k \in queue' : Proper(k)
  BY <1>3 DEF Raise, TypeInv, TasksProper
<1> QED
  BY <1>4, NoTaskIsTask, OpenIsNat DEF TypeInv, Typed, Raise, Release, Leaves, Steps

LEMMA GotoLeaves ==
  ASSUME TypeInv, NEW w \in Workers, NEW step \in Steps, Goto(w, step)
  PROVE  Leaves(w) /\ pc'[w] = step /\ cur'[w] = cur[w]
BY DEF TypeInv, TasksProper, Typed, Goto, Leaves

LEMMA PromotedLeaves ==
  ASSUME TypeInv, NEW w \in Workers, Promoted(w)
  PROVE  Leaves(w) /\ pc'[w] \in {"idle", "next"}
<1>1. CASE task[w].kind = "scan"
  <2>1. pc' = [pc EXCEPT ![w] = "next"] /\ cur' = [cur EXCEPT ![w] = 0]
        /\ UNCHANGED <<task, todo, queue>>
    BY <1>1 DEF Promoted
  <2>2. pc' \in [Workers -> Steps] /\ cur' \in [Workers -> 0..NFrags]
    BY <2>1, OpenIsNat DEF TypeInv, Typed, Steps
  <2> QED
    BY <2>1, <2>2 DEF TypeInv, TasksProper, Typed, Leaves
<1>2. CASE task[w].kind # "scan"
  BY <1>2, ReturnLeaves DEF Promoted
<1> QED
  BY <1>1, <1>2

\* The files and the row have their types.
FilesTyped ==
  /\ src \in [Frags -> BOOLEAN] /\ row \in [Frags -> BOOLEAN]
  /\ partial \in [Frags -> FileStates] /\ dest \in [Frags -> FileStates]
  /\ at \in [Workers -> {"none", "partial", "dest"}]
  /\ owns \in [Workers -> BOOLEAN]

Collecting == {"gc", "gc-row", "unlink"}

\* What every step of a task does.  Only a step that finds the fragment not
\* needed, or AVAILABLE, leads to its removal.
Stepped(w) ==
  /\ pc[w] # "idle"
  /\ Leaves(w)
  /\ FilesTyped'
  /\ UNCHANGED <<made, bad, expired, hooks, windows>>
  /\ pc[w] \in {"scan", "next"} => pc'[w] \in {"idle", "next"} \/ cur'[w] \in Frags
  /\ \A f \in Frags : row[f] => row'[f]
  /\ \A f \in Frags : src[f] /\ ~src'[f] => pc[w] = "unlink" /\ cur[w] = f
  /\ pc'[w] \in Collecting =>
       /\ pc[w] \in Collecting
       /\ cur'[w] = cur[w]
       /\ pc'[w] = "unlink" => ~Required(cur[w]) \/ row[cur[w]]

LEMMA ProbeStepped ==
  ASSUME TypeInv, NEW w \in Workers, Probe(w)
  PROVE  Stepped(w)
<1>1. pc[w] # "idle" /\ pc[w] \notin {"scan", "next"}
  BY DEF Probe
<1>2. FilesTyped' /\ UNCHANGED <<made, bad, expired, hooks, windows, row, src>>
  BY DEF Probe, TypeInv, Typed, FilesTyped, buffer, windows, files
<1>3. Leaves(w) /\ pc'[w] \notin Collecting
  <2>1. Raise(w) \/ Goto(w, "promote")
    BY DEF Probe
  <2>2. CASE Raise(w)
    BY <1>1, <2>2, RaiseLeaves DEF Collecting
  <2>3. CASE Goto(w, "promote")
    BY <2>3, GotoLeaves DEF Steps, Collecting
  <2> QED
    BY <2>1, <2>2, <2>3
<1> QED
  BY <1>1, <1>2, <1>3 DEF Stepped, Collecting

LEMMA SelectStepped ==
  ASSUME TypeInv, NEW w \in Workers, Select(w)
  PROVE  Stepped(w)
<1>1. pc[w] # "idle" /\ pc[w] \notin {"scan", "next"}
  BY DEF Select
<1>2. FilesTyped' /\ UNCHANGED <<made, bad, expired, hooks, windows, row, src>>
  BY DEF Select, TypeInv, Typed, FilesTyped, buffer, windows, files
<1>3. Leaves(w) /\ pc'[w] \notin Collecting
  <2>1. Promoted(w) \/ Goto(w, "prepare") \/ Raise(w)
    BY DEF Select
  <2>2. CASE Promoted(w)
    BY <2>2, PromotedLeaves DEF Collecting
  <2>3. CASE Goto(w, "prepare")
    BY <2>3, GotoLeaves DEF Steps, Collecting
  <2>4. CASE Raise(w)
    BY <1>1, <2>4, RaiseLeaves DEF Collecting
  <2> QED
    BY <2>1, <2>2, <2>3, <2>4
<1> QED
  BY <1>1, <1>2, <1>3 DEF Stepped, Collecting

LEMMA PrepareStepped ==
  ASSUME TypeInv, NEW w \in Workers, Prepare(w)
  PROVE  Stepped(w)
<1>1. pc[w] # "idle" /\ pc[w] \notin {"scan", "next"}
  BY DEF Prepare
<1>2. FilesTyped' /\ UNCHANGED <<made, bad, expired, hooks, windows, row, src>>
  BY DEF Prepare, TypeInv, Typed, FilesTyped, buffer, windows, files
<1>3. Leaves(w) /\ pc'[w] \notin Collecting
  <2>1. Goto(w, "commit") \/ Raise(w) \/ Goto(w, "open")
    BY DEF Prepare
  <2>2. CASE Goto(w, "commit")
    BY <2>2, GotoLeaves DEF Steps, Collecting
  <2>3. CASE Raise(w)
    BY <1>1, <2>3, RaiseLeaves DEF Collecting
  <2>4. CASE Goto(w, "open")
    BY <2>4, GotoLeaves DEF Steps, Collecting
  <2> QED
    BY <2>1, <2>2, <2>3, <2>4
<1> QED
  BY <1>1, <1>2, <1>3 DEF Stepped, Collecting

LEMMA OpenPartialStepped ==
  ASSUME TypeInv, NEW w \in Workers, OpenPartial(w)
  PROVE  Stepped(w)
<1>1. pc[w] # "idle" /\ pc[w] \notin {"scan", "next"}
  BY DEF OpenPartial
<1>2. FilesTyped' /\ UNCHANGED <<made, bad, expired, hooks, windows, row, src>>
  <2>1. UNCHANGED <<made, bad, expired, hooks, windows, row, src, dest>>
    BY DEF OpenPartial, buffer, windows
  <2>2. partial' \in [Frags -> FileStates]
    BY DEF OpenPartial, TypeInv, Typed, FileStates
  <2>3. at' \in [Workers -> {"none", "partial", "dest"}]
    BY DEF OpenPartial, TypeInv, Typed
  <2>4. owns' \in [Workers -> BOOLEAN]
    <3>1. CASE ~src[cur[w]]
      BY <3>1 DEF OpenPartial, TypeInv, Typed
    <3>2. CASE src[cur[w]]
      <4>1. owns' = [v \in Workers |->
              v = w \/ (owns[v] /\ ~(cur[v] = cur[w] /\ at[v] = "partial"))]
        BY <3>2 DEF OpenPartial
      <4> QED
        BY <4>1, Zenon
    <3> QED
      BY <3>1, <3>2
  <2> QED
    BY <2>1, <2>2, <2>3, <2>4 DEF FilesTyped, TypeInv, Typed
<1>3. Leaves(w) /\ pc'[w] \notin Collecting
  <2>1. Raise(w) \/ Goto(w, "copy")
    BY DEF OpenPartial
  <2>2. CASE Raise(w)
    BY <1>1, <2>2, RaiseLeaves DEF Collecting
  <2>3. CASE Goto(w, "copy")
    BY <2>3, GotoLeaves DEF Steps, Collecting
  <2> QED
    BY <2>1, <2>2, <2>3
<1> QED
  BY <1>1, <1>2, <1>3 DEF Stepped, Collecting

LEMMA CopyDoneStepped ==
  ASSUME TypeInv, NEW w \in Workers, CopyDone(w)
  PROVE  Stepped(w)
<1>1. pc[w] # "idle" /\ pc[w] \notin {"scan", "next"}
  BY DEF CopyDone
<1>2. FilesTyped' /\ UNCHANGED <<made, bad, expired, hooks, windows, row, src>>
  BY DEF CopyDone, TypeInv, Typed, FilesTyped, buffer, windows, files, FileStates, Written, NotWriting
<1>3. Leaves(w) /\ pc'[w] \notin Collecting
  <2>1. Goto(w, "verify")
    BY DEF CopyDone
  <2>2. CASE Goto(w, "verify")
    BY <2>2, GotoLeaves DEF Steps, Collecting
  <2> QED
    BY <2>1, <2>2
<1> QED
  BY <1>1, <1>2, <1>3 DEF Stepped, Collecting

LEMMA CopyFailsStepped ==
  ASSUME TypeInv, NEW w \in Workers, CopyFails(w)
  PROVE  Stepped(w)
<1>1. pc[w] # "idle" /\ pc[w] \notin {"scan", "next"}
  BY DEF CopyFails
<1>2. FilesTyped' /\ UNCHANGED <<made, bad, expired, hooks, windows, row, src>>
  BY DEF CopyFails, TypeInv, Typed, FilesTyped, buffer, windows, files, NotWriting
<1>3. Leaves(w) /\ pc'[w] \notin Collecting
  <2>1. Raise(w)
    BY DEF CopyFails
  <2>2. CASE Raise(w)
    BY <1>1, <2>2, RaiseLeaves DEF Collecting
  <2> QED
    BY <2>1, <2>2
<1> QED
  BY <1>1, <1>2, <1>3 DEF Stepped, Collecting

LEMMA VerifyStepped ==
  ASSUME TypeInv, NEW w \in Workers, Verify(w)
  PROVE  Stepped(w)
<1>1. pc[w] # "idle" /\ pc[w] \notin {"scan", "next"}
  BY DEF Verify
<1>2. FilesTyped' /\ UNCHANGED <<made, bad, expired, hooks, windows, row, src>>
  <2>1. UNCHANGED <<made, bad, expired, hooks, windows, row, src>> /\ UNCHANGED <<dest, owns>>
    BY DEF Verify, buffer, windows
  <2>2. partial' \in [Frags -> FileStates] /\ dest' \in [Frags -> FileStates]
    BY DEF Verify, TypeInv, Typed, FileStates, files
  <2>3. at' = at \/ Renamed(cur[w], "partial", "none") \/ Renamed(cur[w], "partial", "dest")
    BY DEF Verify
  <2>4. at' \in [Workers -> {"none", "partial", "dest"}]
    BY <2>3 DEF Renamed, TypeInv, Typed
  <2> QED
    BY <2>1, <2>2, <2>4 DEF FilesTyped, TypeInv, Typed
<1>3. Leaves(w) /\ pc'[w] \notin Collecting
  <2>1. Raise(w) \/ Goto(w, "publish")
    BY DEF Verify
  <2>2. CASE Raise(w)
    BY <1>1, <2>2, RaiseLeaves DEF Collecting
  <2>3. CASE Goto(w, "publish")
    BY <2>3, GotoLeaves DEF Steps, Collecting
  <2> QED
    BY <2>1, <2>2, <2>3
<1> QED
  BY <1>1, <1>2, <1>3 DEF Stepped, Collecting

LEMMA PublishStepped ==
  ASSUME TypeInv, NEW w \in Workers, Publish(w)
  PROVE  Stepped(w)
<1>1. pc[w] # "idle" /\ pc[w] \notin {"scan", "next"}
  BY DEF Publish
<1>2. FilesTyped' /\ UNCHANGED <<made, bad, expired, hooks, windows, row, src>>
  <2>1. UNCHANGED <<made, bad, expired, hooks, windows, row, src>> /\ UNCHANGED owns
    BY DEF Publish, buffer, windows
  <2>2. partial' \in [Frags -> FileStates] /\ dest' \in [Frags -> FileStates]
    <3>1. partial[cur[w]] \in FileStates
      BY DEF Publish, TypeInv, Typed
    <3>2. CASE files' = files
      BY <3>2 DEF files, TypeInv, Typed
    <3>3. CASE /\ dest' = [dest EXCEPT ![cur[w]] = partial[cur[w]]]
               /\ partial' = [partial EXCEPT ![cur[w]] = "none"]
      BY <3>1, <3>3 DEF TypeInv, Typed, FileStates
    <3> QED
      BY <3>2, <3>3 DEF Publish
  <2>3. at' = at \/ Renamed(cur[w], "partial", "none") \/ Renamed(cur[w], "partial", "dest")
    BY DEF Publish
  <2>4. at' \in [Workers -> {"none", "partial", "dest"}]
    BY <2>3 DEF Renamed, TypeInv, Typed
  <2> QED
    BY <2>1, <2>2, <2>4 DEF FilesTyped, TypeInv, Typed
<1>3. Leaves(w) /\ pc'[w] \notin Collecting
  <2>1. Raise(w) \/ Goto(w, "commit")
    BY DEF Publish
  <2>2. CASE Raise(w)
    BY <1>1, <2>2, RaiseLeaves DEF Collecting
  <2>3. CASE Goto(w, "commit")
    BY <2>3, GotoLeaves DEF Steps, Collecting
  <2> QED
    BY <2>1, <2>2, <2>3
<1> QED
  BY <1>1, <1>2, <1>3 DEF Stepped, Collecting

LEMMA FindRowStepped ==
  ASSUME TypeInv, NEW w \in Workers, FindRow(w)
  PROVE  Stepped(w)
<1>1. pc[w] # "idle" /\ pc[w] \notin {"scan", "next"}
  BY DEF FindRow
<1>2. FilesTyped' /\ UNCHANGED <<made, bad, expired, hooks, windows, row, src>>
  BY DEF FindRow, TypeInv, Typed, FilesTyped, buffer, windows, files
<1>3. Leaves(w) /\ pc'[w] \notin Collecting
  <2>1. Promoted(w) \/ Goto(w, "insert")
    BY DEF FindRow
  <2>2. CASE Promoted(w)
    BY <2>2, PromotedLeaves DEF Collecting
  <2>3. CASE Goto(w, "insert")
    BY <2>3, GotoLeaves DEF Steps, Collecting
  <2> QED
    BY <2>1, <2>2, <2>3
<1> QED
  BY <1>1, <1>2, <1>3 DEF Stepped, Collecting

LEMMA InsertRowStepped ==
  ASSUME TypeInv, NEW w \in Workers, InsertRow(w)
  PROVE  Stepped(w)
<1>1. pc[w] # "idle" /\ pc[w] \notin {"scan", "next"}
  BY DEF InsertRow
<1>2. /\ FilesTyped' /\ UNCHANGED <<made, bad, expired, hooks, windows, src>>
      /\ \A f \in Frags : row[f] => row'[f]
  BY DEF InsertRow, TypeInv, Typed, FilesTyped, buffer, windows, files
<1>3. Leaves(w) /\ pc'[w] \notin Collecting
  <2>1. Raise(w) \/ Promoted(w)
    BY DEF InsertRow
  <2>2. CASE Raise(w)
    BY <1>1, <2>2, RaiseLeaves DEF Collecting
  <2>3. CASE Promoted(w)
    BY <2>3, PromotedLeaves DEF Collecting
  <2> QED
    BY <2>1, <2>2, <2>3
<1> QED
  BY <1>1, <1>2, <1>3 DEF Stepped, Collecting

LEMMA ScanListStepped ==
  ASSUME TypeInv, NEW w \in Workers, ScanList(w)
  PROVE  Stepped(w)
<1>1. pc[w] = "scan" /\ FilesTyped'
      /\ UNCHANGED <<made, bad, expired, hooks, windows, row, src>>
  BY DEF ScanList, TypeInv, Typed, FilesTyped, buffer, windows, files
<1>2. Leaves(w) /\ pc'[w] = "next"
  BY DEF ScanList, TypeInv, TasksProper, Typed, Leaves, Steps
<1> QED
  BY <1>1, <1>2 DEF Stepped, Collecting

LEMMA ScanNextStepped ==
  ASSUME TypeInv, NEW w \in Workers, NEW f \in Frags, ScanNext(w, f)
  PROVE  Stepped(w)
<1>1. pc[w] = "next" /\ FilesTyped'
      /\ UNCHANGED <<made, bad, expired, hooks, windows, row, src>>
  BY DEF ScanNext, TypeInv, Typed, FilesTyped, buffer, windows, files
<1>2. pc'[w] \in {"next", "probe"} /\ (pc'[w] = "probe" => cur'[w] = f)
  BY DEF ScanNext, TypeInv, Typed
<1>3. pc' \in [Workers -> Steps] /\ cur' \in [Workers -> 0..NFrags]
      /\ todo' \in [Workers -> SUBSET Frags]
  BY OpenIsNat DEF ScanNext, TypeInv, Typed, Steps
<1> DEFINE old == /\ \A k \in queue' : Proper(k)
                  /\ task' \in [Workers -> Tasks]
                  /\ \A v \in Workers \ {w} : pc'[v] = pc[v] /\ cur'[v] = cur[v]
                  /\ task' = task
<1>4. old
  BY DEF ScanNext, TypeInv, TasksProper, Typed
<1> QED
  BY <1>1, <1>2, <1>3, <1>4 DEF Stepped, Leaves, Collecting

LEMMA ScanEndStepped ==
  ASSUME TypeInv, NEW w \in Workers, ScanEnd(w)
  PROVE  Stepped(w)
<1>1. pc[w] = "next" /\ FilesTyped'
      /\ UNCHANGED <<made, bad, expired, hooks, windows, row, src>>
  BY DEF ScanEnd, TypeInv, Typed, FilesTyped, buffer, windows, files
<1>2. Leaves(w) /\ pc'[w] = "idle"
  BY ReturnLeaves DEF ScanEnd
<1> QED
  BY <1>1, <1>2 DEF Stepped, Collecting

LEMMA GcBeginStepped ==
  ASSUME TypeInv, NEW w \in Workers, GcBegin(w)
  PROVE  Stepped(w)
<1>1. pc[w] = "gc" /\ FilesTyped'
      /\ UNCHANGED <<made, bad, expired, hooks, windows, row, src>>
  BY DEF GcBegin, TypeInv, Typed, FilesTyped, buffer, windows, files
<1>2. \/ Return(w)
      \/ Goto(w, "gc-row")
      \/ ~Required(cur[w]) /\ Goto(w, "unlink")
  <2>1. src[cur[w]] \in BOOLEAN
    BY <1>1 DEF TypeInv, Typed
  <2> QED
    BY <2>1 DEF GcBegin
<1>3. CASE Return(w)
  BY <1>1, <1>3, ReturnLeaves DEF Stepped, Collecting
<1>4. CASE Goto(w, "gc-row")
  BY <1>1, <1>4, GotoLeaves DEF Stepped, Collecting, Steps
<1>5. CASE ~Required(cur[w]) /\ Goto(w, "unlink")
  BY <1>1, <1>5, GotoLeaves DEF Stepped, Collecting, Steps
<1> QED
  BY <1>2, <1>3, <1>4, <1>5

LEMMA GcRowStepped ==
  ASSUME TypeInv, NEW w \in Workers, GcRow(w)
  PROVE  Stepped(w)
<1>1. pc[w] = "gc-row" /\ FilesTyped'
      /\ UNCHANGED <<made, bad, expired, hooks, windows, row, src>>
  BY DEF GcRow, TypeInv, Typed, FilesTyped, buffer, windows, files
<1>2. CASE row[cur[w]]
  <2>1. Goto(w, "unlink")
    BY <1>2 DEF GcRow
  <2> QED
    BY <1>1, <1>2, <2>1, GotoLeaves DEF Stepped, Collecting, Steps
<1>3. CASE ~row[cur[w]]
  <2>1. Raise(w)
    BY <1>3 DEF GcRow
  <2> QED
    BY <1>1, <2>1, RaiseLeaves DEF Stepped, Collecting
<1> QED
  BY <1>2, <1>3

LEMMA GcUnlinkStepped ==
  ASSUME TypeInv, NEW w \in Workers, GcUnlink(w)
  PROVE  Stepped(w)
<1>1. pc[w] = "unlink" /\ FilesTyped' /\ UNCHANGED <<made, bad, expired, hooks, windows, row>>
  BY DEF GcUnlink, TypeInv, Typed, FilesTyped, windows, files
<1>2. \A f \in Frags : src[f] /\ ~src'[f] => cur[w] = f
  BY DEF GcUnlink, TypeInv, Typed
<1>3. Leaves(w) /\ pc'[w] = "idle"
  BY ReturnLeaves DEF GcUnlink
<1> QED
  BY <1>1, <1>2, <1>3 DEF Stepped, Collecting

LEMMA TaskStepped ==
  ASSUME TypeInv, NEW w \in Workers, TaskStep(w)
  PROVE  Stepped(w)
BY ScanListStepped, ScanNextStepped, ScanEndStepped, ProbeStepped, SelectStepped,
   PrepareStepped, OpenPartialStepped, CopyDoneStepped, CopyFailsStepped,
   VerifyStepped, PublishStepped, FindRowStepped, InsertRowStepped,
   GcBeginStepped, GcRowStepped, GcUnlinkStepped
   DEF TaskStep

-----------------------------------------------------------------------------
(* Type correctness *)

LEMMA TaskTyped ==
  ASSUME TypeInv, NEW w \in Workers, Stepped(w)
  PROVE  TypeInv'
<1>1. /\ made' \in 0..NFrags /\ bad' \in [Frags -> BOOLEAN]
      /\ expired' \in [Frags -> BOOLEAN] /\ hooks' \subseteq Frags
      /\ first' \in [Triggers -> 0..NFrags] /\ last' \in [Triggers -> 0..Open]
  BY DEF TypeInv, Typed, windows, Stepped
<1>2. queue' \subseteq Tasks
  BY DEF Stepped, Leaves, Proper
<1>3. ASSUME NEW v \in Workers, pc'[v] \in Steps \ {"idle", "scan", "next"}
      PROVE  cur'[v] \in Frags
  <2>1. CASE v = w
    <3>1. CASE pc[w] \in {"scan", "next"}
      BY <1>3, <2>1, <3>1 DEF Stepped
    <3>2. CASE pc[w] \notin {"scan", "next"}
      <4>1. cur[w] \in Frags
        BY <3>2 DEF Stepped, TypeInv, Typed, Steps
      <4> QED
        BY <1>3, <2>1, <4>1 DEF Stepped, Leaves
    <3> QED
      BY <3>1, <3>2
  <2>2. CASE v # w
    BY <1>3, <2>2 DEF Stepped, Leaves, TypeInv, Typed, Steps
  <2> QED
    BY <2>1, <2>2
<1>4. Typed'
  BY <1>1, <1>2, <1>3 DEF Typed, Stepped, Leaves, FilesTyped, Steps
<1>5. TasksProper'
  BY DEF TypeInv, TasksProper, Stepped, Leaves
<1> QED
  BY <1>4, <1>5 DEF TypeInv

LEMMA NewTasksProper ==
  /\ \A f \in Frags : Proper(Task("promote", f)) /\ Proper(Task("gc", f))
  /\ \A t \in Triggers \cup {0} : Proper(Scan(t))
BY DEF Proper, Task, Scan, Tasks

\* The steps outside of a task keep the types of what they change.
LEMMA BufferTyped ==
  ASSUME TypeInv,
         Finalize \/ \E f \in Frags : HandleHook(f) \/ LoseHook(f) \/ Expire(f)
  PROVE  TypeInv'
<1>1. UNCHANGED <<windows, files, row, threads>>
  BY DEF Finalize, HandleHook, LoseHook, Expire
<1>2. made' \in 0..NFrags
  BY PrebufferAssumption DEF TypeInv, Typed, Finalize, HandleHook, LoseHook, Expire
<1>3. src' \in [Frags -> BOOLEAN] /\ expired' \in [Frags -> BOOLEAN]
  BY DEF TypeInv, Typed, Finalize, HandleHook, LoseHook, Expire
<1>4. bad' \in [Frags -> BOOLEAN]
  <2>1. bad' = bad \/ bad' = [bad EXCEPT ![made + 1] = TRUE]
    BY DEF Finalize, HandleHook, LoseHook, Expire
  <2> QED
    BY <2>1 DEF TypeInv, Typed
<1>5. hooks' \subseteq Frags
  <2>1. Finalize => made + 1 \in Frags
    BY PrebufferAssumption DEF Finalize, TypeInv, Typed
  <2> QED
    BY <2>1 DEF TypeInv, Typed, Finalize, HandleHook, LoseHook, Expire
<1>6. \A k \in queue' : Proper(k)
  BY NewTasksProper DEF TypeInv, TasksProper, Finalize, HandleHook, LoseHook, Expire
<1>7. queue' \subseteq Tasks
  BY <1>6 DEF Proper
<1> QED
  BY <1>1, <1>2, <1>3, <1>4, <1>5, <1>6, <1>7
     DEF TypeInv, Typed, TasksProper, windows, files, threads

LEMMA TriggerTyped ==
  ASSUME TypeInv, TriggerStep \/ QueueRecovery
  PROVE  TypeInv'
<1>1. UNCHANGED <<buffer, files, row, threads>>
  BY DEF TriggerStep, CreateTrigger, EndTrigger, QueueRecovery
<1>2. first' \in [Triggers -> 0..NFrags] /\ last' \in [Triggers -> 0..Open]
  <2>1. CASE QueueRecovery
    BY <2>1 DEF QueueRecovery, TypeInv, Typed, windows
  <2>2. ASSUME NEW t \in Triggers, NEW i \in Frags, NEW j \in 1..Open, CreateTrigger(t, i, j)
        PROVE  first' \in [Triggers -> 0..NFrags] /\ last' \in [Triggers -> 0..Open]
    <3>1. i \in 0..NFrags /\ j \in 0..Open
      BY OpenIsNat, PrebufferAssumption
    <3> QED
      BY <2>2, <3>1 DEF CreateTrigger, TypeInv, Typed
  <2>3. ASSUME NEW t \in Triggers, NEW j \in Frags, EndTrigger(t, j)
        PROVE  first' \in [Triggers -> 0..NFrags] /\ last' \in [Triggers -> 0..Open]
    <3>1. j \in 0..Open
      BY OpenIsNat, PrebufferAssumption DEF Open
    <3> QED
      BY <2>3, <3>1 DEF EndTrigger, TypeInv, Typed
  <2> QED
    BY <2>1, <2>2, <2>3 DEF TriggerStep
<1>3. \A k \in queue' : Proper(k)
  BY NewTasksProper
     DEF TypeInv, TasksProper, TriggerStep, CreateTrigger, EndTrigger, QueueRecovery,
         QueueScan
<1>4. queue' \subseteq Tasks
  BY <1>3 DEF Proper
<1> QED
  BY <1>1, <1>2, <1>3, <1>4 DEF TypeInv, Typed, TasksProper, buffer, files, threads

LEMMA DequeueTyped ==
  ASSUME TypeInv, NEW w \in Workers, NEW k \in queue, Dequeue(w, k)
  PROVE  TypeInv'
<1>1. Proper(k)
  BY DEF TypeInv, TasksProper
<1>2. UNCHANGED <<buffer, windows, files, row, todo, at, owns>> /\ queue' \subseteq queue
  BY DEF Dequeue
<1>3. pc' \in [Workers -> Steps] /\ task' \in [Workers -> Tasks]
  BY <1>1 DEF Dequeue, TypeInv, Typed, Steps, Proper
<1>4. cur' \in [Workers -> 0..NFrags]
  <2>1. (IF k.kind = "scan" THEN 0 ELSE k.key) \in 0..NFrags
    BY <1>1, OpenIsNat DEF Proper
  <2> QED
    BY <2>1 DEF Dequeue, TypeInv, Typed
<1>5. \A v \in Workers : pc'[v] \notin {"idle", "scan", "next"} => cur'[v] \in Frags
  BY <1>1 DEF Dequeue, TypeInv, Typed, Steps, Proper
<1>6. Typed'
  BY <1>2, <1>3, <1>4, <1>5 DEF TypeInv, Typed, buffer, windows, files
<1>7. TasksProper'
  BY <1>1, <1>2 DEF Dequeue, TypeInv, Typed, TasksProper
<1> QED
  BY <1>6, <1>7 DEF TypeInv

LEMMA CrashTyped ==
  ASSUME TypeInv, Crash
  PROVE  TypeInv'
BY NoTaskIsTask, OpenIsNat
   DEF Crash, TypeInv, Typed, TasksProper, Steps, buffer, windows, files

LEMMA TypeInit == Init => TypeInv
BY NoTaskIsTask, OpenIsNat, PrebufferAssumption
   DEF Init, TypeInv, Typed, TasksProper, Steps, FileStates, Open

LEMMA TypeNext == TypeInv /\ [Next]_vars => TypeInv'
<1> SUFFICES ASSUME TypeInv, [Next]_vars PROVE TypeInv'
  OBVIOUS
<1>1. CASE UNCHANGED vars
  BY <1>1 DEF TypeInv, Typed, TasksProper, vars, buffer, windows, files, threads
<1>2. CASE Next
  BY <1>2, BufferTyped, TriggerTyped, CrashTyped, TaskStepped, TaskTyped, DequeueTyped
     DEF Next
<1> QED
  BY <1>1, <1>2

\* The scenario is chosen once.
Chosen == faults \in Scenarios

LEMMA ScenarioFixed == [Next]_vars => faults' = faults
BY DEF Next, vars

LEMMA ScenarioStays == (Init => Chosen) /\ (Chosen /\ [Next]_vars => Chosen' /\ faults' = faults)
BY DEF Init, Chosen, Next, vars

\* Every variable keeps its type in every behaviour, whatever faults occur: the
\* steps on a fragment are only taken by a thread that has one.
THEOREM TypeCorrect == Spec => []TypeOK
<1>1. TypeInv /\ Chosen => TypeOK
  BY DEF TypeInv, TypeOK, Chosen
<1> QED
  BY <1>1, TypeInit, TypeNext, ScenarioStays, PTL DEF Spec

-----------------------------------------------------------------------------
(* Garbage collection *)

\* A thread that collects a fragment works on one whose buffer window is over and,
\* when it is about to unlink it, on one that is not needed or is AVAILABLE.
MayCollect(w) ==
  /\ expired[cur[w]]
  /\ pc[w] = "unlink" => ~Required(cur[w]) \/ row[cur[w]]

GcInv == \A w \in Workers : pc[w] \in Collecting => MayCollect(w)

LEMMA TaskKeepsGc ==
  ASSUME TypeInv, GcInv, NEW w \in Workers, Stepped(w)
  PROVE  GcInv'
<1> SUFFICES ASSUME NEW v \in Workers, pc'[v] \in Collecting
             PROVE  MayCollect(v)'
  BY DEF GcInv
<1>2. /\ pc[v] \in Collecting /\ cur'[v] = cur[v]
      /\ pc'[v] = "unlink" => ~Required(cur[v]) \/ row[cur[v]]
  <2>1. CASE v = w
    BY <2>1 DEF Stepped
  <2>2. CASE v # w
    BY <2>2 DEF Stepped, Leaves, GcInv, MayCollect
  <2> QED
    BY <2>1, <2>2
<1>3. cur[v] \in Frags
  BY <1>2 DEF TypeInv, Typed, Collecting
<1>4. expired[cur[v]]
  BY <1>2 DEF GcInv, MayCollect
<1>5. expired'[cur'[v]] /\ (row[cur[v]] => row'[cur'[v]])
  BY <1>2, <1>3, <1>4 DEF Stepped
<1>6. Required(cur[v])' => Required(cur[v])
  BY <1>2 DEF Stepped, windows, Required
<1> QED
  BY <1>2, <1>5, <1>6 DEF MayCollect

\* No trigger asks for a fragment whose buffer window is over.
LEMMA NoLateTrigger ==
  ASSUME "late" \notin faults, TypeInv, TriggerStep, NEW f \in Frags, expired[f], Required(f)'
  PROVE  Required(f)
<1>1. PICK u \in Triggers : first'[u] # 0 /\ first'[u] <= f /\ f <= last'[u]
  BY DEF Required
<1>2. ASSUME NEW t \in Triggers, NEW i \in Frags, NEW j \in 1..Open, CreateTrigger(t, i, j)
      PROVE  Required(f)
  <2>1. f < i
    BY <1>2 DEF CreateTrigger
  <2>2. first' = [first EXCEPT ![t] = i] /\ last' = [last EXCEPT ![t] = j]
    BY <1>2 DEF CreateTrigger
  <2>3. u # t
    BY <1>1, <2>1, <2>2, PrebufferAssumption DEF TypeInv, Typed
  <2> QED
    BY <1>1, <2>2, <2>3 DEF TypeInv, Typed, Required
<1>3. ASSUME NEW t \in Triggers, NEW j \in Frags, EndTrigger(t, j)
      PROVE  Required(f)
  <2>1. f <= last[t] \/ j < f
    BY <1>3 DEF EndTrigger
  <2>2. first' = first /\ last' = [last EXCEPT ![t] = j]
    BY <1>3 DEF EndTrigger
  <2>3. CASE u = t
    <3>1. last'[t] = j /\ f <= j
      BY <1>1, <2>2, <2>3 DEF TypeInv, Typed
    <3>2. f <= last[t]
      BY <2>1, <3>1, PrebufferAssumption
    <3> QED
      BY <1>1, <2>2, <2>3, <3>2 DEF Required
  <2>4. CASE u # t
    BY <1>1, <2>2, <2>4 DEF TypeInv, Typed, Required
  <2> QED
    BY <2>3, <2>4
<1> QED
  BY <1>2, <1>3 DEF TriggerStep

LEMMA TriggerKeepsGc ==
  ASSUME "late" \notin faults, TypeInv, GcInv, TriggerStep
  PROVE  GcInv'
<1>1. UNCHANGED <<buffer, files, row, threads>>
  BY DEF TriggerStep, CreateTrigger, EndTrigger
<1>2. \A f \in Frags : expired[f] /\ Required(f)' => Required(f)
  BY NoLateTrigger
<1>3. \A w \in Workers : pc[w] \in Collecting => cur[w] \in Frags
  BY DEF TypeInv, Typed, Collecting
<1> QED
  BY <1>1, <1>2, <1>3 DEF GcInv, MayCollect, buffer, threads

LEMMA OtherKeepsGc ==
  ASSUME TypeInv, GcInv, NEW w \in Workers,
         \/ Finalize
         \/ \E f \in Frags : HandleHook(f) \/ LoseHook(f) \/ Expire(f)
         \/ QueueRecovery \/ Crash
         \/ \E k \in queue : Dequeue(w, k)
  PROVE  GcInv'
<1>1. /\ UNCHANGED <<windows, row>>
      /\ \A f \in Frags : expired[f] => expired'[f]
  BY DEF Finalize, HandleHook, LoseHook, Expire, QueueRecovery, Crash, Dequeue, buffer,
         TypeInv, Typed
<1> SUFFICES ASSUME NEW v \in Workers, pc'[v] \in Collecting
             PROVE  MayCollect(v)'
  BY DEF GcInv
<1>3. CASE pc'[v] = pc[v] /\ cur'[v] = cur[v]
  <2>1. cur[v] \in Frags
    BY <1>3 DEF TypeInv, Typed, Collecting
  <2>2. Required(cur[v])' => Required(cur[v])
    BY <1>1, <1>3 DEF windows, Required
  <2>3. MayCollect(v)
    BY <1>3 DEF GcInv
  <2> QED
    BY <1>1, <1>3, <2>1, <2>2, <2>3 DEF MayCollect
<1>4. CASE ~(pc'[v] = pc[v] /\ cur'[v] = cur[v])
  <2>1. ~Crash
    BY DEF Crash, Collecting
  <2>2. PICK k \in queue : Dequeue(w, k)
    BY <1>4, <2>1
       DEF Finalize, HandleHook, LoseHook, Expire, QueueRecovery, threads
  <2>3. v = w /\ pc'[w] = k.kind
    BY <1>4, <2>2 DEF Dequeue, TypeInv, Typed
  <2>4. k.kind = "gc"
    BY <2>3 DEF TypeInv, TasksProper, Proper, Collecting
  <2>5. cur'[w] = k.key /\ expired[k.key] /\ expired' = expired
    BY <2>2, <2>4 DEF Dequeue, TypeInv, Typed, buffer
  <2> QED
    BY <2>3, <2>4, <2>5 DEF MayCollect
<1> QED
  BY <1>3, <1>4

LEMMA GcNext ==
  ASSUME "late" \notin faults, TypeInv, GcInv, [Next]_vars
  PROVE  GcInv'
<1>1. CASE UNCHANGED vars
  BY <1>1 DEF GcInv, MayCollect, Required, vars, buffer, windows, threads
<1>2. CASE TriggerStep
  BY <1>2, TriggerKeepsGc
<1>3. ASSUME NEW w \in Workers, TaskStep(w) PROVE GcInv'
  BY <1>3, TaskStepped, TaskKeepsGc
<1>4. CASE Workers = {}
  BY <1>4 DEF GcInv
<1>5. CASE Workers # {} /\ ~TriggerStep /\ Next /\ ~(\E w \in Workers : TaskStep(w))
  BY <1>5, OtherKeepsGc DEF Next
<1> QED
  BY <1>1, <1>2, <1>3, <1>4, <1>5

\* Only the last step of a collection removes a fragment from the tmpfs.
LEMMA OnlyUnlinkRemoves ==
  ASSUME TypeInv, GcInv, [Next]_vars,
         NEW f \in Frags, src[f], ~src'[f], Required(f)
  PROVE  row[f]
<1>1. PICK w \in Workers : TaskStep(w)
  BY DEF Next, Finalize, HandleHook, LoseHook, Expire, TriggerStep, CreateTrigger,
         EndTrigger, QueueRecovery, Crash, Dequeue, buffer, vars, TypeInv, Typed
<1>2. pc[w] = "unlink" /\ cur[w] = f
  BY <1>1, TaskStepped DEF Stepped
<1> QED
  BY <1>2 DEF GcInv, MayCollect, Collecting

\* No trigger arrives for fragments whose buffer window is over: it is configured
\* longer than pre-roll and the delivery of events take.
Timely == \A s \in Scenarios : "late" \notin s

\* As long as no trigger arrives for fragments whose buffer window is over,
\* gc_prebuffer_fragment never removes a fragment that a trigger needs and that is
\* not AVAILABLE, with any number of threads and whatever else fails.
THEOREM GcSafe == ASSUME Timely PROVE Spec => GcKeepsRequired
<1>1. Init => GcInv
  BY DEF Init, GcInv, Collecting
<1>2. Chosen /\ TypeInv /\ GcInv /\ [Next]_vars => GcInv'
  BY GcNext DEF Timely, Chosen
<1>3. TypeInv /\ GcInv /\ [Next]_vars =>
        [\A f \in Frags : src[f] /\ ~src'[f] /\ Required(f) => row[f]]_vars
  BY OnlyUnlinkRemoves
<1> QED
  BY <1>1, <1>2, <1>3, ScenarioStays, TypeInit, TypeNext, PTL DEF Spec, GcKeepsRequired

-----------------------------------------------------------------------------
(* What a step does to the files *)

Writing == {"open", "copy", "verify", "publish"}
Committing == {"commit", "insert"}

\* A step of a task that touches no file: it may look at them, and it begins to
\* write only where there is no published file.
Looks(w) ==
  /\ pc[w] # "copy"
  /\ UNCHANGED <<partial, dest, at, owns>>
  /\ \A f \in Frags : row'[f] => row[f] \/ (pc[w] = "insert" /\ f = cur[w])
  /\ pc'[w] \in Writing \union Committing => cur'[w] = cur[w] /\ cur[w] \in Frags
  /\ pc'[w] \notin {"copy", "verify"}
  /\ pc'[w] = "open" => dest[cur[w]] = "none"
  /\ pc'[w] = "publish" => pc[w] = "verify" /\ partial[cur[w]] \in {"holed", "full"}
  /\ pc'[w] \in Committing => pc[w] = "commit" \/ dest[cur[w]] \in {"holed", "full"}

\* The steps that do: the .partial file is created or truncated, ...
Opens(w) ==
  /\ pc[w] = "open" /\ pc'[w] = "copy" /\ cur'[w] = cur[w]
  /\ partial' = [partial EXCEPT ![cur[w]] = "short"]
  /\ at' = [at EXCEPT ![w] = "partial"]
  /\ owns' = [v \in Workers |-> v = w \/ (owns[v] /\ ~(cur[v] = cur[w] /\ at[v] = "partial"))]
  /\ UNCHANGED <<dest, row>>

\* ... written to its end, wherever it is by then, ...
Completes(w) ==
  /\ pc[w] = "copy" /\ pc'[w] = "verify" /\ cur'[w] = cur[w]
  /\ partial' = IF at[w] = "partial"
                THEN [partial EXCEPT ![cur[w]] = Written(@, owns[w])] ELSE partial
  /\ dest' = IF at[w] = "dest"
             THEN [dest EXCEPT ![cur[w]] = Written(@, owns[w])] ELSE dest
  /\ NotWriting(w) /\ UNCHANGED row

\* ... left as it is, ...
Stops(w) ==
  /\ pc[w] = "copy" /\ pc'[w] = "idle"
  /\ NotWriting(w) /\ UNCHANGED <<partial, dest, row>>

\* ... removed, ...
Removes(w) ==
  /\ pc[w] = "verify" /\ pc'[w] = "idle" /\ partial[cur[w]] = "short"
  /\ partial' = [partial EXCEPT ![cur[w]] = "none"]
  /\ Renamed(cur[w], "partial", "none") /\ UNCHANGED <<dest, owns, row>>

\* ... or published.
Publishes(w) ==
  /\ pc[w] = "publish" /\ pc'[w] = "commit" /\ cur'[w] = cur[w] /\ partial[cur[w]] # "none"
  /\ dest' = [dest EXCEPT ![cur[w]] = partial[cur[w]]]
  /\ partial' = [partial EXCEPT ![cur[w]] = "none"]
  /\ Renamed(cur[w], "partial", "dest") /\ UNCHANGED <<owns, row>>

LEMMA GotoGoes ==
  ASSUME TypeInv, NEW w \in Workers, NEW step \in Steps, Goto(w, step)
  PROVE  pc'[w] = step /\ cur'[w] = cur[w]
BY DEF TypeInv, Typed, Goto

LEMMA LooksAside ==
  ASSUME TypeInv, NEW w \in Workers,
         ScanList(w) \/ Probe(w) \/ ScanEnd(w) \/ Select(w) \/ (\E f \in Frags : ScanNext(w, f))
         \/ GcBegin(w) \/ GcRow(w) \/ GcUnlink(w)
  PROVE  Looks(w)
<1>1. UNCHANGED <<partial, dest, at, owns, row>> /\ pc[w] # "copy"
  BY DEF ScanList, Probe, ScanEnd, Select, ScanNext, GcBegin, GcRow, GcUnlink, files
<1>2. pc'[w] \notin Writing \union Committing
  <2>1. CASE ScanList(w) \/ \E f \in Frags : ScanNext(w, f)
    BY <2>1 DEF ScanList, ScanNext, Writing, Committing, TypeInv, Typed
  <2>2. CASE Return(w) \/ Raise(w) \/ Promoted(w)
    BY <2>2, ReturnLeaves, PromotedLeaves DEF Raise, Release, Writing, Committing, TypeInv, Typed
  <2>3. ASSUME NEW step \in {"promote", "prepare", "gc-row", "unlink"}, Goto(w, step)
        PROVE  pc'[w] \notin Writing \union Committing
    BY <2>3, GotoGoes DEF Steps, Writing, Committing
  <2> QED
    BY <2>1, <2>2, <2>3 DEF Probe, ScanEnd, Select, GcBegin, GcRow, GcUnlink
<1> QED
  BY <1>1, <1>2 DEF Looks, Writing, Committing

LEMMA LooksBegin ==
  ASSUME TypeInv, NEW w \in Workers, Prepare(w) \/ FindRow(w) \/ InsertRow(w)
  PROVE  Looks(w)
<1>1. /\ UNCHANGED <<partial, dest, at, owns>> /\ pc[w] \notin {"copy", "idle"}
      /\ \A f \in Frags : row'[f] => row[f] \/ (pc[w] = "insert" /\ f = cur[w])
  BY DEF Prepare, FindRow, InsertRow, files, TypeInv, Typed
<1>2. cur[w] \in Frags
  BY DEF Prepare, FindRow, InsertRow, TypeInv, Typed
<1>3. \/ pc'[w] \in {"idle", "next"}
      \/ pc'[w] = "open" /\ cur'[w] = cur[w] /\ dest[cur[w]] = "none"
      \/ pc'[w] = "commit" /\ cur'[w] = cur[w] /\ dest[cur[w]] \in {"holed", "full"}
      \/ pc'[w] = "insert" /\ cur'[w] = cur[w] /\ pc[w] = "commit"
  <2>1. CASE Raise(w) \/ Promoted(w)
    BY <2>1, PromotedLeaves DEF Raise, Release, TypeInv, Typed
  <2>2. CASE Prepare(w) /\ Goto(w, "commit") /\ dest[cur[w]] \in {"holed", "full"}
    BY <2>2, GotoGoes DEF Steps
  <2>3. CASE Prepare(w) /\ Goto(w, "open") /\ dest[cur[w]] \notin {"holed", "full", "short"}
    BY <1>2, <2>3, GotoGoes DEF Steps, TypeInv, Typed, FileStates
  <2>4. CASE FindRow(w) /\ Goto(w, "insert")
    BY <2>4, GotoGoes DEF Steps, FindRow
  <2>5. CASE Prepare(w) /\ ~Raise(w)
    <3>1. dest[cur[w]] \in FileStates
      BY <1>2 DEF TypeInv, Typed
    <3> QED
      BY <2>2, <2>3, <2>5, <3>1 DEF Prepare, FileStates
  <2> QED
    BY <2>1, <2>2, <2>3, <2>4, <2>5 DEF FindRow, InsertRow
<1> QED
  BY <1>1, <1>2, <1>3 DEF Looks, Writing, Committing

LEMMA OpenFiles ==
  ASSUME TypeInv, NEW w \in Workers, OpenPartial(w)
  PROVE  Looks(w) \/ Opens(w)
<1>1. CASE Raise(w) /\ UNCHANGED <<partial, at, owns>>
  BY <1>1 DEF OpenPartial, Raise, Release, Looks, Writing, Committing, TypeInv, Typed
<1>2. CASE Goto(w, "copy") /\ ~Raise(w)
  BY <1>2, GotoGoes DEF OpenPartial, Opens, Steps
<1>3. Goto(w, "copy") => ~Raise(w)
  BY GotoGoes DEF Raise, Release, Steps, TypeInv, Typed
<1> QED
  BY <1>1, <1>2, <1>3 DEF OpenPartial

LEMMA CopyFiles ==
  ASSUME TypeInv, NEW w \in Workers, CopyDone(w) \/ CopyFails(w)
  PROVE  Completes(w) \/ Stops(w)
<1>1. CASE CopyDone(w)
  BY <1>1, GotoGoes DEF CopyDone, Completes, Steps
<1>2. CASE CopyFails(w)
  BY <1>2 DEF CopyFails, Raise, Release, Stops, files, TypeInv, Typed
<1> QED
  BY <1>1, <1>2

LEMMA VerifyFiles ==
  ASSUME TypeInv, NEW w \in Workers, Verify(w)
  PROVE  Looks(w) \/ Removes(w)
<1>1. cur[w] \in Frags /\ src[cur[w]] \in BOOLEAN /\ partial[cur[w]] \in FileStates
  BY DEF Verify, TypeInv, Typed
<1>2. CASE ~src[cur[w]] \/ partial[cur[w]] = "none"
  BY <1>2 DEF Verify, Raise, Release, Looks, Writing, Committing, TypeInv, Typed
<1>3. CASE src[cur[w]] /\ partial[cur[w]] = "short"
  BY <1>3 DEF Verify, Raise, Release, Removes, TypeInv, Typed
<1>4. CASE src[cur[w]] /\ partial[cur[w]] \notin {"none", "short"}
  <2>1. Goto(w, "publish") /\ UNCHANGED <<partial, at, dest, row, owns>> /\ pc[w] = "verify"
    BY <1>4 DEF Verify
  <2>2. pc'[w] = "publish" /\ cur'[w] = cur[w]
    BY <2>1, GotoGoes DEF Steps
  <2> QED
    BY <1>1, <1>4, <2>1, <2>2 DEF Looks, Writing, Committing, FileStates
<1> QED
  BY <1>1, <1>2, <1>3, <1>4

LEMMA PublishFiles ==
  ASSUME TypeInv, NEW w \in Workers, Publish(w)
  PROVE  Looks(w) \/ Publishes(w)
<1>1. CASE partial[cur[w]] = "none"
  BY <1>1 DEF Publish, Raise, Release, Looks, Writing, Committing, files, TypeInv, Typed
<1>2. CASE partial[cur[w]] # "none"
  BY <1>2, GotoGoes DEF Publish, Publishes, Steps
<1> QED
  BY <1>1, <1>2

\* What a step of thread w does: nothing to what the others do, and one of these
\* to the files.
Works(w) ==
  /\ \A v \in Workers \ {w} : pc'[v] = pc[v] /\ cur'[v] = cur[v]
  /\ Looks(w) \/ Opens(w) \/ Completes(w) \/ Stops(w) \/ Removes(w) \/ Publishes(w)

LEMMA TaskWorks ==
  ASSUME TypeInv, NEW w \in Workers, TaskStep(w)
  PROVE  Works(w)
<1>1. \A v \in Workers \ {w} : pc'[v] = pc[v] /\ cur'[v] = cur[v]
  BY TaskStepped DEF Stepped, Leaves
<1>2. Looks(w) \/ Opens(w) \/ Completes(w) \/ Stops(w) \/ Removes(w) \/ Publishes(w)
  BY LooksAside, LooksBegin, OpenFiles, CopyFiles, VerifyFiles, PublishFiles DEF TaskStep
<1> QED
  BY <1>1, <1>2 DEF Works

\* A step of nobody: hooks, time, triggers, the queue, a crash.
Aside ==
  /\ UNCHANGED <<partial, dest, row>>
  /\ \A v \in Workers : \/ UNCHANGED <<pc[v], cur[v], at[v], owns[v]>>
                        \/ pc'[v] \notin Writing \union Committing /\ at'[v] = "none"

-----------------------------------------------------------------------------
(* Which files there are *)

\* Only a thread that copies writes a file; a file with the final name exists
\* once somebody writes it under that name, is about to commit it or has.
FilesKnown ==
  /\ \A w \in Workers : at[w] # "none" => pc[w] = "copy"
  /\ \A w \in Workers : at[w] = "dest" => dest[cur[w]] # "none"
  /\ \A w \in Workers : pc[w] \in Committing => dest[cur[w]] # "none"
  /\ \A f \in Frags : row[f] => dest[f] # "none"

LEMMA StepIs ==
  ASSUME TypeInv, FilesKnown, [Next]_vars
  PROVE  Aside \/ \E w \in Workers : TaskStep(w)
<1>1. CASE UNCHANGED vars
  BY <1>1 DEF vars, files, threads, Aside
<1>2. CASE Finalize \/ QueueRecovery \/ TriggerStep \/ \E f \in Frags : HandleHook(f) \/ LoseHook(f) \/ Expire(f)
  <2>1. UNCHANGED <<files, row, threads>>
    BY <1>2 DEF Finalize, QueueRecovery, TriggerStep, CreateTrigger, EndTrigger, HandleHook, LoseHook, Expire
  <2> QED
    BY <2>1 DEF files, threads, Aside
<1>3. CASE Crash
  BY <1>3 DEF Crash, files, Aside, Writing, Committing
<1>4. ASSUME NEW w \in Workers, NEW k \in queue, Dequeue(w, k) PROVE Aside
  <2>1. UNCHANGED <<files, row, at, owns>> /\ at[w] = "none"
    BY <1>4 DEF Dequeue, FilesKnown
  <2>2. pc'[w] = k.kind /\ \A v \in Workers \ {w} : pc'[v] = pc[v] /\ cur'[v] = cur[v]
    BY <1>4 DEF Dequeue, TypeInv, Typed
  <2>3. k.kind \notin Writing \union Committing
    BY DEF TypeInv, TasksProper, Proper, Writing, Committing
  <2> QED
    BY <2>1, <2>2, <2>3 DEF Aside, files
<1> QED
  BY <1>1, <1>2, <1>3, <1>4 DEF Next

LEMMA FilesAside ==
  ASSUME TypeInv, FilesKnown, Aside
  PROVE  FilesKnown'
BY DEF FilesKnown, Aside, Writing, Committing

LEMMA WrittenIs == \A file, own : Written(file, own) \in {"full", "holed"} /\ Written("full", own) = "full"
BY DEF Written

LEMMA AtWork ==
  ASSUME TypeInv, NEW w \in Workers, pc[w] \in Writing \union Committing
  PROVE  cur[w] \in Frags
BY DEF TypeInv, Typed, Writing, Committing

LEMMA FilesWork ==
  ASSUME TypeInv, FilesKnown, NEW w \in Workers, Works(w)
  PROVE  FilesKnown'
<1>1. CASE Looks(w)
  <2>1. at[w] = "none"
    BY <1>1 DEF Looks, FilesKnown, TypeInv, Typed
  <2> QED
    BY <1>1, <2>1 DEF Works, Looks, FilesKnown, Writing, Committing
<1>2. CASE Opens(w)
  BY <1>2 DEF Works, Opens, FilesKnown, Writing, Committing, TypeInv, Typed
<1>3. CASE Completes(w)
  <2>1. cur[w] \in Frags
    BY <1>3, AtWork DEF Completes, Writing
  <2>2. \A f \in Frags : dest[f] # "none" => dest'[f] # "none"
    BY <1>3, <2>1, WrittenIs DEF Completes, TypeInv, Typed
  <2>3. \A v \in Workers : at'[v] = IF v = w THEN "none" ELSE at[v]
    BY <1>3 DEF Completes, NotWriting, TypeInv, Typed
  <2>4. \A v \in Workers : (at[v] # "none" \/ pc[v] \in Committing) => cur[v] \in Frags
    BY AtWork DEF FilesKnown, Writing
  <2> QED
    BY <1>3, <2>2, <2>3, <2>4 DEF Works, Completes, FilesKnown, Committing
<1>4. CASE Stops(w)
  BY <1>4 DEF Works, Stops, NotWriting, FilesKnown, Committing, TypeInv, Typed
<1>5. CASE Removes(w)
  <2>1. at[w] = "none"
    BY <1>5 DEF Removes, FilesKnown, TypeInv, Typed
  <2>2. \A v \in Workers : at'[v] \in {at[v], "none"}
    BY <1>5 DEF Removes, Renamed
  <2> QED
    BY <1>5, <2>1, <2>2 DEF Works, Removes, FilesKnown, Committing
<1>6. CASE Publishes(w)
  <2>1. cur[w] \in Frags
    BY <1>6, AtWork DEF Publishes, Writing
  <2>2. dest'[cur[w]] # "none" /\ \A f \in Frags : dest[f] # "none" => dest'[f] # "none"
    BY <1>6, <2>1 DEF Publishes, TypeInv, Typed
  <2>3. \A v \in Workers : /\ at'[v] # "none" => at[v] # "none"
                           /\ at'[v] = "dest" => cur[v] = cur[w] \/ at[v] = "dest"
    BY <1>6 DEF Publishes, Renamed
  <2>4. at[w] = "none"
    BY <1>6 DEF Publishes, FilesKnown, TypeInv, Typed
  <2>5. \A v \in Workers : (at[v] # "none" \/ pc[v] \in Committing) => cur[v] \in Frags
    BY AtWork DEF FilesKnown, Writing
  <2> QED
    BY <1>6, <2>2, <2>3, <2>4, <2>5 DEF Works, Publishes, FilesKnown, Committing
<1> QED
  BY <1>1, <1>2, <1>3, <1>4, <1>5, <1>6 DEF Works

LEMMA FilesNext == TypeInv /\ FilesKnown /\ [Next]_vars => FilesKnown'
BY StepIs, TaskWorks, FilesAside, FilesWork

-----------------------------------------------------------------------------
(* One task at a time *)

\* The thread that is at work is the only one.
OneAtWork ==
  "threads" \notin faults =>
    \A v, w \in Workers : pc[v] # "idle" /\ pc[w] # "idle" => v = w

LEMMA TaskBusy == \A w \in Workers : TaskStep(w) => pc[w] # "idle"
BY DEF TaskStep, ScanList, Probe, ScanEnd, ScanNext, Select, Prepare, OpenPartial, CopyDone, CopyFails,
   Verify, Publish, FindRow, InsertRow, GcBegin, GcRow, GcUnlink

LEMMA OneStays ==
  ASSUME TypeInv, OneAtWork, [Next]_vars
  PROVE  OneAtWork'
<1> SUFFICES ASSUME "threads" \notin faults, NEW u \in Workers, NEW v \in Workers,
                    pc'[u] # "idle", pc'[v] # "idle"
             PROVE  u = v
  BY ScenarioFixed DEF OneAtWork
<1>1. ASSUME NEW w \in Workers, TaskStep(w) PROVE u = v
  <2>1. pc[w] # "idle" /\ \A x \in Workers \ {w} : pc'[x] = pc[x]
    BY <1>1, TaskStepped, TaskBusy DEF Stepped, Leaves
  <2> QED
    BY <2>1 DEF OneAtWork
<1>2. ASSUME NEW w \in Workers, NEW k \in queue, Dequeue(w, k) PROVE u = v
  BY <1>2 DEF Dequeue, TypeInv, Typed
<1>3. CASE ~\E w \in Workers : TaskStep(w) \/ \E k \in queue : Dequeue(w, k)
  <2>1. pc' = pc \/ Crash
    BY <1>3 DEF Next, vars, threads, Finalize, QueueRecovery, TriggerStep, CreateTrigger, EndTrigger,
       HandleHook, LoseHook, Expire
  <2>2. ~Crash
    BY DEF Crash
  <2> QED
    BY <2>1, <2>2 DEF OneAtWork
<1> QED
  BY <1>1, <1>2, <1>3

\* Fragments that have left the tmpfs were collected: not needed, or AVAILABLE.
GoneInv ==
  \A f \in Frags : (f <= made /\ ~src[f]) => expired[f] /\ (~Required(f) \/ row[f])

\* What is published is complete, and so is what a thread has verified.
AloneInv ==
  /\ \A f \in Frags : dest[f] \in {"none", "full"}
  /\ \A w \in Workers :
       /\ pc[w] = "copy" => at[w] = "partial" /\ owns[w]
       /\ pc[w] \in {"verify", "publish"} => partial[cur[w]] = "full"

\* The idle threads do nothing to a file.
LEMMA OthersIdle ==
  ASSUME "threads" \notin faults, OneAtWork, NEW w \in Workers, pc[w] # "idle", Works(w)
  PROVE  \A v \in Workers \ {w} : pc'[v] = "idle"
BY DEF OneAtWork, Works

LEMMA AloneKept ==
  ASSUME "threads" \notin faults, OneAtWork, TypeInv, FilesKnown, AloneInv, [Next]_vars
  PROVE  AloneInv'
<1>1. CASE Aside
  BY <1>1 DEF Aside, AloneInv, Writing
<1>2. ASSUME NEW w \in Workers, TaskStep(w) PROVE AloneInv'
  <2>1. Works(w) /\ \A v \in Workers \ {w} : pc'[v] = "idle"
    BY <1>2, TaskWorks, TaskBusy, OthersIdle
  <2>2. SUFFICES /\ \A f \in Frags : dest'[f] \in {"none", "full"}
                 /\ pc'[w] = "copy" => at'[w] = "partial" /\ owns'[w]
                 /\ pc'[w] \in {"verify", "publish"} => partial'[cur'[w]] = "full"
    BY <2>1 DEF AloneInv
  <2>3. CASE Looks(w)
    BY <2>3 DEF Looks, AloneInv, Writing
  <2>4. CASE Opens(w)
    BY <2>4 DEF Opens, AloneInv, TypeInv, Typed
  <2>5. CASE Completes(w)
    <3>1. cur[w] \in Frags
      BY <2>5, AtWork DEF Completes, Writing
    <3>2. at[w] = "partial" /\ owns[w]
      BY <2>5 DEF Completes, AloneInv
    <3>3. dest' = dest /\ partial'[cur[w]] = "full" /\ pc'[w] = "verify" /\ cur'[w] = cur[w]
      BY <2>5, <3>1, <3>2 DEF Completes, Written, TypeInv, Typed
    <3> QED
      BY <3>3 DEF AloneInv
  <2>6. CASE Stops(w)
    BY <2>6 DEF Stops, AloneInv
  <2>7. CASE Removes(w)
    BY <2>7 DEF Removes, AloneInv
  <2>8. CASE Publishes(w)
    <3>1. cur[w] \in Frags
      BY <2>8, AtWork DEF Publishes, Writing
    <3>2. partial[cur[w]] = "full"
      BY <2>8 DEF Publishes, AloneInv
    <3> QED
      BY <2>8, <3>1, <3>2 DEF Publishes, AloneInv, TypeInv, Typed
  <2> QED
    BY <2>1, <2>3, <2>4, <2>5, <2>6, <2>7, <2>8 DEF Works
<1> QED
  BY <1>1, <1>2, StepIs

LEMMA GoneKept ==
  ASSUME "late" \notin faults, TypeInv, GcInv, GoneInv, [Next]_vars
  PROVE  GoneInv'
<1>1. ASSUME NEW w \in Workers, TaskStep(w) PROVE GoneInv'
  <2>1. Stepped(w)
    BY <1>1, TaskStepped
  <2> SUFFICES ASSUME NEW f \in Frags, f <= made', ~src'[f]
               PROVE  expired'[f] /\ (~Required(f)' \/ row'[f])
    BY DEF GoneInv
  <2>2. /\ made' = made /\ expired' = expired /\ (Required(f)' => Required(f)) /\ (row[f] => row'[f])
    BY <2>1 DEF Stepped, windows, Required
  <2>3. CASE src[f]
    <3>1. pc[w] = "unlink" /\ cur[w] = f
      BY <2>1, <2>3 DEF Stepped
    <3> QED
      BY <2>2, <3>1 DEF GcInv, MayCollect, Collecting
  <2>4. CASE ~src[f]
    BY <2>2, <2>4 DEF GoneInv
  <2> QED
    BY <2>3, <2>4
<1>2. CASE TriggerStep
  <2>1. UNCHANGED <<made, src, expired, row>>
    BY <1>2 DEF TriggerStep, CreateTrigger, EndTrigger, buffer
  <2> QED
    BY <1>2, <2>1, NoLateTrigger DEF GoneInv
<1>3. CASE ~TriggerStep /\ ~(\E w \in Workers : TaskStep(w))
  <2>1. /\ UNCHANGED <<first, last, row>> /\ \A f \in Frags : expired[f] => expired'[f]
    BY <1>3 DEF Next, Finalize, HandleHook, LoseHook, Expire, QueueRecovery, Crash, Dequeue, buffer, windows, vars,
       TypeInv, Typed
  <2>2. \A f \in Frags : (f <= made' /\ ~src'[f]) => f <= made /\ ~src[f]
    BY <1>3, PrebufferAssumption
    DEF Next, Finalize, HandleHook, LoseHook, Expire, QueueRecovery, Crash, Dequeue, buffer, vars, TypeInv, Typed
  <2>3. \A f \in Frags : Required(f)' => Required(f)
    BY <2>1 DEF Required
  <2> QED
    BY <2>1, <2>2, <2>3 DEF GoneInv
<1> QED
  BY <1>1, <1>2, <1>3

\* When the worker runs one task at a time and no trigger arrives for fragments
\* whose buffer window is over, a fragment that a trigger needs exists, in the
\* tmpfs or as a complete file, and every AVAILABLE row stands for a complete
\* file, whatever fails and whenever the worker dies (promotion.prepare,
\* replace_durably, gc_prebuffer_fragment).
THEOREM NothingIsLost == ASSUME Timely PROVE Spec => []AloneNothingIsLost
<1> DEFINE Inv == /\ Chosen /\ TypeInv /\ GcInv /\ FilesKnown /\ GoneInv /\ OneAtWork
                  /\ "threads" \notin faults => AloneInv
<1>1. Init => Inv
  <2> SUFFICES ASSUME Init PROVE Inv
    OBVIOUS
  <2>1. TypeInv /\ Chosen
    BY TypeInit, ScenarioStays
  <2> QED
    BY <2>1 DEF Init, GcInv, FilesKnown, GoneInv, AloneInv, Collecting, Committing, OneAtWork
<1>2. Inv /\ [Next]_vars => Inv'
  <2> SUFFICES ASSUME Inv, [Next]_vars PROVE Inv'
    OBVIOUS
  <2>1. "late" \notin faults /\ faults' = faults /\ Chosen'
    BY ScenarioStays DEF Timely, Chosen
  <2>2. TypeInv' /\ GcInv' /\ FilesKnown' /\ GoneInv' /\ OneAtWork'
    BY <2>1, TypeNext, GcNext, FilesNext, GoneKept, OneStays
  <2>3. "threads" \notin faults => AloneInv'
    BY AloneKept
  <2> QED
    BY <2>1, <2>2, <2>3
<1>3. Inv => AloneNothingIsLost
  <2> SUFFICES ASSUME Inv, "threads" \notin faults PROVE RequiredMediaKept /\ AvailableIsComplete
    BY DEF AloneNothingIsLost
  <2>1. \A f \in Frags : row[f] => dest[f] = "full"
    BY DEF FilesKnown, AloneInv
  <2> QED
    BY <2>1 DEF GoneInv, RequiredMediaKept, AvailableIsComplete
<1> HIDE DEF Inv
<1> QED
  BY <1>1, <1>2, <1>3, PTL DEF Spec

-----------------------------------------------------------------------------
(* Two threads *)

\* Once there is a published file, one thread at most still writes the fragment.
LastWriter ==
  \A v, w \in Workers :
    (pc[v] \in Writing /\ pc[w] \in Writing /\ cur[v] = cur[w] /\ dest[cur[v]] # "none") => v = w

\* It has either lost the file it wrote to the one who published, or writes a
\* file of its own from the start: what it publishes in turn is complete.
LastCopyWhole ==
  \A w \in Workers : (pc[w] \in Writing /\ dest[cur[w]] # "none") =>
    /\ (pc[w] = "copy" /\ at[w] = "partial") => owns[w]
    /\ (pc[w] = "copy" /\ at[w] # "partial") => partial[cur[w]] = "none"
    /\ pc[w] \in {"verify", "publish"} => partial[cur[w]] \in {"none", "full"}

AtMostTwo == \A u, v, w \in Workers : u = v \/ v = w \/ u = w

LEMMA PairAside ==
  ASSUME LastWriter, LastCopyWhole, Aside
  PROVE  LastWriter' /\ LastCopyWhole'
<1>1. \A v \in Workers : pc'[v] \in Writing => UNCHANGED <<pc[v], cur[v], at[v], owns[v]>>
  BY DEF Aside
<1>2. LastWriter'
  BY <1>1 DEF LastWriter, Aside
<1>3. LastCopyWhole'
  BY <1>1 DEF LastCopyWhole, Aside
<1> QED
  BY <1>2, <1>3

LEMMA PairWork ==
  ASSUME AtMostTwo, TypeInv, FilesKnown, LastWriter, LastCopyWhole, NEW w \in Workers, Works(w)
  PROVE  LastWriter' /\ LastCopyWhole'
<1>1. \A v \in Workers \ {w} : pc'[v] = pc[v] /\ cur'[v] = cur[v]
  BY DEF Works
<1>2. \A v \in Workers : pc[v] \in Writing => cur[v] \in Frags
  BY AtWork
<1>3. CASE Looks(w)
  <2>1. pc'[w] \in Writing => cur'[w] = cur[w] /\ (pc[w] \in Writing \/ dest[cur[w]] = "none")
    BY <1>3 DEF Looks, Writing
  <2>2. LastWriter'
    BY <1>1, <1>3, <2>1 DEF Looks, LastWriter
  <2>3. LastCopyWhole'
    BY <1>1, <1>3, <2>1 DEF Looks, LastCopyWhole, Writing
  <2> QED
    BY <2>2, <2>3
<1>4. CASE Opens(w)
  <2>1. /\ pc[w] = "open" /\ pc'[w] = "copy" /\ cur'[w] = cur[w] /\ dest' = dest
        /\ at'[w] = "partial" /\ owns'[w]
        /\ \A f \in Frags \ {cur[w]} : partial'[f] = partial[f]
    BY <1>4 DEF Opens, TypeInv, Typed
  <2>2. \A v \in Workers \ {w} : at'[v] = at[v] /\ (cur[v] # cur[w] /\ owns[v] => owns'[v])
    BY <1>4 DEF Opens, TypeInv, Typed
  <2>3. \A v \in Workers \ {w} : (pc[v] \in Writing /\ dest[cur[v]] # "none") => cur[v] # cur[w]
    BY <2>1 DEF LastWriter, Writing
  <2>4. LastWriter'
    BY <1>1, <2>1 DEF LastWriter, Writing
  <2>5. LastCopyWhole'
    BY <1>1, <1>2, <2>1, <2>2, <2>3 DEF LastCopyWhole, Writing
  <2> QED
    BY <2>4, <2>5
<1>5. CASE Completes(w)
  <2>1. pc[w] = "copy" /\ pc'[w] = "verify" /\ cur'[w] = cur[w] /\ cur[w] \in Frags
    BY <1>2, <1>5 DEF Completes, Writing
  <2>2. \A f \in Frags : dest'[f] # "none" => dest[f] # "none"
    BY <1>5, <2>1 DEF Completes, FilesKnown, TypeInv, Typed
  <2>3. \A v \in Workers \ {w} : at'[v] = at[v] /\ (owns[v] => owns'[v])
    BY <1>5 DEF Completes, NotWriting, TypeInv, Typed
  <2>4. \A f \in Frags \ {cur[w]} : partial'[f] = partial[f]
    BY <1>5 DEF Completes, TypeInv, Typed
  <2>5. dest[cur[w]] # "none" => partial'[cur[w]] \in {"none", "full"}
    <3>1. CASE at[w] = "partial"
      BY <1>5, <2>1, <3>1 DEF Completes, LastCopyWhole, Written, Writing, TypeInv, Typed
    <3>2. CASE at[w] # "partial"
      BY <1>5, <2>1, <3>2 DEF Completes, LastCopyWhole, Writing
    <3> QED
      BY <3>1, <3>2
  <2>6. \A v \in Workers \ {w} : (pc[v] \in Writing /\ dest[cur[v]] # "none") => cur[v] # cur[w]
    BY <2>1 DEF LastWriter, Writing
  <2>7. LastWriter'
    BY <1>1, <1>2, <2>1, <2>2 DEF LastWriter, Writing
  <2>8. LastCopyWhole'
    BY <1>1, <1>2, <2>1, <2>2, <2>3, <2>4, <2>5, <2>6 DEF LastCopyWhole, Writing
  <2> QED
    BY <2>7, <2>8
<1>6. CASE Stops(w)
  <2>1. pc'[w] \notin Writing /\ UNCHANGED <<partial, dest>>
    BY <1>6 DEF Stops, Writing
  <2>2. \A v \in Workers \ {w} : at'[v] = at[v] /\ (owns[v] => owns'[v])
    BY <1>6 DEF Stops, NotWriting, TypeInv, Typed
  <2> QED
    BY <1>1, <2>1, <2>2 DEF LastWriter, LastCopyWhole
<1>7. CASE Removes(w)
  <2>1. pc'[w] \notin Writing /\ UNCHANGED <<dest, owns>> /\ pc[w] = "verify" /\ cur[w] \in Frags
    BY <1>2, <1>7 DEF Removes, Writing
  <2>2. dest[cur[w]] = "none"
    BY <1>7, <2>1 DEF Removes, LastCopyWhole, Writing
  <2>3. \A v \in Workers : cur[v] # cur[w] => at'[v] = at[v]
    BY <1>7 DEF Removes, Renamed
  <2>4. \A f \in Frags \ {cur[w]} : partial'[f] = partial[f]
    BY <1>7 DEF Removes, TypeInv, Typed
  <2>5. LastWriter'
    BY <1>1, <2>1 DEF LastWriter
  <2>6. LastCopyWhole'
    BY <1>1, <1>2, <2>1, <2>2, <2>3, <2>4 DEF LastCopyWhole
  <2> QED
    BY <2>5, <2>6
<1>8. CASE Publishes(w)
  <2>1. pc[w] = "publish" /\ pc'[w] = "commit" /\ cur'[w] = cur[w] /\ cur[w] \in Frags /\ owns' = owns
    BY <1>2, <1>8 DEF Publishes, Writing
  <2>2. /\ partial'[cur[w]] = "none"
        /\ \A f \in Frags \ {cur[w]} : partial'[f] = partial[f] /\ dest'[f] = dest[f]
    BY <1>8, <2>1 DEF Publishes, TypeInv, Typed
  <2>3. \A v \in Workers : /\ cur[v] = cur[w] => at'[v] # "partial"
                           /\ cur[v] # cur[w] => at'[v] = at[v]
    BY <1>8 DEF Publishes, Renamed
  <2>4. pc'[w] \notin Writing
    BY <2>1 DEF Writing
  <2>5. LastWriter'
    <3> SUFFICES ASSUME NEW u \in Workers, NEW v \in Workers, pc'[u] \in Writing, pc'[v] \in Writing
                 PROVE  u = v
      BY DEF LastWriter
    <3> QED
      BY <2>4 DEF AtMostTwo
  <2>6. LastCopyWhole'
    BY <1>1, <1>2, <2>1, <2>2, <2>3, <2>4 DEF LastCopyWhole
  <2> QED
    BY <2>5, <2>6
<1> QED
  BY <1>3, <1>4, <1>5, <1>6, <1>7, <1>8 DEF Works

\* Whoever publishes over a published file publishes a complete one.
LEMMA FullStays ==
  ASSUME TypeInv, LastCopyWhole, NEW w \in Workers, Works(w), NEW f \in Frags, row[f], dest[f] = "full"
  PROVE  dest'[f] = "full"
<1>1. CASE Looks(w) \/ Opens(w) \/ Stops(w) \/ Removes(w)
  BY <1>1 DEF Looks, Opens, Stops, Removes
<1>2. CASE Completes(w)
  BY <1>2, WrittenIs DEF Completes, TypeInv, Typed
<1>3. CASE Publishes(w)
  <2>1. cur[w] = f => partial[f] = "full"
    BY <1>3 DEF Publishes, LastCopyWhole, Writing
  <2> QED
    BY <1>3, <2>1 DEF Publishes, TypeInv, Typed
<1> QED
  BY <1>1, <1>2, <1>3 DEF Works

\* With at most two worker threads, the default of docker-compose.yml, no attempt
\* to promote a fragment again truncates, removes or replaces by an incomplete
\* one the complete file behind an AVAILABLE row, whatever fails and whenever the
\* worker dies (PrebufferPromotionService.prepare, copy2, replace_durably).
THEOREM PublishedStays == ASSUME AtMostTwo PROVE Spec => PublishedCopyStays
<1> DEFINE Inv == TypeInv /\ FilesKnown /\ LastWriter /\ LastCopyWhole
<1>1. Init => Inv
  <2> SUFFICES ASSUME Init PROVE Inv
    OBVIOUS
  <2>1. TypeInv
    BY TypeInit
  <2> QED
    BY <2>1 DEF Init, FilesKnown, LastWriter, LastCopyWhole, Writing, Committing
<1>2. Inv /\ [Next]_vars => Inv'
  BY TypeNext, FilesNext, StepIs, TaskWorks, PairAside, PairWork
<1>3. Inv /\ [Next]_vars => [\A f \in Frags : row[f] /\ dest[f] = "full" => dest'[f] = "full"]_vars
  BY StepIs, TaskWorks, FullStays DEF Aside
<1> HIDE DEF Inv
<1> QED
  BY <1>1, <1>2, <1>3, PTL DEF Spec, PublishedCopyStays
=============================================================================
