--------------------------- MODULE StorageTargets ---------------------------
(***************************************************************************)
(* Where recorders write: local recording targets and their default        *)
(* (storage/service.py, storage/api.py), the resolver that finds the       *)
(* target of a camera (storage/recording_resolver.py), the switch of a     *)
(* recording route and the change of a policy (recordings/api.py), and the *)
(* jobs that take a recorder to its target (worker/tasks.py, runtime.py).  *)
(***************************************************************************)
EXTENDS Naturals, FiniteSets

CONSTANTS Disk,           \* local recording targets
          Cam,            \* cameras that record
          Runner,         \* requests and workers that reconcile a recorder
          MaxEdits,       \* bound: administrative changes
          MaxTargetFaults \* bound: tasks not queued, reconciles that fail

VARIABLES
  disk,      \* target rows
  full,      \* targets above the critical watermark
  route,     \* storage target of each recording policy, or Unset
  writes,    \* the target each camera's recorder writes to, or Off
  pending,   \* cameras with a queued, forced reconcile task
  errand,    \* the reconcile each runner is at, with what it read
  edits, targetFaults,
  astray     \* history: cameras whose recorder may be elsewhere, see RecordersFollowRoute

targetVars == <<disk, full, route, writes, pending, errand, edits, targetFaults, astray>>

Free == [kind |-> "none"]
Unset == "auto"
Off == "off"
NoTarget == "none"
NoDisk == [exists |-> FALSE, enabled |-> FALSE, default |-> FALSE]

Defaults(d) == {t \in Disk : d[t].enabled /\ d[t].default}
Candidates(d) == {t \in Disk : d[t].enabled}
TheOnly(S) == IF Cardinality(S) = 1 THEN CHOOSE t \in S : TRUE ELSE NoTarget

\* The target of a policy that names none: the default one, or the only one.
ImplicitTarget(d) == IF Defaults(d) # {} THEN TheOnly(Defaults(d)) ELSE TheOnly(Candidates(d))

LocalTargetForCamera(d, r, c) ==
  IF r[c] = Unset THEN ImplicitTarget(d) ELSE IF d[r[c]].enabled THEN r[c] ELSE NoTarget

EnsureWriteCapacity(t) == t \notin full

\* Nothing is recorded to a target above its critical watermark.
RecorderFor(d, r, c) ==
  LET t == LocalTargetForCamera(d, r, c) IN IF EnsureWriteCapacity(t) THEN t ELSE Off

\* One target is there, or all are, and at most the one is the default.
TargetsInit ==
  /\ \E t \in Disk, all, isDefault \in BOOLEAN :
       disk = [u \in Disk |-> [exists |-> u = t \/ all, enabled |-> u = t \/ all, default |-> u = t /\ isDefault]]
  /\ full \in SUBSET Disk /\ Cardinality(full) < 2
  /\ route = [c \in Cam |-> Unset]
  /\ writes = [c \in Cam |-> IF ImplicitTarget(disk) = NoTarget THEN Off ELSE RecorderFor(disk, route, c)]
  /\ pending = {} /\ errand = [r \in Runner |-> Free]
  /\ edits = 0 /\ targetFaults = 0 /\ astray = {}

-----------------------------------------------------------------------------
Edit == edits < MaxEdits /\ edits' = edits + 1
TargetFault == targetFaults < MaxTargetFaults /\ targetFaults' = targetFaults + 1

\* The default must be the only enabled one.
EnsureDefaultTargetUnique(d, t) ==
  d[t].enabled /\ d[t].default => Defaults(d) \subseteq {t}

\* Rows change and no recorder is told.
Store(d) ==
  /\ disk' = d
  /\ astray' = astray \cup {c \in Cam : LocalTargetForCamera(d, route, c) # LocalTargetForCamera(disk, route, c)}
  /\ UNCHANGED <<full, route, writes, pending, errand, targetFaults>>

CreateTarget(t, enabled, isDefault) ==
  LET d == [disk EXCEPT ![t] = [exists |-> TRUE, enabled |-> enabled, default |-> isDefault]] IN
  Edit /\ ~disk[t].exists /\ EnsureDefaultTargetUnique(d, t) /\ Store(d)

UpdateTarget(t, enabled, isDefault) ==
  LET d == [disk EXCEPT ![t].enabled = enabled, ![t].default = isDefault] IN
  Edit /\ disk[t].exists /\ d # disk /\ EnsureDefaultTargetUnique(d, t) /\ Store(d)

\* A target with a policy stays, and one with recordings: whether it has
\* any is left open, for a recorder that has just started has none.
DeleteTarget(t) ==
  /\ Edit /\ disk[t].exists /\ \A c \in Cam : route[c] # t
  /\ Store([disk EXCEPT ![t] = NoDisk])

-----------------------------------------------------------------------------
(* The switch of a route.                                                  *)

Explicit(s) == {c \in Cam : route[c] = s}
Implicit == {c \in Cam : route[c] = Unset}
MoveDefault(s) == s \in Defaults(disk) \/ (Defaults(disk) = {} /\ Implicit # {})

\* Fault: cameras that follow the default are not told.
ExplicitOnly(s) == Explicit(s)

AffectedCameras(s) == Explicit(s) \cup (IF MoveDefault(s) THEN Implicit ELSE {})

SwitchRecordingTarget(s, t) ==
  LET d == IF MoveDefault(s) THEN [disk EXCEPT ![s].default = FALSE, ![t].default = TRUE] ELSE disk IN
  /\ Edit /\ s # t /\ disk[s].exists /\ disk[t].exists /\ disk[t].enabled /\ EnsureWriteCapacity(t)
  /\ Explicit(s) # {} \/ MoveDefault(s)
  /\ EnsureDefaultTargetUnique(d, t)
  /\ disk' = d
  /\ route' = [c \in Cam |-> IF c \in Explicit(s) THEN t ELSE route[c]]
  /\ \E failed \in SUBSET AffectedCameras(s) :
       /\ IF failed = {} THEN UNCHANGED targetFaults ELSE TargetFault
       /\ pending' = pending \cup (AffectedCameras(s) \ failed)
       /\ astray' = astray \cup failed
  /\ UNCHANGED <<full, writes, errand>>

-----------------------------------------------------------------------------
(* A recorder is reconciled: by the request that stores a policy, by a      *)
(* queued task, by the periodic guard.  What is wanted is read first; then  *)
(* ZLMediaKit is asked and told, call by call, and much may happen between. *)

Working(c) == {r \in Runner : errand[r] # Free /\ errand[r].cam = c}

\* DesiredRecorder is read, from the policies rt.  With another job of the
\* camera at work that wants something else, the last one to call decides.
ReadDesired(r, kind, c, rt) ==
  LET want == RecorderFor(disk, rt, c) IN
  /\ errand[r] = Free
  /\ errand' = [errand EXCEPT ![r] = [kind |-> kind, cam |-> c, want |-> want, pc |-> "look"]]
  /\ astray' = IF \E q \in Working(c) : errand[q].want # want THEN astray \cup {c}
               ELSE IF Working(c) = {} /\ kind # "guard" THEN astray \ {c} ELSE astray

\* update_recording_policy: an enabled target is required; what the recorder
\* shall do is read before the commit and done after it.  Without a target
\* the plan is stored and the recorder left alone; without room nothing is.
PutPolicy(r, c, t) ==
  /\ Edit /\ route[c] # t /\ (t \in Disk => disk[t].enabled)
  /\ route' = [route EXCEPT ![c] = t]
  /\ LET u == LocalTargetForCamera(disk, route', c) IN
       \/ u = NoTarget /\ UNCHANGED <<errand, astray>>
       \/ u # NoTarget /\ EnsureWriteCapacity(u) /\ ReadDesired(r, "request", c, route')
  /\ UNCHANGED <<disk, full, writes, pending, targetFaults>>

StartTask(r, c) ==
  /\ c \in pending /\ pending' = pending \ {c}
  /\ LocalTargetForCamera(disk, route, c) # NoTarget /\ ReadDesired(r, "task", c, route)
  /\ UNCHANGED <<disk, full, route, writes, edits, targetFaults>>

\* Without a target the task raises before it touches the recorder; when its
\* retries are used up it is gone.
TaskRaises(c) ==
  /\ c \in pending /\ pending' = pending \ {c}
  /\ LocalTargetForCamera(disk, route, c) = NoTarget
  /\ UNCHANGED <<disk, full, route, writes, errand, edits, targetFaults, astray>>

\* periodic_recording_capacity_guard queues tasks that are not forced.
Guard(r, c) ==
  /\ LocalTargetForCamera(disk, route, c) # NoTarget /\ ReadDesired(r, "guard", c, route)
  /\ UNCHANGED <<disk, full, route, writes, pending, edits, targetFaults>>

Go(r, pc) == errand' = [errand EXCEPT ![r].pc = pc]
Leave(r) == errand' = [errand EXCEPT ![r] = Free]

\* is_recording.  Unforced, a recorder is stopped only to be off, or when the
\* process last set it to another mode.
Look(r) ==
  LET running == writes[errand[r].cam] # Off  wanted == errand[r].want # Off IN
  /\ errand[r] # Free /\ errand[r].pc = "look"
  /\ \/ running /\ Go(r, "stop")
     \/ running /\ wanted /\ errand[r].kind = "guard" /\ Leave(r)
     \/ ~running /\ wanted /\ Go(r, "start")
     \/ ~running /\ ~wanted /\ Leave(r)
  /\ UNCHANGED <<disk, full, route, writes, pending, edits, targetFaults, astray>>

StopRecord(r) ==
  /\ errand[r] # Free /\ errand[r].pc = "stop"
  /\ writes' = [writes EXCEPT ![errand[r].cam] = Off]
  /\ IF errand[r].want = Off THEN Leave(r) ELSE Go(r, "start")
  /\ UNCHANGED <<disk, full, route, pending, edits, targetFaults, astray>>

\* startRecord leaves a recorder that is running as it is.
StartRecord(r) ==
  /\ errand[r] # Free /\ errand[r].pc = "start" /\ Leave(r)
  /\ writes' = [writes EXCEPT ![errand[r].cam] = IF @ = Off THEN errand[r].want ELSE @]
  /\ UNCHANGED <<disk, full, route, pending, edits, targetFaults, astray>>

\* A call fails or the process stops.  A request answers 503 and nobody goes
\* on, but when the stream is offline it queues a forced task; a task is tried
\* again or its retries are used up; what the guard had stopped stays off.
JobFails(r) ==
  LET j == errand[r] IN
  /\ j # Free /\ TargetFault /\ Leave(r)
  /\ \/ /\ j.kind = "task" \/ (j.kind = "request" /\ j.pc = "look")
        /\ pending' = pending \cup {j.cam} /\ UNCHANGED astray
     \/ /\ astray' = IF j.kind = "guard" /\ j.pc # "start" THEN astray ELSE astray \cup {j.cam}
        /\ UNCHANGED pending
  /\ UNCHANGED <<disk, full, route, writes, edits>>

TargetsNext ==
  \/ \E t \in Disk, e, f \in BOOLEAN : CreateTarget(t, e, f) \/ UpdateTarget(t, e, f)
  \/ \E t \in Disk : DeleteTarget(t)
  \/ \E s, t \in Disk : SwitchRecordingTarget(s, t)
  \/ \E r \in Runner, c \in Cam, t \in Disk \cup {Unset} : PutPolicy(r, c, t)
  \/ \E r \in Runner, c \in Cam : StartTask(r, c) \/ Guard(r, c)
  \/ \E c \in Cam : TaskRaises(c)
  \/ \E r \in Runner : Look(r) \/ StopRecord(r) \/ StartRecord(r) \/ JobFails(r)

TargetsSpec == TargetsInit /\ [][TargetsNext]_targetVars

-----------------------------------------------------------------------------
(* No sequence of creations, updates, switches and deletions makes two      *)
(* enabled recording targets the default (_ensure_default_target_unique),   *)
(* and a stored route is followed: a recorder nobody is at work on, and no  *)
(* task waits for, writes to the target its camera resolves to now, though  *)
(* it was told what its job had read, before the commit or long ago         *)
(* (switch_recording_target's affected cameras, update_recording_policy and *)
(* reconcile_camera_runtime).  Recorders are left astray by an edit of      *)
(* targets that reconciles nothing, by a task not queued or used up,        *)
(* by a request that failed, by a guard that stopped a recorder and         *)
(* could not start it, and by two jobs at once that had read different      *)
(* targets: until a forced job, alone at work, reads again.                 *)
RecordersFollowRoute ==
  /\ Cardinality(Defaults(disk)) <= 1
  /\ \A c \in Cam \ (pending \cup astray) :
       Working(c) = {} /\ LocalTargetForCamera(disk, route, c) # NoTarget
         => writes[c] = RecorderFor(disk, route, c)
=============================================================================
