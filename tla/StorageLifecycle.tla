-------------------------- MODULE StorageLifecycle --------------------------
(***************************************************************************)
(* The copies of finalized recording segments: the catalogue rows          *)
(* (RecordingLocation) of the local file and of the archived objects, and  *)
(* the Huey tasks and API calls that change them:                          *)
(*   - archive_recording_segment     (ArchiveLifecycleService.execute)     *)
(*   - delete_local_recording_location (LocalRetentionDeletionService)     *)
(*   - the retention planner that enqueues both                            *)
(*   - the recording catalogue reconciliation (missing / relinked files)   *)
(*   - RecordingProtection create / delete                                 *)
(*                                                                         *)
(* Sessions neither lock rows nor start a transaction before their first   *)
(* write (core/db/database.py), so a session that reads other rows and     *)
(* then writes is two actions here: what it read may be stale when it      *)
(* writes.  A session that loads one row and overwrites it at once         *)
(* (the mark_* helpers) is one action.                                     *)
(***************************************************************************)
EXTENDS Naturals, FiniteSets

CONSTANTS
  Segments,      \* recording segments that are catalogued and FINAL
  Remotes,       \* rclone targets with role "archive"
  Workers,       \* Huey worker threads (two by default)
  Expendable,    \* segments of class "ordinary" under a BEST_EFFORT policy
  Mismatched,    \* segments whose file size differs from the catalogue's
  Environment,   \* which changes around the tasks an instance explores
  MaxPending,    \* bound: queued copies of one task
  MaxCrashes     \* bound: crashes of the worker container

ASSUME SetsAssumption ==
  /\ Segments # {} /\ Remotes # {} /\ "local" \notin Remotes
  /\ Expendable \subseteq Segments
  /\ Mismatched \subseteq Segments

\* "horizon": a policy edit or a late event moves a deadline back into the future;
\* "policy": require_archive_before_delete is edited; "pressure": the filesystem
\* fills up or recovers; "target": an archive target is disabled or enabled;
\* "loss": media files disappear; "detach": the filesystem is unmounted and
\* comes back with its files; "protect": users protect and release footage.
Changes == {"horizon", "policy", "pressure", "target", "loss", "detach", "protect"}

ASSUME EnvironmentAssumption == Environment \subseteq Changes

ASSUME BoundsAssumption ==
  /\ MaxPending \in Nat \ {0}
  /\ MaxCrashes \in Nat

VARIABLES
  loc,       \* loc[s]: state of the local RecordingLocation
  file,      \* file[s]: the media file exists on the recording filesystem
  arch,      \* arch[s][r]: state of the remote RecordingLocation, "NONE" without row
  verified,  \* verified[s][r]: verified_at is set on the remote row
  recent,    \* recent[s][r]: last_attempt_at is less than an hour old
  object,    \* object[s][r]: the remote holds the object with the expected size
  guarded,   \* guarded[s]: an active RecordingProtection overlaps the segment
  claiming,  \* segments whose protection request has passed its DELETING check
  due,       \* due[s]: retention deadline has passed and no event is active
  required,  \* the policy's require_archive_before_delete
  pressure,  \* the recording filesystem is at level high or critical
  enabled,   \* enabled[r]: the archive target is enabled
  mounted,   \* the recording filesystem is mounted
  suspects,  \* segments reconciliation has found without a file
  archiveQ,  \* archiveQ[s][r]: queued archive tasks
  deleteQ,   \* deleteQ[s][p]: queued delete tasks with pressure argument p
  pc,        \* pc[w]: where worker w stands
  seg,       \* seg[w], rem[w], hurry[w]: segment, archive target and pressure
  rem,       \*   argument of the task that worker w executes
  hurry,
  seen,      \* seen[w]: state of the remote row when w's session read it
  waived,    \* history: a delete of s was approved while the policy required no archive
  crashes

store == <<loc, file, arch, verified, recent, object>>
rules == <<guarded, claiming, due, required, pressure, enabled, mounted>>
queues == <<archiveQ, deleteQ>>
task == <<seg, rem, hurry, seen>>
procs == <<pc, task>>
vars == <<store, rules, suspects, queues, procs, waived, crashes>>

LocalStates == {"AVAILABLE", "DELETING", "DELETED", "FAILED", "MISSING"}
RemoteStates == {"NONE", "ARCHIVING", "AVAILABLE", "FAILED"}

ArchiveSteps == {"prepare", "transfer", "uploaded", "upload_failed"}
DeleteSteps == {"approved", "unlink", "unlinked", "unlink_failed"}

\* The media file as the process sees it through the mount.
Visible(s) == file[s] /\ mounted

-----------------------------------------------------------------------------
NoSegment == CHOOSE s \in Segments : TRUE
NoRemote == CHOOSE r \in Remotes : TRUE

-----------------------------------------------------------------------------
(* RetentionPlanner *)

\* Fault: any archive row counts, finished or not.
AnyArchiveRowExists(s) == \E r \in Remotes : arch[s][r] # "NONE"

\* _available_archive_exists: it does not ask whether the target is enabled.
AvailableArchiveExists(s) ==
  \E r \in Remotes : arch[s][r] = "AVAILABLE" /\ verified[s][r]

\* Fault: an ARCHIVING row is left to the task that wrote it, however old.
RetryFailedOnly(s) ==
  IF \E r \in Remotes : arch[s][r] # "NONE"
  THEN {r \in Remotes : enabled[r] /\ arch[s][r] = "FAILED"}
  ELSE {r \in Remotes : enabled[r]}

\* _archive_target_for_retry: the target of the newest unfinished remote row,
\* unless that row is an ARCHIVING one touched within the hour; without such a
\* row, the default archive target.  Which row is newest, and which target is
\* the default, is left open.
RetryTargets(s) ==
  LET unfinished == {r \in Remotes : enabled[r] /\ arch[s][r] \in {"ARCHIVING", "FAILED"}}
  IN IF unfinished # {}
     THEN {r \in unfinished : arch[s][r] = "FAILED" \/ ~recent[s][r]}
     ELSE {r \in Remotes : enabled[r]}

\* Fault: the protections are not consulted again.
PurgeableUnprotected(s, p) ==
  loc[s] = "AVAILABLE" /\ (due[s] \/ (p /\ s \in Expendable))

\* evaluate, up to its archive check: nothing forbids deletion by time,
\* protection or event; p is the pressure argument.
Purgeable(s, p) ==
  /\ loc[s] = "AVAILABLE"
  /\ ~guarded[s]
  /\ due[s] \/ (p /\ s \in Expendable)

\* Fault: the archive requirement only matters before the deadline.
ArchiveOnlyEarly(s) == required /\ ~due[s] => AvailableArchiveExists(s)

ArchiveSatisfied(s) == required => AvailableArchiveExists(s)

EligibleForDelete(s, p) == Purgeable(s, p) /\ ArchiveSatisfied(s)

\* _run_retention_reconciliation for one segment: enqueue an archive task for
\* what may be deleted but for the missing archive copy ...
EnqueueArchive(s, r) ==
  /\ Purgeable(s, pressure) /\ ~ArchiveSatisfied(s)
  /\ r \in RetryTargets(s)
  /\ archiveQ[s][r] < MaxPending
  /\ archiveQ' = [archiveQ EXCEPT ![s][r] = @ + 1]
  /\ UNCHANGED <<store, rules, suspects, deleteQ, procs, waived, crashes>>

\* ... and a delete task for what may be deleted; pressure_override goes along
\* as the task's pressure argument.
EnqueueDelete(s) ==
  LET override == pressure /\ ~due[s] IN
  /\ EligibleForDelete(s, pressure)
  /\ deleteQ[s][override] < MaxPending
  /\ deleteQ' = [deleteQ EXCEPT ![s][override] = @ + 1]
  /\ UNCHANGED <<store, rules, suspects, archiveQ, procs, waived, crashes>>

-----------------------------------------------------------------------------
(* archive_recording_segment *)

Goto(w, step) == pc' = [pc EXCEPT ![w] = step]

\* The task ends and the thread is free again.
Finish(w) ==
  /\ Goto(w, "idle")
  /\ seg' = [seg EXCEPT ![w] = NoSegment]
  /\ rem' = [rem EXCEPT ![w] = NoRemote]
  /\ hurry' = [hurry EXCEPT ![w] = FALSE]
  /\ seen' = [seen EXCEPT ![w] = "NONE"]

\* Huey puts a failed task back while its retries last.
MayRetryArchive(s, r) ==
  \/ UNCHANGED archiveQ
  \/ /\ archiveQ[s][r] < MaxPending
     /\ archiveQ' = [archiveQ EXCEPT ![s][r] = @ + 1]

MayRetryDelete(s, p) ==
  \/ UNCHANGED deleteQ
  \/ /\ deleteQ[s][p] < MaxPending
     /\ deleteQ' = [deleteQ EXCEPT ![s][p] = @ + 1]

TakeArchive(w, s, r) ==
  /\ pc[w] = "idle"
  /\ archiveQ[s][r] > 0
  /\ archiveQ' = [archiveQ EXCEPT ![s][r] = @ - 1]

\* prepare's reads: no enabled target or no AVAILABLE local source.  The task
\* raises; putting it back, while retries last, is a stuttering step.
ArchiveImpossible(w, s, r) ==
  /\ TakeArchive(w, s, r)
  /\ ~enabled[r] \/ loc[s] # "AVAILABLE"
  /\ UNCHANGED <<store, rules, suspects, deleteQ, procs, waived, crashes>>

\* prepare's reads: the remote copy is there already.  Only _mark_available
\* makes a remote row AVAILABLE, so it is verified: RemoteAvailableIsReal.
ArchiveAlreadyAvailable(w, s, r) ==
  /\ TakeArchive(w, s, r)
  /\ enabled[r] /\ loc[s] = "AVAILABLE" /\ arch[s][r] = "AVAILABLE"
  /\ UNCHANGED <<store, rules, suspects, deleteQ, procs, waived, crashes>>

\* prepare's reads: w will write the remote row as it has read it.
ArchiveBegin(w, s, r) ==
  /\ TakeArchive(w, s, r)
  /\ enabled[r] /\ loc[s] = "AVAILABLE" /\ arch[s][r] # "AVAILABLE"
  /\ Goto(w, "prepare")
  /\ seg' = [seg EXCEPT ![w] = s]
  /\ rem' = [rem EXCEPT ![w] = r]
  /\ seen' = [seen EXCEPT ![w] = arch[s][r]]
  /\ UNCHANGED <<store, rules, suspects, deleteQ, hurry, waived, crashes>>

\* prepare's write: inserting a row that meanwhile exists breaks the unique
\* constraint and fails the task.
ArchiveRowConflict(w) ==
  /\ pc[w] = "prepare"
  /\ seen[w] = "NONE" /\ arch[seg[w]][rem[w]] # "NONE"
  /\ Finish(w)
  /\ MayRetryArchive(seg[w], rem[w])
  /\ UNCHANGED <<store, rules, suspects, deleteQ, waived, crashes>>

\* prepare's write.  The UPDATE names only the columns that differ from what
\* was read, so a row read as ARCHIVING keeps the state it has by now.
ArchivePrepare(w) ==
  /\ pc[w] = "prepare"
  /\ seen[w] = "NONE" => arch[seg[w]][rem[w]] = "NONE"
  /\ arch' = [arch EXCEPT ![seg[w]][rem[w]] =
                IF seen[w] = "ARCHIVING" THEN @ ELSE "ARCHIVING"]
  /\ recent' = [recent EXCEPT ![seg[w]][rem[w]] = TRUE]
  /\ Goto(w, "transfer")
  /\ UNCHANGED <<loc, file, verified, object, rules, suspects, queues, task,
                 waived, crashes>>

\* Fault: rclone's exit status and the size comparison are ignored.
UploadUnchecked(w) ==
  /\ pc[w] = "transfer"
  /\ object' \in {object, [object EXCEPT ![seg[w]][rem[w]] = Visible(seg[w])]}
  /\ Goto(w, "uploaded")
  /\ UNCHANGED <<loc, file, arch, verified, recent, rules, suspects, queues,
                 task, waived, crashes>>

\* The transfer, outside any session: the complete file reaches the remote.
\* rclone may report failure all the same (its timeout, a failing stat).
ArchiveUpload(w) ==
  /\ pc[w] = "transfer"
  /\ Visible(seg[w]) /\ seg[w] \notin Mismatched
  /\ object' = [object EXCEPT ![seg[w]][rem[w]] = TRUE]
  /\ \E outcome \in {"uploaded", "upload_failed"} : Goto(w, outcome)
  /\ UNCHANGED <<loc, file, arch, verified, recent, rules, suspects, queues,
                 task, waived, crashes>>

\* The transfer fails: the source size does not match, or rclone fails.
ArchiveUploadFails(w) ==
  /\ pc[w] = "transfer"
  /\ Visible(seg[w])
  /\ Goto(w, "upload_failed")
  /\ UNCHANGED <<store, rules, suspects, queues, task, waived, crashes>>

\* The source file is gone: _mark_source_missing, then the task fails.
ArchiveSourceMissing(w) ==
  /\ pc[w] = "transfer"
  /\ ~Visible(seg[w])
  /\ loc' = [loc EXCEPT ![seg[w]] = IF @ = "AVAILABLE" THEN "MISSING" ELSE @]
  /\ Goto(w, "upload_failed")
  /\ UNCHANGED <<file, arch, verified, recent, object, rules, suspects, queues,
                 task, waived, crashes>>

\* _mark_available
ArchiveMarkAvailable(w) ==
  /\ pc[w] = "uploaded"
  /\ arch' = [arch EXCEPT ![seg[w]][rem[w]] = "AVAILABLE"]
  /\ verified' = [verified EXCEPT ![seg[w]][rem[w]] = TRUE]
  /\ recent' = [recent EXCEPT ![seg[w]][rem[w]] = TRUE]
  /\ Finish(w)
  /\ UNCHANGED <<loc, file, object, rules, suspects, queues, waived, crashes>>

\* _mark_failed: whatever state the row is in by now.
ArchiveMarkFailed(w) ==
  /\ pc[w] = "upload_failed"
  /\ arch' = [arch EXCEPT ![seg[w]][rem[w]] = "FAILED"]
  /\ recent' = [recent EXCEPT ![seg[w]][rem[w]] = TRUE]
  /\ Finish(w)
  /\ MayRetryArchive(seg[w], rem[w])
  /\ UNCHANGED <<loc, file, verified, object, rules, suspects, deleteQ, waived,
                 crashes>>

-----------------------------------------------------------------------------
(* delete_local_recording_location *)

TakeDelete(w, s, p) ==
  /\ pc[w] = "idle"
  /\ deleteQ[s][p] > 0
  /\ deleteQ' = [deleteQ EXCEPT ![s][p] = @ - 1]

\* execute's reads repeat the whole eligibility check: the task ends with
\* already_deleted, not_available or the planner's reason ...
DeleteRefused(w, s, p) ==
  /\ TakeDelete(w, s, p)
  /\ ~EligibleForDelete(s, p)
  /\ UNCHANGED <<store, rules, suspects, archiveQ, procs, waived, crashes>>

\* ... or goes ahead.
DeleteApprove(w, s, p) ==
  /\ TakeDelete(w, s, p)
  /\ EligibleForDelete(s, p)
  /\ Goto(w, "approved")
  /\ seg' = [seg EXCEPT ![w] = s]
  /\ hurry' = [hurry EXCEPT ![w] = p]
  /\ waived' = [waived EXCEPT ![s] = @ \/ ~required]
  /\ UNCHANGED <<store, rules, suspects, archiveQ, rem, seen, crashes>>

\* execute's first write.
DeleteMark(w) ==
  /\ pc[w] = "approved"
  /\ loc' = [loc EXCEPT ![seg[w]] = "DELETING"]
  /\ Goto(w, "unlink")
  /\ UNCHANGED <<file, arch, verified, recent, object, rules, suspects, queues,
                 task, waived, crashes>>

\* file_path.unlink(missing_ok=True) removes the file.
DeleteUnlink(w) ==
  /\ pc[w] = "unlink"
  /\ Visible(seg[w])
  /\ file' = [file EXCEPT ![seg[w]] = FALSE]
  /\ Goto(w, "unlinked")
  /\ UNCHANGED <<loc, arch, verified, recent, object, rules, suspects, queues,
                 task, waived, crashes>>

\* A file that cannot be seen counts as deleted.
DeleteNothingThere(w) ==
  /\ pc[w] = "unlink"
  /\ ~Visible(seg[w])
  /\ Goto(w, "unlinked")
  /\ UNCHANGED <<store, rules, suspects, queues, task, waived, crashes>>

\* Fault: an OSError of unlink is swallowed.
UnlinkErrorSwallowed(w) ==
  /\ pc[w] = "unlink"
  /\ Visible(seg[w])
  /\ Goto(w, "unlinked")
  /\ UNCHANGED <<store, rules, suspects, queues, task, waived, crashes>>

\* unlink raises OSError.
DeleteUnlinkFails(w) ==
  /\ pc[w] = "unlink"
  /\ Visible(seg[w])
  /\ Goto(w, "unlink_failed")
  /\ UNCHANGED <<store, rules, suspects, queues, task, waived, crashes>>

\* execute's last session.
DeleteMarkDeleted(w) ==
  /\ pc[w] = "unlinked"
  /\ loc' = [loc EXCEPT ![seg[w]] = "DELETED"]
  /\ Finish(w)
  /\ UNCHANGED <<file, arch, verified, recent, object, rules, suspects, queues,
                 waived, crashes>>

\* LocalRetentionDeletionService._mark_failed, then the task raises.
DeleteMarkFailed(w) ==
  /\ pc[w] = "unlink_failed"
  /\ loc' = [loc EXCEPT ![seg[w]] = "FAILED"]
  /\ Finish(w)
  /\ MayRetryDelete(seg[w], hurry[w])
  /\ UNCHANGED <<file, arch, verified, recent, object, rules, suspects, archiveQ,
                 waived, crashes>>

-----------------------------------------------------------------------------
(* RecordingCatalogReconciliationService, serialized by its file lock *)

\* _mark_missing finds an AVAILABLE row without a file ...
ReconcileSuspect(s) ==
  /\ loc[s] = "AVAILABLE" /\ ~Visible(s)
  /\ s \notin suspects
  /\ suspects' = suspects \cup {s}
  /\ UNCHANGED <<store, rules, queues, procs, waived, crashes>>

\* ... and reads the row again, but not the file, before it writes.
ReconcileMarkMissing(s) ==
  /\ s \in suspects
  /\ suspects' = suspects \ {s}
  /\ loc' = [loc EXCEPT ![s] = IF @ = "AVAILABLE" THEN "MISSING" ELSE @]
  /\ UNCHANGED <<file, arch, verified, recent, object, rules, queues, procs,
                 waived, crashes>>

\* _recover_file on a settled file whose row is MISSING; every other row is
\* "known" and left alone.
ReconcileRelink(s) ==
  /\ Visible(s) /\ loc[s] = "MISSING" /\ s \notin Mismatched
  /\ loc' = [loc EXCEPT ![s] = "AVAILABLE"]
  /\ UNCHANGED <<file, arch, verified, recent, object, rules, suspects, queues,
                 procs, waived, crashes>>

-----------------------------------------------------------------------------
(* RecordingProtectionService *)

\* create, its reads: refused while an overlapping location is DELETING.
ProtectionCheck(s) ==
  /\ "protect" \in Environment
  /\ ~guarded[s] /\ s \notin claiming
  /\ loc[s] # "DELETING"
  /\ claiming' = claiming \cup {s}
  /\ UNCHANGED <<store, guarded, due, required, pressure, enabled, mounted,
                 suspects, queues, procs, waived, crashes>>

\* create, its insert and commit.
ProtectionCreate(s) ==
  /\ s \in claiming
  /\ claiming' = claiming \ {s}
  /\ guarded' = [guarded EXCEPT ![s] = TRUE]
  /\ UNCHANGED <<store, due, required, pressure, enabled, mounted, suspects,
                 queues, procs, waived, crashes>>

\* delete, or the protection's expires_at passes.
ProtectionEnd(s) ==
  /\ guarded[s]
  /\ guarded' = [guarded EXCEPT ![s] = FALSE]
  /\ UNCHANGED <<store, claiming, due, required, pressure, enabled, mounted,
                 suspects, queues, procs, waived, crashes>>

-----------------------------------------------------------------------------
(* What changes around the tasks *)

\* The retention deadline passes; a policy edit or a late event postpones it.
DueChanges(s) ==
  /\ due[s] => "horizon" \in Environment
  /\ due' = [due EXCEPT ![s] = ~@]
  /\ UNCHANGED <<store, guarded, claiming, required, pressure, enabled, mounted,
                 suspects, queues, procs, waived, crashes>>

\* An administrator edits require_archive_before_delete.
PolicyEdit ==
  /\ "policy" \in Environment
  /\ required' = ~required
  /\ UNCHANGED <<store, guarded, claiming, due, pressure, enabled, mounted,
                 suspects, queues, procs, waived, crashes>>

\* LocalStorageCapacityService.inspect sees another level.
PressureChanges ==
  /\ "pressure" \in Environment
  /\ pressure' = ~pressure
  /\ UNCHANGED <<store, guarded, claiming, due, required, enabled, mounted,
                 suspects, queues, procs, waived, crashes>>

\* An administrator enables or disables an archive target.
TargetToggle(r) ==
  /\ "target" \in Environment
  /\ enabled' = [enabled EXCEPT ![r] = ~@]
  /\ UNCHANGED <<store, guarded, claiming, due, required, pressure, mounted,
                 suspects, queues, procs, waived, crashes>>

\* The hour of stale_before passes.
AttemptAges(s, r) ==
  /\ recent[s][r]
  /\ recent' = [recent EXCEPT ![s][r] = FALSE]
  /\ UNCHANGED <<loc, file, arch, verified, object, rules, suspects, queues,
                 procs, waived, crashes>>

\* Somebody else removes the media file.
FileLost(s) ==
  /\ "loss" \in Environment
  /\ file[s]
  /\ file' = [file EXCEPT ![s] = FALSE]
  /\ UNCHANGED <<loc, arch, verified, recent, object, rules, suspects, queues,
                 procs, waived, crashes>>

\* The recording filesystem goes away, or comes back with its files.
Remount ==
  /\ "detach" \in Environment
  /\ mounted' = ~mounted
  /\ UNCHANGED <<store, guarded, claiming, due, required, pressure, enabled,
                 suspects, queues, procs, waived, crashes>>

\* The worker container dies: Huey has already dequeued what its threads were
\* executing, so those tasks are lost; queued ones survive in its database.
Crash ==
  /\ crashes < MaxCrashes
  /\ crashes' = crashes + 1
  /\ pc' = [w \in Workers |-> "idle"]
  /\ seg' = [w \in Workers |-> NoSegment]
  /\ rem' = [w \in Workers |-> NoRemote]
  /\ hurry' = [w \in Workers |-> FALSE]
  /\ seen' = [w \in Workers |-> "NONE"]
  /\ suspects' = {}
  /\ UNCHANGED <<store, rules, queues, waived>>

-----------------------------------------------------------------------------
Init ==
  /\ loc = [s \in Segments |-> "AVAILABLE"]
  /\ file = [s \in Segments |-> TRUE]
  /\ arch = [s \in Segments |-> [r \in Remotes |-> "NONE"]]
  /\ verified = [s \in Segments |-> [r \in Remotes |-> FALSE]]
  /\ recent = [s \in Segments |-> [r \in Remotes |-> FALSE]]
  /\ object = [s \in Segments |-> [r \in Remotes |-> FALSE]]
  /\ guarded = [s \in Segments |-> FALSE]
  /\ claiming = {}
  /\ due = [s \in Segments |-> FALSE]
  /\ required \in BOOLEAN
  /\ pressure = FALSE
  /\ enabled = [r \in Remotes |-> TRUE]
  /\ mounted = TRUE
  /\ suspects = {}
  /\ archiveQ = [s \in Segments |-> [r \in Remotes |-> 0]]
  /\ deleteQ = [s \in Segments |-> [p \in BOOLEAN |-> 0]]
  /\ pc = [w \in Workers |-> "idle"]
  /\ seg = [w \in Workers |-> NoSegment]
  /\ rem = [w \in Workers |-> NoRemote]
  /\ hurry = [w \in Workers |-> FALSE]
  /\ seen = [w \in Workers |-> "NONE"]
  /\ waived = [s \in Segments |-> FALSE]
  /\ crashes = 0

ArchiveStep(w) ==
  \/ \E s \in Segments, r \in Remotes :
       ArchiveImpossible(w, s, r) \/ ArchiveAlreadyAvailable(w, s, r) \/ ArchiveBegin(w, s, r)
  \/ ArchiveRowConflict(w)
  \/ ArchivePrepare(w)
  \/ ArchiveUpload(w)
  \/ ArchiveUploadFails(w)
  \/ ArchiveSourceMissing(w)
  \/ ArchiveMarkAvailable(w)
  \/ ArchiveMarkFailed(w)

DeleteStep(w) ==
  \/ \E s \in Segments, p \in BOOLEAN : DeleteRefused(w, s, p) \/ DeleteApprove(w, s, p)
  \/ DeleteMark(w)
  \/ DeleteUnlink(w)
  \/ DeleteNothingThere(w)
  \/ DeleteUnlinkFails(w)
  \/ DeleteMarkDeleted(w)
  \/ DeleteMarkFailed(w)

RetentionReconcile(s) == EnqueueDelete(s) \/ \E r \in Remotes : EnqueueArchive(s, r)

CatalogStep(s) ==
  \/ RetentionReconcile(s)
  \/ ReconcileSuspect(s)
  \/ ReconcileMarkMissing(s)
  \/ ReconcileRelink(s)

ProtectionStep(s) == ProtectionCheck(s) \/ ProtectionCreate(s) \/ ProtectionEnd(s)

EnvironmentStep ==
  \/ \E s \in Segments : DueChanges(s) \/ FileLost(s)
  \/ \E r \in Remotes : TargetToggle(r)
  \/ \E s \in Segments, r \in Remotes : AttemptAges(s, r)
  \/ PolicyEdit
  \/ PressureChanges
  \/ Remount
  \/ Crash

Next ==
  \/ \E w \in Workers : ArchiveStep(w) \/ DeleteStep(w)
  \/ \E s \in Segments : CatalogStep(s) \/ ProtectionStep(s)
  \/ EnvironmentStep

Spec == Init /\ [][Next]_vars

-----------------------------------------------------------------------------
StoreType ==
  /\ loc \in [Segments -> LocalStates]
  /\ file \in [Segments -> BOOLEAN]
  /\ arch \in [Segments -> [Remotes -> RemoteStates]]
  /\ verified \in [Segments -> [Remotes -> BOOLEAN]]
  /\ recent \in [Segments -> [Remotes -> BOOLEAN]]
  /\ object \in [Segments -> [Remotes -> BOOLEAN]]
  /\ waived \in [Segments -> BOOLEAN]

RulesType ==
  /\ guarded \in [Segments -> BOOLEAN]
  /\ claiming \subseteq Segments
  /\ due \in [Segments -> BOOLEAN]
  /\ required \in BOOLEAN
  /\ pressure \in BOOLEAN
  /\ enabled \in [Remotes -> BOOLEAN]
  /\ mounted \in BOOLEAN
  /\ suspects \subseteq Segments
  /\ crashes \in 0..MaxCrashes

QueueType ==
  /\ archiveQ \in [Segments -> [Remotes -> 0..MaxPending]]
  /\ deleteQ \in [Segments -> [BOOLEAN -> 0..MaxPending]]

ProcType ==
  /\ pc \in [Workers -> {"idle"} \cup ArchiveSteps \cup DeleteSteps]
  /\ seg \in [Workers -> Segments]
  /\ rem \in [Workers -> Remotes]
  /\ hurry \in [Workers -> BOOLEAN]
  /\ seen \in [Workers -> RemoteStates]

TypeOK == StoreType /\ RulesType /\ QueueType /\ ProcType

\* A RecordingLocation is DELETED only when its file is really gone: no crash,
\* retry, failed unlink or second delete task of the same location makes
\* LocalRetentionDeletionService.execute claim a deletion that did not happen
\* (as long as the recording filesystem stays mounted).
DeletedMeansGone ==
  "detach" \notin Environment => \A s \in Segments : loc[s] = "DELETED" => ~file[s]

\* While files are only removed by retention, every segment keeps its media
\* somewhere, on the recording filesystem or on an archive target, unless the
\* policy did not require an archive when the deletion was approved.
FootageSurvives ==
  "loss" \notin Environment =>
    \A s \in Segments : file[s] \/ waived[s] \/ \E r \in Remotes : object[s][r]

\* A remote row is AVAILABLE only with a verified object behind it, also when
\* two archive tasks of the segment write the same row.
RemoteAvailableIsReal ==
  \A s \in Segments, r \in Remotes :
    arch[s][r] = "AVAILABLE" => verified[s][r] /\ object[s][r]

\* What retention must not delete: protected footage, and footage before its
\* deadline that is not expendable (HARD policy, event or manual class).
Blocked(s) == guarded[s] \/ (~due[s] /\ s \notin Expendable)

\* Some delete task of s has been approved and has not finished.
Deleting(s) == \E w \in Workers : pc[w] \in DeleteSteps /\ seg[w] = s

\* While a segment is blocked no deletion of it begins, and without a deletion
\* under way its file is not removed: whatever was queued before the protection
\* or the deadline moved, each task checks again.
KeepsBlocked ==
  \A s \in Segments :
    ~Deleting(s) => /\ Blocked(s) => ~Deleting(s)'
                    /\ "loss" \notin Environment /\ file[s] => file'[s]

BlockedFootageStays == [][KeepsBlocked]_vars

\* The media-level promise of FootageCopies.
Copies == INSTANCE FootageCopies WITH
  Local <- "local",
  kept <- [s \in Segments |-> {r \in Remotes : object[s][r]}
                                \cup (IF file[s] THEN {"local"} ELSE {})],
  rule <- required

CopiesSpec == Copies!Spec

-----------------------------------------------------------------------------
(* Liveness.  Huey's threads keep executing tasks, whose rclone and unlink   *)
(* calls return; the retention reconciliation runs every hour; time passes.  *)

Fairness ==
  /\ \A w \in Workers : WF_vars(ArchiveStep(w) \/ DeleteStep(w))
  /\ \A s \in Segments : WF_vars(RetentionReconcile(s))
  /\ \A s \in Segments, r \in Remotes : WF_vars(AttemptAges(s, r))

FairSpec == Spec /\ Fairness

ArchiveWanted(s, r) ==
  Purgeable(s, FALSE) /\ ~ArchiveSatisfied(s) /\ enabled[r]

\* An archive task lost in a crash does not leave its row ARCHIVING for ever:
\* while retention waits for the archive, the stale row is attempted again.
ArchivingResolves ==
  \A s \in Segments, r \in Remotes :
    <>[]ArchiveWanted(s, r) => []<>(arch[s][r] # "ARCHIVING")

-----------------------------------------------------------------------------
(* Statements of docs/specs/0005 that the code does not keep. *)

\* "A required last valid copy is not silently removed": after a deletion that
\* the archive rule allowed, the catalogue still has a verified archive copy.
RequiredCopyStaysAvailable ==
  \A s \in Segments :
    loc[s] = "DELETED" /\ ~waived[s] => AvailableArchiveExists(s)

\* "AVAILABLE -> DELETING -> physical delete -> DELETED": a deletion that was
\* begun is carried through or reported as failed.
DeletionCompletes ==
  \A s \in Segments : loc[s] = "DELETING" ~> loc[s] # "DELETING"

\* "If physical delete fails: ... retry only through the background-task policy".
FailedDeletionRetried ==
  \A s \in Segments : loc[s] = "FAILED" ~> loc[s] # "FAILED"

\* "RecordingProtection blocks automatic deletion": protected media is not
\* unlinked.
ProtectedFootageKept ==
  [][\A s \in Segments : guarded[s] /\ file[s] => file'[s]]_vars

\* "Under severe disk pressure, old ordinary unprotected footage may be deleted
\* earlier": a deletion before the deadline is approved under pressure.
EarlyDeletionNeedsPressure ==
  [][\A s \in Segments : ~Deleting(s) /\ Deleting(s)' /\ ~due[s] => pressure]_vars

\* "Physical-delete failure never becomes false DELETED state".
DeletedFileIsGone == \A s \in Segments : loc[s] = "DELETED" => ~file[s]
=============================================================================
