----------------------------- MODULE BackupRuns -----------------------------
(***************************************************************************)
(* Backups of the database into a restic repository: the policy and its    *)
(* secrets (backups/service.py), the minute task and the API that start    *)
(* runs and verifications, the run itself (execution.py, the restic        *)
(* adapter, database_snapshot.py) and the recovery kit.                    *)
(*                                                                         *)
(* The retries of a run belong to one task: a backup set is executed by    *)
(* one worker at a time.  verify_after_backup is on, and one verification  *)
(* of a set is asked for at a time.                                        *)
(***************************************************************************)
EXTENDS Integers

CONSTANTS Set,             \* backup sets
          Repository, Credential, NoCredential, MasterKey,
          BackupRetries,   \* retries of run_backup_set and verify_backup_set
          MaxUpdates,      \* bound: changes of the policy
          MaxVerifies      \* bound: verifications asked for

ASSUME BackupAssumption ==
  Repository # {} /\ Credential # {} /\ MasterKey # {} /\ MaxUpdates \in Nat

VARIABLES policy,          \* the BackupPolicy row with its secrets
          masterKey,       \* the bootstrap secret in use
          set,             \* the BackupSet rows
          run,             \* run_backup_set of each set
          verify,          \* verify_backup_set of each set
          snapshots,       \* snapshots with the set's tag in each repository
          kit,             \* the recovery kit request, the last kit, its stored status
          backupLost,      \* sets whose task was never queued, or whose worker stopped
          verifies

backupVars == <<policy, masterKey, set, run, verify, snapshots, kit, backupLost, verifies>>

NoTask == [pc |-> "none", tries |-> 0, repo |-> CHOOSE r \in Repository : TRUE]
Contents == [repo |-> policy.repo, cred |-> policy.cred, key |-> masterKey]
NoContents == [repo |-> NoTask.repo, cred |-> NoCredential, key |-> CHOOSE k \in MasterKey : TRUE]

\* RecoveryKitService._fingerprint: updated_at and the secret references of
\* the policy, and the hashes of the bootstrap secrets.
Fingerprint == <<policy.version, masterKey>>
NoFingerprint == <<>>

BackupInit ==
  /\ policy = [enabled |-> TRUE, repo |-> NoTask.repo,
               cred |-> CHOOSE c \in Credential : TRUE, version |-> 0]
  /\ masterKey = NoContents.key
  /\ set = [s \in Set |-> [state |-> "none", verification |-> "none", repo |-> NoTask.repo]]
  /\ run = [s \in Set |-> NoTask] /\ verify = [s \in Set |-> NoTask]
  /\ snapshots = [r \in Repository |-> [s \in Set |-> 0]]
  /\ kit = [pc |-> "idle", read |-> NoContents, print |-> NoFingerprint,
            made |-> NoContents, status |-> NoFingerprint]
  /\ backupLost = {} /\ verifies = 0

-----------------------------------------------------------------------------
(* The policy *)

PolicyOnly == UNCHANGED <<masterKey, set, run, verify, snapshots, kit, backupLost, verifies>>

\* BackupPolicyService.update, the secrets: a replaced one gets a new reference
\* and the old one is deleted in the same transaction; credentials may be
\* cleared.
ReplaceSecrets(p, repo, cred) == [p EXCEPT !.repo = repo, !.cred = cred]

\* BackupPolicyService.update
UpdatePolicy(enabled, repo, cred) ==
  /\ policy.version < MaxUpdates
  /\ <<enabled, repo, cred>> # <<policy.enabled, policy.repo, policy.cred>>
  /\ policy' = ReplaceSecrets([policy EXCEPT !.enabled = enabled, !.version = @ + 1], repo, cred)
  /\ PolicyOnly

\* The installation is restarted with another master key, once.
RotateKey(k) ==
  /\ masterKey = NoContents.key /\ k # masterKey /\ kit.pc = "idle"
  /\ masterKey' = k
  /\ UNCHANGED <<policy, set, run, verify, snapshots, kit, backupLost, verifies>>

-----------------------------------------------------------------------------
(* Starting a run *)

\* reserve: one set for each slot of the schedule.
Reserved(s, manual) ==
  /\ policy.enabled \/ manual
  /\ set[s].state = "none"
  /\ set' = [set EXCEPT ![s].state = "PENDING", ![s].verification = "PENDING"]

StartBackup(s, manual, queued) ==
  /\ Reserved(s, manual)
  /\ run' = [run EXCEPT ![s].pc = IF queued THEN "queued" ELSE "none"]
  /\ backupLost' = IF queued THEN backupLost ELSE backupLost \union {s}
  /\ UNCHANGED <<policy, masterKey, verify, snapshots, kit, verifies>>

\* schedule_backups and run_backup queue the task after the commit, which may
\* not happen.
ScheduleBackup(s, queued) == StartBackup(s, FALSE, queued)
RunBackupNow(s, queued) == StartBackup(s, TRUE, queued)

\* resolve: the secrets of the policy can be read.
Resolvable == policy.cred # NoCredential

\* verify_snapshot and latest_snapshot_for_tag
SnapshotFound(repo, s) == snapshots[repo][s] > 0

RunTo(s, pc) == run' = [run EXCEPT ![s].pc = pc]
RunOnly == UNCHANGED <<policy, masterKey, verify, kit, backupLost, verifies>>

\* A run that ended in FAILED, or raised, is tried again by the queue.
Again(task) ==
  IF task.tries < BackupRetries
  THEN [task EXCEPT !.pc = "queued", !.tries = @ + 1] ELSE [task EXCEPT !.pc = "none"]

\* prepare fixes the repository and its credentials.  Without credentials it
\* raises and leaves the state as it was.
PrepareBackup(s) ==
  /\ run[s].pc = "queued"
  /\ \/ /\ set[s].state = "COMPLETED" /\ RunTo(s, "none") /\ UNCHANGED <<set, backupLost>>
     \/ /\ set[s].state # "COMPLETED" /\ Resolvable
        /\ set' = [set EXCEPT ![s].state = "RUNNING"]
        /\ run' = [run EXCEPT ![s].pc = "snapshot", ![s].repo = policy.repo]
        /\ UNCHANGED backupLost
     \/ /\ set[s].state # "COMPLETED" /\ ~Resolvable
        /\ run' = [run EXCEPT ![s] = Again(@)]
        /\ backupLost' = backupLost \union {s}
        /\ UNCHANGED set
  /\ UNCHANGED <<policy, masterKey, snapshots, verify, kit, verifies>>

-----------------------------------------------------------------------------
(* execute *)

\* The database snapshot, the repository or the lookup fails: _mark_failed, and
\* the task raises.
BackupFails(s) ==
  /\ run[s].pc \in {"snapshot", "lookup", "backup"}
  /\ set' = [set EXCEPT ![s].state = "FAILED",
                        ![s].verification = IF @ = "PENDING" THEN "SKIPPED" ELSE @]
  /\ run' = [run EXCEPT ![s] = Again(@)]
  /\ UNCHANGED snapshots /\ RunOnly

\* DatabaseSnapshotService.snapshot, _manifest and ensure_repository
SnapshotDatabase(s) ==
  /\ run[s].pc = "snapshot" /\ RunTo(s, "lookup") /\ UNCHANGED <<set, snapshots>> /\ RunOnly

\* latest_snapshot_for_tag: a snapshot that an earlier attempt has made is used.
Lookup(s) ==
  /\ run[s].pc = "lookup"
  /\ RunTo(s, IF SnapshotFound(run[s].repo, s) THEN "verify" ELSE "backup")
  /\ UNCHANGED <<set, snapshots>> /\ RunOnly

\* restic backup makes the snapshot; the answer may come too late.
Backup(s, answered) ==
  /\ run[s].pc = "backup"
  /\ snapshots' = [snapshots EXCEPT ![run[s].repo][s] = @ + 1]
  /\ IF answered
     THEN RunTo(s, "verify") /\ UNCHANGED set
     ELSE /\ set' = [set EXCEPT ![s].state = "FAILED",
                                ![s].verification = IF @ = "PENDING" THEN "SKIPPED" ELSE @]
          /\ run' = [run EXCEPT ![s] = Again(@)]
  /\ RunOnly

\* ResticAdapter.forget: restic decides which snapshots of other sets in the
\* repository the retention keeps.
Forget(repo, forgotten) ==
  snapshots' = [snapshots EXCEPT ![repo] = [t \in Set |-> IF t \in forgotten THEN 0 ELSE @[t]]]

\* verify_after_backup, forget and _complete: a failed check or a failed
\* cleanup does not undo the backup.
CompleteBackup(s, verdict, forgotten) ==
  /\ run[s].pc = "verify"
  /\ set' = [set EXCEPT ![s] = [state |-> "COMPLETED", verification |-> verdict, repo |-> run[s].repo]]
  /\ Forget(run[s].repo, forgotten)
  /\ RunTo(s, "none") /\ RunOnly

\* The worker stops: the set stays RUNNING, the staging directory stays.
CrashBackup(s) ==
  /\ run[s].pc \notin {"none", "queued"} /\ RunTo(s, "none")
  /\ backupLost' = backupLost \union {s}
  /\ UNCHANGED <<policy, masterKey, set, verify, snapshots, kit, verifies>>

-----------------------------------------------------------------------------
(* verify *)

\* verify_backup, and the repository check of schedule_backups.
RequestVerify(s) ==
  /\ verifies < MaxVerifies /\ verifies' = verifies + 1
  /\ set[s].state = "COMPLETED" /\ verify[s].pc = "none"
  /\ set' = [set EXCEPT ![s].verification = "PENDING"]
  /\ verify' = [verify EXCEPT ![s] = [NoTask EXCEPT !.pc = "queued"]]
  /\ UNCHANGED <<policy, masterKey, run, snapshots, kit, backupLost>>

\* verify looks for the snapshot in the repository the policy names now; the
\* verdict of the attempt before is forgotten.
StartVerify(s) ==
  /\ verify[s].pc = "queued"
  /\ \/ /\ Resolvable
        /\ verify' = [verify EXCEPT ![s].pc = "check", ![s].repo = policy.repo]
        /\ set' = [set EXCEPT ![s].verification = "PENDING"]
        /\ UNCHANGED backupLost
     \/ /\ ~Resolvable
        /\ verify' = [verify EXCEPT ![s] = Again(@)]
        /\ backupLost' = backupLost \union {s}
        /\ UNCHANGED set
  /\ UNCHANGED <<policy, masterKey, run, snapshots, kit, verifies>>

EndVerify(s, sound) ==
  /\ verify[s].pc = "check"
  /\ LET passed == sound /\ SnapshotFound(verify[s].repo, s)
     IN  /\ set' = [set EXCEPT ![s].verification = IF passed THEN "PASSED" ELSE "FAILED"]
         /\ verify' = [verify EXCEPT ![s] = IF passed THEN NoTask ELSE Again(@)]
  /\ UNCHANGED <<policy, masterKey, run, snapshots, kit, backupLost, verifies>>

-----------------------------------------------------------------------------
(* The recovery kit *)

\* generate resolves the policy and its secrets.
ReadKit ==
  /\ kit.pc = "idle" /\ Resolvable
  /\ kit' = [kit EXCEPT !.pc = "read", !.read = Contents, !.print = Fingerprint]
  /\ UNCHANGED <<policy, masterKey, set, run, verify, snapshots, backupLost, verifies>>

\* Fault: the status is stored with a fingerprint taken afterwards.
WriteKitLate ==
  /\ kit.pc = "read"
  /\ kit' = [pc |-> "idle", read |-> NoContents, print |-> NoFingerprint,
             made |-> kit.read, status |-> Fingerprint]
  /\ UNCHANGED <<policy, masterKey, set, run, verify, snapshots, backupLost, verifies>>
\* The kit is sealed and its status is stored.
WriteKit ==
  /\ kit.pc = "read"
  /\ kit' = [pc |-> "idle", read |-> NoContents, print |-> NoFingerprint,
             made |-> kit.read, status |-> kit.print]
  /\ UNCHANGED <<policy, masterKey, set, run, verify, snapshots, backupLost, verifies>>

\* status
KitStatus ==
  IF kit.status = NoFingerprint THEN "never_generated"
  ELSE IF kit.status = Fingerprint THEN "current" ELSE "stale"

-----------------------------------------------------------------------------
BackupStep(s) ==
  \/ PrepareBackup(s) \/ SnapshotDatabase(s) \/ Lookup(s) \/ BackupFails(s)
  \/ \E answered \in BOOLEAN : Backup(s, answered)
  \/ \E verdict \in {"PASSED", "FAILED"}, forgotten \in SUBSET (Set \ {s}) :
       CompleteBackup(s, verdict, forgotten)
  \/ StartVerify(s)
  \/ \E sound \in BOOLEAN : EndVerify(s, sound)

RunStep ==
  \E s \in Set :
    \/ BackupStep(s) \/ CrashBackup(s) \/ RequestVerify(s)
    \/ \E queued \in BOOLEAN : ScheduleBackup(s, queued) \/ RunBackupNow(s, queued)

PolicyStep ==
  \E enabled \in BOOLEAN, repo \in Repository, cred \in Credential \union {NoCredential} :
    UpdatePolicy(enabled, repo, cred)

KitStep == ReadKit \/ WriteKit \/ \E k \in MasterKey : RotateKey(k)

BackupSpec == BackupInit /\ [][RunStep \/ PolicyStep \/ KitStep]_backupVars

\* The queue delivers and a task goes on.
BackupFairness == \A s \in Set : WF_backupVars(BackupStep(s))

\* However often a run is retried, and even when restic made the snapshot but
\* its answer was lost, a repository holds at most one snapshot of a backup set.
OneSnapshotPerSet == \A r \in Repository, s \in Set : snapshots[r][s] <= 1

\* A recovery kit that is shown as current opens the repository the policy
\* uses, with its credentials and the master key in use, although the policy
\* may change while the kit is being made.
KitIsCurrent == KitStatus = "current" => kit.made = Contents

\* Every backup set ends COMPLETED or FAILED and no verification stays PENDING,
\* unless a task was not queued, its worker stopped or the policy had no
\* credentials.
BackupsEnd ==
  <>[](\A s \in Set \ backupLost :
         /\ set[s].state \in {"none", "COMPLETED", "FAILED"}
         /\ set[s].verification # "PENDING")
=============================================================================
