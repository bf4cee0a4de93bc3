------------------------------- MODULE MCJobs -------------------------------
(* Exports, playback restores and backups for TLC.  They share no variable;  *)
(* a behaviour consists of the steps of one of them.  Runs and recovery kit  *)
(* share the policy only, which neither changes: they are checked apart.     *)
EXTENDS ExportJobs, ExportPlan, PlaybackRestore, BackupRuns

VARIABLE focus

jobVars == <<exportVars, planVars, restoreVars, backupVars, focus>>

JobsInit ==
  /\ focus \in {"export", "plan", "restore", "backup", "kit"}
  /\ ExportInit /\ PlanInit /\ RestoreInit /\ BackupInit
  /\ focus # "restore" => local

JobsNext ==
  \/ focus = "export" /\ ExportNext /\ UNCHANGED <<planVars, restoreVars, backupVars, focus>>
  \/ focus = "plan" /\ PlanNext /\ UNCHANGED <<exportVars, restoreVars, backupVars, focus>>
  \/ focus = "restore" /\ RestoreNext /\ UNCHANGED <<exportVars, planVars, backupVars, focus>>
  \/ /\ \/ focus = "backup" /\ (RunStep \/ PolicyStep)
        \/ focus = "kit" /\ (KitStep \/ PolicyStep)
     /\ UNCHANGED <<exportVars, planVars, restoreVars, focus>>

\* Each component is scheduled fairly in its own behaviours.
JobsSpec ==
  /\ JobsInit /\ [][JobsNext]_jobVars
  /\ \/ focus = "export" /\ ExportFairness
     \/ focus = "restore" /\ RestoreFairness
     \/ focus = "backup" /\ BackupFairness
     \/ focus \in {"plan", "kit"}

-----------------------------------------------------------------------------
\* What the records of backups claim is so: a set stands for one snapshot,
\* and the kit that is offered belongs to the keys in use (backups/execution.py
\* and recovery_kit.py).
BackupRecordsTrue == OneSnapshotPerSet /\ KitIsCurrent

\* Background work ends: the file of a cancelled or expired export is
\* removed (exports/execution.py), a restore somebody waits for is served
\* (playback_cache.py), a backup run leaves RUNNING (backups/execution.py).
JobsEnd == ExportsGoAway /\ RestoreCompletes /\ BackupsEnd
=============================================================================
