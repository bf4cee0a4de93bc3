----------------------------- MODULE MCRecorder -----------------------------
(* The recorder, its weekly schedule and the scans of the catalogue for TLC. *)
(* They share no variable; a behaviour consists of the steps of one of them. *)
EXTENDS RecorderRuntime, WeeklySchedule, ScanWindows

PolicySet ==
  {[enabled |-> TRUE, baseline |-> "continuous", event |-> FALSE],
   [enabled |-> TRUE, baseline |-> "schedule", event |-> TRUE],
   [enabled |-> TRUE, baseline |-> "off", event |-> TRUE]}

\* One window, or two on one day each, so that they touch, overlap or nest.
SmallSchedules ==
  {{w} : w \in Windows} \union {{v, w} : v, w \in {x \in Windows : Cardinality(x.days) = 1}}

VARIABLE focus

runtimeVars == <<recorderVars, scheduleVars, scanVars, focus>>

RuntimeInit ==
  /\ focus \in {"recorder", "schedule", "scan"}
  /\ RecorderInit /\ ScheduleInit /\ ScanInit
  /\ focus # "recorder" => calm
  /\ focus # "schedule" => time = 0 /\ schedule = {CHOOSE w \in Windows : TRUE}

RuntimeNext ==
  \/ focus = "recorder" /\ RecorderNext /\ UNCHANGED <<scheduleVars, scanVars, focus>>
  \/ focus = "schedule" /\ ScheduleNext /\ UNCHANGED <<recorderVars, scanVars, focus>>
  \/ focus = "scan" /\ ScanNext /\ UNCHANGED <<recorderVars, scheduleVars, focus>>

\* The fairness is about the recorder: only its own behaviours satisfy it.
RuntimeSpec == RuntimeInit /\ [][RuntimeNext]_runtimeVars /\ RecorderFairness

-----------------------------------------------------------------------------
\* The recorder of ZLMediaKit ends up where the policy wants it, in spite of
\* failing calls, two trackers and lost tasks: off when no mode is wanted, on
\* when one is, and in the very mode when nothing overlaps or fails
\* (recordings/runtime.py and the guard of worker/tasks.py).
RecorderSettles == UnwantedRecorderStops /\ WantedRecorderRuns /\ CalmRecorderIsRight
=============================================================================
