--------------------------- MODULE RecorderRuntime ---------------------------
(***************************************************************************)
(* The native MP4 recorder of one camera: what the recording facts in the  *)
(* database ask for (arbiter.py, RecordingRuntimeService.desired), the     *)
(* tasks and requests that drive ZLMediaKit there (runtime.py, the tasks   *)
(* of worker/tasks.py, put_recording_policy) and the two process-local     *)
(* tables of recorder modes, one in the API and one in the worker.         *)
(*                                                                         *)
(* An executor reads the database in one step and calls ZLMediaKit in the  *)
(* following ones, one call each, so facts can change and executors can    *)
(* overlap in between.  The queue is Huey's: first in first out, a failed  *)
(* task is queued again a bounded number of times, and a task that is      *)
(* executing when the worker stops is lost.                                *)
(*                                                                         *)
(* The camera has a RECORD binding and no other one.  Facts change at most *)
(* MaxChanges times and calls fail at most MaxFaults times, so "eventually *)
(* always" in the properties means: once the facts are stable.             *)
(***************************************************************************)
EXTENDS Integers, Sequences

CONSTANTS Worker,        \* worker threads of the task queue
          Profile,       \* stream profiles that RECORD can be bound to
          NoProfile,     \* previous_record_profile_id is None
          Policies,      \* recording policies that can be put
          MaxChanges,    \* bound: changes of facts
          MaxCalmChanges,\* bound: the same in a calm behaviour
          MaxFaults, MaxTries, MaxQueue

ASSUME RecorderConstants ==
  Profile # {} /\ NoProfile \notin Profile /\ \E p \in Policies : p.event

VARIABLES
  camera,     \* camera.enabled
  policy,     \* the RecordingPolicy row: enabled, baseline, event
  inWindow,   \* the schedule's windows contain the current time
  manual,     \* the MANUAL trigger: none, active, or running its post-roll
  full,       \* the recording target's capacity is critical
  rec,        \* the profile of the RECORD binding
  online,     \* profiles whose stream ZLMediaKit has
  recorder,   \* ZLMediaKit's recorder of each profile
  tracker,    \* RecorderModeTracker of the API and of the worker
  queue,      \* Huey: reconcile_camera_runtime calls
  boundary,   \* scheduled boundary tasks by the policy version they were given
  exec,       \* what each executor is doing
  changes, faults,
  calm,       \* rigid: changes and executions take turns, no call fails
  hasty       \* history: a profile was bound again, or the camera enabled again,
              \* before the recorder it had was stopped

facts == <<camera, policy, inWindow, manual, full, rec>>
media == <<online, recorder>>
pending == <<queue, boundary>>
budget == <<changes, faults>>
recorderVars == <<facts, media, tracker, pending, exec, budget, calm, hasty>>

Executor == Worker \union {"api"}
Process(e) == IF e \in Worker THEN "worker" ELSE "api"
Modes == {"off", "persistent", "prebuffer"}

\* A call in the queue: reconcile_camera_runtime with its arguments,
\* reconcile_manual_recording_boundary, or reconcile_recording_policy_boundary
\* with the version of the policy it was scheduled for.
Task(force, prev, restart) ==
  [kind |-> "runtime", force |-> force, prev |-> prev, restart |-> restart, tries |-> 0]
Boundary(kind) == [Task(TRUE, NoProfile, FALSE) EXCEPT !.kind = kind]
Idle == [pc |-> "idle", want |-> "off", prof |-> NoProfile, known |-> "off",
         enabled |-> TRUE, task |-> Task(FALSE, NoProfile, FALSE)]

RecorderInit ==
  /\ camera = TRUE /\ policy = (CHOOSE p \in Policies : p.event)
  /\ inWindow = FALSE
  /\ manual = "none" /\ full = FALSE /\ rec = (CHOOSE p \in Profile : TRUE)
  /\ online = {} /\ recorder = [p \in Profile |-> "off"]
  /\ tracker = [x \in {"api", "worker"} |-> [p \in Profile |-> "off"]]
  /\ queue = <<Task(FALSE, NoProfile, FALSE)>>
  /\ boundary = IF policy.baseline = "schedule" THEN {"current"} ELSE {}
  /\ exec = [e \in Executor |-> Idle]
  /\ changes = 0 /\ faults = 0
  /\ calm \in BOOLEAN /\ hasty = FALSE

Busy(e) == exec[e].pc # "idle"
\* In a calm behaviour facts change and executions start only when no
\* execution is under way.
MayStart == calm => \A e \in Executor : ~Busy(e)

Enqueue(t) == queue' = Append(queue, t)

-----------------------------------------------------------------------------
(* What the facts ask for. *)

\* RecordingPolicyService.baseline_should_record
Baseline(p) == p.baseline = "continuous" \/ (p.baseline = "schedule" /\ inWindow)

\* RecordingArbiterService.evaluate
Evaluate(p) ==
  IF ~camera \/ ~p.enabled THEN "off"
  ELSE IF Baseline(p) \/ manual # "none" THEN "persistent"
  ELSE IF p.event THEN "prebuffer"
  ELSE "off"

\* RecordingRuntimeService.desired with capacity_behavior = "off"
Desired == IF Evaluate(policy) = "persistent" /\ full THEN "off" ELSE Evaluate(policy)

-----------------------------------------------------------------------------
(* Facts change. *)

Change ==
  /\ changes < (IF calm THEN MaxCalmChanges ELSE MaxChanges) /\ changes' = changes + 1
  /\ Len(queue) < MaxQueue
  /\ MayStart /\ UNCHANGED <<faults, calm>>

\* put_recording_policy: force_reconfigure
ForcePolicy(p) == p # policy

\* policy.updated_at changes with the row, and tasks that carry the version
\* are outdated.
Superseded(p, kind) == IF kind = "current" /\ p # policy THEN "stale" ELSE kind

\* put_recording_policy up to its calls of ZLMediaKit.  The request fails
\* when the camera is disabled (it has no RECORD stream) or the disk is full
\* and the policy records.
PutPolicy(p) ==
  /\ ~Busy("api") /\ Change
  /\ camera /\ ~(full /\ Evaluate(p) = "persistent")
  /\ policy' = p
  /\ boundary' = {Superseded(p, v) : v \in boundary}
                 \union (IF p.enabled /\ p.baseline = "schedule" THEN {"current"} ELSE {})
  /\ queue' = [i \in DOMAIN queue |->
                [queue[i] EXCEPT !.kind = Superseded(p, @)]]
  /\ exec' = [[e \in Executor |-> [exec[e] EXCEPT !.task.kind = Superseded(p, @)]] EXCEPT !["api"] =
       [Idle EXCEPT !.pc = IF Evaluate(p) # "off" THEN "ensure" ELSE "read",
                    !.want = Evaluate(p), !.prof = rec,
                    !.task = Task(ForcePolicy(p), NoProfile, FALSE)]]
  /\ UNCHANGED <<camera, inWindow, manual, full, rec, media, tracker, hasty>>

\* _set_camera_enabled
SetCameraEnabled(b) ==
  /\ b # camera /\ Change
  /\ camera' = b /\ Enqueue(Task(FALSE, NoProfile, FALSE))
  /\ hasty' = (hasty \/ (b /\ \E p \in Profile : recorder[p] # "off"))
  /\ UNCHANGED <<policy, inWindow, manual, full, rec, media, tracker, boundary, exec>>

\* _set_camera_retired: the camera is disabled, its MANUAL triggers end now.
RetireCamera ==
  /\ camera /\ Change
  /\ camera' = FALSE /\ manual' = "none" /\ Enqueue(Task(FALSE, NoProfile, FALSE))
  /\ UNCHANGED <<policy, inWindow, full, rec, media, tracker, boundary, exec, hasty>>

\* Fault: the running recorder is left to ordinary reconciliation.
TriggerForceNever == FALSE
\* create_recording_trigger: force_runtime_reconfigure
TriggerForce == ~Baseline(policy) /\ manual = "none"

\* create_recording_trigger and create_manual; in a behaviour with faults
\* the call that queues the task can fail after the commit.
CreateTrigger(queued) ==
  /\ policy.enabled /\ manual # "active" /\ Change
  /\ manual' = "active"
  /\ queued \/ ~calm
  /\ IF queued THEN Enqueue(Task(TriggerForce, NoProfile, FALSE)) ELSE UNCHANGED queue
  /\ UNCHANGED <<camera, policy, inWindow, full, rec, media, tracker, boundary, exec, hasty>>

\* The client repeats the request with the same Idempotency-Key.
RepeatTrigger ==
  /\ manual = "active" /\ Change
  /\ Enqueue(Task(FALSE, NoProfile, FALSE))
  /\ UNCHANGED <<facts, media, tracker, boundary, exec, hasty>>

\* stop_recording_trigger, stop_manual, schedule_manual_boundary
StopTrigger ==
  /\ manual = "active" /\ Change
  /\ manual' = "ending" /\ Enqueue(Task(FALSE, NoProfile, FALSE))
  /\ UNCHANGED <<camera, policy, inWindow, full, rec, media, tracker, boundary, exec, hasty>>

\* replace_camera_stream_bindings: the task is told the previous profile.
ReplaceRecordBinding(p) ==
  /\ p # rec /\ Change
  /\ rec' = p /\ Enqueue(Task(FALSE, rec, FALSE))
  /\ hasty' = (hasty \/ recorder[p] # "off")
  /\ UNCHANGED <<camera, policy, inWindow, manual, full, media, tracker, boundary, exec>>

\* import_onvif_camera and refresh_onvif_capabilities with changed streams.
RefreshStreams ==
  /\ Change /\ Enqueue(Task(FALSE, NoProfile, TRUE))
  /\ UNCHANGED <<facts, media, tracker, boundary, exec, hasty>>

\* Storage target or tuning changed: the running recorders are reconfigured.
ChangeTarget ==
  /\ Change /\ Enqueue(Task(TRUE, NoProfile, FALSE))
  /\ UNCHANGED <<facts, media, tracker, boundary, exec, hasty>>

\* The recording file system fills up or is emptied.
CapacityChanges ==
  /\ Change /\ full' = ~full
  /\ UNCHANGED <<camera, policy, inWindow, manual, rec, media, tracker, pending, exec, hasty>>

\* The time of the next schedule boundary, or of the end of a post-roll, has
\* come: the scheduled tasks enter the queue.  Boundaries are further apart
\* than an execution takes.
Due(kind) == IF kind \in boundary THEN <<Boundary(kind)>> ELSE <<>>
WindowBoundary ==
  /\ policy.baseline = "schedule" /\ Change
  /\ \A e \in Executor : exec[e].task.kind # "current"
  /\ inWindow' = ~inWindow
  /\ queue' = queue \o Due("stale") \o Due("current")
  /\ boundary' = {}
  /\ UNCHANGED <<camera, policy, manual, full, rec, media, tracker, exec, hasty>>
PostRollEnds ==
  /\ manual = "ending" /\ Len(queue) < MaxQueue
  /\ manual' = "none" /\ Enqueue(Boundary("manual"))
  /\ UNCHANGED <<camera, policy, inWindow, full, rec, media, tracker, boundary, exec, budget, calm, hasty>>

\* periodic_recording_capacity_guard: every five minutes, cameras with an
\* enabled policy.  A queue that still holds work needs no second entry.
CapacityGuard ==
  /\ policy.enabled /\ queue = <<>>
  /\ Enqueue(Task(FALSE, NoProfile, FALSE))
  /\ UNCHANGED <<facts, media, tracker, boundary, exec, budget, calm, hasty>>

-----------------------------------------------------------------------------
(* Executions. *)

Step == UNCHANGED <<facts, boundary, changes, calm, hasty>>
Proceed(e, pc) == exec' = [exec EXCEPT ![e].pc = pc, ![e].known = "off"]
Prev(e) == exec[e].task.prev
Close(ps) == online' = online \ ps
           /\ recorder' = [p \in Profile |-> IF p \in ps THEN "off" ELSE recorder[p]]

\* The next task is taken and reads the database.
Take(w, kind) ==
  /\ queue # <<>> /\ Head(queue).kind = kind /\ ~Busy(w) /\ MayStart
  /\ queue' = Tail(queue)
  /\ UNCHANGED <<facts, media, tracker, boundary, budget, calm, hasty>>
Begin(w, t) ==
  exec' = [exec EXCEPT ![w] =
    [Idle EXCEPT !.pc = IF Desired # "off" \/ (t.restart /\ camera) THEN "ensure" ELSE "read",
                 !.want = Desired, !.prof = rec, !.enabled = camera, !.task = t]]

\* reconcile_camera_runtime: a previous profile that has become the desired
\* one again is no switch.
ReconcileCameraRuntime(w) ==
  /\ Take(w, "runtime")
  /\ Begin(w, [Head(queue) EXCEPT !.prev = IF @ = rec THEN NoProfile ELSE @])

\* reconcile_manual_recording_boundary: it queues the runtime task.
ManualBoundary(w) ==
  /\ queue # <<>> /\ Head(queue).kind = "manual" /\ ~Busy(w) /\ MayStart
  /\ queue' = Append(Tail(queue), Task(Desired # "persistent", NoProfile, FALSE))
  /\ UNCHANGED <<facts, media, tracker, boundary, exec, budget, calm, hasty>>

\* reconcile_recording_policy_boundary up to its calls of ZLMediaKit: a task
\* of another version of the policy ends its chain.
PolicyBoundary(w) ==
  \/ /\ Take(w, "current")
     /\ IF policy.enabled /\ policy.baseline = "schedule"
        THEN Begin(w, Head(queue)) ELSE UNCHANGED exec
  \/ Take(w, "stale") /\ UNCHANGED exec

\* The execution ends well: the next boundary is scheduled, or the streams
\* of a profile no longer bound or of a disabled camera are closed.
EndExecution(e) ==
  /\ exec' = [exec EXCEPT ![e] = Idle]
  /\ boundary' = IF exec[e].task.kind \in {"current", "stale"}
                 THEN boundary \union {exec[e].task.kind} ELSE boundary
  /\ UNCHANGED <<facts, queue, budget, calm, hasty>>
CloseAfter(e) ==
  (IF Prev(e) # NoProfile THEN {Prev(e)} ELSE {})
  \union (IF exec[e].enabled \/ exec[e].task.kind # "runtime" THEN {} ELSE {exec[e].prof})

\* The execution fails.  A task is tried again; the request queues a forced
\* task when the stream was offline and gives up when ZLMediaKit refused.
Fail(e, offline) ==
  /\ exec' = [exec EXCEPT ![e] = Idle]
  /\ \/ e = "api" /\ offline /\ Enqueue(Task(TRUE, NoProfile, FALSE))
     \/ e # "api" /\ exec[e].task.tries < MaxTries
                  /\ Enqueue([exec[e].task EXCEPT !.tries = @ + 1])
     \/ /\ IF e = "api" THEN ~offline ELSE exec[e].task.tries >= MaxTries
        /\ UNCHANGED queue
  /\ UNCHANGED <<facts, media, tracker, boundary, changes, calm, hasty>>
RefusedCall(e) ==
  /\ exec[e].pc \in {"ensure", "stop", "start", "swStop"} /\ ~calm
  /\ faults < MaxFaults /\ faults' = faults + 1
  /\ Fail(e, exec[e].pc = "ensure")

\* ensure_streams waits until the stream is there; replace_streams closes it
\* first and does not wait.
EnsureStreams(e) ==
  /\ exec[e].pc = "ensure" /\ Proceed(e, "read")
  /\ IF exec[e].task.restart
     THEN \E up \in {{}, {exec[e].prof}} :
            /\ up = {} => faults < MaxFaults /\ ~calm
            /\ faults' = IF up = {} THEN faults + 1 ELSE faults
            /\ online' = (online \ {exec[e].prof}) \union up
            /\ recorder' = [recorder EXCEPT ![exec[e].prof] = "off"]
     ELSE online' = online \union {exec[e].prof} /\ UNCHANGED <<recorder, faults>>
  /\ Step /\ UNCHANGED <<tracker, queue>>

\* reconcile: the known mode is read before the first call of ZLMediaKit.
ReadKnownMode(e) ==
  /\ exec[e].pc = "read"
  /\ exec' = [exec EXCEPT ![e].pc = IF Prev(e) # NoProfile THEN "switch" ELSE "observe",
                          ![e].known = tracker[Process(e)][exec[e].prof]]
  /\ Step /\ UNCHANGED <<media, tracker, queue, faults>>

\* reconcile: the running recorder is in the desired mode, or its mode is
\* not known, and nobody asked for a new one.
Keeps(e) == ~exec[e].task.force /\ exec[e].known \in {"off", exec[e].want}

\* Fault: the noted mode is trusted, ZLMediaKit is not asked.
ObserveTrusting(e) ==
  /\ exec[e].pc = "observe"
  /\ IF exec[e].want # "off" /\ exec[e].known = exec[e].want
     THEN EndExecution(e) /\ UNCHANGED <<media, tracker>>
     ELSE /\ Proceed(e, IF recorder[exec[e].prof] # "off" THEN "stop"
                     ELSE IF exec[e].want # "off" THEN "start" ELSE "set")
          /\ Step /\ UNCHANGED <<media, tracker, queue, faults>>

\* reconcile: is_stream_online and is_recording
Observe(e) ==
  /\ exec[e].pc = "observe"
  /\ LET x == exec[e]
         running == recorder[x.prof] # "off"
     IN \/ x.prof \notin online /\ x.want # "off"
           /\ Fail(e, TRUE) /\ UNCHANGED faults
        \/ (x.prof \in online \/ x.want = "off")
           /\ IF running /\ x.want # "off" /\ Keeps(e)
              THEN EndExecution(e) /\ UNCHANGED <<media, tracker>>
              ELSE /\ Proceed(e, CASE running -> "stop"
                                [] ~running /\ x.want # "off" -> "start"
                                [] OTHER -> "set")
                   /\ Step /\ UNCHANGED <<media, tracker, queue, faults>>

Stop(e) ==
  /\ exec[e].pc = "stop"
  /\ recorder' = [recorder EXCEPT ![exec[e].prof] = "off"]
  /\ Proceed(e, IF exec[e].want = "off" THEN "set" ELSE "start")
  /\ Step /\ UNCHANGED <<online, tracker, queue, faults>>

\* startRecord leaves a recorder that is running as it is.
Start(e) ==
  /\ exec[e].pc = "start"
  /\ LET p == exec[e].prof
     IN \/ p \in online
           /\ recorder' = [recorder EXCEPT ![p] = IF @ = "off" THEN exec[e].want ELSE @]
           /\ Proceed(e, "set") /\ Step /\ UNCHANGED <<online, tracker, queue, faults>>
        \/ p \notin online /\ Fail(e, FALSE) /\ UNCHANGED faults

\* The mode is noted after the calls; "off" removes the entry.
SetMode(e) ==
  /\ exec[e].pc = "set"
  /\ tracker' = [tracker EXCEPT ![Process(e)][exec[e].prof] = exec[e].want]
  /\ Close(CloseAfter(e))
  /\ EndExecution(e)

\* switch_profile: the new stream must be online before the previous
\* recorder is touched.
SwitchProfile(e) ==
  /\ exec[e].pc = "switch"
  /\ LET x == exec[e]
     IN \/ x.want # "off" /\ x.prof \notin online /\ Fail(e, FALSE) /\ UNCHANGED faults
        \/ /\ x.want = "off" \/ x.prof \in online
           /\ Proceed(e, IF Prev(e) \in online /\ recorder[Prev(e)] # "off"
                      THEN "swStop" ELSE "swSet")
           /\ Step /\ UNCHANGED <<media, tracker, queue, faults>>
SwitchStop(e) ==
  /\ exec[e].pc = "swStop"
  /\ recorder' = [recorder EXCEPT ![Prev(e)] = "off"]
  /\ Proceed(e, "swSet") /\ Step /\ UNCHANGED <<online, tracker, queue, faults>>
SwitchSet(e) ==
  /\ exec[e].pc = "swSet"
  /\ tracker' = [tracker EXCEPT ![Process(e)][Prev(e)] = "off"]
  /\ IF exec[e].want = "off"
     THEN Close(CloseAfter(e)) /\ EndExecution(e)
     ELSE /\ Proceed(e, IF recorder[exec[e].prof] = "off" THEN "start" ELSE "set")
          /\ Step /\ UNCHANGED <<media, queue, faults>>

-----------------------------------------------------------------------------
(* Failures. *)

Fault == faults < MaxFaults /\ faults' = faults + 1 /\ UNCHANGED <<changes, calm, hasty>>

\* A source disappears: the recorder of its stream ends with it.
StreamDrops(p) ==
  /\ p \in online /\ ~calm /\ Fault /\ Close({p})
  /\ UNCHANGED <<facts, tracker, pending, exec>>

\* zlm_server_started: ZLMediaKit lost everything, all cameras are queued.
ServerStarted ==
  /\ ~calm /\ Fault /\ Close(Profile)
  /\ Enqueue(Task(FALSE, NoProfile, FALSE))
  /\ UNCHANGED <<facts, tracker, boundary, exec>>

\* A process restarts: its table is empty, what it executed is lost.  In a
\* calm behaviour it was idle.  The API queues every camera when it starts.
Restart(x) ==
  /\ MayStart /\ Fault
  /\ tracker' = [tracker EXCEPT ![x] = [p \in Profile |-> "off"]]
  /\ exec' = [e \in Executor |-> IF Process(e) = x THEN Idle ELSE exec[e]]
  /\ IF x = "api" THEN Enqueue(Task(FALSE, NoProfile, FALSE)) ELSE UNCHANGED queue
  /\ UNCHANGED <<facts, media, boundary>>

-----------------------------------------------------------------------------
Facts ==
  \/ \E p \in Policies : PutPolicy(p)
  \/ \E b \in BOOLEAN : SetCameraEnabled(b) \/ CreateTrigger(b)
  \/ RetireCamera \/ RepeatTrigger \/ StopTrigger
  \/ \E p \in Profile : ReplaceRecordBinding(p)
  \/ RefreshStreams \/ ChangeTarget \/ CapacityChanges \/ WindowBoundary

Execute(e) ==
  \/ EnsureStreams(e) \/ ReadKnownMode(e) \/ Observe(e) \/ Stop(e) \/ Start(e)
  \/ SetMode(e) \/ SwitchProfile(e) \/ SwitchStop(e) \/ SwitchSet(e)

StartTask(w) == ReconcileCameraRuntime(w) \/ ManualBoundary(w) \/ PolicyBoundary(w)

RecorderNext ==
  \/ Facts \/ PostRollEnds \/ CapacityGuard
  \/ \E w \in Worker : StartTask(w)
  \/ \E e \in Executor : Execute(e) \/ RefusedCall(e)
  \/ \E p \in Profile : StreamDrops(p)
  \/ ServerStarted \/ \E x \in {"api", "worker"} : Restart(x)

\* Executions proceed, the consumer takes tasks, the periodic task is
\* started.  Facts and failures are under no obligation.
RecorderFairness ==
  /\ WF_recorderVars(PostRollEnds \/ CapacityGuard)
  /\ \A e \in Executor : WF_recorderVars(Execute(e))
  /\ \A w \in Worker : SF_recorderVars(StartTask(w))

-----------------------------------------------------------------------------
(* Properties. *)

RecorderTypeOK ==
  /\ policy \in Policies /\ rec \in Profile /\ manual \in {"none", "active", "ending"}
  /\ online \subseteq Profile /\ recorder \in [Profile -> Modes]
  /\ tracker \in [{"api", "worker"} -> [Profile -> Modes]]
  /\ boundary \subseteq {"current", "stale"}

\* A camera that should not record any more stops for good, whatever the
\* tables of modes say and however executions overlap: the periodic guard
\* stops any recorder when none is wanted.  The guard looks at enabled
\* policies only (worker/tasks.py:631).
UnwantedRecorderStops == <>[](policy.enabled /\ Desired = "off" => recorder[rec] = "off")

\* A camera that should record does in the end, after lost tasks, dropped
\* streams, refused calls and restarts.
WantedRecorderRuns == <>[](Desired # "off" => recorder[rec] # "off")

\* When executions do not overlap and no call fails, the recorder ends in
\* the mode the facts ask for, on the bound profile only, although neither
\* process sees the modes the other one has set and both forget theirs when
\* they restart; but not if the camera was enabled, or the profile bound,
\* again before the task of the change before had stopped its recorder
\* (runtime.py:455: a running recorder of unknown mode is left alone).
CalmRecorderIsRight ==
  calm => <>[](policy.enabled /\ ~hasty => \A p \in Profile :
                  recorder[p] = IF p = rec THEN Desired ELSE "off")

\* What the guard will not put right is told to a task: as long as a recorder
\* runs in another mode than the facts ask for, a forced task is queued or
\* executing, or the task at the end of a post-roll, which will force one; and
\* as long as one runs on a profile that RECORD is not bound to, a task that
\* knows of that profile is (force_runtime_reconfigure, previous_record_profile_id
\* and the boundary tasks of worker/tasks.py).
Tells(t) == t.force /\ t.kind # "stale"
WrongRecorderHasTask ==
  calm /\ ~hasty =>
    /\ recorder[rec] \in {"off", Evaluate(policy)} \/ Evaluate(policy) = "off"
         \/ (\E i \in DOMAIN queue : Tells(queue[i]))
         \/ \E e \in Executor : Busy(e) /\ exec[e].task.force
    /\ \A p \in Profile \ {rec} :
         recorder[p] = "off"
           \/ (\E i \in DOMAIN queue : queue[i].prev = p)
           \/ \E e \in Executor : Busy(e) /\ Prev(e) = p

RecorderSpec == RecorderInit /\ [][RecorderNext]_recorderVars /\ RecorderFairness
=============================================================================
