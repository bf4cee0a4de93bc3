--------------------------- MODULE AlertDelivery ---------------------------
(***************************************************************************)
(* Health events, the alerts they raise and the notifications that go out: *)
(* the stream hook of internal/zlm_hooks.py and the capacity guard of      *)
(* worker/tasks.py open and close events (events/system.py), policies      *)
(* raise alerts on them (alerts/service.py), requests acknowledge and      *)
(* resolve alerts (alerts/api.py), and the worker sends the deliveries     *)
(* (notifications/delivery.py).                                            *)
(*                                                                         *)
(* One subject is observed, the recording stream of a camera or a storage  *)
(* target, with one alert policy that notifies one target.  Events are     *)
(* numbered; the alert and the delivery of an event have its number.       *)
(***************************************************************************)
EXTENDS AlertRules, Sequences

CONSTANTS MaxEvent,         \* bound: events of the subject
          MaxTransitions,   \* bound: changes of the subject's condition
          MaxEdits,         \* bound: edits of policy, target, maintenance
          MaxTrouble,       \* bound: failures and crashes
          Cooldown,         \* the policy's cooldown, in transitions
          Retries           \* retries of the delivery task

ASSUME DeliveryAssumption ==
  MaxEvent \in Nat /\ Cooldown \in Nat /\ Retries \in Nat

VARIABLES
  subject,    \* "stream" or "storage", chosen once
  level,      \* the subject's condition: "ok", "high", "unavailable"
  clock,      \* transitions so far
  hooks,      \* stream hooks on their way
  health,     \* events of the subject: label, start, end
  alert,      \* state of each event's alert
  acking,     \* acknowledgements that have read their alert
  rule,       \* the policy row
  channelOn,  \* the notification target is enabled
  maintenance,\* the camera is in maintenance
  edits,
  delivery,   \* state of each event's delivery
  job,        \* the delivery task: [pc, left]
  aged,       \* deliveries whose last attempt began over five minutes ago
  sends,      \* history: messages the provider accepted
  trouble,
  unsure,     \* history: attempts whose outcome no row says
  orphaned,   \* history: deliveries a fault left, and no run has taken up again
  raced       \* history: alerts acknowledged across the end of their event

subjectVars == <<subject, level, clock, hooks>>
ruleVars == <<rule, channelOn, maintenance, edits>>
alertVars == <<health, alert, acking, raced>>
taskVars == <<delivery, job, aged, orphaned>>
sendVars == <<taskVars, sends, unsure>>
deliveryVars == <<subjectVars, ruleVars, alertVars, sendVars, trouble>>

Numbers == 1..MaxEvent
NoEvent == [kind |-> "none", start |-> -1, end |-> -1]
Levels == IF subject = "stream" THEN {"ok", "unavailable"} ELSE {"ok", "high", "unavailable"}
Idle == [pc |-> "none", left |-> 0]
Rules == {"loss"}

DeliveryInit ==
  /\ subject \in {"stream", "storage"} /\ level = "ok" /\ clock = 0 /\ hooks = << >>
  /\ health = [i \in Numbers |-> NoEvent]
  /\ alert = [i \in Numbers |-> "none"] /\ acking = {} /\ raced = {}
  /\ rule = [enabled |-> TRUE, kinds |-> {"high", "unavailable"}, duration |-> 0,
             cooldown |-> Cooldown, filter |-> NoFilter]
  /\ channelOn = TRUE /\ maintenance = FALSE /\ edits = 0
  /\ delivery = [i \in Numbers |-> "none"]
  /\ job = [i \in Numbers |-> Idle] /\ aged = {}
  /\ sends = [i \in Numbers |-> 0] /\ unsure = [i \in Numbers |-> 0]
  /\ orphaned = {} /\ trouble = 0

-----------------------------------------------------------------------------
(* The subject.  ZLMediaKit reports a change of the stream with a hook.    *)

SubjectChanges(l) ==
  /\ clock < MaxTransitions /\ l # level
  /\ level' = l /\ clock' = clock + 1
  /\ hooks' = IF subject = "stream" THEN Append(hooks, l) ELSE hooks
  /\ UNCHANGED <<subject, ruleVars, alertVars, sendVars, trouble>>

-----------------------------------------------------------------------------
(* Events and alerts.                                                      *)

OpenEvents == {i \in Numbers : health[i] # NoEvent /\ health[i].end = -1}
Unused == {i \in Numbers : health[i] = NoEvent}

(* What the observation of level l does to the events: an open event with *)
(* another label ends, a new one begins unless the subject is well or the *)
(* label is already open.                                                 *)
Ending(l) == {i \in OpenEvents : health[i].kind # l}
Opening(l) == l # "ok" /\ ~\E i \in OpenEvents : health[i].kind = l

EventsAfter(l, i) ==
  [k \in Numbers |->
     IF k \in Ending(l) THEN [health[k] EXCEPT !.end = clock]
     ELSE IF Opening(l) /\ k = i THEN [kind |-> l, start |-> clock, end |-> -1]
     ELSE health[k]]

\* Fault: only alerts nobody has acknowledged are resolved
ResolveOpenAlerts(l) ==
  [k \in Numbers |-> IF k \in Ending(l) /\ alert[k] = "OPEN" THEN "RESOLVED" ELSE alert[k]]

(* The alerts of the events that end are resolved, whatever their state. *)
ResolveEventAlerts(l) ==
  [k \in Numbers |-> IF k \in Ending(l) /\ alert[k] # "none" THEN "RESOLVED" ELSE alert[k]]

(* evaluate_event: does event i, new in events, raise the policy's alert? *)
Raises(i, events) ==
  RaisesAlert("loss", i, [r \in Rules |-> rule], events,
              {<<"loss", k>> : k \in {x \in Numbers : alert[x] # "none"}}, maintenance)

(* A stream lost once more leaves its open event, and asks the policies   *)
(* about it again.                                                        *)
LostAgain(l) == subject = "stream" /\ l # "ok" /\ ~Opening(l)

(* The transition, its alerts and its delivery are one transaction; the   *)
(* delivery is queued after it.                                           *)
Observe(l) ==
  \E i \in Numbers :
    /\ Opening(l) => i \in Unused /\ \A k \in Unused : i <= k
    /\ LostAgain(l) => i \in OpenEvents
    /\ Opening(l) \/ LostAgain(l) \/ i = 1
    /\ health' = EventsAfter(l, i)
    /\ LET raises == (Opening(l) \/ LostAgain(l)) /\ Raises(i, health')
       IN /\ alert' = [ResolveEventAlerts(l) EXCEPT ![i] = IF raises THEN "OPEN" ELSE @]
          /\ IF raises /\ channelOn
             THEN /\ delivery' = [delivery EXCEPT ![i] = "PENDING"]
                  /\ job' = [job EXCEPT ![i] = [pc |-> "unqueued", left |-> Retries]]
             ELSE UNCHANGED <<delivery, job>>
    /\ raced' = raced \union (acking \intersect Ending(l))
    /\ UNCHANGED <<acking, aged, sends, unsure, orphaned>>

HookArrives ==
  /\ hooks # << >>
  /\ Opening(Head(hooks)) => Unused # {}
  /\ hooks' = Tail(hooks)
  /\ Observe(Head(hooks))
  /\ UNCHANGED <<subject, level, clock, ruleVars, trouble>>

(* The transaction fails; the hook is acknowledged all the same. *)
HookFails ==
  /\ hooks # << >> /\ trouble < MaxTrouble
  /\ hooks' = Tail(hooks) /\ trouble' = trouble + 1
  /\ UNCHANGED <<subject, level, clock, ruleVars, alertVars, sendVars>>

CapacityGuard ==
  /\ subject = "storage"
  /\ Opening(level) => Unused # {}
  /\ Ending(level) # {} \/ Opening(level)
  /\ Observe(level)
  /\ UNCHANGED <<subjectVars, ruleVars, trouble>>

QueueDelivery(i) ==
  /\ job[i].pc = "unqueued"
  /\ job' = [job EXCEPT ![i].pc = "queued"]
  /\ UNCHANGED <<subjectVars, ruleVars, alertVars, delivery, aged, sends,
                 unsure, orphaned, trouble>>

(* The queue refuses, or the process ends between commit and queue. *)
QueueFails(i) ==
  /\ job[i].pc = "unqueued" /\ trouble < MaxTrouble
  /\ job' = [job EXCEPT ![i] = Idle]
  /\ orphaned' = orphaned \union {i} /\ trouble' = trouble + 1
  /\ UNCHANGED <<subjectVars, ruleVars, alertVars, delivery, aged, sends, unsure>>

-----------------------------------------------------------------------------
(* Requests on alerts, policies and targets.                               *)

(* An acknowledgement reads the alert, then writes its state.  One request *)
(* at a time is looked at.                                                 *)
AcknowledgeReads(i) ==
  /\ alert[i] = "OPEN" /\ acking = {}
  /\ acking' = acking \union {i}
  /\ UNCHANGED <<subjectVars, ruleVars, health, alert, raced, sendVars, trouble>>

AcknowledgeWrites(i) ==
  /\ i \in acking /\ acking' = acking \ {i}
  /\ alert' = [alert EXCEPT ![i] = "ACKNOWLEDGED"]
  /\ UNCHANGED <<subjectVars, ruleVars, health, raced, sendVars, trouble>>

ResolveAlert(i) ==
  /\ alert[i] \in {"OPEN", "ACKNOWLEDGED"}
  /\ alert' = [alert EXCEPT ![i] = "RESOLVED"]
  /\ raced' = raced \union (acking \intersect {i})
  /\ UNCHANGED <<subjectVars, ruleVars, health, acking, sendVars, trouble>>

UpdatePolicy ==
  /\ edits < MaxEdits /\ edits' = edits + 1
  /\ rule' = [rule EXCEPT !.enabled = ~@]
  /\ UNCHANGED <<subjectVars, channelOn, maintenance, alertVars, sendVars, trouble>>

UpdateTarget ==
  /\ edits < MaxEdits /\ edits' = edits + 1
  /\ channelOn' = ~channelOn
  /\ UNCHANGED <<subjectVars, rule, maintenance, alertVars, sendVars, trouble>>

SetMaintenance ==
  /\ subject = "stream" /\ edits < MaxEdits /\ edits' = edits + 1
  /\ maintenance' = ~maintenance
  /\ UNCHANGED <<subjectVars, rule, channelOn, alertVars, sendVars, trouble>>

-----------------------------------------------------------------------------
(* The delivery task: prepare commits SENDING, the adapter sends outside of *)
(* any transaction, and the outcome is committed.                          *)

Finish(i, st, j) ==
  /\ delivery' = [delivery EXCEPT ![i] = st]
  /\ job' = [job EXCEPT ![i] = j]
  /\ aged' = aged \ {i} /\ orphaned' = orphaned \ {i}

(* The queue runs a task that raised again, half a minute later, while     *)
(* retries are left.                                                       *)
Retry(i) == IF job[i].left > 0 THEN [pc |-> "queued", left |-> job[i].left - 1] ELSE Idle

(* A row stays SENDING when the outcome of its attempt was not stored.  A  *)
(* run within five minutes raises; a later one sends again.                *)
Busy(i) == delivery[i] = "SENDING" /\ i \notin aged
Decided(i) == delivery[i] \in {"SENT", "SKIPPED"}

FiveMinutesPass(i) ==
  /\ Busy(i) /\ job[i].pc # "none"
  /\ aged' = aged \union {i}
  /\ UNCHANGED <<subjectVars, ruleVars, alertVars, delivery, job, sends, unsure, orphaned, trouble>>

Prepare(i) ==
  /\ job[i].pc = "queued"
  /\ \/ Decided(i) /\ Finish(i, delivery[i], Idle)
     \/ ~Decided(i) /\ ~channelOn /\ Finish(i, "SKIPPED", Idle)
     \/ /\ channelOn /\ Busy(i)
        /\ job' = [job EXCEPT ![i] = Retry(i)] /\ UNCHANGED <<delivery, aged, orphaned>>
     \/ /\ ~Decided(i) /\ channelOn /\ ~Busy(i)
        /\ Finish(i, "SENDING", [job[i] EXCEPT !.pc = "sending"])
  /\ UNCHANGED <<subjectVars, ruleVars, alertVars, sends, unsure, trouble>>

(* The secret cannot be read: FAILED, and no retry. *)
PrepareFails(i) ==
  /\ job[i].pc = "queued" /\ channelOn /\ trouble < MaxTrouble
  /\ ~Decided(i) /\ ~Busy(i)
  /\ Finish(i, "FAILED", Idle) /\ trouble' = trouble + 1
  /\ UNCHANGED <<subjectVars, ruleVars, alertVars, sends, unsure>>

(* The provider takes the message, or does not. *)
Taken(i, b) == sends' = [sends EXCEPT ![i] = IF b THEN @ + 1 ELSE @]
Unstored(i, b) == unsure' = [unsure EXCEPT ![i] = IF b THEN @ + 1 ELSE @]

(* The adapter's call: accepted and answered, or refused for good; or, the *)
(* message taken or not, an error the adapter reports, or one that no      *)
(* handler expects and that ends the run with the row as it is.            *)
Send(i) ==
  /\ job[i].pc = "sending"
  /\ \/ /\ job' = [job EXCEPT ![i].pc = "accepted"]
        /\ Taken(i, TRUE) /\ UNCHANGED <<unsure, trouble, orphaned>>
     \/ /\ trouble < MaxTrouble /\ trouble' = trouble + 1
        /\ \/ /\ job' = [job EXCEPT ![i].pc = "refused"] /\ UNCHANGED <<sends, unsure, orphaned>>
           \/ \E b \in BOOLEAN :
                /\ Taken(i, b) /\ Unstored(i, b)
                /\ \/ job' = [job EXCEPT ![i].pc = "failed"] /\ UNCHANGED orphaned
                   \/ job' = [job EXCEPT ![i] = Retry(i)] /\ orphaned' = orphaned \union {i}
  /\ UNCHANGED <<subjectVars, ruleVars, alertVars, delivery, aged>>

\* Fault: the task is run again after a success
MarkSentAndRetry(i) ==
  /\ job[i].pc = "accepted" /\ Finish(i, "FAILED", Retry(i))
  /\ UNCHANGED <<subjectVars, ruleVars, alertVars, sends, unsure, trouble>>

MarkSent(i) ==
  /\ job[i].pc = "accepted" /\ Finish(i, "SENT", Idle)
  /\ UNCHANGED <<subjectVars, ruleVars, alertVars, sends, unsure, trouble>>

(* A permanent error ends the delivery; another one is raised. *)
MarkFailed(i) ==
  /\ \/ job[i].pc = "refused" /\ Finish(i, "FAILED", Idle)
     \/ job[i].pc = "failed" /\ Finish(i, "FAILED", Retry(i))
  /\ UNCHANGED <<subjectVars, ruleVars, alertVars, sends, unsure, trouble>>

(* The database fails as the run prepares or stores its outcome: the row   *)
(* stays as it is and the task is run again.                               *)
RunRaises(i) ==
  /\ job[i].pc \in {"queued", "accepted", "refused", "failed"}
  /\ trouble < MaxTrouble /\ trouble' = trouble + 1
  /\ job' = [job EXCEPT ![i] = Retry(i)]
  /\ Unstored(i, job[i].pc = "accepted")
  /\ orphaned' = IF delivery[i] = "SENDING" \/ job[i].left = 0 THEN orphaned \union {i} ELSE orphaned
  /\ UNCHANGED <<subjectVars, ruleVars, alertVars, delivery, aged, sends>>

(* The worker ends while it runs the task: the queue does not run it again. *)
WorkerDies(i) ==
  /\ job[i].pc \in {"sending", "accepted", "refused", "failed"} /\ trouble < MaxTrouble
  /\ job' = [job EXCEPT ![i] = Idle]
  /\ orphaned' = orphaned \union {i} /\ trouble' = trouble + 1
  /\ UNCHANGED <<subjectVars, ruleVars, alertVars, delivery, aged, sends, unsure>>

Deliver(i) ==
  \/ QueueDelivery(i) \/ Prepare(i) \/ Send(i) \/ MarkSent(i) \/ MarkFailed(i)

DeliveryNext ==
  \/ \E l \in Levels : SubjectChanges(l)
  \/ HookArrives \/ HookFails \/ CapacityGuard
  \/ UpdatePolicy \/ UpdateTarget \/ SetMaintenance
  \/ \E i \in Numbers :
       \/ QueueFails(i) \/ PrepareFails(i) \/ RunRaises(i) \/ WorkerDies(i)
       \/ FiveMinutesPass(i) \/ Deliver(i)
       \/ AcknowledgeReads(i) \/ AcknowledgeWrites(i) \/ ResolveAlert(i)

DeliverySpec == DeliveryInit /\ [][DeliveryNext]_deliveryVars

DeliveryFairness ==
  \A i \in Numbers : WF_deliveryVars(Deliver(i))

-----------------------------------------------------------------------------
(* Properties.                                                             *)

(* The alerts say what the events say.  At most one event of a subject is  *)
(* open.  An alert whose event is over is resolved, unless a request that  *)
(* had read it before wrote ACKNOWLEDGED after it (alerts/api.py:339).     *)
(* And one policy raises no second alert within its cooldown, whichever of *)
(* the observers opened the events.                                        *)
AlertsFollowHealth ==
  /\ Cardinality(OpenEvents) <= 1
  /\ \A i \in Numbers :
       alert[i] \in {"OPEN", "ACKNOWLEDGED"} => health[i].end = -1 \/ i \in raced
  /\ \A i, j \in Numbers :
       /\ i < j /\ alert[i] # "none" /\ alert[j] # "none"
       /\ health[i].start < health[j].start
       => health[j].start - health[i].start > Cooldown

(* A provider is given a message once, plus once for every attempt whose   *)
(* outcome is in no row: the answer was lost, the adapter broke off, or    *)
(* the outcome could not be stored, and a retry was late enough to find    *)
(* the row no longer busy.  A delivery that says SENT was accepted.        *)
SentOnceUnlessUnsure ==
  \A i \in Numbers : /\ sends[i] <= 1 + unsure[i]
                     /\ delivery[i] = "SENT" => sends[i] >= 1

(* Every delivery ends in SENT, FAILED or SKIPPED, unless it was never     *)
(* queued, its worker ended under it, or an error no handler expects ended *)
(* its last run or left it SENDING: the retries come within the five       *)
(* minutes in which it is busy, and nothing queues a delivery a second     *)
(* time (notifications/dispatcher.py:17).  A retry that is late takes such *)
(* a delivery up again, and then it ends.                                  *)
DeliveriesEnd ==
  <>[](\A i \in Numbers \ orphaned : delivery[i] \notin {"PENDING", "SENDING"})

=============================================================================
