---------------------------- MODULE OnvifEvents ----------------------------
(***************************************************************************)
(* Events of one ONVIF device: the runtime thread that keeps a pull-point  *)
(* subscription per configured device (onvif/event_runtime.py,             *)
(* onvif/events.py) and the ingest of its notifications (events/onvif.py). *)
(*                                                                         *)
(* The device has one property, active or not, that changes at numbered    *)
(* instants; a notification carries the state and the instant, which       *)
(* together stand for its fingerprint.  A subscription asks for a          *)
(* synchronization point when it is opened, so that the device repeats its *)
(* current state.  Notifications come in the order of their instants; the  *)
(* handler ingests those of one pull in one transaction, and the thread's  *)
(* event loop runs nothing else meanwhile.  Requests change the camera or  *)
(* its endpoint, commit, and wake the runtime only when they are answered  *)
(* without an error (main.py request_context).                             *)
(***************************************************************************)
EXTENDS Integers, FiniteSets

CONSTANTS MaxChanges,       \* bound: changes of the device's property
          MaxConfigs,       \* bound: changes of the device's or the recording configuration
          MaxDrops          \* bound: failures of subscription or handler

ASSUME OnvifConstants == MaxChanges \in Nat

VARIABLES
  prop,       \* the device's property: [on, at]
  target,     \* the configured target: 0 none, otherwise its version
  policy,     \* the camera's recording policy: "on", "off", "filtered"
  changes,    \* changes of the configuration so far
  request,    \* a request between its commit and its answer
  wake,       \* the runtime's asyncio event
  thread,     \* "waiting", "loading", "dead"
  loaded,     \* the target that reconcile has loaded
  task,       \* the target that the running task serves, 0 for no task
  sub,        \* "closed", "open", "lost"
  inbox,      \* notifications of the subscription, at the device
  rows,       \* ONVIF events of the property: instant -> "open"/"ended"
  rec,        \* the recording trigger of each event
  handling,   \* the handler has a transaction open
  batch,      \* notifications that it has not ingested
  draft,      \* rows and triggers as the transaction sees them, and its policy
  drops,
  swallowed,  \* history: events whose last report the recording policy swallowed
  untold      \* history: a request that changed the target was an error

onvifVars == <<policy, prop, target, changes, request, wake, thread, loaded, task, sub,
               inbox, rows, rec, swallowed, handling, batch, draft, drops, untold>>
handlerVars == <<handling, batch, draft>>
storedVars == <<rows, rec, swallowed, policy>>

Instants == 0..MaxChanges
Targets == 0..2
EventPolicies == {"on", "off", "filtered"}
Unread == "unread"

OnvifInit ==
  /\ prop \in [on : BOOLEAN, at : {0}]
  /\ target \in 0..1 /\ changes = 0 /\ request = "none"
  /\ wake = FALSE /\ thread = "loading" /\ loaded = 0 /\ task = 0
  /\ sub = "closed" /\ inbox = {}
  /\ rows = [i \in Instants |-> "none"]
  /\ rec = [i \in Instants |-> "none"]
  /\ swallowed = {} /\ policy \in EventPolicies
  /\ handling = FALSE /\ batch = {}
  /\ draft = [rows |-> rows, rec |-> rec, swallowed |-> {}, policy |-> Unread]
  /\ drops = 0 /\ untold = FALSE

-----------------------------------------------------------------------------
(* The device.                                                             *)

DeviceChanges ==
  /\ prop.at < MaxChanges
  /\ prop' = [on |-> ~prop.on, at |-> prop.at + 1]
  /\ inbox' = IF sub = "open" THEN inbox \cup {prop'} ELSE inbox
  /\ UNCHANGED <<target, changes, request, wake, thread, loaded, task, sub,
                 storedVars, handlerVars, drops, untold>>

(* The device forgets the subscription: reboot, renewal refused. *)
SubscriptionLost ==
  /\ sub = "open" /\ drops < MaxDrops
  /\ sub' = "lost" /\ inbox' = {} /\ drops' = drops + 1
  /\ UNCHANGED <<prop, target, changes, request, wake, thread, loaded, task,
                 storedVars, handlerVars, untold>>

-----------------------------------------------------------------------------
(* Requests and the runtime thread.                                        *)

ChangeConfig(t) ==
  /\ request = "none" /\ changes < MaxConfigs /\ t # target
  /\ target' = t /\ changes' = changes + 1 /\ request' = "committed"
  /\ UNCHANGED <<prop, wake, thread, loaded, task, sub, inbox, storedVars, handlerVars, drops, untold>>

RequestAnswered ==
  /\ request = "committed" /\ request' = "none"
  /\ wake' = (wake \/ thread # "dead") /\ untold' = FALSE
  /\ UNCHANGED <<prop, target, changes, thread, loaded, task, sub, inbox, storedVars, handlerVars, drops>>

(* The commit is done and a later call of the request fails. *)
RequestFails ==
  /\ request = "committed" /\ request' = "none"
  /\ untold' = TRUE
  /\ UNCHANGED <<prop, target, changes, wake, thread, loaded, task, sub, inbox,
                 storedVars, handlerVars, drops>>

(* wake.wait(), wake.clear(); the targets are read after it. *)
Woken ==
  /\ thread = "waiting" /\ wake /\ ~handling
  /\ wake' = FALSE /\ thread' = "loading"
  /\ UNCHANGED <<prop, target, changes, request, loaded, task, sub, inbox,
                 storedVars, handlerVars, drops, untold>>

LoadTargets ==
  /\ thread = "loading" /\ ~handling
  /\ loaded' = target /\ thread' = "applying"
  /\ UNCHANGED <<prop, target, changes, request, wake, task, sub, inbox,
                 storedVars, handlerVars, drops, untold>>

(* The loader's exception ends the thread; every task is cancelled. *)
LoadFails ==
  /\ thread = "loading" /\ drops < MaxDrops /\ ~handling
  /\ thread' = "dead" /\ task' = 0 /\ sub' = "closed" /\ inbox' = {}
  /\ wake' = FALSE /\ drops' = drops + 1
  /\ UNCHANGED <<prop, target, changes, request, loaded, storedVars, handlerVars, untold>>

(* Cancelling a task closes its subscription. *)
ApplyTargets ==
  /\ thread = "applying" /\ ~handling
  /\ thread' = "waiting"
  /\ task' = loaded
  /\ IF task = loaded THEN UNCHANGED <<sub, inbox>>
     ELSE sub' = "closed" /\ inbox' = {}
  /\ UNCHANGED <<prop, target, changes, request, wake, loaded, storedVars, handlerVars, drops, untold>>

-----------------------------------------------------------------------------
(* The task of the device.                                                 *)

\* Fault: no synchronization point is requested
OpenSilently ==
  /\ task # 0 /\ sub = "closed" /\ task = target /\ ~handling
  /\ sub' = "open" /\ inbox' = {}
  /\ UNCHANGED <<prop, target, changes, request, wake, thread, loaded, task,
                 storedVars, handlerVars, drops, untold>>

(* A device answers only at its current endpoint and credentials. *)
OpenSubscription ==
  /\ task # 0 /\ sub = "closed" /\ task = target /\ ~handling
  /\ sub' = "open" /\ inbox' = {prop}
  /\ UNCHANGED <<prop, target, changes, request, wake, thread, loaded, task,
                 storedVars, handlerVars, drops, untold>>

(* A pull that fails closes the subscription; it is opened again later. *)
PullFails ==
  /\ task # 0 /\ ~handling
  /\ sub = "lost" \/ (sub = "open" /\ task # target)
  /\ sub' = "closed" /\ inbox' = {}
  /\ UNCHANGED <<prop, target, changes, request, wake, thread, loaded, task,
                 storedVars, handlerVars, drops, untold>>

OpenEvent(r) == {i \in Instants : r[i] = "open"}

(* A false state closes the open event, a true one opens an event unless   *)
(* one is open or this very notification was closed before.                *)
IngestOne(n, r) ==
  IF ~n.on THEN [i \in Instants |-> IF i \in OpenEvent(r) THEN "ended" ELSE r[i]]
  ELSE IF OpenEvent(r) = {} /\ r[n.at] = "none" THEN [r EXCEPT ![n.at] = "open"]
  ELSE r

(* The event a notification is about: the open one, which it ends or      *)
(* repeats, otherwise the one it opens or replays.                        *)
Touched(n, r) == IF n.on /\ OpenEvent(r) = {} THEN {n.at} ELSE OpenEvent(r)

(* Without event recording no trigger is stored, not even the end of an   *)
(* active one; the policy's event filter keeps one from being created.    *)
Refused(i, p, t) == p = "off" \/ (p = "filtered" /\ t[i] = "none")

(* The trigger of an event follows it: active, then completed for good. *)
SyncTriggers(S, r, t) ==
  [i \in Instants |-> IF i \notin S THEN t[i]
                      ELSE IF r[i] = "ended" THEN "COMPLETED"
                      ELSE IF t[i] = "none" THEN "ACTIVE" ELSE t[i]]

(* The handler's transaction reads the recording policy once. *)
PullMessages ==
  /\ task # 0 /\ sub = "open" /\ inbox # {} /\ ~handling
  /\ handling' = TRUE /\ batch' = inbox /\ inbox' = {}
  /\ draft' = [draft EXCEPT !.policy = policy]
  /\ UNCHANGED <<prop, target, changes, request, wake, thread, loaded, task, sub,
                 storedVars, drops, untold>>

(* The notifications of a pull are ingested one by one, in their order. *)
IngestNext ==
  /\ handling
  /\ \E n \in batch :
       /\ \A m \in batch : n.at <= m.at
       /\ batch' = batch \ {n}
       /\ LET r == IngestOne(n, draft.rows)
              T == Touched(n, draft.rows)
              refused == {i \in T : Refused(i, draft.policy, draft.rec)}
          IN draft' = [rows |-> r, rec |-> SyncTriggers(T \ refused, r, draft.rec),
                       swallowed |-> (draft.swallowed \ T) \cup refused, policy |-> draft.policy]
  /\ UNCHANGED <<prop, target, changes, request, wake, thread, loaded, task, sub,
                 inbox, storedVars, handling, drops, untold>>

CommitBatch ==
  /\ handling /\ batch = {}
  /\ rows' = draft.rows /\ rec' = draft.rec /\ swallowed' = draft.swallowed
  /\ handling' = FALSE /\ draft' = [draft EXCEPT !.policy = Unread]
  /\ UNCHANGED <<policy, prop, target, changes, request, wake, thread, loaded, task, sub,
                 inbox, batch, drops, untold>>

(* The transaction is rolled back. *)
Abandon ==
  /\ handling /\ drops < MaxDrops
  /\ handling' = FALSE /\ batch' = {} /\ drops' = drops + 1
  /\ draft' = [rows |-> rows, rec |-> rec, swallowed |-> swallowed, policy |-> Unread]

\* Fault: the handler's exception does not reach the task of the device
HandlerFailsQuietly ==
  /\ Abandon
  /\ UNCHANGED <<prop, target, changes, request, wake, thread, loaded, task, sub,
                 inbox, storedVars, untold>>

(* The handler fails: nothing is stored and the subscription is closed. *)
HandlerFails ==
  /\ Abandon
  /\ sub' = "closed" /\ inbox' = {}
  /\ UNCHANGED <<prop, target, changes, request, wake, thread, loaded, task,
                 storedVars, untold>>

(* A request stores the recording policy of the camera. *)
ChangePolicy(p) ==
  /\ changes < MaxConfigs /\ p # policy
  /\ policy' = p /\ changes' = changes + 1
  /\ UNCHANGED <<prop, target, request, wake, thread, loaded, task, sub, inbox,
                 rows, rec, swallowed, handlerVars, drops, untold>>

OnvifNext ==
  \/ DeviceChanges \/ SubscriptionLost
  \/ \E t \in Targets : ChangeConfig(t)
  \/ \E p \in EventPolicies : ChangePolicy(p)
  \/ RequestAnswered \/ RequestFails
  \/ Woken \/ LoadTargets \/ LoadFails \/ ApplyTargets
  \/ OpenSubscription \/ PullFails \/ PullMessages
  \/ IngestNext \/ CommitBatch \/ HandlerFails

OnvifSpec == OnvifInit /\ [][OnvifNext]_onvifVars

OnvifFairness ==
  /\ WF_onvifVars(Woken) /\ WF_onvifVars(LoadTargets) /\ WF_onvifVars(ApplyTargets)
  /\ WF_onvifVars(RequestAnswered \/ RequestFails)
  /\ WF_onvifVars(OpenSubscription) /\ WF_onvifVars(PullFails) /\ WF_onvifVars(PullMessages)
  /\ WF_onvifVars(IngestNext) /\ WF_onvifVars(CommitBatch)

-----------------------------------------------------------------------------
(* Properties.                                                             *)

TriggerOf(row) == CASE row = "none" -> "none" [] row = "open" -> "ACTIVE" [] OTHER -> "COMPLETED"

(* What a commit of the handler leaves in the tables (events/onvif.py:241, *)
(* 412): at most one event is open, every trigger is in the state of its   *)
(* event unless the recording policy swallowed the event's last report     *)
(* (recordings/triggers.py:141), no trigger is completed before its event  *)
(* is over, and a task that has stored all that its subscription delivered *)
(* has an open event exactly when the device's property is active.  A      *)
(* notification is never lost between the pull and the commit while the    *)
(* subscription stays open, a replayed one reopens nothing, and what was   *)
(* missed while no subscription was open comes back with the next.         *)
EventsFollowDevice ==
  /\ \A i, j \in OpenEvent(rows) : i = j
  /\ \A i \in Instants : /\ rec[i] = TriggerOf(rows[i]) \/ i \in swallowed
                         /\ rec[i] = "ACTIVE" => rows[i] # "none"
                         /\ rec[i] = "COMPLETED" => rows[i] = "ended"
  /\ sub = "open" /\ ~handling /\ inbox = {} => (OpenEvent(rows) # {} <=> prop.on)

(* In the end the events table says what the device says: while a device  *)
(* is configured, an ONVIF event and its trigger are open exactly when the *)
(* property is active, and there is one of them; a device that is not      *)
(* configured has no task.  Lost subscriptions and failed ingests are      *)
(* healed by the synchronization point of the next subscription.  A        *)
(* runtime whose loader failed is dead and a request that ends in an error *)
(* does not wake it (onvif/event_runtime.py:331, main.py:240).             *)
OnvifEventsMatchDevice ==
  <>[](thread # "dead" /\ ~untold =>
         /\ task = target
         /\ target # 0 =>
              /\ Cardinality(OpenEvent(rows)) = IF prop.on THEN 1 ELSE 0
              /\ \A i \in Instants \ swallowed : rec[i] = "ACTIVE" <=> rows[i] = "open")

=============================================================================
