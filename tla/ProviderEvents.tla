--------------------------- MODULE ProviderEvents ---------------------------
(***************************************************************************)
(* Events of a Frigate server: the MQTT subscription                       *)
(* (integrations/frigate/mqtt_runtime.py), the periodic and requested      *)
(* backfill over HTTP (worker/tasks.py), and what both persist: the event  *)
(* row, its recording trigger and the alerts it raises                     *)
(* (events/frigate.py, events/service.py, recordings/triggers.py).         *)
(*                                                                         *)
(* Time is counted in backfill periods of five minutes.  A backfill asks   *)
(* for the events that began in the last two periods, reads a page and     *)
(* persists it later; MQTT messages are ingested in between.  A broker     *)
(* keeps the messages of the persistent session, so a message is lost only *)
(* when its ingest fails: the client has acknowledged it by then.          *)
(***************************************************************************)
EXTENDS AlertRules, Sequences

CONSTANTS FrigateEvent,     \* events of the Frigate server
          LookbackPeriods,  \* periods a backfill looks back
          MaxPeriod,        \* bound: backfill periods
          MaxIngestFaults,  \* bound: failed ingests and failed HTTP reads
          MaxPuts           \* bound: changes of the settings

ASSUME LookbackAssumption == LookbackPeriods \in Nat \ {0}

VARIABLES
  provider,   \* the Frigate settings row
  mqttCfg,    \* what the MQTT runtime was last configured with
  tracked,    \* events at Frigate: start and end (periods), kind
  channel,    \* MQTT messages not yet taken
  page,       \* the page a backfill has read and not persisted
  period,     \* the current period
  eventRow,   \* rows of the events table
  trigger,    \* recording triggers of the events
  raised,     \* alerts: pairs of policy and event
  unheard,    \* history: events of which the recording policy swallowed a report
  ingestFaults,
  recording,  \* the camera's recording policy: "on", "off", "filtered"
  queued,     \* a requested backfill waits for a worker
  puts,       \* changes of the settings so far
  seen,       \* history: the last page that could show the end has done so
  reopened    \* history: a page overwrote the end and no later page has it

providerVars == <<provider, mqttCfg, recording, puts, queued>>
worldVars == <<tracked, channel, period>>
storeVars == <<eventRow, trigger, raised, unheard>>
frigateVars == <<providerVars, worldVars, storeVars, page, ingestFaults, seen, reopened>>

NoRow == [start |-> -1, end |-> -1, kind |-> "none"]
NoPage == [open |-> FALSE, items |-> {}]
On == [enabled |-> TRUE, mqtt |-> TRUE]
Off == [enabled |-> FALSE, mqtt |-> FALSE]
RecordingPolicies == {"on", "off", "filtered"}
Policies == {"brief", "long"}
PolicyRow == [p \in Policies |->
  [enabled |-> TRUE, kinds |-> {"object"}, filter |-> NoFilter,
   duration |-> IF p = "long" THEN 1 ELSE 0,
   cooldown |-> IF p = "brief" THEN 1 ELSE 0]]

FrigateInit ==
  /\ provider = On /\ mqttCfg = On /\ puts = 0 /\ queued = FALSE
  /\ recording \in RecordingPolicies
  /\ tracked = [e \in FrigateEvent |-> NoRow]
  /\ channel = << >> /\ page = NoPage /\ period = 0
  /\ eventRow = [e \in FrigateEvent |-> NoRow]
  /\ trigger = [e \in FrigateEvent |-> "none"]
  /\ unheard = [e \in FrigateEvent |-> FALSE]
  /\ raised = {} /\ ingestFaults = 0
  /\ seen = [e \in FrigateEvent |-> FALSE]
  /\ reopened = [e \in FrigateEvent |-> FALSE]

-----------------------------------------------------------------------------
(* The Frigate server.  It also reports what must be ignored: false        *)
(* positives, and objects of cameras that the settings do not map.         *)

Report(e) ==
  channel' = Append(channel, [e |-> e, row |-> tracked'[e]])

FrigateStarts(e) ==
  /\ tracked[e] = NoRow
  /\ \E kind \in {"object", "ignored"} :
       tracked' = [tracked EXCEPT ![e] = [start |-> period, end |-> -1, kind |-> kind]]
  /\ Report(e)
  /\ UNCHANGED <<period, providerVars, storeVars, page, ingestFaults, seen, reopened>>

FrigateEnds(e) ==
  /\ tracked[e].start # -1 /\ tracked[e].end = -1
  /\ tracked' = [tracked EXCEPT ![e].end = period]
  /\ Report(e)
  /\ UNCHANGED <<period, providerVars, storeVars, page, ingestFaults, seen, reopened>>

-----------------------------------------------------------------------------
(* Persisting one reported event.                                          *)

(* False positives and cameras outside of the map are ignored. *)
NormalizeObject(m) == m.row.kind = "object"

(* The row takes every field of the report, its end included. *)
UpsertProviderEvent(m, rows) == [rows EXCEPT ![m.e] = m.row]

(* Without event recording nothing is stored, not even the end of an       *)
(* active trigger; the policy's event filter keeps a trigger from being    *)
(* created.                                                                *)
Swallowed(t) == recording = "off" \/ (recording = "filtered" /\ t = "none")

\* Fault: a report without an end starts the recording again
UpsertTriggerAgain(m, triggers) ==
  [triggers EXCEPT ![m.e] =
     IF Swallowed(@) THEN @ ELSE IF m.row.end # -1 THEN "COMPLETED" ELSE "ACTIVE"]

(* A trigger is created with the event's state, completed when the event  *)
(* has an end, and never goes back.                                       *)
UpsertProviderTrigger(m, triggers) ==
  [triggers EXCEPT ![m.e] =
     IF Swallowed(@) THEN @
     ELSE IF m.row.end # -1 THEN "COMPLETED" ELSE IF @ = "none" THEN "ACTIVE" ELSE @]

EvaluateEvent(m, rows, alerts) ==
  alerts \union {<<p, m.e>> : p \in {q \in Policies :
                    RaisesAlert(q, m.e, PolicyRow, rows, alerts, FALSE)}}

(* events/frigate.py _persist of a set of reports of different events, in *)
(* one session.  Alerts of a page are evaluated in the order of the page; *)
(* with two events at most one of them can silence the other.             *)
Persist(items) ==
  LET kept == {m \in items : NormalizeObject(m)}
      Row(e) == CHOOSE m \in kept : m.e = e
      has == {m.e : m \in kept}
      rows == [e \in FrigateEvent |-> IF e \in has THEN UpsertProviderEvent(Row(e), eventRow)[e]
                                      ELSE eventRow[e]]
  IN /\ eventRow' = rows
     /\ trigger' = [e \in FrigateEvent |->
                      IF e \in has THEN UpsertProviderTrigger(Row(e), trigger)[e] ELSE trigger[e]]
     /\ \E order \in {f \in [1..Cardinality(kept) -> kept] :
                        \A i, j \in DOMAIN f : f[i] = f[j] => i = j} :
          LET after[i \in 0..Cardinality(kept)] ==
                IF i = 0 THEN raised ELSE EvaluateEvent(order[i], rows, after[i - 1])
          IN raised' = after[Cardinality(kept)]
     /\ reopened' = [e \in FrigateEvent |->
          IF e \in has THEN /\ eventRow[e].end # -1 \/ reopened[e]
                            /\ rows[e].end = -1
                       ELSE reopened[e]]
     /\ unheard' = [e \in FrigateEvent |->
          IF e \notin has THEN unheard[e]
          ELSE IF Swallowed(trigger[e]) THEN unheard[e] \/ trigger[e] # "COMPLETED"
          ELSE unheard[e] /\ trigger'[e] # "COMPLETED" /\ reopened'[e]]

-----------------------------------------------------------------------------
(* MQTT.                                                                   *)

Subscribed == mqttCfg.enabled /\ mqttCfg.mqtt

OnMessage ==
  /\ channel # << >> /\ Subscribed
  /\ channel' = Tail(channel)
  /\ Persist({Head(channel)})
  /\ UNCHANGED <<tracked, period, providerVars, page, ingestFaults, seen>>

(* The ingest fails, is logged, and the message has been acknowledged. *)
OnMessageFails ==
  /\ channel # << >> /\ Subscribed /\ ingestFaults < MaxIngestFaults
  /\ channel' = Tail(channel)
  /\ ingestFaults' = ingestFaults + 1
  /\ UNCHANGED <<tracked, period, providerVars, storeVars, page, seen, reopened>>

(* The settings row is committed; then a backfill is queued, and the MQTT  *)
(* client is replaced.                                                     *)
PutFrigate(s) ==
  /\ provider # s /\ mqttCfg = provider
  /\ puts < MaxPuts /\ puts' = puts + 1
  /\ provider' = s /\ queued' = (queued \/ s.enabled)
  /\ UNCHANGED <<mqttCfg, recording, worldVars, storeVars, page, ingestFaults, seen, reopened>>

(* The recording policy of the camera is edited. *)
PutRecordingPolicy(v) ==
  /\ recording # v /\ recording' = v
  /\ puts < MaxPuts /\ puts' = puts + 1
  /\ UNCHANGED <<provider, mqttCfg, queued, worldVars, storeVars, page, ingestFaults, seen, reopened>>

Reconfigure ==
  /\ mqttCfg # provider
  /\ mqttCfg' = provider
  /\ UNCHANGED <<provider, recording, puts, queued, worldVars, storeVars, page, ingestFaults, seen, reopened>>

-----------------------------------------------------------------------------
(* Backfill.                                                               *)

InWindow(e) ==
  tracked[e].start # -1 /\ period - tracked[e].start < LookbackPeriods

(* A page shows the end for good when the event is over as it is read. *)
ReadPage ==
  /\ page' = [open |-> TRUE,
              items |-> {[e |-> e, row |-> tracked[e]] : e \in {x \in FrigateEvent : InWindow(x)}}]
  /\ seen' = [e \in FrigateEvent |-> seen[e] \/ (InWindow(e) /\ tracked[e].end # -1)]

BackfillReads ==
  /\ provider.enabled /\ ~page.open
  /\ period < MaxPeriod /\ period' = period + 1
  /\ ReadPage
  /\ UNCHANGED <<tracked, channel, providerVars, storeVars, ingestFaults, reopened>>

(* A disabled provider reads nothing; time passes. *)
BackfillSkips ==
  /\ ~provider.enabled /\ period < MaxPeriod
  /\ period' = period + 1
  /\ UNCHANGED <<tracked, channel, providerVars, storeVars, page, ingestFaults, seen, reopened>>

BackfillRequested ==
  /\ queued /\ ~page.open
  /\ queued' = FALSE
  /\ IF provider.enabled THEN ReadPage ELSE UNCHANGED <<page, seen>>
  /\ UNCHANGED <<worldVars, provider, mqttCfg, recording, puts, storeVars, ingestFaults, reopened>>

BackfillPersists ==
  /\ page.open
  /\ page' = NoPage
  /\ Persist(page.items)
  /\ UNCHANGED <<worldVars, providerVars, ingestFaults, seen>>

(* The HTTP request or the database fails; the periodic task is not       *)
(* retried.                                                               *)
BackfillFails ==
  /\ page.open /\ ingestFaults < MaxIngestFaults
  /\ page' = NoPage /\ ingestFaults' = ingestFaults + 1
  /\ seen' = [e \in FrigateEvent |-> FALSE]
  /\ UNCHANGED <<worldVars, providerVars, storeVars, reopened>>

FrigateNext ==
  \/ \E e \in FrigateEvent : FrigateStarts(e) \/ FrigateEnds(e)
  \/ OnMessage \/ OnMessageFails
  \/ \E s \in {On, Off} : PutFrigate(s)
  \/ \E v \in RecordingPolicies : PutRecordingPolicy(v)
  \/ Reconfigure
  \/ BackfillReads \/ BackfillSkips \/ BackfillRequested
  \/ BackfillPersists \/ BackfillFails

FrigateSpec == FrigateInit /\ [][FrigateNext]_frigateVars

FrigateFairness ==
  /\ WF_frigateVars(OnMessage) /\ WF_frigateVars(Reconfigure)
  /\ WF_frigateVars(BackfillPersists) /\ WF_frigateVars(BackfillRequested)
  /\ WF_frigateVars(BackfillReads) /\ WF_frigateVars(BackfillSkips)
  /\ \A e \in FrigateEvent : WF_frigateVars(FrigateEnds(e))

-----------------------------------------------------------------------------
(* Properties.                                                             *)

(* Once an event is over and either nothing failed or a backfill read its *)
(* end, its recording trigger is completed, so event recording stops,     *)
(* unless the recording policy swallowed the report; and its row has the  *)
(* end as well, unless a page that was read before the end and persisted  *)
(* after it was the last page to hold the event (events/service.py        *)
(* upsert_provider_event overwrites ended_at).                            *)
EventKnownOver(e) ==
  /\ tracked[e].end # -1 /\ tracked[e].kind = "object"
  /\ ingestFaults = 0 \/ seen[e]

FrigateEventsSettle ==
  <>[](\A e \in FrigateEvent :
         provider.enabled /\ EventKnownOver(e) /\ channel = << >> =>
            /\ trigger[e] = "COMPLETED" \/ unheard[e]
            /\ eventRow[e].end = tracked[e].end \/ reopened[e])

(* What is stored about an event is what Frigate said of it, whatever the  *)
(* order in which messages and pages are persisted (events/frigate.py,     *)
(* recordings/triggers.py:231): a row is that of a real object, and an end *)
(* in a row is the event's end.  Unless the recording policy swallowed a   *)
(* report, there is a trigger exactly when there is a row, and the trigger *)
(* is completed exactly when the row has an end or had one that an older   *)
(* page overwrote, so that a late page does not start the recording of an  *)
(* event that is over again.  A trigger is completed only by an end, and   *)
(* once it is completed no report and no policy undoes it.                 *)
StoredAsTracked(e) ==
  /\ eventRow[e] = NoRow => trigger[e] = "none"
  /\ eventRow[e] # NoRow => /\ eventRow[e].start = tracked[e].start
                            /\ eventRow[e].kind = "object" /\ tracked[e].kind = "object"
  /\ eventRow[e].end \in {-1, tracked[e].end}
  /\ trigger[e] = "COMPLETED" => tracked[e].end # -1
  /\ ~unheard[e] => /\ trigger[e] = "none" => eventRow[e] = NoRow
                    /\ trigger[e] = "COMPLETED" <=> eventRow[e].end # -1 \/ reopened[e]
FrigateStoredTruly == \A e \in FrigateEvent : StoredAsTracked(e)

=============================================================================
