---------------------------- MODULE WorkerProofs ----------------------------
(***************************************************************************)
(* Theorems about what the worker does on its own: the scans of the        *)
(* recording catalogue (ScanWindows), for any number of files and all      *)
(* lengths of scans, overlaps and look-backs, and health events with their *)
(* alerts and notifications (AlertDelivery), for any number of events,     *)
(* retries, failures and edits, and the boundary tasks of scheduled        *)
(* recording (WeeklySchedule), for any windows and lengths of the day and  *)
(* the week; about the runtime that takes the events of an ONVIF device    *)
(* (OnvifEvents), for any number of changes and failures, and about the    *)
(* events of a Frigate server (ProviderEvents), for any number of events.  *)
(***************************************************************************)
EXTENDS ScanWindows, WeeklySchedule, MCEvents,
        FiniteSetTheorems, WellFoundedInduction, TLAPS

-----------------------------------------------------------------------------
(* The windows of the scans.                                               *)

\* No time lies in the future, a scan under way is in time, and its window does
\* not begin after now: what is closed from now on is in it.
ScanTypeOK ==
  /\ now \in Nat
  /\ mtime \in [File -> Nat \union {Never}]
  /\ scan \in [pc : {"idle", "busy"}, started : Int, since : Int]
  /\ completed \in Nat \union {Never}

ScanInTime ==
  /\ \A f \in Closed : mtime[f] <= now
  /\ completed = Never => now <= Lookback
  /\ completed # Never => completed <= now
  /\ scan.pc = "busy" => /\ scan.since <= now
                         /\ scan.started <= now /\ now <= scan.started + MaxScan

ScanInv == ScanTypeOK /\ ScanInTime /\ NoGapBetweenScans

LEMMA ScanStarts == ScanInit => ScanInv
BY ScanConstants DEF ScanInit, ScanInv, ScanTypeOK, ScanInTime, NoGapBetweenScans, NoScan, Closed

LEMMA ScanTick == ScanInv /\ Tick => ScanInv'
BY ScanConstants
   DEF Tick, ScanInv, ScanTypeOK, ScanInTime, NoGapBetweenScans, Closed, RecentSince

LEMMA ScanCloseFile == ASSUME NEW f \in File PROVE ScanInv /\ CloseFile(f) => ScanInv'
BY ScanConstants
   DEF CloseFile, ScanInv, ScanTypeOK, ScanInTime, NoGapBetweenScans, Closed, RecentSince

LEMMA ScanStart == ASSUME NEW full \in BOOLEAN PROVE ScanInv /\ StartScan(full) => ScanInv'
BY ScanConstants
   DEF StartScan, ScanInv, ScanTypeOK, ScanInTime, NoGapBetweenScans, Closed, RecentSince

LEMMA ScanEnd == ScanInv /\ EndScan => ScanInv'
BY ScanConstants
   DEF EndScan, ScanInv, ScanTypeOK, ScanInTime, NoGapBetweenScans, Closed, RecentSince, NoScan

LEMMA ScanCrash == ScanInv /\ CrashScan => ScanInv'
BY ScanConstants
   DEF CrashScan, ScanInv, ScanTypeOK, ScanInTime, NoGapBetweenScans, Closed, RecentSince, NoScan

LEMMA ScanStep == ScanInv /\ [ScanNext]_scanVars => ScanInv'
<1> SUFFICES ASSUME ScanInv, [ScanNext]_scanVars PROVE ScanInv'
  OBVIOUS
<1>1. CASE UNCHANGED scanVars
  BY <1>1 DEF scanVars, ScanInv, ScanTypeOK, ScanInTime, NoGapBetweenScans, Closed, RecentSince
<1> QED
  BY <1>1, ScanTick, ScanCloseFile, ScanStart, ScanEnd, ScanCrash DEF ScanNext

\* No file whose hook was lost falls between two scans: the recent scans find it
\* whenever it was closed, and however long a scan takes or whether it crashes, as long
\* as a scan and the settling time fit into the overlap (_recent_since of
\* reconciliation.py).
THEOREM NoFileMissed == ScanSpec => []NoGapBetweenScans
<1>1. ScanInv => NoGapBetweenScans
  BY DEF ScanInv
<1> QED
  BY <1>1, ScanStarts, ScanStep, PTL DEF ScanSpec
-----------------------------------------------------------------------------
(* Health events, alerts and deliveries.                                   *)

HealthLevels == {"ok", "high", "unavailable"}
HealthEvent == [kind : HealthLevels \union {"none"}, start : Int, end : Int]
JobSteps == {"none", "unqueued", "queued", "sending", "accepted", "refused", "failed"}

AlertTypeOK ==
  /\ level \in HealthLevels /\ clock \in Nat /\ hooks \in Seq(HealthLevels)
  /\ health \in [Numbers -> HealthEvent]
  /\ alert \in [Numbers -> {"none", "OPEN", "ACKNOWLEDGED", "RESOLVED"}]
  /\ acking \subseteq Numbers /\ raced \subseteq Numbers
  /\ \E b \in BOOLEAN : rule = [enabled |-> b, kinds |-> {"high", "unavailable"}, duration |-> 0,
                                cooldown |-> Cooldown, filter |-> NoFilter]
  /\ delivery \in [Numbers -> {"none", "PENDING", "SENDING", "SENT", "FAILED", "SKIPPED"}]
  /\ job \in [Numbers -> [pc : JobSteps, left : Int]]
  /\ sends \in [Numbers -> Nat] /\ unsure \in [Numbers -> Nat]

\* An event has begun; an alert needs one, and a delivery and its task an alert.
Begun(i) == health[i] # NoEvent
NeedsEvent ==
  \A i \in Numbers :
    /\ Begun(i) => health[i].start >= 0 /\ health[i].start <= clock
    /\ ~Begun(i) => alert[i] = "none"
    /\ alert[i] = "none" => job[i].pc = "none" /\ delivery[i] = "none" /\ sends[i] = 0

OneOpen == \A i, j \in OpenEvents : i = j

\* No event began after the open one.
OpenIsLatest == \A i \in OpenEvents, k \in Numbers : Begun(k) => health[k].start <= health[i].start

AlertEnds ==
  \A i \in Numbers : alert[i] \in {"OPEN", "ACKNOWLEDGED"} => health[i].end = -1 \/ i \in raced

\* An acknowledgement under way has read the alert of an event that was open.
AckReadOpen == \A i \in acking : alert[i] # "none" /\ (health[i].end = -1 \/ i \in raced)

CooldownKept ==
  \A i, j \in Numbers :
    alert[i] # "none" /\ alert[j] # "none" /\ health[i].start < health[j].start
      => health[j].start - health[i].start > Cooldown

\* Until the provider accepts, it was only given what the worker is unsure of.
SendsCounted ==
  \A i \in Numbers :
    /\ job[i].pc \in {"unqueued", "queued", "sending", "refused", "failed"} => sends[i] <= unsure[i]
    /\ job[i].pc \in {"none", "accepted"} => sends[i] <= 1 + unsure[i]
    /\ job[i].pc = "accepted" \/ delivery[i] = "SENT" => sends[i] >= 1

AlertInv ==
  /\ AlertTypeOK /\ NeedsEvent /\ OneOpen /\ OpenIsLatest
  /\ AlertEnds /\ AckReadOpen /\ CooldownKept /\ SendsCounted

LEMMA AlertStarts == DeliveryInit => AlertInv
<1> SUFFICES ASSUME DeliveryInit PROVE AlertInv
  OBVIOUS
<1>1. NoEvent \in HealthEvent /\ NoEvent.end = -1 /\ Idle.pc = "none" /\ Idle \in [pc : JobSteps, left : Int]
  BY DEF NoEvent, HealthEvent, Idle, JobSteps
<1>2. AlertTypeOK
  <2>1. \E b \in BOOLEAN : rule = [enabled |-> b, kinds |-> {"high", "unavailable"}, duration |-> 0,
                                  cooldown |-> Cooldown, filter |-> NoFilter]
    BY DEF DeliveryInit
  <2>2. << >> \in Seq(HealthLevels) /\ "ok" \in HealthLevels
    BY DEF HealthLevels
  <2> QED
    BY <1>1, <2>1, <2>2 DEF DeliveryInit, AlertTypeOK
<1>3. \A i \in Numbers : health[i] = NoEvent /\ alert[i] = "none" /\ job[i].pc = "none" /\ sends[i] = 0
                         /\ delivery[i] = "none" /\ unsure[i] = 0
  BY <1>1 DEF DeliveryInit
<1>4. OpenEvents = {} /\ acking = {}
  BY <1>3 DEF OpenEvents, DeliveryInit
<1> QED
  BY <1>2, <1>3, <1>4
     DEF AlertInv, NeedsEvent, Begun, OneOpen, OpenIsLatest, AlertEnds, AckReadOpen, CooldownKept, SendsCounted

\* The provider side: steps of the deliveries leave events and alerts alone.
LEMMA DeliveriesMove ==
  ASSUME AlertInv, UNCHANGED <<clock, level, hooks, rule, alertVars>>,
         AlertTypeOK', SendsCounted',
         \A i \in Numbers : alert[i] = "none" => job'[i].pc = "none" /\ delivery'[i] = "none" /\ sends'[i] = 0
  PROVE  AlertInv'
<1>1. UNCHANGED <<health, alert, acking, raced, OpenEvents>> /\ \A i \in Numbers : Begun(i)' = Begun(i)
  BY DEF alertVars, OpenEvents, Begun
<1>2. NeedsEvent'
  BY <1>1 DEF AlertInv, NeedsEvent
<1> QED
  BY <1>1, <1>2 DEF AlertInv, OneOpen, OpenIsLatest, AlertEnds, AckReadOpen, CooldownKept

\* One delivery moves.
JobMove(i) ==
  /\ UNCHANGED <<clock, level, hooks, rule, alertVars>>
  /\ job' \in [Numbers -> [pc : JobSteps, left : Int]]
  /\ delivery' \in [Numbers -> {"none", "PENDING", "SENDING", "SENT", "FAILED", "SKIPPED"}]
  /\ sends' \in [Numbers -> Nat] /\ unsure' \in [Numbers -> Nat]
  /\ \A k \in Numbers : k # i => /\ job'[k] = job[k] /\ delivery'[k] = delivery[k]
                                 /\ sends'[k] = sends[k] /\ unsure'[k] = unsure[k]

LEMMA JobMoves ==
  ASSUME AlertInv, NEW i \in Numbers, alert[i] # "none", JobMove(i),
         job'[i].pc \in {"unqueued", "queued", "sending", "refused", "failed"} => sends'[i] <= unsure'[i],
         job'[i].pc \in {"none", "accepted"} => sends'[i] <= 1 + unsure'[i],
         job'[i].pc = "accepted" \/ delivery'[i] = "SENT" => sends'[i] >= 1
  PROVE  AlertInv'
<1>1. AlertTypeOK'
  BY DEF AlertInv, AlertTypeOK, alertVars, JobMove
<1>2. SendsCounted'
  BY DEF AlertInv, SendsCounted, JobMove
<1>3. \A k \in Numbers : alert[k] = "none" => job'[k].pc = "none" /\ delivery'[k] = "none" /\ sends'[k] = 0
  BY DEF AlertInv, NeedsEvent, JobMove
<1> QED
  BY <1>1, <1>2, <1>3, DeliveriesMove DEF JobMove

\* What a task knows of its delivery.
LEMMA JobFacts ==
  ASSUME AlertInv, NEW i \in Numbers, job[i].pc # "none"
  PROVE  /\ alert[i] # "none" /\ job[i] \in [pc : JobSteps, left : Int] /\ job[i].left \in Int
         /\ sends[i] \in Nat /\ unsure[i] \in Nat
         /\ job[i].pc \in {"unqueued", "queued", "sending", "refused", "failed"} => sends[i] <= unsure[i]
         /\ job[i].pc = "accepted" => sends[i] <= 1 + unsure[i] /\ sends[i] >= 1
         /\ delivery[i] = "SENT" => sends[i] >= 1
<1>1. alert[i] # "none"
  BY DEF AlertInv, NeedsEvent
<1>2. job[i] \in [pc : JobSteps, left : Int]
  BY DEF AlertInv, AlertTypeOK
<1> QED
  BY <1>1, <1>2 DEF AlertInv, AlertTypeOK, SendsCounted

\* The next state of one delivery's task.
LEMMA JobReplaced ==
  ASSUME AlertInv, NEW i \in Numbers, UNCHANGED <<clock, level, hooks, rule, alertVars>>,
         NEW j \in [pc : JobSteps, left : Int], job' = [job EXCEPT ![i] = j],
         NEW d \in {"PENDING", "SENDING", "SENT", "FAILED", "SKIPPED"},
         delivery' = delivery \/ delivery' = [delivery EXCEPT ![i] = d],
         sends' = sends \/ sends' = [sends EXCEPT ![i] = sends[i] + 1],
         unsure' = unsure \/ unsure' = [unsure EXCEPT ![i] = unsure[i] + 1]
  PROVE  JobMove(i) /\ job'[i] = j
<1>1. /\ sends \in [Numbers -> Nat] /\ unsure \in [Numbers -> Nat]
      /\ job \in [Numbers -> [pc : JobSteps, left : Int]]
      /\ delivery \in [Numbers -> {"none", "PENDING", "SENDING", "SENT", "FAILED", "SKIPPED"}]
      /\ sends[i] + 1 \in Nat /\ unsure[i] + 1 \in Nat
  BY DEF AlertInv, AlertTypeOK
<1>2. /\ job' \in [Numbers -> [pc : JobSteps, left : Int]] /\ job'[i] = j
      /\ \A k \in Numbers : k # i => job'[k] = job[k]
  BY <1>1
<1>3. /\ delivery' \in [Numbers -> {"none", "PENDING", "SENDING", "SENT", "FAILED", "SKIPPED"}]
      /\ \A k \in Numbers : k # i => delivery'[k] = delivery[k]
  BY <1>1
<1>4. sends' \in [Numbers -> Nat] /\ \A k \in Numbers : k # i => sends'[k] = sends[k]
  BY <1>1
<1>5. unsure' \in [Numbers -> Nat] /\ \A k \in Numbers : k # i => unsure'[k] = unsure[k]
  BY <1>1
<1> QED
  BY <1>2, <1>3, <1>4, <1>5 DEF JobMove

LEMMA AlertDeliver ==
  ASSUME AlertInv, NEW i \in Numbers,
         \/ Deliver(i) \/ QueueFails(i) \/ PrepareFails(i)
         \/ RunRaises(i) \/ WorkerDies(i) \/ FiveMinutesPass(i)
  PROVE  AlertInv'
<1>0. UNCHANGED <<clock, level, hooks, rule, alertVars>> /\ job[i].pc # "none"
  BY DEF Deliver, QueueDelivery, Prepare, Send, MarkSent, MarkFailed, QueueFails, PrepareFails, RunRaises,
     WorkerDies, FiveMinutesPass, subjectVars, ruleVars
<1>1. /\ alert[i] # "none" /\ job[i] \in [pc : JobSteps, left : Int] /\ job[i].left \in Int
      /\ sends[i] \in Nat /\ unsure[i] \in Nat
      /\ job[i].pc \in {"unqueued", "queued", "sending", "refused", "failed"} => sends[i] <= unsure[i]
      /\ job[i].pc = "accepted" => sends[i] <= 1 + unsure[i] /\ sends[i] >= 1
      /\ delivery[i] = "SENT" => sends[i] >= 1
  BY <1>0, JobFacts
<1> DEFINE J == [pc : JobSteps, left : Int]
           again == [pc |-> "queued", left |-> job[i].left - 1]
           at(step) == [job[i] EXCEPT !.pc = step]
<1>2. \A step \in JobSteps : at(step) \in J /\ at(step).pc = step
  BY <1>1
<1>3. /\ Idle \in J /\ Idle.pc = "none" /\ again \in J /\ again.pc = "queued"
      /\ Retry(i) \in {Idle, again}
  BY <1>1 DEF Idle, JobSteps, Retry
<1>4. {"queued", "sending", "accepted", "refused", "failed"} \subseteq JobSteps
  BY DEF JobSteps
<1>a. /\ sends' = [sends EXCEPT ![i] = sends[i] + 1] => sends'[i] = sends[i] + 1
      /\ unsure' = [unsure EXCEPT ![i] = unsure[i] + 1] => unsure'[i] = unsure[i] + 1
      /\ \A d : delivery' = [delivery EXCEPT ![i] = d] => delivery'[i] = d
  BY DEF AlertInv, AlertTypeOK
<1>b. Retry(i) \in J /\ Retry(i).pc \in {"none", "queued"}
  BY <1>3
<1> HIDE DEF Idle, JobSteps, Retry, again, at
<1>5. CASE QueueDelivery(i)
  <2>1. job' = [job EXCEPT ![i] = at("queued")] /\ UNCHANGED <<delivery, sends, unsure>> /\ job[i].pc = "unqueued"
    BY <1>5 DEF QueueDelivery, at
  <2>2. JobMove(i) /\ job'[i].pc = "queued"
    BY <1>0, <1>2, <1>4, <2>1, JobReplaced
  <2> QED
    BY <1>1, <2>1, <2>2, JobMoves
<1>6. CASE QueueFails(i) \/ WorkerDies(i)
  <2>1. job' = [job EXCEPT ![i] = Idle] /\ UNCHANGED <<delivery, sends, unsure>> /\ sends[i] <= 1 + unsure[i]
    BY <1>6, <1>1 DEF QueueFails, WorkerDies
  <2>2. JobMove(i) /\ job'[i].pc = "none"
    BY <1>0, <1>3, <2>1, JobReplaced
  <2> QED
    BY <1>1, <2>1, <2>2, JobMoves
<1>7. CASE Prepare(i)
  <2>0. UNCHANGED <<sends, unsure>> /\ job[i].pc = "queued"
    BY <1>7 DEF Prepare
  <2>1. CASE Decided(i) /\ Finish(i, delivery[i], Idle)
    <3>1. job' = [job EXCEPT ![i] = Idle] /\ delivery' = [delivery EXCEPT ![i] = delivery[i]]
      BY <2>1 DEF Finish
    <3>2. JobMove(i) /\ job'[i].pc = "none"
      BY <1>0, <1>3, <2>0, <2>1, <3>1, JobReplaced DEF Decided
    <3> QED
      BY <1>1, <1>a, <2>0, <3>1, <3>2, JobMoves
  <2>2. CASE Finish(i, "SKIPPED", Idle)
    <3>1. job' = [job EXCEPT ![i] = Idle] /\ delivery' = [delivery EXCEPT ![i] = "SKIPPED"]
      BY <2>2 DEF Finish
    <3>2. JobMove(i) /\ job'[i].pc = "none"
      BY <1>0, <1>3, <2>0, <3>1, JobReplaced
    <3> QED
      BY <1>1, <1>a, <2>0, <3>1, <3>2, JobMoves
  <2>3. CASE Finish(i, "SENDING", [job[i] EXCEPT !.pc = "sending"])
    <3>1. job' = [job EXCEPT ![i] = at("sending")] /\ delivery' = [delivery EXCEPT ![i] = "SENDING"]
      BY <2>3 DEF Finish, at
    <3>2. JobMove(i) /\ job'[i].pc = "sending"
      BY <1>0, <1>2, <1>4, <2>0, <3>1, JobReplaced
    <3> QED
      BY <1>1, <1>a, <2>0, <3>1, <3>2, JobMoves
  <2>4. CASE job' = [job EXCEPT ![i] = Retry(i)] /\ delivery' = delivery
    <3>1. JobMove(i) /\ job'[i].pc \in {"none", "queued"}
      BY <1>0, <1>b, <2>0, <2>4, JobReplaced
    <3> QED
      BY <1>1, <2>0, <2>4, <3>1, JobMoves
  <2> QED
    BY <1>7, <2>1, <2>2, <2>3, <2>4 DEF Prepare
<1>8. CASE PrepareFails(i)
  <2>1. /\ UNCHANGED <<sends, unsure>> /\ job[i].pc = "queued"
        /\ job' = [job EXCEPT ![i] = Idle] /\ delivery' = [delivery EXCEPT ![i] = "FAILED"]
    BY <1>8 DEF PrepareFails, Finish
  <2>2. JobMove(i) /\ job'[i].pc = "none"
    BY <1>0, <1>3, <2>1, JobReplaced
  <2> QED
    BY <1>1, <1>a, <2>1, <2>2, JobMoves
<1>9. CASE Send(i)
  <2>0. delivery' = delivery /\ job[i].pc = "sending"
    BY <1>9 DEF Send
  <2>1. CASE /\ job' = [job EXCEPT ![i] = at("accepted")]
             /\ sends' = [sends EXCEPT ![i] = sends[i] + 1] /\ unsure' = unsure
    <3>1. JobMove(i) /\ job'[i].pc = "accepted"
      BY <1>0, <1>2, <1>4, <2>0, <2>1, JobReplaced
    <3> QED
      BY <1>1, <1>a, <2>0, <2>1, <3>1, JobMoves
  <2>2. CASE job' = [job EXCEPT ![i] = at("refused")] /\ UNCHANGED <<sends, unsure>>
    <3>1. JobMove(i) /\ job'[i].pc = "refused"
      BY <1>0, <1>2, <1>4, <2>0, <2>2, JobReplaced
    <3> QED
      BY <1>1, <1>a, <2>0, <2>2, <3>1, JobMoves
  <2>3. ASSUME NEW b \in BOOLEAN, Taken(i, b), Unstored(i, b),
               job' = [job EXCEPT ![i] = at("failed")] \/ job' = [job EXCEPT ![i] = Retry(i)]
        PROVE  AlertInv'
    <3>1. PICK j \in J : job' = [job EXCEPT ![i] = j] /\ j.pc \in {"failed", "none", "queued"}
      BY <1>2, <1>4, <1>b, <2>3
    <3>2. /\ sends' = sends \/ sends' = [sends EXCEPT ![i] = sends[i] + 1]
          /\ unsure' = unsure \/ unsure' = [unsure EXCEPT ![i] = unsure[i] + 1]
          /\ sends'[i] <= unsure'[i]
      <4>1. CASE b
        <5>1. /\ sends' = [sends EXCEPT ![i] = sends[i] + 1]
              /\ unsure' = [unsure EXCEPT ![i] = unsure[i] + 1]
          BY <2>3, <4>1 DEF Taken, Unstored
        <5> QED
          BY <1>1, <1>a, <2>0, <5>1
      <4>2. CASE ~b
        <5>1. sends' = [sends EXCEPT ![i] = sends[i]] /\ unsure' = [unsure EXCEPT ![i] = unsure[i]]
          BY <2>3, <4>2 DEF Taken, Unstored
        <5>2. sends' = sends /\ unsure' = unsure
          BY <5>1 DEF AlertInv, AlertTypeOK
        <5> QED
          BY <1>1, <2>0, <5>2
      <4> QED
        BY <4>1, <4>2
    <3>3. JobMove(i) /\ job'[i].pc \in {"failed", "none", "queued"}
      BY <1>0, <2>0, <3>1, <3>2, JobReplaced
    <3>4. delivery'[i] = "SENT" => sends'[i] >= 1
      <4>1. sends'[i] >= sends[i]
        BY <1>1, <1>a, <3>2
      <4>2. sends'[i] \in Nat
        BY <3>3 DEF JobMove
      <4> QED
        BY <1>1, <2>0, <4>1, <4>2
    <3>5. sends'[i] \in Nat /\ unsure'[i] \in Nat
      BY <3>3 DEF JobMove
    <3> QED
      BY <1>1, <3>2, <3>3, <3>4, <3>5, JobMoves
  <2> QED
    <3>1. Taken(i, TRUE) /\ unsure' = unsure => sends' = [sends EXCEPT ![i] = sends[i] + 1]
      BY DEF Taken
    <3> QED
      BY <1>9, <2>1, <2>2, <2>3, <3>1 DEF Send, at
<1>10. CASE MarkSent(i)
  <2>1. /\ UNCHANGED <<sends, unsure>> /\ job[i].pc = "accepted"
        /\ job' = [job EXCEPT ![i] = Idle] /\ delivery' = [delivery EXCEPT ![i] = "SENT"]
    BY <1>10 DEF MarkSent, Finish
  <2>2. JobMove(i) /\ job'[i].pc = "none"
    BY <1>0, <1>3, <2>1, JobReplaced
  <2> QED
    BY <1>1, <1>a, <2>1, <2>2, JobMoves
<1>11. CASE MarkFailed(i)
  <2>1. /\ UNCHANGED <<sends, unsure>> /\ job[i].pc \in {"refused", "failed"}
        /\ delivery' = [delivery EXCEPT ![i] = "FAILED"]
        /\ job' = [job EXCEPT ![i] = Idle] \/ job' = [job EXCEPT ![i] = Retry(i)]
    BY <1>11 DEF MarkFailed, Finish
  <2>2. JobMove(i) /\ job'[i].pc \in {"none", "queued"}
    BY <1>0, <1>3, <1>b, <2>1, JobReplaced
  <2> QED
    BY <1>1, <1>a, <2>1, <2>2, JobMoves
<1>12. CASE RunRaises(i)
  <2>1. /\ delivery' = delivery /\ sends' = sends /\ job' = [job EXCEPT ![i] = Retry(i)]
        /\ job[i].pc \in {"queued", "accepted", "refused", "failed"}
        /\ unsure' = IF job[i].pc = "accepted" THEN [unsure EXCEPT ![i] = unsure[i] + 1]
                     ELSE [unsure EXCEPT ![i] = unsure[i]]
    BY <1>12 DEF RunRaises, Unstored
  <2>2. job[i].pc # "accepted" => unsure' = unsure
    BY <2>1 DEF AlertInv, AlertTypeOK
  <2>3. JobMove(i) /\ job'[i].pc \in {"none", "queued"}
    BY <1>0, <1>b, <2>1, <2>2, JobReplaced
  <2>4. sends'[i] <= unsure'[i]
    BY <1>1, <1>a, <2>1, <2>2
  <2> QED
    BY <1>1, <1>a, <2>1, <2>2, <2>3, <2>4, JobMoves
<1>13. CASE FiveMinutesPass(i)
  <2>1. UNCHANGED <<clock, level, hooks, rule, alertVars, delivery, job, sends, unsure>>
    BY <1>13 DEF FiveMinutesPass, subjectVars, ruleVars
  <2>2. AlertTypeOK' /\ SendsCounted'
    BY <2>1 DEF AlertInv, AlertTypeOK, SendsCounted, alertVars
  <2> QED
    BY <2>1, <2>2, DeliveriesMove DEF AlertInv, NeedsEvent
<1> QED
  BY <1>5, <1>6, <1>7, <1>8, <1>9, <1>10, <1>11, <1>12, <1>13 DEF Deliver

\* The events after an observation: what has another label ends, and i may begin.
LEMMA EventsMove ==
  ASSUME AlertInv, NEW l \in HealthLevels, NEW i \in Numbers, Opening(l) => i \in Unused,
         health' = EventsAfter(l, i)
  PROVE  /\ health' \in [Numbers -> HealthEvent]
         /\ \A k \in Ending(l) : /\ Begun(k) /\ Begun(k)' /\ health'[k].end = clock
                                 /\ health'[k].start = health[k].start
         /\ \A k \in Numbers \ Ending(l) : ~(Opening(l) /\ k = i) => health'[k] = health[k]
         /\ Opening(l) => /\ i \notin Ending(l) /\ ~Begun(i) /\ Begun(i)'
                          /\ health'[i].start = clock /\ health'[i].end = -1
         /\ \A k \in OpenEvents' : (k \in OpenEvents /\ k \notin Ending(l)) \/ (Opening(l) /\ k = i)
         /\ Opening(l) => OpenEvents = Ending(l)
<1>1. clock \in Nat /\ health \in [Numbers -> HealthEvent]
  BY DEF AlertInv, AlertTypeOK
<1>2. Ending(l) \subseteq Numbers /\ \A k \in Ending(l) : Begun(k) /\ health[k] \in HealthEvent
  BY <1>1 DEF Ending, OpenEvents, Begun
<1>3. Opening(l) => ~Begun(i) /\ i \notin Ending(l)
  BY <1>2 DEF Unused, Begun
<1>4. ASSUME NEW k \in Ending(l)
      PROVE  /\ health'[k] \in HealthEvent /\ health'[k].end = clock /\ health'[k].start = health[k].start
             /\ health'[k] # NoEvent
  <2>1. health'[k] = [health[k] EXCEPT !.end = clock]
    BY <1>2, <1>4 DEF EventsAfter
  <2> QED
    BY <1>1, <1>2, <1>4, <2>1 DEF HealthEvent, NoEvent
<1>5. ASSUME NEW k \in Numbers \ Ending(l), ~(Opening(l) /\ k = i) PROVE health'[k] = health[k]
  BY <1>5 DEF EventsAfter
<1>6. ASSUME Opening(l)
      PROVE  /\ health'[i] \in HealthEvent /\ health'[i].start = clock /\ health'[i].end = -1
             /\ health'[i] # NoEvent
  <2>1. health'[i] = [kind |-> l, start |-> clock, end |-> -1]
    BY <1>3, <1>6 DEF EventsAfter
  <2> QED
    BY <1>1, <2>1 DEF HealthEvent, NoEvent
<1>7. health' \in [Numbers -> HealthEvent]
  <2>1. \A k \in Numbers : health'[k] \in HealthEvent
    BY <1>1, <1>4, <1>5, <1>6
  <2>2. health' = [k \in Numbers |-> health'[k]]
    BY DEF EventsAfter
  <2> QED
    BY <2>1, <2>2
<1>8. ASSUME NEW k \in OpenEvents' PROVE (k \in OpenEvents /\ k \notin Ending(l)) \/ (Opening(l) /\ k = i)
  <2>1. k \in Numbers /\ health'[k] # NoEvent /\ health'[k].end = -1
    BY <1>8 DEF OpenEvents
  <2>2. k \notin Ending(l)
    BY <1>1, <1>4, <2>1
  <2> QED
    BY <1>5, <2>1, <2>2 DEF OpenEvents
<1>9. Opening(l) => OpenEvents = Ending(l)
  BY DEF Opening, Ending
<1> QED
  BY <1>2, <1>3, <1>4, <1>5, <1>6, <1>7, <1>8, <1>9 DEF Begun

\* The event a stream is lost again in stays as it is.
LEMMA LostAgainStays ==
  ASSUME AlertInv, NEW l \in HealthLevels, LostAgain(l), NEW i \in OpenEvents, health' = EventsAfter(l, i)
  PROVE  /\ ~Opening(l) /\ i \in Numbers /\ i \notin Ending(l) /\ Begun(i)
         /\ health'[i] = health[i] /\ health[i].end = -1
<1>1. ~Opening(l) /\ i \in Numbers /\ Begun(i) /\ health[i].end = -1
  BY DEF LostAgain, OpenEvents, Begun
<1>2. health[i].kind = l
  <2>1. PICK k \in OpenEvents : health[k].kind = l
    BY DEF LostAgain, Opening
  <2> QED
    BY <2>1 DEF AlertInv, OneOpen
<1>3. i \notin Ending(l)
  BY <1>2 DEF Ending
<1> QED
  BY <1>1, <1>3, EventsMove

\* A new alert keeps its distance from the alerts before it.
LEMMA RaisesApart ==
  ASSUME AlertInv, NEW l \in HealthLevels, NEW i \in Numbers,
         Opening(l) => i \in Unused, LostAgain(l) => i \in OpenEvents, Opening(l) \/ LostAgain(l),
         health' = EventsAfter(l, i), Raises(i, health')
  PROVE  /\ alert[i] = "none"
         /\ \A k \in Numbers : alert[k] # "none" =>
              /\ health'[k].start = health[k].start /\ health[k].start <= health'[i].start
              /\ health[k].start < health'[i].start => health'[i].start - health[k].start > Cooldown
<1>1. alert[i] = "none"
  BY DEF Raises, RaisesAlert
<1> SUFFICES ASSUME NEW k \in Numbers, alert[k] # "none"
             PROVE  /\ health'[k].start = health[k].start /\ health[k].start <= health'[i].start
                    /\ health[k].start < health'[i].start => health'[i].start - health[k].start > Cooldown
  BY <1>1
<1>2. clock \in Nat /\ Begun(k) /\ health[k].start \in Int /\ health[k].start <= clock /\ Cooldown \in Nat
  BY DeliveryAssumption DEF AlertInv, NeedsEvent, AlertTypeOK, HealthEvent
<1>3. k # i /\ DOMAIN health' = Numbers /\ health'[k].start = health[k].start
  BY <1>1, EventsMove
<1>4. health[k].start <= health'[i].start /\ health'[i].start \in Int
  <2>1. CASE Opening(l)
    BY <1>2, <2>1, EventsMove
  <2>2. CASE LostAgain(l)
    <3>1. health'[i] = health[i]
      BY <2>2, LostAgainStays
    <3> QED
      BY <1>2, <2>2, <3>1 DEF AlertInv, OpenIsLatest, AlertTypeOK, HealthEvent
  <2> QED
    BY <2>1, <2>2
<1> DEFINE S == {<<"loss", x>> : x \in {y \in Numbers : alert[y] # "none"}}
           A == {health'[x] : x \in {y \in DOMAIN health' : <<"loss", y>> \in S}}
<1>5. health'[k] \in A
  BY <1>3
<1>6. ~CooldownBlocked(rule, health'[i], A)
  BY DEF Raises, RaisesAlert, Rules
<1>7. rule.cooldown = Cooldown
  BY DEF AlertInv, AlertTypeOK
<1> HIDE DEF A
<1>8. ~(/\ Cooldown > 0 /\ health'[i].start - Cooldown <= health[k].start
        /\ health[k].start < health'[i].start)
  BY <1>3, <1>5, <1>6, <1>7 DEF CooldownBlocked
<1> QED
  BY <1>2, <1>3, <1>4, <1>8

LEMMA AlertObserve ==
  ASSUME AlertInv, NEW l \in HealthLevels, Observe(l), UNCHANGED <<level, clock, rule>>,
         hooks' \in Seq(HealthLevels)
  PROVE  AlertInv'
<1>0. PICK i \in Numbers :
        /\ Opening(l) => i \in Unused
        /\ LostAgain(l) => i \in OpenEvents
        /\ health' = EventsAfter(l, i)
        /\ alert' = [ResolveEventAlerts(l) EXCEPT
                       ![i] = IF (Opening(l) \/ LostAgain(l)) /\ Raises(i, health') THEN "OPEN"
                              ELSE ResolveEventAlerts(l)[i]]
        /\ IF ((Opening(l) \/ LostAgain(l)) /\ Raises(i, health')) /\ channelOn
           THEN /\ delivery' = [delivery EXCEPT ![i] = "PENDING"]
                /\ job' = [job EXCEPT ![i] = [pc |-> "unqueued", left |-> Retries]]
           ELSE UNCHANGED <<delivery, job>>
        /\ raced' = raced \union (acking \intersect Ending(l))
        /\ UNCHANGED <<acking, sends, unsure>>
  BY DEF Observe
<1> DEFINE raises == (Opening(l) \/ LostAgain(l)) /\ Raises(i, health')
<1>1. /\ clock \in Nat /\ health \in [Numbers -> HealthEvent] /\ Ending(l) \subseteq OpenEvents
      /\ OpenEvents \subseteq Numbers /\ Ending(l) \subseteq Numbers
      /\ alert \in [Numbers -> {"none", "OPEN", "ACKNOWLEDGED", "RESOLVED"}]
      /\ acking \subseteq Numbers /\ raced \subseteq Numbers
  BY DEF AlertInv, AlertTypeOK, Ending, OpenEvents
<1>2. /\ health' \in [Numbers -> HealthEvent]
      /\ \A k \in Ending(l) : /\ Begun(k) /\ Begun(k)' /\ health'[k].end = clock
                              /\ health'[k].start = health[k].start
      /\ \A k \in Numbers \ Ending(l) : ~(Opening(l) /\ k = i) => health'[k] = health[k]
      /\ Opening(l) => /\ i \notin Ending(l) /\ ~Begun(i) /\ Begun(i)'
                       /\ health'[i].start = clock /\ health'[i].end = -1
      /\ \A k \in OpenEvents' : (k \in OpenEvents /\ k \notin Ending(l)) \/ (Opening(l) /\ k = i)
      /\ Opening(l) => OpenEvents = Ending(l)
  BY <1>0, EventsMove
<1>r. raises => /\ i \notin Ending(l) /\ Begun(i)' /\ health'[i].end = -1 /\ alert[i] = "none"
                /\ job[i].pc = "none" /\ delivery[i] = "none" /\ sends[i] = 0
  <2> SUFFICES ASSUME raises
               PROVE  i \notin Ending(l) /\ Begun(i)' /\ health'[i].end = -1 /\ alert[i] = "none"
    BY DEF AlertInv, NeedsEvent
  <2>1. alert[i] = "none"
    BY <1>0, RaisesApart
  <2>2. CASE Opening(l)
    BY <1>2, <2>1, <2>2
  <2>3. CASE LostAgain(l)
    BY <1>0, <2>1, <2>3, LostAgainStays DEF Begun
  <2> QED
    BY <2>2, <2>3
<1>3. /\ alert' \in [Numbers -> {"none", "OPEN", "ACKNOWLEDGED", "RESOLVED"}]
      /\ \A k \in Ending(l) : alert'[k] \in {"none", "RESOLVED"} /\ (alert'[k] # "none" <=> alert[k] # "none")
      /\ \A k \in Numbers \ Ending(l) : ~(raises /\ k = i) => alert'[k] = alert[k]
      /\ raises => alert'[i] = "OPEN"
  <2>1. /\ ResolveEventAlerts(l) \in [Numbers -> {"none", "OPEN", "ACKNOWLEDGED", "RESOLVED"}]
        /\ \A k \in Ending(l) : /\ ResolveEventAlerts(l)[k] \in {"none", "RESOLVED"}
                                /\ ResolveEventAlerts(l)[k] # "none" <=> alert[k] # "none"
        /\ \A k \in Numbers \ Ending(l) : ResolveEventAlerts(l)[k] = alert[k]
    BY <1>1 DEF ResolveEventAlerts
  <2> HIDE DEF raises
  <2>2. alert' = [ResolveEventAlerts(l) EXCEPT ![i] = IF raises THEN "OPEN" ELSE ResolveEventAlerts(l)[i]]
    BY <1>0 DEF raises
  <2>3. raises => i \notin Ending(l)
    BY <1>r DEF raises
  <2>4. CASE raises
    BY <2>1, <2>2, <2>3, <2>4, <1>1
  <2>5. CASE ~raises
    <3>1. alert' = ResolveEventAlerts(l)
      BY <2>1, <2>2, <2>5
    <3> QED
      BY <2>1, <2>5, <3>1
  <2> QED
    BY <2>4, <2>5
<1>4. \A k \in Numbers : /\ Begun(k) => Begun(k)' /\ health'[k].start = health[k].start
                         /\ Begun(k)' => Begun(k) \/ (Opening(l) /\ k = i)
                         /\ health'[k].start \in Int /\ health[k].start \in Int
  <2>1. \A k \in Numbers : health'[k].start \in Int /\ health[k].start \in Int
    BY <1>1, <1>2 DEF HealthEvent
  <2>2. \A k \in Numbers : health'[k] = health[k] => (Begun(k)' <=> Begun(k))
    BY DEF Begun
  <2> QED
    BY <1>2, <2>1, <2>2
<1>5. /\ job' \in [Numbers -> [pc : JobSteps, left : Int]]
      /\ delivery' \in [Numbers -> {"none", "PENDING", "SENDING", "SENT", "FAILED", "SKIPPED"}]
      /\ \A k \in Numbers : ~(raises /\ k = i) => job'[k] = job[k] /\ delivery'[k] = delivery[k]
      /\ raises => \/ job'[i].pc = "unqueued" /\ delivery'[i] = "PENDING"
                   \/ job'[i] = job[i] /\ delivery'[i] = delivery[i]
  <2>1. [pc |-> "unqueued", left |-> Retries] \in [pc : JobSteps, left : Int]
    BY DeliveryAssumption DEF JobSteps
  <2>2. /\ job \in [Numbers -> [pc : JobSteps, left : Int]]
        /\ delivery \in [Numbers -> {"none", "PENDING", "SENDING", "SENT", "FAILED", "SKIPPED"}]
    BY DEF AlertInv, AlertTypeOK
  <2> HIDE DEF raises
  <2>3. CASE raises /\ channelOn
    <3>1. /\ delivery' = [delivery EXCEPT ![i] = "PENDING"]
          /\ job' = [job EXCEPT ![i] = [pc |-> "unqueued", left |-> Retries]]
      BY <1>0, <2>3 DEF raises
    <3> QED
      BY <2>1, <2>2, <2>3, <3>1
  <2>4. CASE ~(raises /\ channelOn)
    <3>1. delivery' = delivery /\ job' = job
      BY <1>0, <2>4 DEF raises
    <3> QED
      BY <2>2, <3>1
  <2> QED
    BY <2>3, <2>4
<1>6. AlertTypeOK'
  BY <1>0, <1>1, <1>2, <1>3, <1>5 DEF AlertInv, AlertTypeOK
<1>7. NeedsEvent'
  <2>1. ASSUME NEW k \in Numbers, Begun(k)' PROVE health'[k].start >= 0 /\ health'[k].start <= clock
    <3>1. CASE Begun(k)
      BY <1>4, <2>1, <3>1 DEF AlertInv, NeedsEvent
    <3>2. CASE Opening(l) /\ k = i
      BY <1>1, <1>2, <3>2
    <3> QED
      BY <1>4, <2>1, <3>1, <3>2
  <2>2. ASSUME NEW k \in Numbers, ~Begun(k)' PROVE alert'[k] = "none"
    <3>1. ~Begun(k) /\ k \notin Ending(l) /\ ~(raises /\ k = i)
      BY <1>2, <1>4, <1>r, <2>2
    <3> QED
      BY <1>3, <3>1 DEF AlertInv, NeedsEvent
  <2>3. ASSUME NEW k \in Numbers, alert'[k] = "none"
        PROVE  job'[k].pc = "none" /\ delivery'[k] = "none" /\ sends'[k] = 0
    <3>1. alert[k] = "none" /\ ~(raises /\ k = i)
      BY <1>1, <1>3, <2>3
    <3> QED
      BY <1>0, <1>5, <3>1 DEF AlertInv, NeedsEvent
  <2> QED
    BY <2>1, <2>2, <2>3 DEF NeedsEvent
<1>8. OneOpen'
  BY <1>2 DEF AlertInv, OneOpen
<1>l. OpenIsLatest'
  <2> SUFFICES ASSUME NEW a \in OpenEvents', NEW k \in Numbers, Begun(k)'
               PROVE  health'[k].start <= health'[a].start
    BY DEF OpenIsLatest
  <2>1. a \in Numbers /\ health'[k].start <= clock
    BY <1>7 DEF NeedsEvent, OpenEvents
  <2>2. CASE Opening(l) /\ a = i
    BY <1>2, <2>1, <2>2
  <2>3. CASE a \in OpenEvents /\ a \notin Ending(l)
    <3>1. ~Opening(l)
      BY <1>2, <2>3
    <3>2. Begun(k) /\ health'[k].start = health[k].start /\ health'[a].start = health[a].start
      BY <1>2, <1>4, <2>1, <2>3, <3>1
    <3> QED
      BY <2>3, <3>2 DEF AlertInv, OpenIsLatest
  <2> QED
    BY <1>2, <2>2, <2>3
<1>9. AlertEnds'
  <2> SUFFICES ASSUME NEW k \in Numbers, alert'[k] \in {"OPEN", "ACKNOWLEDGED"}
               PROVE  health'[k].end = -1 \/ k \in raced'
    BY DEF AlertEnds
  <2>1. k \notin Ending(l)
    BY <1>3
  <2>2. CASE (Opening(l) \/ raises) /\ k = i
    BY <1>2, <1>r, <2>2
  <2>3. CASE ~((Opening(l) \/ raises) /\ k = i)
    <3>1. health'[k] = health[k] /\ alert'[k] = alert[k]
      BY <1>2, <1>3, <2>1, <2>3
    <3> QED
      BY <1>0, <3>1 DEF AlertInv, AlertEnds
  <2> QED
    BY <2>2, <2>3
<1>10. AckReadOpen'
  <2> SUFFICES ASSUME NEW k \in acking PROVE alert'[k] # "none" /\ (health'[k].end = -1 \/ k \in raced')
    BY <1>0 DEF AckReadOpen
  <2>0. k \in Numbers /\ alert[k] # "none" /\ alert'[k] # "none"
    <3>1. k \in Numbers /\ alert[k] # "none"
      BY <1>1 DEF AlertInv, AckReadOpen
    <3> QED
      BY <1>3, <3>1, <1>1
  <2>1. CASE k \in Ending(l)
    BY <1>0, <2>0, <2>1
  <2>2. CASE k \notin Ending(l)
    <3>1. ~(Opening(l) /\ k = i)
      BY <1>2, <2>0 DEF AlertInv, NeedsEvent
    <3> QED
      BY <1>0, <1>2, <2>0, <2>2, <3>1 DEF AlertInv, AckReadOpen
  <2> QED
    BY <2>1, <2>2
<1>11. CooldownKept'
  <2> SUFFICES ASSUME NEW a \in Numbers, NEW b \in Numbers, alert'[a] # "none", alert'[b] # "none",
                      health'[a].start < health'[b].start
               PROVE  health'[b].start - health'[a].start > Cooldown
    BY DEF CooldownKept
  <2>1. \A k \in Numbers : alert'[k] # "none" /\ ~(raises /\ k = i) => alert[k] # "none" /\ Begun(k)
    BY <1>1, <1>3 DEF AlertInv, NeedsEvent
  <2>2. CASE ~(raises /\ a = i) /\ ~(raises /\ b = i)
    BY <1>4, <2>1, <2>2 DEF AlertInv, CooldownKept
  <2>3. CASE raises /\ b = i
    <3>1. a # i /\ alert[a] # "none"
      BY <1>4, <2>1, <2>3
    <3>2. /\ health'[a].start = health[a].start
          /\ health[a].start < health'[b].start => health'[b].start - health[a].start > Cooldown
      BY <1>0, <2>3, <3>1, RaisesApart
    <3> QED
      BY <3>2
  <2>4. CASE raises /\ a = i /\ b # i
    <3>1. alert[b] # "none"
      BY <2>1, <2>4
    <3>2. health'[b].start = health[b].start /\ health[b].start <= health'[a].start
      BY <1>0, <2>4, <3>1, RaisesApart
    <3> QED
      BY <1>4, <3>2
  <2> QED
    BY <2>2, <2>3, <2>4
<1>12. SendsCounted'
  <2> SUFFICES ASSUME NEW k \in Numbers
               PROVE  /\ job'[k].pc \in {"unqueued", "queued", "sending", "refused", "failed"} => sends'[k] <= unsure'[k]
                      /\ job'[k].pc \in {"none", "accepted"} => sends'[k] <= 1 + unsure'[k]
                      /\ job'[k].pc = "accepted" \/ delivery'[k] = "SENT" => sends'[k] >= 1
    BY DEF SendsCounted
  <2>1. CASE job'[k] = job[k] /\ delivery'[k] = delivery[k]
    BY <1>0, <2>1 DEF AlertInv, SendsCounted
  <2>2. CASE raises /\ k = i /\ job'[i].pc = "unqueued" /\ delivery'[i] = "PENDING"
    <3>1. sends[i] = 0 /\ unsure[i] \in Nat
      BY <1>r, <2>2 DEF AlertInv, AlertTypeOK
    <3> QED
      BY <1>0, <2>2, <3>1
  <2> QED
    BY <1>5, <2>1, <2>2
<1> QED
  BY <1>6, <1>7, <1>8, <1>l, <1>9, <1>10, <1>11, <1>12 DEF AlertInv

\* The subject changes, a hook is dropped, the policy or its target is edited.
LEMMA AlertSurroundings ==
  ASSUME AlertInv, UNCHANGED <<alertVars, sendVars>>, clock' \in Nat, clock <= clock', level' \in HealthLevels,
         hooks' \in Seq(HealthLevels),
         \/ rule' = rule
         \/ rule' = [rule EXCEPT !.enabled = ~rule.enabled]
  PROVE  AlertInv'
<1>1. UNCHANGED <<health, alert, acking, raced, delivery, job, sends, unsure>>
  BY DEF alertVars, sendVars, taskVars
<1>2. clock \in Nat /\ \A i \in Numbers : health[i].start \in Int
  BY DEF AlertInv, AlertTypeOK, HealthEvent
<1>3. OpenEvents' = OpenEvents /\ \A i \in Numbers : Begun(i)' = Begun(i)
  BY <1>1 DEF OpenEvents, Begun
<1>4. AlertTypeOK'
  <2>1. PICK b \in BOOLEAN : rule = [enabled |-> b, kinds |-> {"high", "unavailable"}, duration |-> 0,
                                     cooldown |-> Cooldown, filter |-> NoFilter]
    BY DEF AlertInv, AlertTypeOK
  <2>2. \E c \in BOOLEAN : rule' = [enabled |-> c, kinds |-> {"high", "unavailable"}, duration |-> 0,
                                    cooldown |-> Cooldown, filter |-> NoFilter]
    <3>1. CASE rule' = rule
      BY <2>1, <3>1
    <3>2. CASE rule' = [rule EXCEPT !.enabled = ~rule.enabled]
      <4>1. rule' = [enabled |-> ~b, kinds |-> {"high", "unavailable"}, duration |-> 0,
                     cooldown |-> Cooldown, filter |-> NoFilter]
        BY <2>1, <3>2
      <4> QED
        BY <4>1
    <3> QED
      BY <3>1, <3>2
  <2> QED
    BY <1>1, <2>2 DEF AlertInv, AlertTypeOK
<1>5. NeedsEvent'
  BY <1>1, <1>2, <1>3 DEF AlertInv, NeedsEvent
<1> QED
  BY <1>1, <1>3, <1>4, <1>5 DEF AlertInv, OneOpen, OpenIsLatest, AlertEnds, AckReadOpen, CooldownKept, SendsCounted

\* Requests change the state of an alert that is there.
LEMMA AlertRequests ==
  ASSUME AlertInv, NEW i \in Numbers, AcknowledgeReads(i) \/ AcknowledgeWrites(i) \/ ResolveAlert(i)
  PROVE  AlertInv'
<1>1. /\ UNCHANGED <<level, clock, hooks, rule, health, delivery, job, sends, unsure>>
      /\ acking' \subseteq acking \union {i} /\ raced \subseteq raced' /\ raced' \subseteq raced \union {i}
      /\ \/ alert' = alert
         \/ /\ alert' = [alert EXCEPT ![i] = "ACKNOWLEDGED"] /\ i \in acking
         \/ /\ alert' = [alert EXCEPT ![i] = "RESOLVED"] /\ alert[i] # "none"
      /\ i \in acking' => i \in acking \/ alert[i] = "OPEN"
  BY DEF AcknowledgeReads, AcknowledgeWrites, ResolveAlert, subjectVars, ruleVars, sendVars, taskVars
<1>2. /\ alert \in [Numbers -> {"none", "OPEN", "ACKNOWLEDGED", "RESOLVED"}]
      /\ acking \subseteq Numbers /\ raced \subseteq Numbers
      /\ i \in acking => alert[i] # "none" /\ (health[i].end = -1 \/ i \in raced)
  BY DEF AlertInv, AlertTypeOK, AckReadOpen
<1>3. OpenEvents' = OpenEvents /\ \A k \in Numbers : Begun(k)' = Begun(k)
  BY <1>1 DEF OpenEvents, Begun
<1>4. /\ alert' \in [Numbers -> {"none", "OPEN", "ACKNOWLEDGED", "RESOLVED"}]
      /\ \A k \in Numbers : alert'[k] # "none" <=> alert[k] # "none"
      /\ \A k \in Numbers : alert'[k] \in {"OPEN", "ACKNOWLEDGED"} =>
           alert[k] \in {"OPEN", "ACKNOWLEDGED"} \/ health[k].end = -1 \/ k \in raced
  BY <1>1, <1>2
<1>5. AlertTypeOK'
  BY <1>1, <1>2, <1>4 DEF AlertInv, AlertTypeOK
<1>6. NeedsEvent'
  BY <1>1, <1>3, <1>4 DEF AlertInv, NeedsEvent
<1>7. AlertEnds'
  BY <1>1, <1>4 DEF AlertInv, AlertEnds
<1>8. AckReadOpen'
  <2>1. i \in acking' => health[i].end = -1 \/ i \in raced
    BY <1>1, <1>2 DEF AlertInv, AlertEnds
  <2>2. i \in acking' => alert[i] # "none"
    BY <1>1, <1>2
  <2> QED
    BY <1>1, <1>2, <1>4, <2>1, <2>2 DEF AlertInv, AckReadOpen
<1>9. CooldownKept'
  BY <1>1, <1>4 DEF AlertInv, CooldownKept
<1> QED
  BY <1>1, <1>3, <1>5, <1>6, <1>7, <1>8, <1>9 DEF AlertInv, OneOpen, OpenIsLatest, SendsCounted

LEMMA AlertStep == AlertInv /\ [DeliveryNext]_deliveryVars => AlertInv'
<1> SUFFICES ASSUME AlertInv, [DeliveryNext]_deliveryVars PROVE AlertInv'
  OBVIOUS
<1>0. /\ clock \in Nat /\ clock + 1 \in Nat /\ clock <= clock /\ clock <= clock + 1
      /\ level \in HealthLevels /\ hooks \in Seq(HealthLevels)
      /\ hooks # << >> => Head(hooks) \in HealthLevels /\ Tail(hooks) \in Seq(HealthLevels)
      /\ Levels \subseteq HealthLevels
      /\ \A l \in HealthLevels : Append(hooks, l) \in Seq(HealthLevels)
  <2>1. clock \in Nat /\ level \in HealthLevels /\ hooks \in Seq(HealthLevels)
    BY DEF AlertInv, AlertTypeOK
  <2>2. Levels \subseteq HealthLevels
    BY DEF Levels, HealthLevels
  <2>3. /\ hooks # << >> => Head(hooks) \in HealthLevels /\ Tail(hooks) \in Seq(HealthLevels)
        /\ \A l \in HealthLevels : Append(hooks, l) \in Seq(HealthLevels)
    BY <2>1
  <2> QED
    BY <2>1, <2>2, <2>3
<1>1. CASE UNCHANGED deliveryVars
  BY <1>0, <1>1, AlertSurroundings DEF deliveryVars, subjectVars, ruleVars
<1>2. ASSUME NEW l \in Levels, SubjectChanges(l) PROVE AlertInv'
  <2>1. UNCHANGED <<alertVars, sendVars, rule>> /\ clock' = clock + 1 /\ level' = l
        /\ (hooks' = hooks \/ hooks' = Append(hooks, l))
    BY <1>2 DEF SubjectChanges, ruleVars
  <2> QED
    BY <1>0, <2>1, AlertSurroundings
<1>3. CASE HookFails
  <2>1. UNCHANGED <<alertVars, sendVars, rule, clock, level>> /\ hooks # << >> /\ hooks' = Tail(hooks)
    BY <1>3 DEF HookFails, ruleVars
  <2> QED
    BY <1>0, <2>1, AlertSurroundings
<1>4. CASE UpdatePolicy \/ UpdateTarget \/ SetMaintenance
  <2>1. /\ UNCHANGED <<alertVars, sendVars, clock, level, hooks>>
        /\ rule' = rule \/ rule' = [rule EXCEPT !.enabled = ~rule.enabled]
    BY <1>4 DEF UpdatePolicy, UpdateTarget, SetMaintenance, subjectVars
  <2> QED
    BY <1>0, <2>1, AlertSurroundings
<1>5. CASE HookArrives
  <2>1. /\ hooks # << >> /\ hooks' = Tail(hooks) /\ Observe(Head(hooks)) /\ UNCHANGED <<level, clock, rule>>
    BY <1>5 DEF HookArrives, ruleVars
  <2> QED
    BY <1>0, <2>1, AlertObserve
<1>6. CASE CapacityGuard
  <2>1. hooks' = hooks /\ Observe(level) /\ UNCHANGED <<level, clock, rule>>
    BY <1>6 DEF CapacityGuard, subjectVars, ruleVars
  <2> QED
    BY <1>0, <2>1, AlertObserve
<1> QED
  BY <1>1, <1>2, <1>3, <1>4, <1>5, <1>6, AlertDeliver, AlertRequests DEF DeliveryNext

\* Alerts say what the health events say, however hooks, the capacity guard and
\* requests interleave and whatever fails (events/system.py, alerts/service.py,
\* alerts/api.py): at most one event of a subject is open, the alert of an event
\* that is over is resolved unless an acknowledgement that had read it before
\* wrote over it, and no policy alerts twice within its cooldown.
THEOREM AlertsStayTrue == DeliverySpec => []AlertsFollowHealth
<1>1. AlertInv => AlertsFollowHealth
  <2> SUFFICES ASSUME AlertInv PROVE AlertsFollowHealth
    OBVIOUS
  <2>1. Cardinality(OpenEvents) <= 1
    <3>1. CASE OpenEvents = {}
      BY <3>1, FS_EmptySet
    <3>2. CASE OpenEvents # {}
      <4>1. PICK k : OpenEvents = {k}
        BY <3>2 DEF AlertInv, OneOpen
      <4> QED
        BY <4>1, FS_Singleton
    <3> QED
      BY <3>1, <3>2
  <2> QED
    BY <2>1 DEF AlertInv, AlertEnds, CooldownKept, AlertsFollowHealth
<1> QED
  BY <1>1, AlertStarts, AlertStep, PTL DEF DeliverySpec

\* A provider is given each message at most once more than there were attempts of
\* which no row has the outcome, and SENT is never said of a message no provider
\* accepted: retries of the queue, a row left SENDING that a late retry takes up
\* again, crashes of the worker and disabled targets do not repeat or invent a
\* notification (notifications/delivery.py).
THEOREM NotificationsSentOnce == DeliverySpec => []SentOnceUnlessUnsure
<1>1. AlertInv => SentOnceUnlessUnsure
  <2> SUFFICES ASSUME AlertInv, NEW i \in Numbers
               PROVE  sends[i] <= 1 + unsure[i] /\ (delivery[i] = "SENT" => sends[i] >= 1)
    BY DEF SentOnceUnlessUnsure
  <2>1. sends[i] \in Nat /\ unsure[i] \in Nat /\ job[i].pc \in JobSteps
    BY DEF AlertInv, AlertTypeOK
  <2> QED
    BY <2>1 DEF AlertInv, SendsCounted, JobSteps
<1> QED
  BY <1>1, AlertStarts, AlertStep, PTL DEF DeliverySpec

-----------------------------------------------------------------------------
(* The weekly schedule.                                                    *)

LEMMA DivMod ==
  ASSUME NEW a \in Int, NEW n \in Nat \ {0}
  PROVE  (a % n) \in 0 .. n - 1 /\ a \div n \in Int /\ a = n * (a \div n) + (a % n)
OBVIOUS

LEMMA NextMultiple ==
  ASSUME NEW n \in Nat \ {0}, NEW x \in Int, NEW y \in Int, x < y
  PROVE  n * x + n <= n * y
OBVIOUS

\* Quotient and remainder are unique.
LEMMA OneQuotient ==
  ASSUME NEW n \in Nat \ {0}, NEW x \in Int, NEW y \in Int,
         NEW r \in 0 .. n - 1, NEW s \in 0 .. n - 1, n * x + r = n * y + s
  PROVE  x = y /\ r = s
<1>1. n * x \in Int /\ n * y \in Int
  OBVIOUS
<1>2. ~(x < y)
  <2>1. x < y => n * x + n <= n * y
    BY NextMultiple
  <2> QED
    BY <1>1, <2>1
<1>3. ~(y < x)
  <2>1. y < x => n * y + n <= n * x
    BY NextMultiple
  <2> QED
    BY <1>1, <2>1
<1>4. x = y
  BY <1>2, <1>3
<1>5. n * x = n * y
  BY <1>4
<1> QED
  BY <1>1, <1>4, <1>5

LEMMA DivModOf ==
  ASSUME NEW n \in Nat \ {0}, NEW x \in Int, NEW r \in 0 .. n - 1
  PROVE  (n * x + r) % n = r /\ (n * x + r) \div n = x
<1> DEFINE a == n * x + r
<1>1. a \in Int
  OBVIOUS
<1>2. (a % n) \in 0 .. n - 1 /\ a \div n \in Int /\ a = n * (a \div n) + (a % n)
  BY <1>1, DivMod
<1> QED
  BY <1>2, OneQuotient

LEMMA ModShift ==
  ASSUME NEW n \in Nat \ {0}, NEW a \in Int, NEW q \in Int
  PROVE  (a + n * q) % n = a % n
<1> DEFINE r == a % n
           d == a \div n
<1>1. r \in 0 .. n - 1 /\ d \in Int /\ a = n * d + r
  BY DivMod
<1> HIDE DEF r, d
<1>2. a + n * q = n * (d + q) + r
  BY <1>1
<1>3. d + q \in Int
  BY <1>1
<1>4. (n * (d + q) + r) % n = r
  BY <1>1, <1>3, DivModOf
<1> QED
  BY <1>2, <1>4 DEF r

\* The hour and the day of a time, and of the next one.
LEMMA TimeIs ==
  ASSUME NEW t \in Int
  PROVE  /\ Hour(t) \in 0 .. Hours - 1 /\ Day(t) \in Int /\ t = Hours * Day(t) + Hour(t)
         /\ t \in Nat => Day(t) \in Nat
<1>1. Hour(t) \in 0 .. Hours - 1 /\ Day(t) \in Int /\ t = Hours * Day(t) + Hour(t)
  BY DivMod, ScheduleConstants DEF Hour, Day
<1>2. t \in Nat => Day(t) \in Nat
  BY ScheduleConstants DEF Day
<1> QED
  BY <1>1, <1>2

LEMMA OtherTime ==
  ASSUME NEW d \in Int, NEW h \in 0 .. Hours - 1
  PROVE  Day(Hours * d + h) = d /\ Hour(Hours * d + h) = h
BY DivModOf, ScheduleConstants DEF Day, Hour

LEMMA NextHour ==
  ASSUME NEW t \in Int
  PROVE  \/ Hour(t) + 1 < Hours /\ Day(t + 1) = Day(t) /\ Hour(t + 1) = Hour(t) + 1
         \/ Hour(t) + 1 = Hours /\ Day(t + 1) = Day(t) + 1 /\ Hour(t + 1) = 0
<1>1. Hour(t) \in 0 .. Hours - 1 /\ Day(t) \in Int /\ t = Hours * Day(t) + Hour(t)
  BY TimeIs
<1>2. CASE Hour(t) + 1 < Hours
  <2>1. Hour(t) + 1 \in 0 .. Hours - 1 /\ t + 1 = Hours * Day(t) + (Hour(t) + 1)
    BY <1>1, <1>2, ScheduleConstants
  <2> QED
    BY <1>1, <1>2, <2>1, OtherTime
<1>3. CASE Hour(t) + 1 = Hours
  <2>1. 0 \in 0 .. Hours - 1 /\ t + 1 = Hours * (Day(t) + 1) + 0
    <3>1. Hours * (Day(t) + 1) = Hours * Day(t) + Hours /\ Hours * Day(t) \in Int
      BY <1>1, ScheduleConstants
    <3> QED
      BY <1>1, <1>3, <3>1, ScheduleConstants
  <2> QED
    BY <1>1, <1>3, <2>1, OtherTime
<1> QED
  BY <1>1, <1>2, <1>3, ScheduleConstants

\* The day before, a week on, is on the same weekday as the day before.
LEMMA Yesterday ==
  ASSUME NEW d \in Int
  PROVE  Weekday(d) \in 0 .. Days - 1 /\ Weekday(d + Days - 1) = Weekday(d - 1)
<1>1. Weekday(d) \in 0 .. Days - 1
  BY DivMod, ScheduleConstants DEF Weekday
<1> DEFINE y == d - 1
<1>2. y \in Int /\ 1 \in Int /\ d + Days - 1 = y + Days * 1
  BY ScheduleConstants
<1>3. (y + Days * 1) % Days = y % Days
  <2> HIDE DEF y
  <2> QED
    BY <1>2, ModShift, ScheduleConstants
<1> QED
  BY <1>1, <1>2, <1>3 DEF Weekday

\* Every weekday comes within a week.
LEMMA WithinWeek ==
  ASSUME NEW d \in Nat, NEW k \in 0 .. Days - 1
  PROVE  \E e \in d + 1 .. d + Days : Weekday(e) = k
<1> USE ScheduleConstants
<1> DEFINE r == (k - d - 1) % Days
           q == (k - d - 1) \div Days
           e == d + 1 + r
<1>1. r \in 0 .. Days - 1 /\ q \in Int /\ k - d - 1 = Days * q + r
  BY DivMod
<1> HIDE DEF r, q
<1>2. e \in d + 1 .. d + Days
  BY <1>1
<1>3. e = k + Days * (-q)
  BY <1>1
<1>4. (k + Days * (-q)) % Days = k % Days
  <2>1. k \in Int /\ -q \in Int
    BY <1>1
  <2> QED
    BY <2>1, ModShift
<1>5. k % Days = k
  BY DivModOf
<1>6. Weekday(e) = k
  BY <1>3, <1>4, <1>5 DEF Weekday
<1> QED
  BY <1>2, <1>6

LEMMA MinIs ==
  ASSUME NEW T \in SUBSET Nat, T # {}
  PROVE  Min(T) \in T /\ \A y \in T : Min(T) <= y
<1>1. PICK x \in T : \A y \in T : ~(<<y, x>> \in OpToRel(<, Nat))
  BY NatLessThanWellFounded, WFMin
<1>2. ASSUME NEW y \in T PROVE x <= y
  <2>1. x \in Nat /\ y \in Nat
    OBVIOUS
  <2>2. y < x => <<y, x>> \in OpToRel(<, Nat)
    <3>1. <<y, x>> \in Nat \X Nat
      BY <2>1
    <3> QED
      BY <2>1, <3>1, Zenon DEF OpToRel
  <2>3. ~(y < x)
    BY <1>1, <2>2, Zenon
  <2> QED
    BY <2>1, <2>3
<1> QED
  BY <1>2 DEF Min

\* What the next boundary is: the first edge of a window that is to come, and it
\* comes within a week.
LEMMA NextIs ==
  ASSUME NEW ws \in Schedules, NEW t \in Nat
  PROVE  /\ NextBaselineTransition(ws, t) \in Nat /\ NextBaselineTransition(ws, t) > t
         /\ \A w \in ws : \A d \in DaysOf(w, t) : \A x \in Edges(w, d) :
              x > t => NextBaselineTransition(ws, t) <= x
         /\ \E e \in Day(t) + 1 .. Day(t) + Days : \E h \in 0 .. Hours - 1 :
              NextBaselineTransition(ws, t) <= Hours * e + h
<1> USE ScheduleConstants
<1> DEFINE all == UNION {UNION {Edges(w, d) : d \in DaysOf(w, t)} : w \in ws}
           next == {x \in all : x > t}
<1>1. Day(t) \in Nat /\ Hour(t) \in 0 .. Hours - 1 /\ t = Hours * Day(t) + Hour(t)
  BY TimeIs
<1>2. ASSUME NEW w \in ws
      PROVE  w.start \in 0 .. Hours - 1 /\ w.end \in 0 .. Hours - 1
             /\ w.days \subseteq 0 .. Days - 1 /\ w.days # {}
  <2>1. w \in Windows
    OBVIOUS
  <2> QED
    BY <2>1 DEF Windows
<1>3. all \subseteq Nat
  <2> SUFFICES ASSUME NEW w \in ws, NEW d \in DaysOf(w, t) PROVE Edges(w, d) \subseteq Nat
    OBVIOUS
  <2>1. d \in Nat
    BY <1>1 DEF DaysOf
  <2>2. \A e \in Nat : e * Hours \in Nat
    OBVIOUS
  <2> QED
    BY <1>2, <2>1, <2>2 DEF Edges
<1>4. PICK w \in ws : TRUE
  OBVIOUS
<1>5. PICK e \in Day(t) + 1 .. Day(t) + Days : Weekday(e) \in w.days
  <2>1. PICK k \in w.days : k \in 0 .. Days - 1
    BY <1>2
  <2> QED
    BY <1>1, <2>1, WithinWeek
<1>6. e * Hours + w.start \in next
  <2>1. e \in DaysOf(w, t)
    BY <1>1, <1>5 DEF DaysOf
  <2>2. Hours * Day(t) + Hours <= Hours * e
    BY <1>1, NextMultiple
  <2>3. Hours * e = e * Hours /\ Hours * e \in Int /\ Hours * Day(t) \in Int
    BY <1>1
  <2>4. e * Hours + w.start > t
    BY <1>1, <1>2, <2>2, <2>3
  <2> QED
    BY <2>1, <2>4 DEF Edges
<1>7. Min(next) \in next /\ \A y \in next : Min(next) <= y
  <2>1. next \in SUBSET Nat /\ next # {}
    BY <1>3, <1>6
  <2> HIDE DEF next
  <2> QED
    BY <2>1, MinIs
<1>8. NextBaselineTransition(ws, t) = Min(next)
  BY DEF NextBaselineTransition, FirstAfter
<1>9. \A v \in ws : \A d \in DaysOf(v, t) : \A x \in Edges(v, d) : x > t => x \in next
  OBVIOUS
<1>10. Min(next) <= Hours * e + w.start
  BY <1>1, <1>6, <1>7
<1> HIDE DEF next
<1>11. Min(next) \in Nat /\ Min(next) > t
  BY <1>3, <1>7 DEF next
<1> QED
  BY <1>2, <1>7, <1>8, <1>9, <1>10, <1>11

-----------------------------------------------------------------------------
\* One window covers a time, and starts or ends at it.
Covers(w, t) ==
  \/ /\ Weekday(Day(t)) \in w.days /\ w.start <= Hour(t)
     /\ Crosses(w) \/ Hour(t) < w.end
  \/ /\ Crosses(w) /\ Hour(t) < w.end
     /\ Weekday(Day(t) + Days - 1) \in w.days

EdgeAt(w, t) ==
  \/ Hour(t) = w.start /\ Weekday(Day(t)) \in w.days
  \/ Hour(t) = w.end /\ ~Crosses(w) /\ Weekday(Day(t)) \in w.days
  \/ Hour(t) = w.end /\ Crosses(w) /\ Weekday(Day(t) + Days - 1) \in w.days

LEMMA ChangeIsEdge ==
  ASSUME NEW t \in Nat, NEW w \in Windows, Covers(w, t) # Covers(w, t + 1)
  PROVE  EdgeAt(w, t + 1)
<1> USE ScheduleConstants
<1>1. w.start \in 0 .. Hours - 1 /\ w.end \in 0 .. Hours - 1
  BY DEF Windows
<1>2. Day(t) \in Nat /\ Hour(t) \in 0 .. Hours - 1
  BY TimeIs
<1>3. CASE Hour(t) + 1 < Hours /\ Day(t + 1) = Day(t) /\ Hour(t + 1) = Hour(t) + 1
  BY <1>1, <1>2, <1>3 DEF Covers, EdgeAt, Crosses
<1>4. CASE Hour(t) + 1 = Hours /\ Day(t + 1) = Day(t) + 1 /\ Hour(t + 1) = 0
  <2>1. Weekday(Day(t + 1) + Days - 1) = Weekday(Day(t))
    BY <1>2, <1>4, Yesterday
  <2>2. Covers(w, t) <=> Weekday(Day(t)) \in w.days /\ Crosses(w)
    BY <1>1, <1>2, <1>4 DEF Covers, Crosses
  <2> QED
    BY <1>1, <1>4, <2>1, <2>2 DEF Covers, EdgeAt, Crosses
<1> QED
  BY <1>3, <1>4, NextHour

\* An edge to come is among those that are looked for, unless it ends a window
\* that began the day before.
LEMMA EdgeIsFound ==
  ASSUME NEW ws \in Schedules, NEW w \in ws, NEW t \in Nat, NEW x \in Nat,
         ~CarriedOver(ws, t), t < x, EdgeAt(w, x), Day(x) <= Day(t) + Days
  PROVE  \E d \in DaysOf(w, t) : x \in Edges(w, d)
<1> USE ScheduleConstants
<1>1. /\ Day(t) \in Nat /\ Hour(t) \in 0 .. Hours - 1 /\ t = Hours * Day(t) + Hour(t)
      /\ Day(x) \in Nat /\ Hour(x) \in 0 .. Hours - 1 /\ x = Hours * Day(x) + Hour(x)
  BY TimeIs
<1>2. Day(t) <= Day(x)
  <2>1. Day(x) < Day(t) => Hours * Day(x) + Hours <= Hours * Day(t)
    BY <1>1, NextMultiple
  <2>2. Hours * Day(x) \in Int /\ Hours * Day(t) \in Int
    BY <1>1
  <2> QED
    BY <1>1, <2>1, <2>2
<1>3. w.start \in 0 .. Hours - 1 /\ w.end \in 0 .. Hours - 1
  BY DEF Windows
<1>4. Hours * Day(x) = Day(x) * Hours
  BY <1>1
<1>5. CASE Hour(x) = w.start /\ Weekday(Day(x)) \in w.days
  <2>1. Day(x) \in DaysOf(w, t)
    BY <1>1, <1>2, <1>5 DEF DaysOf
  <2> QED
    BY <1>1, <1>4, <1>5, <2>1 DEF Edges
<1>6. CASE Hour(x) = w.end /\ ~Crosses(w) /\ Weekday(Day(x)) \in w.days
  <2>1. Day(x) \in DaysOf(w, t)
    BY <1>1, <1>2, <1>6 DEF DaysOf
  <2> QED
    BY <1>1, <1>4, <1>6, <2>1 DEF Edges
<1>7. CASE Hour(x) = w.end /\ Crosses(w) /\ Weekday(Day(x) + Days - 1) \in w.days
  <2>1. Day(x) # Day(t)
    <3>1. CASE Day(x) = Day(t)
      <4>1. Hour(t) < w.end
        BY <1>1, <1>7, <3>1
      <4> QED
        BY <1>7, <3>1, <4>1 DEF CarriedOver
    <3> QED
      BY <3>1
  <2> DEFINE d == Day(x) - 1
  <2>2. d \in Day(t) .. Day(t) + Days + 1 /\ d + 1 = Day(x)
    BY <1>1, <1>2, <2>1
  <2>3. Weekday(d) \in w.days
    BY <1>1, <1>7, Yesterday
  <2> HIDE DEF d
  <2>4. d \in DaysOf(w, t)
    BY <2>2, <2>3 DEF DaysOf
  <2>5. x = (d + 1) * Hours + w.end
    BY <1>1, <1>4, <1>7, <2>2
  <2> QED
    BY <1>7, <2>4, <2>5 DEF Edges
<1> QED
  BY <1>5, <1>6, <1>7 DEF EdgeAt

\* Until the next boundary that was computed, the schedule says the same.
LEMMA NothingChanges ==
  ASSUME NEW ws \in Schedules, NEW t \in Nat, NEW x \in Nat,
         ~CarriedOver(ws, t), t <= x, x + 1 < NextBaselineTransition(ws, t)
  PROVE  BaselineShouldRecord(ws, x + 1) <=> BaselineShouldRecord(ws, x)
<1> USE ScheduleConstants
<1> DEFINE n == NextBaselineTransition(ws, t)
<1>1. n \in Nat
  BY NextIs
<1>2. Day(x + 1) <= Day(t) + Days
  <2>1. PICK e \in Day(t) + 1 .. Day(t) + Days, h \in 0 .. Hours - 1 : n <= Hours * e + h
    BY NextIs
  <2>2. Day(t) \in Nat /\ Day(x + 1) \in Nat /\ Hour(x + 1) \in 0 .. Hours - 1
        /\ x + 1 = Hours * Day(x + 1) + Hour(x + 1)
    BY TimeIs
  <2>3. e < Day(x + 1) => Hours * e + Hours <= Hours * Day(x + 1)
    BY <2>2, NextMultiple
  <2>4. Hours * e \in Int /\ Hours * Day(x + 1) \in Int
    BY <2>2
  <2> QED
    BY <1>1, <2>1, <2>2, <2>3, <2>4
<1>3. ASSUME NEW w \in ws PROVE Covers(w, x) = Covers(w, x + 1)
  <2>1. SUFFICES ASSUME EdgeAt(w, x + 1) PROVE FALSE
    BY ChangeIsEdge
  <2>2. PICK d \in DaysOf(w, t) : x + 1 \in Edges(w, d)
    BY <1>2, <2>1, EdgeIsFound
  <2>3. n <= x + 1
    BY <2>2, NextIs
  <2> QED
    BY <1>1, <2>3
<1> QED
  BY <1>3 DEF BaselineShouldRecord, Covers

-----------------------------------------------------------------------------
\* Unless a boundary was carried over: the next one was computed at a time that
\* had no window of the day before, and what was applied is what the schedule
\* has said since.
ScheduleInv ==
  /\ schedule \in Schedules /\ time \in Nat /\ applied \in BOOLEAN /\ carried \in BOOLEAN
  /\ eta \in Nat /\ time <= eta
  /\ ~carried => \E t \in 0 .. time : /\ ~CarriedOver(schedule, t)
                                       /\ eta = NextBaselineTransition(schedule, t)
  /\ ~carried /\ time # eta => applied = BaselineShouldRecord(schedule, time)

LEMMA ScheduleStart == ScheduleInit => ScheduleInv
<1> SUFFICES ASSUME ScheduleInit PROVE ScheduleInv
  OBVIOUS
<1>1. schedule \in Schedules /\ time \in Nat
  BY DEF ScheduleInit
<1>2. applied \in BOOLEAN /\ carried \in BOOLEAN
  BY DEF ScheduleInit, BaselineShouldRecord, CarriedOver
<1>3. eta \in Nat /\ eta > time
  BY <1>1, NextIs DEF ScheduleInit
<1> QED
  BY <1>1, <1>2, <1>3 DEF ScheduleInit, ScheduleInv

LEMMA ScheduleStep == ScheduleInv /\ [ScheduleNext]_scheduleVars => ScheduleInv'
<1> SUFFICES ASSUME ScheduleInv, [ScheduleNext]_scheduleVars PROVE ScheduleInv'
  OBVIOUS
<1>1. CASE UNCHANGED scheduleVars
  BY <1>1 DEF scheduleVars, ScheduleInv, CarriedOver, NextBaselineTransition, BaselineShouldRecord
<1>2. CASE Hourly
  <2>1. time' = time + 1 /\ UNCHANGED <<schedule, applied, eta, carried>> /\ time # eta
    BY <1>2 DEF Hourly
  <2>2. time \in Nat /\ eta \in Nat /\ time <= eta /\ schedule \in Schedules
    BY DEF ScheduleInv
  <2>3. ~carried => \E t \in 0 .. time' : /\ ~CarriedOver(schedule, t)
                                          /\ eta = NextBaselineTransition(schedule, t)
    BY <2>1, <2>2 DEF ScheduleInv
  <2>4. ASSUME ~carried, time' # eta
        PROVE  applied = BaselineShouldRecord(schedule, time + 1)
    <3>1. PICK t \in 0 .. time : ~CarriedOver(schedule, t) /\ eta = NextBaselineTransition(schedule, t)
      BY <2>4 DEF ScheduleInv
    <3>2. BaselineShouldRecord(schedule, time + 1) <=> BaselineShouldRecord(schedule, time)
      BY <2>1, <2>2, <2>4, <3>1, NothingChanges
    <3>3. applied = BaselineShouldRecord(schedule, time)
      BY <2>1, <2>4 DEF ScheduleInv
    <3> QED
      BY <3>2, <3>3 DEF ScheduleInv, BaselineShouldRecord
  <2> QED
    BY <2>1, <2>2, <2>3, <2>4 DEF ScheduleInv
<1>3. CASE BoundaryTask
  <2>1. /\ applied' = BaselineShouldRecord(schedule, time) /\ UNCHANGED <<schedule, time>>
        /\ eta' = NextBaselineTransition(schedule, time)
        /\ carried' = (carried \/ CarriedOver(schedule, time))
    BY <1>3 DEF BoundaryTask
  <2>2. time \in Nat /\ schedule \in Schedules /\ applied' \in BOOLEAN /\ carried' \in BOOLEAN
    BY <2>1 DEF ScheduleInv, BaselineShouldRecord, CarriedOver
  <2>3. eta' \in Nat /\ eta' > time
    BY <2>1, <2>2, NextIs
  <2>4. ~carried' => \E t \in 0 .. time' : /\ ~CarriedOver(schedule', t)
                                           /\ eta' = NextBaselineTransition(schedule', t)
    <3>1. time \in 0 .. time' /\ schedule' = schedule
      BY <2>1, <2>2
    <3>2. ~carried' => ~CarriedOver(schedule, time)
      BY <2>1
    <3> QED
      BY <2>1, <3>1, <3>2
  <2>5. applied' = BaselineShouldRecord(schedule', time')
    BY <2>1 DEF BaselineShouldRecord
  <2>6. time' \in Nat /\ time' <= eta' /\ schedule' \in Schedules
    BY <2>1, <2>2, <2>3
  <2> QED
    BY <2>2, <2>3, <2>4, <2>5, <2>6 DEF ScheduleInv
<1> QED
  BY <1>1, <1>2, <1>3 DEF ScheduleNext

\* Between the boundary tasks the recorder follows the schedule, for days and
\* weeks of any length and any windows: no start or end of a window falls between
\* two tasks of the chain (next_baseline_transition), unless one is computed in the
\* early hours of a window that began the day before.
THEOREM ScheduleFollows == ScheduleSpec => []ScheduleFollowedUnlessCarried
<1>1. ScheduleInv => ScheduleFollowedUnlessCarried
  BY DEF ScheduleInv, ScheduleFollowedUnlessCarried, ScheduleFollowed
<1> QED
  BY <1>1, ScheduleStart, ScheduleStep, PTL DEF ScheduleSpec

-----------------------------------------------------------------------------
(* The events of an ONVIF device.                                          *)

OnvifNotifications == [on : BOOLEAN, at : Instants]
OnvifRows == [Instants -> {"none", "open", "ended"}]
OnvifTriggers == [Instants -> {"none", "ACTIVE", "COMPLETED"}]
OnvifTypeOK ==
  /\ prop \in OnvifNotifications
  /\ sub \in {"closed", "open", "lost"} /\ handling \in BOOLEAN
  /\ inbox \subseteq OnvifNotifications /\ batch \subseteq OnvifNotifications
  /\ rows \in OnvifRows /\ rec \in OnvifTriggers /\ swallowed \subseteq Instants
  /\ policy \in EventPolicies
  /\ draft \in [rows : OnvifRows, rec : OnvifTriggers, swallowed : SUBSET Instants,
                 policy : EventPolicies \cup {Unread}]

\* What a transaction leaves is what the tables hold.
Kept(d) == d.rows = rows /\ d.rec = rec /\ d.swallowed = swallowed

\* Rows r hold nothing that the device has not been through.
RowsPlausible(r) ==
  /\ \A i \in Instants : r[i] # "none" => i <= prop.at
  /\ \A i \in Instants : r[i] = "ended" => i < prop.at
  /\ \A i \in Instants : r[i] = "open" /\ i = prop.at => prop.on
  /\ \A i, j \in OpenEvent(r) : i = j

\* Rows r are not ahead of a notification n that is still to be ingested.
RowsBefore(r, n) ==
  /\ \A i \in Instants : r[i] # "none" => i <= n.at
  /\ \A i \in Instants : r[i] = "ended" => i < n.at
  /\ \A i \in Instants : r[i] = "open" /\ i = n.at => n.on

\* The triggers t follow the rows r where the policy swallowed nothing, S.
TriggersFollow(r, t, S) ==
  \A i \in Instants : /\ t[i] = TriggerOf(r[i]) \/ i \in S
                      /\ t[i] = "ACTIVE" => r[i] # "none"
                      /\ t[i] = "COMPLETED" => r[i] = "ended"

ToIngest == batch \union inbox
InOrder ==
  /\ \A n \in ToIngest : n.at <= prop.at /\ (n.at = prop.at => n = prop)
  /\ \A n \in batch, m \in inbox : n.at < m.at
  /\ \A n, m \in ToIngest : n.at = m.at => n = m

OnvifInv ==
  /\ OnvifTypeOK
  /\ RowsPlausible(rows) /\ RowsPlausible(draft.rows)
  /\ \A n \in ToIngest : RowsBefore(draft.rows, n)
  /\ InOrder
  /\ TriggersFollow(rows, rec, swallowed)
  /\ TriggersFollow(draft.rows, draft.rec, draft.swallowed)
  /\ ~handling => batch = {} /\ Kept(draft)
  /\ sub # "open" => inbox = {}
  /\ sub = "open" /\ ToIngest # {} => prop \in ToIngest
  /\ sub = "open" /\ prop \notin ToIngest => (OpenEvent(draft.rows) # {} <=> prop.on)

LEMMA OnvifStarts == OnvifInit => OnvifInv
<1> SUFFICES ASSUME OnvifInit PROVE OnvifInv
  OBVIOUS
<1>1. OnvifTypeOK
  <2>1. rows \in OnvifRows /\ rec \in OnvifTriggers
    BY DEF OnvifInit, OnvifRows, OnvifTriggers
  <2>2. draft \in [rows : OnvifRows, rec : OnvifTriggers, swallowed : SUBSET Instants,
                   policy : EventPolicies \cup {Unread}]
    BY <2>1 DEF OnvifInit
  <2>3. prop \in OnvifNotifications
    BY OnvifConstants DEF OnvifInit, OnvifNotifications, Instants
  <2> QED
    BY <2>1, <2>2, <2>3 DEF OnvifInit, OnvifTypeOK
<1>2. ToIngest = {} /\ sub = "closed" /\ Kept(draft)
      /\ \A i \in Instants : rows[i] = "none" /\ rec[i] = "none"
  BY DEF OnvifInit, ToIngest, Kept
<1>3. TriggersFollow(rows, rec, swallowed) /\ TriggersFollow(draft.rows, draft.rec, draft.swallowed)
  BY <1>2 DEF TriggersFollow, TriggerOf, Kept
<1> QED
  BY <1>1, <1>2, <1>3 DEF OnvifInit, OnvifInv, RowsPlausible, InOrder, OpenEvent, ToIngest, Kept

LEMMA OnvifDeviceChanges == OnvifInv /\ DeviceChanges => OnvifInv'
<1> SUFFICES ASSUME OnvifInv, DeviceChanges PROVE OnvifInv'
  OBVIOUS
<1>1. /\ prop \in OnvifNotifications /\ prop.at \in Int /\ MaxChanges \in Int
      /\ Instants \subseteq Int /\ prop'.at = prop.at + 1 /\ prop'.at \in Instants
      /\ prop' \in OnvifNotifications
  BY OnvifConstants DEF OnvifInv, OnvifTypeOK, DeviceChanges, OnvifNotifications, Instants
<1>2. \A n \in ToIngest : n.at \in Int /\ n.at <= prop.at
  BY <1>1 DEF OnvifInv, OnvifTypeOK, OnvifNotifications, InOrder, ToIngest
<1>3. /\ draft' = draft /\ UNCHANGED storedVars /\ rows' = rows /\ sub' = sub /\ handling' = handling
      /\ batch' = batch /\ inbox' = IF sub = "open" THEN inbox \cup {prop'} ELSE inbox
  BY DEF DeviceChanges, handlerVars, storedVars
<1>4. OnvifTypeOK'
  BY <1>1, <1>3 DEF OnvifInv, OnvifTypeOK, storedVars
<1>5. ASSUME NEW r, RowsPlausible(r) PROVE RowsPlausible(r)' /\ RowsBefore(r, prop')
  BY <1>1, <1>5 DEF RowsPlausible, RowsBefore, OpenEvent
<1>6. RowsPlausible(rows)' /\ RowsPlausible(draft.rows)' /\ RowsBefore(draft.rows, prop')
  BY <1>3, <1>5 DEF OnvifInv, RowsPlausible, RowsBefore
<1>7. ToIngest' = IF sub = "open" THEN ToIngest \cup {prop'} ELSE ToIngest
  BY <1>3 DEF ToIngest
<1>8. \A n \in ToIngest' : RowsBefore(draft.rows, n)'
  BY <1>3, <1>6, <1>7 DEF OnvifInv, RowsBefore
<1>9. InOrder'
  BY <1>1, <1>2, <1>3, <1>7 DEF OnvifInv, InOrder, ToIngest
<1> QED
  BY <1>3, <1>4, <1>6, <1>7, <1>8, <1>9 DEF OnvifInv, OpenEvent, TriggersFollow, Kept, storedVars

\* The subscription ends and what it had not delivered is lost; a transaction
\* under way goes on.
LEMMA OnvifSubscriptionEnds ==
  ASSUME OnvifInv, sub' \in {"closed", "lost"}, inbox' = {},
         UNCHANGED <<prop, storedVars, handlerVars>>
  PROVE  OnvifInv'
<1>1. ToIngest' \subseteq ToIngest /\ batch' = batch /\ draft' = draft /\ handling' = handling
  BY DEF ToIngest, handlerVars
<1>2. OnvifTypeOK'
  BY <1>1 DEF OnvifInv, OnvifTypeOK, storedVars
<1>3. InOrder'
  BY <1>1 DEF OnvifInv, InOrder
<1>4. \A n \in ToIngest' : RowsBefore(draft.rows, n)'
  BY <1>1 DEF OnvifInv, RowsBefore
<1> QED
  BY <1>1, <1>2, <1>3, <1>4 DEF OnvifInv, RowsPlausible, OpenEvent, TriggersFollow, Kept, storedVars

LEMMA OnvifNothingMoves ==
  ASSUME OnvifInv, UNCHANGED <<prop, sub, inbox, rows, rec, swallowed, handlerVars>>,
         policy' \in EventPolicies
  PROVE  OnvifInv'
<1>1. ToIngest' = ToIngest /\ batch' = batch /\ draft' = draft /\ handling' = handling
  BY DEF ToIngest, handlerVars
<1> QED
  BY <1>1 DEF OnvifInv, OnvifTypeOK, RowsPlausible, RowsBefore, InOrder, OpenEvent, TriggersFollow, Kept

LEMMA OnvifOpenSubscription == OnvifInv /\ OpenSubscription => OnvifInv'
<1> SUFFICES ASSUME OnvifInv, OpenSubscription PROVE OnvifInv'
  OBVIOUS
<1>1. /\ ToIngest' = {prop} /\ batch = {} /\ batch' = {} /\ inbox' = {prop} /\ draft' = draft
      /\ handling' = handling /\ UNCHANGED storedVars /\ rows' = rows /\ prop' = prop /\ sub' = "open"
  BY DEF ToIngest, handlerVars, OpenSubscription, OnvifInv, storedVars
<1>2. OnvifTypeOK'
  BY <1>1 DEF OnvifInv, OnvifTypeOK, storedVars
<1>3. InOrder'
  BY <1>1, OnvifConstants DEF OnvifInv, OnvifTypeOK, OnvifNotifications, Instants, InOrder
<1>4. \A n \in ToIngest' : RowsBefore(draft.rows, n)'
  BY <1>1 DEF OnvifInv, RowsPlausible, RowsBefore, Kept
<1> QED
  BY <1>1, <1>2, <1>3, <1>4 DEF OnvifInv, RowsPlausible, OpenEvent, TriggersFollow, Kept, storedVars

LEMMA OnvifPullMessages == OnvifInv /\ PullMessages => OnvifInv'
<1> SUFFICES ASSUME OnvifInv, PullMessages PROVE OnvifInv'
  OBVIOUS
<1>1. /\ ToIngest' = ToIngest /\ batch' = inbox /\ inbox' = {}
      /\ handling' = TRUE /\ UNCHANGED storedVars /\ rows' = rows /\ prop' = prop /\ sub' = sub
  BY DEF ToIngest, PullMessages, OnvifInv, storedVars
<1>d. /\ draft' = [draft EXCEPT !.policy = policy]
      /\ draft'.rows = draft.rows /\ draft'.rec = draft.rec /\ draft'.swallowed = draft.swallowed
  BY DEF PullMessages, OnvifInv, OnvifTypeOK
<1>2. OnvifTypeOK'
  BY <1>1, <1>d DEF OnvifInv, OnvifTypeOK, storedVars
<1>3. InOrder'
  BY <1>1 DEF OnvifInv, InOrder
<1>4. \A n \in ToIngest' : RowsBefore(draft.rows, n)'
  BY <1>1, <1>d DEF OnvifInv, RowsBefore
<1> QED
  BY <1>1, <1>d, <1>2, <1>3, <1>4 DEF OnvifInv, RowsPlausible, OpenEvent, TriggersFollow, storedVars

LEMMA OnvifIngestNext == OnvifInv /\ IngestNext => OnvifInv'
<1> SUFFICES ASSUME OnvifInv, IngestNext PROVE OnvifInv'
  OBVIOUS
<1>1. PICK n \in batch :
        /\ \A m \in batch : n.at <= m.at
        /\ batch' = batch \ {n}
        /\ LET r == IngestOne(n, draft.rows)
               T == Touched(n, draft.rows)
               refused == {i \in T : Refused(i, draft.policy, draft.rec)}
           IN draft' = [rows |-> r, rec |-> SyncTriggers(T \ refused, r, draft.rec),
                        swallowed |-> (draft.swallowed \ T) \cup refused, policy |-> draft.policy]
  BY DEF IngestNext
<1> DEFINE r == draft.rows
           r1 == IngestOne(n, r)
           T == Touched(n, r)
           refused == {i \in T : Refused(i, draft.policy, draft.rec)}
           t1 == SyncTriggers(T \ refused, r1, draft.rec)
           S1 == (draft.swallowed \ T) \cup refused
<1>2. /\ handling' = handling /\ handling = TRUE /\ inbox' = inbox /\ UNCHANGED storedVars /\ rows' = rows
      /\ prop' = prop /\ sub' = sub /\ Instants \subseteq Int
  BY OnvifConstants DEF IngestNext, Instants, storedVars
<1>3. /\ r \in OnvifRows /\ n \in OnvifNotifications /\ n.at \in Instants /\ n.at \in Int
      /\ n.on \in BOOLEAN /\ draft.rec \in OnvifTriggers /\ draft.swallowed \subseteq Instants
      /\ draft.policy \in EventPolicies \cup {Unread}
      /\ prop \in OnvifNotifications /\ prop.at \in Int
  BY <1>2 DEF OnvifInv, OnvifTypeOK, OnvifNotifications
<1>4. /\ RowsPlausible(r) /\ RowsBefore(r, n) /\ n \in ToIngest
      /\ n.at <= prop.at /\ (n.at = prop.at => n = prop)
  BY DEF OnvifInv, InOrder, ToIngest
<1>5. r1 \in OnvifRows
  BY <1>3 DEF IngestOne, OnvifRows
<1>6. \A i \in Instants :
        /\ r1[i] = "none" => r[i] = "none"
        /\ r[i] = "open" => r1[i] \in {"open", "ended"}
        /\ r[i] = "ended" => r1[i] = "ended"
        /\ r[i] = "none" => r1[i] = "none" \/ (r1[i] = "open" /\ i = n.at)
        /\ r1[i] = "open" /\ i = n.at => n.on
        /\ r1[i] = "ended" /\ r[i] # "ended" => r[i] = "open" /\ ~n.on
  BY <1>3, <1>4 DEF IngestOne, OnvifRows, RowsBefore, OpenEvent
<1>7. OpenEvent(r1) # {} <=> n.on
  <2>1. CASE ~n.on
    BY <2>1, <1>3 DEF IngestOne, OpenEvent
  <2>2. CASE n.on /\ OpenEvent(r) # {}
    BY <2>2, <1>3 DEF IngestOne
  <2>3. CASE n.on /\ OpenEvent(r) = {}
    <3>1. r[n.at] = "none"
      BY <2>3, <1>3, <1>4 DEF RowsBefore, OnvifRows, OpenEvent
    <3>2. r1 = [r EXCEPT ![n.at] = "open"]
      BY <3>1, <2>3 DEF IngestOne
    <3>3. n.at \in OpenEvent(r1)
      BY <3>2, <1>3 DEF OnvifRows, OpenEvent
    <3> QED
      BY <3>3, <2>3
  <2> QED
    BY <2>1, <2>2, <2>3, <1>3
<1>8. \A i, j \in OpenEvent(r1) : i = j
  <2>1. CASE ~n.on
    BY <2>1, <1>7
  <2>2. CASE n.on /\ OpenEvent(r) # {}
    BY <2>2, <1>4 DEF IngestOne, RowsPlausible
  <2>3. CASE n.on /\ OpenEvent(r) = {}
    BY <2>3, <1>3 DEF IngestOne, OnvifRows, OpenEvent
  <2> QED
    BY <2>1, <2>2, <2>3, <1>3
<1>9. \A m \in ToIngest' : m \in ToIngest /\ m \in OnvifNotifications /\ m.at \in Int /\ n.at < m.at
  <2>1. ASSUME NEW m \in ToIngest' PROVE m \in ToIngest /\ m # n
    BY <2>1, <1>1, <1>2, <1>3 DEF OnvifInv, InOrder, ToIngest
  <2>2. ASSUME NEW m \in ToIngest PROVE m \in OnvifNotifications /\ m.at \in Int
    BY <2>2, <1>2 DEF OnvifInv, OnvifTypeOK, OnvifNotifications, ToIngest
  <2>3. ASSUME NEW m \in ToIngest PROVE n.at <= m.at /\ (n.at = m.at => n = m)
    BY <2>3, <1>1, <1>3, <1>4, <2>2 DEF OnvifInv, InOrder, ToIngest
  <2> QED
    BY <2>1, <2>2, <2>3, <1>3
<1>i. Instants \subseteq Int /\ n.at \in Int /\ prop.at \in Int /\ r \in OnvifRows /\ r1 \in OnvifRows
  BY <1>2, <1>3, <1>5
<1>10. RowsPlausible(r1)
  <2> HIDE DEF r1, r
  <2> QED
    BY <1>i, <1>4, <1>6, <1>8 DEF RowsPlausible, RowsBefore, OnvifRows
<1>11. \A m \in ToIngest' : RowsBefore(r1, m)
  <2> HIDE DEF r1, r
  <2> QED
    BY <1>i, <1>4, <1>6, <1>9 DEF RowsBefore, OnvifRows
<1>12. /\ draft' = [rows |-> r1, rec |-> t1, swallowed |-> S1, policy |-> draft.policy]
       /\ draft'.rows = r1 /\ draft'.rec = t1 /\ draft'.swallowed = S1
  BY <1>1
<1>13. /\ T \subseteq Instants /\ \A i \in Instants \ T : r1[i] = r[i]
       /\ \A i \in T : r1[i] \in {"open", "ended"}
  <2>1. CASE n.on /\ OpenEvent(r) = {}
    <3>1. r[n.at] = "none" /\ T = {n.at}
      BY <2>1, <1>3, <1>4 DEF RowsBefore, OnvifRows, OpenEvent, Touched
    <3>2. r1 = [r EXCEPT ![n.at] = "open"]
      BY <2>1, <3>1 DEF IngestOne
    <3> QED
      BY <1>3, <3>1, <3>2 DEF OnvifRows
  <2>2. CASE ~(n.on /\ OpenEvent(r) = {})
    <3>1. T = OpenEvent(r)
      BY <2>2 DEF Touched
    <3> QED
      BY <1>3, <2>2, <3>1 DEF IngestOne, OnvifRows, OpenEvent
  <2> QED
    BY <2>1, <2>2
<1>o. \A i \in Instants : t1[i] = IF i \notin T \ refused THEN draft.rec[i]
                                 ELSE IF r1[i] = "ended" THEN "COMPLETED"
                                 ELSE IF draft.rec[i] = "none" THEN "ACTIVE" ELSE draft.rec[i]
  BY DEF SyncTriggers
<1>f. TriggersFollow(r1, t1, S1)
  <2> HIDE DEF r1, t1, r, T
  <2> SUFFICES ASSUME NEW i \in Instants
               PROVE  /\ t1[i] = TriggerOf(r1[i]) \/ i \in S1
                      /\ t1[i] = "ACTIVE" => r1[i] # "none"
                      /\ t1[i] = "COMPLETED" => r1[i] = "ended"
    BY DEF TriggersFollow
  <2>1. /\ draft.rec[i] = TriggerOf(r[i]) \/ i \in draft.swallowed
        /\ draft.rec[i] = "ACTIVE" => r[i] # "none"
        /\ draft.rec[i] = "COMPLETED" => r[i] = "ended"
        /\ draft.rec[i] \in {"none", "ACTIVE", "COMPLETED"}
    BY <1>3 DEF OnvifInv, TriggersFollow, OnvifTriggers, r
  <2>2. CASE i \notin T
    BY <1>13, <1>o, <2>1, <2>2
  <2>3. CASE i \in refused
    BY <1>6, <1>o, <2>1, <2>3
  <2>4. CASE i \in T \ refused
    BY <1>6, <1>13, <1>o, <2>1, <2>4 DEF TriggerOf
  <2> QED
    BY <2>2, <2>3, <2>4
<1>14. t1 \in OnvifTriggers /\ S1 \subseteq Instants
  <2> HIDE DEF r1, T
  <2> QED
    BY <1>3, <1>13 DEF SyncTriggers, OnvifTriggers
<1> HIDE DEF r1, r, t1, S1, T, refused
<1>15. OnvifTypeOK'
  BY <1>1, <1>2, <1>3, <1>5, <1>12, <1>14 DEF OnvifInv, OnvifTypeOK, storedVars
<1>16. InOrder'
  BY <1>1, <1>2, <1>9 DEF OnvifInv, InOrder, ToIngest
<1>17. sub' = "open" /\ ToIngest' # {} => prop' \in ToIngest'
  <2> SUFFICES ASSUME sub = "open", NEW m \in ToIngest' PROVE prop \in ToIngest'
    BY <1>2
  <2>1. prop \in ToIngest
    BY <1>4, <1>2 DEF OnvifInv
  <2>2. prop # n
    BY <1>9, <1>3 DEF OnvifInv, InOrder
  <2> QED
    BY <2>1, <2>2, <1>1, <1>2 DEF ToIngest
<1>18. sub' = "open" /\ prop' \notin ToIngest' => (OpenEvent(r1) # {} <=> prop'.on)
  <2> SUFFICES ASSUME sub = "open", prop \notin ToIngest' PROVE n = prop
    BY <1>2, <1>7
  <2> QED
    BY <1>4, <1>1, <1>2 DEF OnvifInv, ToIngest
<1>19. \A m \in ToIngest' : RowsBefore(draft.rows, m)'
  BY <1>11, <1>12 DEF RowsBefore
<1>20. RowsPlausible(rows)' /\ RowsPlausible(draft.rows)'
  BY <1>2, <1>10, <1>12 DEF OnvifInv, RowsPlausible
<1>21. TriggersFollow(rows, rec, swallowed)' /\ TriggersFollow(draft.rows, draft.rec, draft.swallowed)'
  BY <1>2, <1>12, <1>f DEF OnvifInv, TriggersFollow, storedVars
<1> QED
  BY <1>2, <1>12, <1>15, <1>16, <1>17, <1>18, <1>19, <1>20, <1>21 DEF OnvifInv, OpenEvent

LEMMA OnvifCommitBatch == OnvifInv /\ CommitBatch => OnvifInv'
<1> SUFFICES ASSUME OnvifInv, CommitBatch PROVE OnvifInv'
  OBVIOUS
<1>1. /\ ToIngest' = ToIngest /\ batch' = {} /\ inbox' = inbox /\ batch = {}
      /\ handling' = FALSE /\ rows' = draft.rows /\ rec' = draft.rec /\ swallowed' = draft.swallowed
      /\ policy' = policy /\ prop' = prop /\ sub' = sub
  BY DEF ToIngest, CommitBatch
<1>d. /\ draft' = [draft EXCEPT !.policy = Unread]
      /\ draft'.rows = draft.rows /\ draft'.rec = draft.rec /\ draft'.swallowed = draft.swallowed
  BY DEF CommitBatch, OnvifInv, OnvifTypeOK
<1>2. OnvifTypeOK' /\ Kept(draft)'
  BY <1>1, <1>d DEF OnvifInv, OnvifTypeOK, Kept
<1>3. InOrder'
  BY <1>1 DEF OnvifInv, InOrder
<1>4. \A n \in ToIngest' : RowsBefore(draft.rows, n)'
  BY <1>1, <1>d DEF OnvifInv, RowsBefore
<1> QED
  BY <1>1, <1>d, <1>2, <1>3, <1>4 DEF OnvifInv, RowsPlausible, OpenEvent, TriggersFollow

LEMMA OnvifHandlerFails == OnvifInv /\ HandlerFails => OnvifInv'
<1> SUFFICES ASSUME OnvifInv, HandlerFails PROVE OnvifInv'
  OBVIOUS
<1>1. /\ ToIngest' = {} /\ batch' = {} /\ inbox' = {}
      /\ draft' = [rows |-> rows, rec |-> rec, swallowed |-> swallowed, policy |-> Unread]
      /\ handling' = FALSE /\ UNCHANGED <<rows, rec, swallowed, policy>> /\ prop' = prop /\ sub' = "closed"
      /\ draft'.rows = rows /\ draft'.rec = rec /\ draft'.swallowed = swallowed /\ Kept(draft)'
  BY DEF ToIngest, HandlerFails, Abandon, storedVars, Kept
<1>2. OnvifTypeOK'
  BY <1>1 DEF OnvifInv, OnvifTypeOK
<1>3. InOrder'
  BY <1>1 DEF OnvifInv, InOrder
<1>4. RowsPlausible(rows)' /\ RowsPlausible(draft.rows)'
  BY <1>1 DEF OnvifInv, RowsPlausible
<1> QED
  BY <1>1, <1>2, <1>3, <1>4 DEF OnvifInv, TriggersFollow

LEMMA OnvifStep == OnvifInv /\ [OnvifNext]_onvifVars => OnvifInv'
<1> SUFFICES ASSUME OnvifInv, [OnvifNext]_onvifVars PROVE OnvifInv'
  OBVIOUS
<1>0. policy \in EventPolicies
  BY DEF OnvifInv, OnvifTypeOK
<1>1. CASE UNCHANGED onvifVars
  BY <1>0, <1>1, OnvifNothingMoves DEF onvifVars, handlerVars
<1>2. CASE DeviceChanges
  BY <1>2, OnvifDeviceChanges
<1>3. CASE SubscriptionLost \/ LoadFails \/ PullFails
  BY <1>3, OnvifSubscriptionEnds DEF SubscriptionLost, LoadFails, PullFails
<1>4. CASE (\E t \in Targets : ChangeConfig(t)) \/ RequestAnswered \/ RequestFails
            \/ Woken \/ LoadTargets
  BY <1>0, <1>4, OnvifNothingMoves
     DEF ChangeConfig, RequestAnswered, RequestFails, Woken, LoadTargets, storedVars
<1>c. ASSUME NEW p \in EventPolicies, ChangePolicy(p) PROVE OnvifInv'
  BY <1>c, OnvifNothingMoves DEF ChangePolicy
<1>5. CASE ApplyTargets
  BY <1>0, <1>5, OnvifNothingMoves, OnvifSubscriptionEnds DEF ApplyTargets, storedVars
<1>6. CASE OpenSubscription
  BY <1>6, OnvifOpenSubscription
<1>7. CASE PullMessages
  BY <1>7, OnvifPullMessages
<1>8. CASE IngestNext
  BY <1>8, OnvifIngestNext
<1>9. CASE CommitBatch
  BY <1>9, OnvifCommitBatch
<1>10. CASE HandlerFails
  BY <1>10, OnvifHandlerFails
<1> QED
  BY <1>1, <1>2, <1>3, <1>4, <1>c, <1>5, <1>6, <1>7, <1>8, <1>9, <1>10 DEF OnvifNext

LEMMA OnvifInvImplies == OnvifInv => EventsFollowDevice
BY DEF OnvifInv, EventsFollowDevice, RowsPlausible, OpenEvent, ToIngest, TriggersFollow, Kept

(* What the handler commits is what the device says (events/onvif.py): for *)
(* any number of changes of its property, configurations and failures, at  *)
(* most one event is open, every trigger is in the state of its event      *)
(* unless the recording policy swallowed the event's last report, no       *)
(* trigger is completed before its event is over, and a task that has      *)
(* stored what its subscription delivered has an open event exactly when   *)
(* the property is active.                                                 *)
THEOREM EventsTrackDevice == OnvifSpec => []EventsFollowDevice
<1>1. OnvifInit => OnvifInv
  BY OnvifStarts
<1>2. OnvifInv /\ [OnvifNext]_onvifVars => OnvifInv'
  BY OnvifStep
<1>3. OnvifInv => EventsFollowDevice
  BY OnvifInvImplies
<1> QED
  BY <1>1, <1>2, <1>3, PTL DEF OnvifSpec

-----------------------------------------------------------------------------
(* The events of a Frigate server, which start and end recordings.         *)

EventRecord == [start : Int, end : Int, kind : {"none", "object", "ignored"}]
Reports == [e : FrigateEvent, row : EventRecord]

FrigateTypeOK ==
  /\ tracked \in [FrigateEvent -> EventRecord]
  /\ eventRow \in [FrigateEvent -> EventRecord]
  /\ trigger \in [FrigateEvent -> {"none", "ACTIVE", "COMPLETED"}]
  /\ reopened \in [FrigateEvent -> BOOLEAN] /\ unheard \in [FrigateEvent -> BOOLEAN]
  /\ channel \in Seq(Reports) /\ page.items \subseteq Reports
  /\ period \in Nat

\* A report was true when it was made: the event had begun, and it may have
\* ended since.
ReportHolds(m) ==
  /\ tracked[m.e].start # -1 /\ m.row.start = tracked[m.e].start
  /\ m.row.kind = tracked[m.e].kind
  /\ m.row.end \in {-1, tracked[m.e].end}

FrigateInv ==
  /\ FrigateTypeOK
  /\ \A e \in FrigateEvent : tracked[e].start = -1 => tracked[e] = NoRow
  /\ \A e \in FrigateEvent : tracked[e].start = -1 => eventRow[e] = NoRow
  /\ \A i \in 1..Len(channel) : ReportHolds(channel[i])
  /\ \A m \in page.items : ReportHolds(m)
  /\ \A e \in FrigateEvent : unheard[e] => trigger[e] # "COMPLETED"
  /\ FrigateStoredTruly

LEMMA FrigateStarted == FrigateInit => FrigateInv
<1> SUFFICES ASSUME FrigateInit PROVE FrigateInv
  OBVIOUS
<1>1. NoRow \in EventRecord
  BY DEF NoRow, EventRecord
<1>2. FrigateTypeOK
  BY <1>1 DEF FrigateInit, FrigateTypeOK, NoPage
<1> QED
  BY <1>2 DEF FrigateInit, FrigateInv, FrigateStoredTruly, StoredAsTracked, NoRow, NoPage

\* The server tells something new of one event; what was said before stays true.
LEMMA ReportMade ==
  ASSUME FrigateInv, NEW e \in FrigateEvent, NEW row \in EventRecord,
         row.start # -1,
         \/ tracked[e] = NoRow /\ row.end = -1
         \/ /\ tracked[e].start = row.start /\ tracked[e].kind = row.kind
            /\ tracked[e].start # -1 /\ tracked[e].end = -1 /\ row.end # -1,
         tracked' = [tracked EXCEPT ![e] = row], Report(e),
         UNCHANGED <<period, storeVars, page, reopened>>
  PROVE  FrigateInv'
<1> DEFINE m == [e |-> e, row |-> row]
<1>1. /\ tracked \in [FrigateEvent -> EventRecord] /\ tracked'[e] = row
      /\ \A x \in FrigateEvent : x # e => tracked'[x] = tracked[x]
      /\ tracked' \in [FrigateEvent -> EventRecord]
      /\ row.start \in Int /\ row.end \in Int
  BY DEF FrigateInv, FrigateTypeOK, EventRecord
<1>2. m \in Reports /\ m.e = e /\ m.row = row /\ channel' = Append(channel, m)
  BY <1>1 DEF Reports, Report
<1> HIDE DEF m
<1>3. channel \in Seq(Reports) /\ channel' \in Seq(Reports) /\ Len(channel') = Len(channel) + 1
      /\ Len(channel) \in Nat /\ channel'[Len(channel) + 1] = m
      /\ \A i \in 1..Len(channel) : channel'[i] = channel[i] /\ channel[i] \in Reports
  BY <1>2 DEF FrigateInv, FrigateTypeOK
<1>4. ASSUME NEW r \in Reports, ReportHolds(r) PROVE ReportHolds(r)'
  <2>1. CASE r.e = e
    <3>1. tracked[e].start # -1 /\ NoRow.start = -1
      BY <2>1, <1>4 DEF ReportHolds, NoRow
    <3> QED
      BY <2>1, <3>1, <1>1, <1>4 DEF ReportHolds
  <2>2. CASE r.e # e
    BY <2>2, <1>1, <1>4 DEF ReportHolds, Reports
  <2> QED
    BY <2>1, <2>2
<1>5. ReportHolds(m)'
  BY <1>1, <1>2 DEF ReportHolds
<1>6. \A i \in 1..Len(channel') : ReportHolds(channel[i])'
  <2> SUFFICES ASSUME NEW i \in 1..Len(channel') PROVE ReportHolds(channel[i])'
    OBVIOUS
  <2>1. CASE i \in 1..Len(channel)
    <3>1. ReportHolds(channel[i]) /\ channel[i] \in Reports /\ channel'[i] = channel[i]
      BY <2>1, <1>3 DEF FrigateInv
    <3> QED
      BY <3>1, <1>4 DEF ReportHolds
  <2>2. CASE i = Len(channel) + 1
    BY <2>2, <1>3, <1>5 DEF ReportHolds
  <2> QED
    BY <2>1, <2>2, <1>3
<1>7. page' = page /\ \A r \in page.items : r \in Reports /\ ReportHolds(r)
  BY DEF FrigateInv, FrigateTypeOK
<1>8. \A r \in page'.items : ReportHolds(r)'
  BY <1>7, <1>4 DEF ReportHolds
<1>9. FrigateTypeOK'
  BY <1>1, <1>3 DEF FrigateInv, FrigateTypeOK, storeVars
<1>10. /\ eventRow' = eventRow /\ trigger' = trigger /\ reopened' = reopened
       /\ eventRow \in [FrigateEvent -> EventRecord] /\ unheard' = unheard
  BY DEF storeVars, FrigateInv, FrigateTypeOK
<1>11. ASSUME NEW x \in FrigateEvent
       PROVE  StoredAsTracked(x)' /\ (tracked'[x].start = -1 => tracked'[x] = NoRow /\ eventRow'[x] = NoRow)
  <2>1. CASE x # e
    BY <2>1, <1>1, <1>10 DEF FrigateInv, FrigateStoredTruly, StoredAsTracked
  <2>2. CASE x = e /\ tracked[e] = NoRow
    <3>1. eventRow[e] = NoRow /\ trigger[e] = "none" /\ eventRow[e].end = -1
      BY <2>2 DEF FrigateInv, FrigateStoredTruly, StoredAsTracked, NoRow
    <3> QED
      BY <2>2, <3>1, <1>1, <1>10 DEF FrigateInv, FrigateStoredTruly, StoredAsTracked
  <2>3. CASE x = e /\ tracked[e].start # -1 /\ tracked[e] # NoRow
    BY <2>3, <1>1, <1>10 DEF FrigateInv, FrigateStoredTruly, StoredAsTracked
  <2> QED
    BY <2>1, <2>2, <2>3 DEF NoRow
<1> QED
  BY <1>6, <1>8, <1>9, <1>10, <1>11 DEF FrigateInv, FrigateStoredTruly

\* What one report m of event e does to the row, the trigger and the histories.
Stored(m, e) ==
  /\ eventRow'[e] = m.row
  /\ trigger'[e] = IF Swallowed(trigger[e]) THEN trigger[e]
                   ELSE IF m.row.end # -1 THEN "COMPLETED"
                   ELSE IF trigger[e] = "none" THEN "ACTIVE" ELSE trigger[e]
  /\ reopened'[e] = ((eventRow[e].end # -1 \/ reopened[e]) /\ m.row.end = -1)
  /\ unheard'[e] = IF Swallowed(trigger[e]) THEN unheard[e] \/ trigger[e] # "COMPLETED"
                   ELSE unheard[e] /\ trigger'[e] # "COMPLETED" /\ reopened'[e]

\* What Persist does to the row, the trigger and the histories of each event.
LEMMA PersistOne ==
  ASSUME FrigateInv, NEW items, items \subseteq Reports, Persist(items), NEW e \in FrigateEvent
  PROVE  \/ /\ eventRow'[e] = eventRow[e] /\ trigger'[e] = trigger[e]
            /\ reopened'[e] = reopened[e] /\ unheard'[e] = unheard[e]
         \/ \E m \in items : m.e = e /\ m.row.kind = "object" /\ Stored(m, e)
<1> DEFINE kept == {m \in items : NormalizeObject(m)}
           Row(x) == CHOOSE m \in kept : m.e = x
           has == {m.e : m \in kept}
           stored == [x \in FrigateEvent |-> IF x \in has THEN UpsertProviderEvent(Row(x), eventRow)[x]
                                           ELSE eventRow[x]]
<1>1. /\ eventRow' = stored
      /\ trigger' = [x \in FrigateEvent |->
           IF x \in has THEN UpsertProviderTrigger(Row(x), trigger)[x] ELSE trigger[x]]
      /\ reopened' = [x \in FrigateEvent |->
           IF x \in has THEN /\ eventRow[x].end # -1 \/ reopened[x]
                             /\ stored[x].end = -1
                        ELSE reopened[x]]
      /\ unheard' = [x \in FrigateEvent |->
           IF x \notin has THEN unheard[x]
           ELSE IF Swallowed(trigger[x]) THEN unheard[x] \/ trigger[x] # "COMPLETED"
           ELSE unheard[x] /\ trigger'[x] # "COMPLETED" /\ reopened'[x]]
  BY Zenon DEF Persist
<1>2. CASE e \notin has
  BY <1>1, <1>2
<1>3. CASE e \in has
  <2>1. Row(e) \in kept /\ Row(e).e = e
    BY <1>3
  <2> DEFINE m == Row(e)
  <2>2. m \in items /\ m.row.kind = "object" /\ m.e = e
    BY <2>1 DEF NormalizeObject
  <2>3. /\ eventRow'[e] = UpsertProviderEvent(m, eventRow)[e]
        /\ trigger'[e] = UpsertProviderTrigger(m, trigger)[e]
        /\ reopened'[e] = ((eventRow[e].end # -1 \/ reopened[e]) /\ stored[e].end = -1)
        /\ stored[e] = eventRow'[e]
        /\ unheard'[e] = IF Swallowed(trigger[e]) THEN unheard[e] \/ trigger[e] # "COMPLETED"
                         ELSE unheard[e] /\ trigger'[e] # "COMPLETED" /\ reopened'[e]
    BY <1>1, <1>3
  <2> HIDE DEF m, stored, kept, Row, has
  <2>4. /\ eventRow'[e] = m.row
        /\ trigger'[e] = IF Swallowed(trigger[e]) THEN trigger[e]
                         ELSE IF m.row.end # -1 THEN "COMPLETED"
                         ELSE IF trigger[e] = "none" THEN "ACTIVE" ELSE trigger[e]
    BY <2>2, <2>3 DEF UpsertProviderEvent, UpsertProviderTrigger, FrigateInv, FrigateTypeOK
  <2> QED
    BY <2>2, <2>3, <2>4 DEF Stored
<1> QED
  BY <1>2, <1>3

LEMMA PersistTyped ==
  ASSUME FrigateInv, NEW items, items \subseteq Reports, Persist(items)
  PROVE  /\ eventRow' \in [FrigateEvent -> EventRecord]
         /\ trigger' \in [FrigateEvent -> {"none", "ACTIVE", "COMPLETED"}]
         /\ reopened' \in [FrigateEvent -> BOOLEAN] /\ unheard' \in [FrigateEvent -> BOOLEAN]
<1>1. \A e \in FrigateEvent :
        /\ eventRow'[e] \in EventRecord /\ trigger'[e] \in {"none", "ACTIVE", "COMPLETED"}
        /\ reopened'[e] \in BOOLEAN /\ unheard'[e] \in BOOLEAN
  <2> SUFFICES ASSUME NEW e \in FrigateEvent
               PROVE  /\ eventRow'[e] \in EventRecord /\ trigger'[e] \in {"none", "ACTIVE", "COMPLETED"}
                      /\ reopened'[e] \in BOOLEAN /\ unheard'[e] \in BOOLEAN
    OBVIOUS
  <2>1. /\ eventRow[e] \in EventRecord /\ trigger[e] \in {"none", "ACTIVE", "COMPLETED"}
        /\ reopened[e] \in BOOLEAN /\ unheard[e] \in BOOLEAN
    BY DEF FrigateInv, FrigateTypeOK
  <2>2. ASSUME NEW m \in items, Stored(m, e)
        PROVE  /\ eventRow'[e] \in EventRecord /\ trigger'[e] \in {"none", "ACTIVE", "COMPLETED"}
               /\ reopened'[e] \in BOOLEAN /\ unheard'[e] \in BOOLEAN
    <3>1. eventRow'[e] \in EventRecord /\ trigger'[e] \in {"none", "ACTIVE", "COMPLETED"}
      BY <2>1, <2>2 DEF Reports, Stored
    <3>2. reopened'[e] = ((eventRow[e].end # -1 \/ reopened[e]) /\ m.row.end = -1)
      BY <2>2 DEF Stored
    <3>3. reopened'[e] \in BOOLEAN
      BY <3>2, Zenon
    <3>4. CASE Swallowed(trigger[e])
      <4>1. unheard'[e] = (unheard[e] \/ trigger[e] # "COMPLETED")
        BY <2>2, <3>4, Zenon DEF Stored
      <4>2. unheard'[e] \in BOOLEAN
        BY <4>1, Zenon
      <4> QED
        BY <3>1, <3>3, <4>2
    <3>5. CASE ~Swallowed(trigger[e])
      <4>1. unheard'[e] = (unheard[e] /\ trigger'[e] # "COMPLETED" /\ reopened'[e])
        BY <2>2, <3>5, Zenon DEF Stored
      <4>2. unheard'[e] \in BOOLEAN
        BY <4>1, Zenon
      <4> QED
        BY <3>1, <3>3, <4>2
    <3> QED
      BY <3>4, <3>5
  <2> QED
    BY <2>1, <2>2, PersistOne
<1>2. /\ eventRow' = [x \in FrigateEvent |-> eventRow'[x]]
      /\ trigger' = [x \in FrigateEvent |-> trigger'[x]]
      /\ reopened' = [x \in FrigateEvent |-> reopened'[x]]
      /\ unheard' = [x \in FrigateEvent |-> unheard'[x]]
  BY DEF Persist
<1> QED
  BY <1>1, <1>2

\* Taking the first message leaves messages that were there.
LEMMA ChannelShorter ==
  ASSUME channel \in Seq(Reports), channel' \in {channel, Tail(channel)},
         channel' = channel \/ channel # << >>
  PROVE  /\ channel' \in Seq(Reports)
         /\ \A i \in 1..Len(channel') : \E j \in 1..Len(channel) : channel'[i] = channel[j]
<1>1. CASE channel' = channel
  BY <1>1
<1>2. CASE channel' = Tail(channel) /\ channel # << >>
  <2>1. /\ channel' \in Seq(Reports) /\ Len(channel) \in Nat /\ Len(channel') = Len(channel) - 1
        /\ \A i \in 1..Len(channel') : channel'[i] = channel[i + 1]
    BY <1>2
  <2>2. \A i \in 1..Len(channel') : i + 1 \in 1..Len(channel)
    BY <2>1
  <2> QED
    BY <2>1, <2>2
<1> QED
  BY <1>1, <1>2

LEMMA Persisted ==
  ASSUME FrigateInv, NEW items, items \subseteq Reports, \A m \in items : ReportHolds(m),
         Persist(items), UNCHANGED <<tracked, period>>,
         channel' \in {channel, Tail(channel)}, channel' = channel \/ channel # << >>,
         page'.items \subseteq page.items
  PROVE  FrigateInv'
<1>1. channel' \in Seq(Reports)
      /\ \A i \in 1..Len(channel') : \E j \in 1..Len(channel) : channel'[i] = channel[j]
  BY ChannelShorter DEF FrigateInv, FrigateTypeOK
<1>2. FrigateTypeOK'
  BY <1>1, PersistTyped DEF FrigateInv, FrigateTypeOK
<1>3. \A i \in 1..Len(channel') : ReportHolds(channel[i])'
  BY <1>1 DEF FrigateInv, ReportHolds
<1>4. \A m \in page'.items : ReportHolds(m)'
  BY DEF FrigateInv, ReportHolds
<1>5. ASSUME NEW e \in FrigateEvent
      PROVE  /\ StoredAsTracked(e)' /\ (unheard'[e] => trigger'[e] # "COMPLETED")
             /\ tracked'[e].start = -1 => tracked'[e] = NoRow /\ eventRow'[e] = NoRow
  <2>1. /\ StoredAsTracked(e) /\ (tracked[e].start = -1 => tracked[e] = NoRow /\ eventRow[e] = NoRow)
        /\ trigger[e] \in {"none", "ACTIVE", "COMPLETED"} /\ reopened[e] \in BOOLEAN
        /\ unheard[e] => trigger[e] # "COMPLETED"
        /\ unheard[e] \in BOOLEAN /\ tracked' = tracked
    BY DEF FrigateInv, FrigateTypeOK, FrigateStoredTruly
  <2>2. CASE /\ eventRow'[e] = eventRow[e] /\ trigger'[e] = trigger[e]
             /\ reopened'[e] = reopened[e] /\ unheard'[e] = unheard[e]
    BY <2>1, <2>2 DEF StoredAsTracked
  <2>3. ASSUME NEW m \in items, m.e = e, m.row.kind = "object", Stored(m, e)
        PROVE  /\ StoredAsTracked(e)' /\ (unheard'[e] => trigger'[e] # "COMPLETED")
               /\ tracked'[e].start = -1 => tracked'[e] = NoRow /\ eventRow'[e] = NoRow
    <3>1. /\ m.row.start = tracked[e].start /\ tracked[e].start # -1 /\ tracked[e].kind = "object"
          /\ m.row.end \in {-1, tracked[e].end} /\ m.row # NoRow
      BY <2>3 DEF ReportHolds, NoRow
    <3>2. eventRow[e].end # -1 => eventRow[e].end = tracked[e].end
      BY <2>1 DEF StoredAsTracked
    <3>3. trigger'[e] = "COMPLETED" => tracked[e].end # -1
      BY <2>1, <2>3, <3>1 DEF Stored, StoredAsTracked
    <3>4. CASE Swallowed(trigger[e])
      <4>1. trigger'[e] = trigger[e] /\ (~unheard'[e] => ~unheard[e] /\ trigger[e] = "COMPLETED")
        BY <2>3, <3>4, Zenon DEF Stored
      <4>2. unheard'[e] => trigger'[e] # "COMPLETED"
        BY <2>1, <2>3, <3>4, Zenon DEF Stored
      <4>3. ~unheard'[e] => m.row.end # -1 \/ reopened'[e]
        BY <2>1, <2>3, <4>1 DEF Stored, StoredAsTracked
      <4> QED
        BY <2>1, <2>3, <3>1, <3>2, <3>3, <4>1, <4>2, <4>3 DEF StoredAsTracked, Stored
    <3>5. CASE ~Swallowed(trigger[e])
      <4>1. /\ trigger'[e] = IF m.row.end # -1 THEN "COMPLETED"
                             ELSE IF trigger[e] = "none" THEN "ACTIVE" ELSE trigger[e]
            /\ unheard'[e] = (unheard[e] /\ trigger'[e] # "COMPLETED" /\ reopened'[e])
        BY <2>3, <3>5, Zenon DEF Stored
      <4>2. unheard'[e] => trigger'[e] # "COMPLETED"
        BY <4>1, Zenon
      <4>3. ~unheard'[e] => (trigger'[e] = "COMPLETED" <=> m.row.end # -1 \/ reopened'[e])
        <5>1. reopened'[e] = ((eventRow[e].end # -1 \/ reopened[e]) /\ m.row.end = -1)
          BY <2>3 DEF Stored
        <5>2. CASE m.row.end # -1
          BY <4>1, <5>2
        <5>3. CASE m.row.end = -1 /\ unheard[e]
          <6>1. trigger'[e] # "COMPLETED"
            BY <2>1, <4>1, <5>3
          <6>2. ~unheard'[e] => ~reopened'[e]
            BY <4>1, <5>3, <6>1, Zenon
          <6> QED
            BY <5>3, <6>1, <6>2
        <5>4. CASE m.row.end = -1 /\ ~unheard[e]
          <6>1. trigger[e] = "COMPLETED" <=> eventRow[e].end # -1 \/ reopened[e]
            BY <2>1, <5>4 DEF StoredAsTracked
          <6>2. trigger'[e] = "COMPLETED" <=> trigger[e] = "COMPLETED"
            BY <4>1, <5>4
          <6> QED
            BY <5>1, <5>4, <6>1, <6>2
        <5> QED
          BY <5>2, <5>3, <5>4
      <4>4. trigger'[e] # "none"
        BY <2>1, <4>1
      <4> QED
        BY <2>1, <2>3, <3>1, <3>2, <3>3, <4>2, <4>3, <4>4 DEF StoredAsTracked, Stored
    <3> QED
      BY <3>4, <3>5
  <2> QED
    BY <2>2, <2>3, PersistOne
<1> QED
  BY <1>2, <1>3, <1>4, <1>5 DEF FrigateInv, FrigateStoredTruly

\* A message is taken or a page is read or dropped; nothing is stored.
LEMMA FrigateNothingStored ==
  ASSUME FrigateInv, UNCHANGED <<tracked, storeVars, reopened>>, period' \in Nat,
         channel' \in {channel, Tail(channel)}, channel' = channel \/ channel # << >>,
         page'.items \subseteq page.items
           \union {[e |-> x, row |-> tracked[x]] : x \in {y \in FrigateEvent : tracked[y].start # -1}}
  PROVE  FrigateInv'
<1>1. channel' \in Seq(Reports)
      /\ \A i \in 1..Len(channel') : \E j \in 1..Len(channel) : channel'[i] = channel[j]
  BY ChannelShorter DEF FrigateInv, FrigateTypeOK
<1>2. \A m \in page'.items : m \in Reports /\ ReportHolds(m)
  BY DEF FrigateInv, FrigateTypeOK, ReportHolds, Reports
<1>3. FrigateTypeOK'
  BY <1>1, <1>2 DEF FrigateInv, FrigateTypeOK, storeVars
<1>4. \A i \in 1..Len(channel') : ReportHolds(channel[i])'
  BY <1>1 DEF FrigateInv, ReportHolds
<1>5. \A m \in page'.items : ReportHolds(m)'
  BY <1>2 DEF ReportHolds
<1> QED
  BY <1>3, <1>4, <1>5 DEF FrigateInv, FrigateStoredTruly, StoredAsTracked, storeVars

LEMMA FrigateStep == FrigateInv /\ [FrigateNext]_frigateVars => FrigateInv'
<1> SUFFICES ASSUME FrigateInv, [FrigateNext]_frigateVars PROVE FrigateInv'
  OBVIOUS
<1>1. /\ period \in Nat /\ channel \in Seq(Reports) /\ page.items \subseteq Reports
      /\ tracked \in [FrigateEvent -> EventRecord]
      /\ \A m \in page.items : ReportHolds(m)
  BY DEF FrigateInv, FrigateTypeOK
<1>2. CASE UNCHANGED frigateVars
  BY <1>1, <1>2, FrigateNothingStored DEF frigateVars, worldVars, storeVars
<1>3. ASSUME NEW e \in FrigateEvent, FrigateStarts(e) PROVE FrigateInv'
  <2>1. PICK kind \in {"object", "ignored"} :
          tracked' = [tracked EXCEPT ![e] = [start |-> period, end |-> -1, kind |-> kind]]
    BY <1>3 DEF FrigateStarts
  <2> DEFINE row == [start |-> period, end |-> -1, kind |-> kind]
  <2>2. row \in EventRecord /\ row.start # -1 /\ row.end = -1
    BY <1>1 DEF EventRecord
  <2>3. tracked[e] = NoRow /\ Report(e) /\ UNCHANGED <<period, storeVars, page, reopened>>
        /\ tracked' = [tracked EXCEPT ![e] = row]
    BY <1>3, <2>1 DEF FrigateStarts
  <2> HIDE DEF row
  <2> QED
    BY <2>2, <2>3, ReportMade
<1>4. ASSUME NEW e \in FrigateEvent, FrigateEnds(e) PROVE FrigateInv'
  <2> DEFINE row == [tracked[e] EXCEPT !.end = period]
  <2>1. tracked[e] \in EventRecord
    BY <1>1
  <2>2. row \in EventRecord /\ row.start = tracked[e].start /\ row.kind = tracked[e].kind
        /\ row.end # -1
    BY <1>1, <2>1 DEF EventRecord
  <2>3. /\ tracked' = [tracked EXCEPT ![e] = row] /\ tracked[e].start # -1 /\ tracked[e].end = -1
        /\ Report(e) /\ UNCHANGED <<period, storeVars, page, reopened>>
    BY <1>4 DEF FrigateEnds
  <2> HIDE DEF row
  <2> QED
    BY <2>2, <2>3, ReportMade
<1>5. CASE OnMessage
  <2>1. channel # << >> /\ Head(channel) = channel[1] /\ 1 \in 1..Len(channel) /\ channel[1] \in Reports
    BY <1>1, <1>5 DEF OnMessage
  <2>2. {Head(channel)} \subseteq Reports /\ \A m \in {Head(channel)} : ReportHolds(m)
    BY <2>1 DEF FrigateInv
  <2>3. /\ Persist({Head(channel)}) /\ UNCHANGED <<tracked, period>> /\ channel' = Tail(channel)
        /\ page' = page
    BY <1>5 DEF OnMessage
  <2> QED
    BY <2>1, <2>2, <2>3, Persisted
<1>6. CASE BackfillPersists
  <2>1. /\ Persist(page.items) /\ UNCHANGED <<tracked, period>> /\ channel' = channel
        /\ page'.items = {}
    BY <1>6 DEF BackfillPersists, worldVars, NoPage
  <2> QED
    BY <1>1, <2>1, Persisted
<1>7. ASSUME ReadPage
      PROVE  page'.items \subseteq
               {[e |-> x, row |-> tracked[x]] : x \in {y \in FrigateEvent : tracked[y].start # -1}}
  BY <1>7 DEF ReadPage, InWindow
<1>8. CASE BackfillReads
  BY <1>1, <1>7, <1>8, FrigateNothingStored DEF BackfillReads, storeVars
<1>9. CASE BackfillRequested
  BY <1>1, <1>7, <1>9, FrigateNothingStored DEF BackfillRequested, storeVars, worldVars
<1>10. CASE BackfillFails \/ BackfillSkips
  BY <1>1, <1>10, FrigateNothingStored DEF BackfillFails, BackfillSkips, storeVars, worldVars, NoPage
<1>11. CASE \/ OnMessageFails \/ Reconfigure \/ \E s \in {On, Off} : PutFrigate(s)
             \/ \E v \in RecordingPolicies : PutRecordingPolicy(v)
  BY <1>1, <1>11, FrigateNothingStored
     DEF OnMessageFails, Reconfigure, PutFrigate, PutRecordingPolicy, storeVars, worldVars
<1> QED
  BY <1>2, <1>3, <1>4, <1>5, <1>6, <1>8, <1>9, <1>10, <1>11 DEF FrigateNext

(* What is stored about Frigate's events is what Frigate said of them      *)
(* (events/frigate.py, recordings/triggers.py): for any number of events,  *)
(* messages, pages, failures and changes of the settings and the recording *)
(* policy, and in any order in which they are persisted, a row says        *)
(* nothing that was not so, a trigger is completed only by an end, and     *)
(* unless the policy swallowed a report the trigger of an event that is    *)
(* over is never active again.                                             *)
THEOREM FrigateIsStoredTruly == FrigateSpec => []FrigateStoredTruly
<1>1. FrigateInit => FrigateInv
  BY FrigateStarted
<1>2. FrigateInv /\ [FrigateNext]_frigateVars => FrigateInv'
  BY FrigateStep
<1>3. FrigateInv => FrigateStoredTruly
  BY DEF FrigateInv
<1> QED
  BY <1>1, <1>2, <1>3, PTL DEF FrigateSpec

-----------------------------------------------------------------------------
(* Both in the behaviours that are model-checked.                          *)

LEMMA EachComponentSteps ==
  /\ EventsInit => FrigateInit /\ OnvifInit
  /\ [EventsNext]_mcVars => [FrigateNext]_frigateVars /\ [OnvifNext]_onvifVars
BY DEF EventsInit, EventsNext, mcVars

(* The rows that events are stored in say what the device and the Frigate  *)
(* server said: EventsTrackDevice and FrigateIsStoredTruly in every        *)
(* behaviour of the components together (events/onvif.py, events/frigate.py).*)
THEOREM EventRowsStayTrue == EventsSpec => []EventRowsTrue
<1>1. EventsInit => FrigateInv /\ OnvifInv
  BY EachComponentSteps, FrigateStarted, OnvifStarts
<1>2. FrigateInv /\ OnvifInv /\ [EventsNext]_mcVars => (FrigateInv /\ OnvifInv)'
  BY EachComponentSteps, FrigateStep, OnvifStep
<1>3. FrigateInv /\ OnvifInv => EventRowsTrue
  BY OnvifInvImplies DEF FrigateInv, EventRowsTrue
<1> QED
  BY <1>1, <1>2, <1>3, PTL DEF EventsSpec

=============================================================================
