----------------------------- MODULE AlertRules -----------------------------
(***************************************************************************)
(* The rules of alerts/service.py by which an event raises alerts: what a  *)
(* policy matches, when its cooldown keeps it silent, and the alerts one   *)
(* evaluation adds.  An alert is the pair of its policy and its event.     *)
(*                                                                         *)
(* An event has a start, an end (-1 while it lasts) and a kind, which      *)
(* stands for its camera, source, category, label, zone, severity and      *)
(* confidence.  A policy has a set of kinds, a minimum duration, a         *)
(* cooldown (0 means none), and the hours and weekdays of its time filter; *)
(* NoFilter stands for a policy without a timezone.                        *)
(***************************************************************************)
EXTENDS Integers, FiniteSets

CONSTANT HoursPerDay       \* length of a local day in the model's hours

ASSUME HoursAssumption == HoursPerDay \in Nat \ {0, 1}

NoFilter == [days |-> {}, from |-> 0, to |-> 0]

(* A match without a timezone passes whatever weekdays it names.  The      *)
(* weekday of an event after midnight is its own, also for a window that   *)
(* began the evening before.                                               *)
TimeMatch(f, start) ==
  LET hour == start % HoursPerDay
      day == (start \div HoursPerDay) % 7
  IN \/ f = NoFilter
     \/ /\ f.days = {} \/ day \in f.days
        /\ IF f.from < f.to THEN f.from <= hour /\ hour < f.to
                            ELSE f.from <= hour \/ hour < f.to

Matches(p, ev) ==
  /\ p.enabled
  /\ ev.kind \in p.kinds
  /\ \/ p.duration = 0
     \/ ev.end # -1 /\ ev.end - ev.start >= p.duration
  /\ TimeMatch(p.filter, ev.start)

(* An alert on an event that began earlier, within the cooldown, silences  *)
(* the policy.  Events that begin later are not looked at.                 *)
CooldownBlocked(p, ev, alerted) ==
  /\ p.cooldown > 0
  /\ \E other \in alerted : /\ ev.start - p.cooldown <= other.start
                            /\ other.start < ev.start

(* Would policy p add an alert on event e?  alerts holds the pairs already *)
(* there and events maps every event to its row.                           *)
RaisesAlert(p, e, pol, events, alerts, maintenance) ==
  /\ ~maintenance
  /\ Matches(pol[p], events[e])
  /\ <<p, e>> \notin alerts
  /\ ~CooldownBlocked(pol[p], events[e],
                      {events[x] : x \in {y \in DOMAIN events : <<p, y>> \in alerts}})

=============================================================================
