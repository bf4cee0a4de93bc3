------------------------------ MODULE MCEvents ------------------------------
(* Frigate events, ONVIF events, and health events with their alerts and     *)
(* notifications, for TLC.  They share no variable; a behaviour consists of  *)
(* the steps of one of them.                                                 *)
EXTENDS ProviderEvents, OnvifEvents, AlertDelivery

VARIABLE focus

mcVars == <<frigateVars, onvifVars, deliveryVars, focus>>

EventsInit ==
  /\ focus \in {"frigate", "onvif", "alerts"}
  /\ FrigateInit /\ OnvifInit /\ DeliveryInit
  /\ focus # "onvif" => target = 0 /\ prop.on
  /\ policy = "on" /\ (focus # "frigate" => recording = "on")
  /\ focus # "alerts" => subject = "stream"

EventsNext ==
  \/ focus = "frigate" /\ FrigateNext /\ UNCHANGED <<onvifVars, deliveryVars, focus>>
  \/ focus = "onvif" /\ OnvifNext /\ UNCHANGED <<frigateVars, deliveryVars, focus>>
  \/ focus = "alerts" /\ DeliveryNext /\ UNCHANGED <<frigateVars, onvifVars, focus>>

\* Each component is scheduled fairly in its own behaviours.
EventsSpec ==
  /\ EventsInit /\ [][EventsNext]_mcVars
  /\ \/ focus = "frigate" /\ FrigateFairness
     \/ focus = "onvif" /\ OnvifFairness
     \/ focus = "alerts" /\ DeliveryFairness

-----------------------------------------------------------------------------
\* The rows of the events table say what was so: the open ONVIF event is what
\* the device says, its trigger is in the state of the event, and no row of a
\* Frigate event says what Frigate did not (events/onvif.py, events/frigate.py).
EventRowsTrue == EventsFollowDevice /\ FrigateStoredTruly

\* After the last fault the rows agree with the world: Frigate's events are
\* closed (events/frigate.py), the open ONVIF event is what the device says
\* (onvif/event_runtime.py), every delivery is SENT, FAILED or SKIPPED
\* (notifications/delivery.py).
EventsSettle == FrigateEventsSettle /\ OnvifEventsMatchDevice /\ DeliveriesEnd
=============================================================================
