----------------------------- MODULE MCLiveView -----------------------------
(* Live viewing for TLC.  The components share no variable, so a behaviour   *)
(* of one of them at a time shows as much as their interleavings.            *)
EXTENDS LiveSessions, TranscodeLeases, PreviewWall

CONSTANTS p1, p2, x1, x2

\* Two slots filled; one taken over by the other's subscription, one emptied.
WallWishes == {[s \in {p1, p2} |-> IF s = p1 THEN w[1] ELSE w[2]] :
                 w \in {<<x1, x2>>, <<x2, None>>}}

VARIABLE focus   \* the component whose steps a behaviour consists of

viewVars == <<liveVars, leaseVars, wallVars, focus>>

ViewInit ==
  /\ focus \in {"sessions", "transcodes", "wall"}
  /\ LiveInit /\ LeaseInit /\ WallInit
  /\ \E t \in Transport : kind[t] = "compat"
  /\ focus # "sessions" => /\ \A t \in Transport : kind[t] = "compat"
                           /\ bound = CHOOSE k \in Binding : TRUE

ViewNext ==
  \/ focus = "sessions" /\ LiveNext /\ UNCHANGED <<leaseVars, wallVars, focus>>
  \/ focus = "transcodes" /\ LeaseNext /\ UNCHANGED <<liveVars, wallVars, focus>>
  \/ focus = "wall" /\ WallNext /\ UNCHANGED <<liveVars, leaseVars, focus>>

\* Each component is scheduled fairly in its own behaviours.
ViewSpec ==
  /\ ViewInit /\ [][ViewNext]_viewVars
  /\ focus = "sessions" => LiveFairness
  /\ focus = "transcodes" => LeaseFairness
  /\ focus = "wall" => WallFairness

-----------------------------------------------------------------------------
\* What is running is in somebody's hands, at every moment of every request,
\* timer and cleanup: transports (media_sessions.py), transcodes and their
\* capacity (live_transcode.py), previews (live_preview_wall.py).
LiveResourcesHeld ==
  TransportHasOwner /\ DerivativesWithinCapacity /\ IdleTranscodeIsTimed /\ PreviewHasTask

\* A callback that fired too early takes nothing from who is still watching:
\* neither a renewed session (media_sessions.py _expire) nor a transcode
\* acquired again (live_transcode.py _expire_derivative).
UsedStreamsStay == RenewedSessionSurvives /\ WatchedTranscodeStays

\* What nobody may watch or nobody watches ends, and what is watched is shown:
\* the streams of a disabled camera, idle transcodes, previews of a session
\* that is over; a pending frame of the wall is sent or dropped.
LiveViewProgress ==
  DisabledCameraGoesDark /\ IdleTranscodeStops /\ StalePreviewsStop /\ FramesAreNotStarved
=============================================================================
