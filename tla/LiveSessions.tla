---------------------------- MODULE LiveSessions ----------------------------
(***************************************************************************)
(* Live viewing of one camera: the registry of media sessions              *)
(* (media_sessions.py) and the transports that the requests of             *)
(* cameras/api.py open under a session: a WebRTC peer in ZLMediaKit, an    *)
(* MJPEG preview, a lease on a compatibility transcode.                    *)
(*                                                                         *)
(* What happens under the registry's lock is one action; what a request    *)
(* does between two acquisitions of it is another one, so a session can    *)
(* end, a timer can fire or the camera can be disabled in between.  Expiry *)
(* callbacks that have fired but wait for the lock are state.              *)
(*                                                                         *)
(* Requests that fail the owner or camera check have no effect and are not *)
(* actions.  Codecs, URLs and signatures are left out.  The lease table    *)
(* itself is module TranscodeLeases; here a lease exists or not.           *)
(***************************************************************************)
EXTENDS Integers, FiniteSets

CONSTANTS Session,          \* media session identifiers
          Transport,        \* WebRTC peers, previews and transcode leases
          Binding           \* profiles the camera's live purpose can name

ASSUME LiveConstants == Session # {}

VARIABLES
  enabled,    \* camera.enabled
  bound,      \* the profile of the camera's live binding
  disabling,  \* set_camera_enabled between its commit and revoke_camera
  revoking,   \* sessions of revoke_camera's snapshot still to be revoked
  media,      \* _sessions: state, profile and registered cleanups
  fired,      \* expiry callbacks waiting for the lock, by their generation
  keeping,    \* keepalives that passed the checks and have not renewed yet
  cleaning,   \* cleanups taken from an ended session and not run yet
  req,        \* the request that opens, serves or closes each transport
  open,       \* transports that exist
  leaked,     \* WebRTC peers whose delete call ZLMediaKit refused
  kind        \* what each transport is, chosen once

sessionVars == <<media, fired, keeping, cleaning>>
cameraVars == <<enabled, bound, disabling, revoking>>
peerVars == <<open, leaked>>
liveVars == <<sessionVars, cameraVars, peerVars, req, kind>>

Kinds == {"whep", "preview", "compat"}
InFlight == {"selected", "opened", "closing"}
Idle == [pc |-> "idle", session |-> CHOOSE s \in Session : TRUE]

LiveTypeOK ==
  /\ enabled \in BOOLEAN /\ bound \in Binding
  /\ disabling \in BOOLEAN /\ revoking \subseteq Session
  /\ media \in [Session -> [st : {"none", "selected", "live"},
                            profile : Binding, cleanups : SUBSET Transport]]
  /\ fired \in [Session -> SUBSET {"current", "stale"}]
  /\ keeping \subseteq Session /\ cleaning \subseteq Transport
  /\ req \in [Transport -> [pc : InFlight \union {"idle", "served"}, session : Session]]
  /\ open \subseteq Transport /\ leaked \subseteq open
  /\ kind \in [Transport -> Kinds]

LiveInit ==
  /\ enabled = TRUE /\ bound \in Binding
  /\ disabling = FALSE /\ revoking = {}
  /\ media = [s \in Session |->
                [st |-> "none", profile |-> bound, cleanups |-> {}]]
  /\ fired = [s \in Session |-> {}] /\ keeping = {} /\ cleaning = {}
  /\ req = [t \in Transport |-> Idle]
  /\ open = {} /\ leaked = {}
  /\ kind \in [Transport -> Kinds]

Live(s) == media[s].st = "live"

\* Identifiers are random and never used twice: one stands for a new session
\* or a new transport once nothing refers to it.
FreshSession(s) ==
  /\ media[s].st = "none" /\ fired[s] = {} /\ s \notin keeping \union revoking
  /\ \A t \in Transport : req[t].pc # "idle" => req[t].session # s
FreshTransport(t) == req[t].pc = "idle" /\ t \notin open \union cleaning

-----------------------------------------------------------------------------
(* Media sessions. *)

\* _select_live_stream: the camera must be enabled; ensure_streams then waits
\* for the stream to come online before the session is issued.
SelectLiveStream(s) ==
  /\ FreshSession(s) /\ enabled
  /\ media' = [media EXCEPT ![s].st = "selected", ![s].profile = bound]
  /\ UNCHANGED <<fired, keeping, cleaning, cameraVars, peerVars, req>>

\* get_camera_live_stream, issue: the session enters the table, its timer
\* starts.
Issue(s) ==
  /\ media[s].st = "selected"
  /\ media' = [media EXCEPT ![s].st = "live"]
  /\ UNCHANGED <<fired, keeping, cleaning, cameraVars, peerVars, req>>

\* live_selection_for_media_session: the session is live, the camera enabled
\* and its binding still names the profile the session was issued for.
LiveSelection(s) == Live(s) /\ enabled /\ media[s].profile = bound

\* keep_camera_live_session up to the call of renew.
KeepSession(s) ==
  /\ LiveSelection(s) /\ s \notin keeping
  /\ keeping' = keeping \union {s}
  /\ UNCHANGED <<media, fired, cleaning, cameraVars, peerVars, req>>

\* renew: a new generation, so an expiry callback of the old one is stale.
Renew(s) ==
  /\ s \in keeping
  /\ keeping' = keeping \ {s}
  /\ fired' = IF Live(s) /\ fired[s] # {} THEN [fired EXCEPT ![s] = {"stale"}] ELSE fired
  /\ UNCHANGED <<media, cleaning, cameraVars, peerVars, req>>

\* What revoke and _expire share: the session leaves the table with its
\* cleanups, which are run after the lock has been released.
EndSession(s) ==
  /\ media' = [media EXCEPT ![s].st = "none", ![s].cleanups = {}]
  /\ cleaning' = cleaning \union media[s].cleanups

\* The timer of the current generation fires.
TimerFires(s) ==
  /\ Live(s) /\ "current" \notin fired[s]
  /\ fired' = [fired EXCEPT ![s] = @ \union {"current"}]
  /\ UNCHANGED <<media, keeping, cleaning, cameraVars, peerVars, req>>

\* _expire: nothing happens when the session has been renewed or is gone.
Expire(s, g) ==
  /\ g \in fired[s]
  /\ fired' = [fired EXCEPT ![s] = @ \ {g}]
  /\ IF Live(s) /\ g = "current" THEN EndSession(s) ELSE UNCHANGED <<media, cleaning>>
  /\ UNCHANGED <<keeping, cameraVars, peerVars, req>>

\* revoke_camera_live_session, revoke
RevokeSession(s) ==
  /\ Live(s) /\ EndSession(s)
  /\ UNCHANGED <<fired, keeping, cameraVars, peerVars, req>>

\* _set_camera_enabled commits; when it disables the camera, it goes on to
\* revoke the camera's sessions.
SetEnabled(e) ==
  /\ e # enabled /\ ~disabling /\ revoking = {}
  /\ enabled' = e /\ disabling' = ~e
  /\ UNCHANGED <<bound, revoking, sessionVars, peerVars, req>>

\* revoke_camera: a snapshot under the lock, then one revoke after the other.
RevokeCamera ==
  /\ disabling
  /\ disabling' = FALSE /\ revoking' = {s \in Session : Live(s)}
  /\ UNCHANGED <<enabled, bound, sessionVars, peerVars, req>>

RevokeNext(s) ==
  /\ s \in revoking
  /\ revoking' = revoking \ {s}
  /\ IF Live(s) THEN EndSession(s) ELSE UNCHANGED <<media, cleaning>>
  /\ UNCHANGED <<enabled, bound, disabling, fired, keeping, peerVars, req>>

\* An operator binds another profile to the camera's live purpose.
Rebind(k) ==
  /\ k # bound /\ bound' = k
  /\ UNCHANGED <<enabled, disabling, revoking, sessionVars, peerVars, req>>

-----------------------------------------------------------------------------
(* Requests.  The kind of a transport decides what its cleanup does. *)

\* _require_live_media_session and live_selection_for_media_session.
SelectTransport(t, s) ==
  /\ FreshTransport(t) /\ LiveSelection(s)
  /\ req' = [req EXCEPT ![t] = [pc |-> "selected", session |-> s]]
  /\ UNCHANGED <<sessionVars, cameraVars, peerVars>>

\* The three requests; what they do after the checks is OpenTransport, then
\* Register, then CloseUnregistered when the session has ended meanwhile.
CreateWhepSession(t, s) == kind[t] = "whep" /\ SelectTransport(t, s)
GetLivePreview(t, s) == kind[t] = "preview" /\ SelectTransport(t, s)
CreateLiveCompatibility(t, s) == kind[t] = "compat" /\ SelectTransport(t, s)

\* whep_play, open_live_preview and acquire succeed or fail.
OpenTransport(t) ==
  /\ req[t].pc = "selected"
  /\ \/ open' = open \union {t} /\ req' = [req EXCEPT ![t].pc = "opened"]
     \/ open' = open /\ req' = [req EXCEPT ![t] = Idle]
  /\ UNCHANGED <<sessionVars, cameraVars, leaked>>

\* Fault: the answer of register_cleanup is ignored.
RegisterUnchecked(t) ==
  /\ req[t].pc = "opened"
  /\ media' = IF Live(req[t].session)
                THEN [media EXCEPT ![req[t].session].cleanups = @ \union {t}] ELSE media
  /\ req' = [req EXCEPT ![t].pc = "served"]
  /\ UNCHANGED <<fired, keeping, cleaning, cameraVars, peerVars>>

\* register_cleanup answers False when the session ended meanwhile, and then
\* the request closes what it has just opened.
Register(t) ==
  /\ req[t].pc = "opened"
  /\ IF Live(req[t].session)
       THEN /\ media' = [media EXCEPT ![req[t].session].cleanups = @ \union {t}]
            /\ req' = [req EXCEPT ![t].pc = "served"]
       ELSE /\ req' = [req EXCEPT ![t].pc = "closing"] /\ UNCHANGED media
  /\ UNCHANGED <<fired, keeping, cleaning, cameraVars, peerVars>>

\* cleanup_whep swallows an error of ZLMediaKit; cleanup_preview and
\* cleanup_compat end a process and release a lease.
Close(t) ==
  \/ open' = open \ {t} /\ leaked' = leaked \ {t}
  \/ kind[t] = "whep" /\ leaked' = leaked \union (open \intersect {t}) /\ UNCHANGED open

CloseUnregistered(t) ==
  /\ req[t].pc = "closing" /\ Close(t)
  /\ req' = [req EXCEPT ![t] = Idle]
  /\ UNCHANGED <<sessionVars, cameraVars>>

\* _run_cleanups, one cleanup after the other and outside the lock.
RunCleanup(t) ==
  /\ t \in cleaning /\ Close(t)
  /\ cleaning' = cleaning \ {t}
  /\ req' = [req EXCEPT ![t] = Idle]
  /\ UNCHANGED <<media, fired, keeping, cameraVars>>

\* unregister_cleanup
Unregister(t) == media' = [media EXCEPT ![req[t].session].cleanups = @ \ {t}]

\* delete_camera_whep_session deletes the peer (an error leaves everything as
\* it is); a preview ends with its viewer or its ffmpeg; a lease expires.
PeerEnds(t) ==
  /\ req[t].pc = "served" /\ t \in open
  /\ open' = open \ {t} /\ leaked' = leaked \ {t}
  /\ UNCHANGED <<sessionVars, cameraVars, req>>

\* The end of delete_camera_whep_session and of the preview's stream.
UnregisterPeer(t) ==
  /\ req[t].pc = "served" /\ kind[t] # "compat" /\ t \notin open \union cleaning
  /\ Unregister(t)
  /\ req' = [req EXCEPT ![t] = Idle]
  /\ UNCHANGED <<fired, keeping, cleaning, cameraVars, peerVars>>

\* release_camera_live_compatibility: the session must be live; the cleanup is
\* unregistered first, the lease released afterwards.
UnregisterCompat(t) ==
  /\ req[t].pc = "served" /\ kind[t] = "compat" /\ Live(req[t].session)
  /\ Unregister(t)
  /\ req' = [req EXCEPT ![t].pc = "closing"]
  /\ UNCHANGED <<fired, keeping, cleaning, cameraVars, peerVars>>

-----------------------------------------------------------------------------
SessionStep(s) ==
  \/ SelectLiveStream(s) \/ Issue(s) \/ KeepSession(s) \/ Renew(s)
  \/ TimerFires(s) \/ (\E g \in {"current", "stale"} : Expire(s, g))
  \/ RevokeSession(s) \/ RevokeNext(s)

CameraStep ==
  \/ RevokeCamera
  \/ \E e \in BOOLEAN : SetEnabled(e)
  \/ \E k \in Binding : Rebind(k)

TransportStep(t) ==
  \/ \E s \in Session : \/ CreateWhepSession(t, s) \/ GetLivePreview(t, s)
                        \/ CreateLiveCompatibility(t, s)
  \/ OpenTransport(t) \/ Register(t) \/ CloseUnregistered(t) \/ RunCleanup(t)
  \/ PeerEnds(t) \/ UnregisterPeer(t) \/ UnregisterCompat(t)

LiveNext ==
  /\ UNCHANGED kind
  /\ \/ \E s \in Session : SessionStep(s)
     \/ CameraStep
     \/ \E t \in Transport : TransportStep(t)

\* Threads that serve a request or run a callback go on.  A timer fires unless
\* it is renewed for ever: a keepalive in progress suspends the promise.
\* Nothing is promised about clients and operators.
LiveFairness ==
  /\ WF_liveVars(RevokeCamera /\ UNCHANGED kind)
  /\ \A s \in Session :
       /\ WF_liveVars(TimerFires(s) /\ s \notin keeping /\ UNCHANGED kind)
       /\ WF_liveVars((Issue(s) \/ RevokeNext(s) \/ Renew(s)) /\ UNCHANGED kind)
       /\ WF_liveVars((\E g \in {"current", "stale"} : Expire(s, g)) /\ UNCHANGED kind)
  /\ \A t \in Transport :
       WF_liveVars((\/ OpenTransport(t) \/ Register(t)
                    \/ CloseUnregistered(t) \/ RunCleanup(t)) /\ UNCHANGED kind)

-----------------------------------------------------------------------------
\* Nothing is left open behind a session.  A transport that exists is in the
\* hands of a request still running, registered with a live session, or its
\* cleanup is about to run; the exception is a peer whose deletion ZLMediaKit
\* refused.  A session may end at any point between opening and registering
\* and between unregistering and releasing.
TransportHasOwner ==
  \A t \in open \ leaked :
    \/ req[t].pc \in InFlight
    \/ Live(req[t].session) /\ t \in media[req[t].session].cleanups
    \/ t \in cleaning

\* An expiry callback that fired before a keepalive renewed the session does
\* not end it: a session ends by a revocation, which consumes no callback, or
\* by a callback of its current generation.
RenewedSessionSurvives ==
  [][\A s \in Session : (Live(s) /\ media'[s].st # "live")
        => "current" \in fired[s] \ fired'[s] \/ fired' = fired]_liveVars

\* A camera that stays disabled goes dark, although a viewer may have passed
\* the check before the commit and been issued a session after revoke_camera
\* took its snapshot: such a session cannot be renewed, so it expires, and its
\* transports are closed by their cleanups.
DisabledCameraGoesDark ==
  <>[](~enabled) => <>[]((\A s \in Session : ~Live(s)) /\ open \subseteq leaked)
=============================================================================
