--------------------------- MODULE LiveViewProofs ---------------------------
(***************************************************************************)
(* What is proved of live viewing, for any number of sessions, transports, *)
(* profiles, leases, slots and subscriptions: nothing that runs is left     *)
(* without somebody who ends it, late callbacks take nothing from who still *)
(* watches, and the wall shows what was asked for.  Each component has an   *)
(* inductive invariant; the theorems are about the specification that runs  *)
(* one component at a time.                                                 *)
(***************************************************************************)
EXTENDS MCLiveView, FiniteSetTheorems, FunctionTheorems, TLAPS

-----------------------------------------------------------------------------
(* Media sessions and their transports.                                    *)

\* A registered cleanup belongs to a transport that is served under the
\* session, which is live.
CleanupsServed ==
  \A s \in Session : \A t \in media[s].cleanups :
    req[t].pc = "served" /\ req[t].session = s /\ Live(s)

\* A cleanup about to run belongs to a transport whose session is over, and
\* which is not given to a new session before it has run.
CleaningServed ==
  \A t \in cleaning : req[t].pc = "served" /\ media[req[t].session].st = "none"

\* A transport nobody serves does not exist, unless ZLMediaKit kept it; one
\* that is served has a cleanup.
OpenOwned ==
  \A t \in open \ leaked :
    /\ req[t].pc \in {"opened", "closing", "served"}
    /\ req[t].pc = "served" => t \in media[req[t].session].cleanups \union cleaning

LiveInv == LiveTypeOK /\ CleanupsServed /\ CleaningServed /\ OpenOwned

LEMMA LiveInvOwner == LiveInv => TransportHasOwner
BY DEF LiveInv, LiveTypeOK, CleanupsServed, OpenOwned, TransportHasOwner, InFlight

LEMMA LiveStart == LiveInit => LiveInv
<1> SUFFICES ASSUME LiveInit PROVE LiveInv
  OBVIOUS
<1>1. Idle \in [pc : InFlight \union {"idle", "served"}, session : Session]
  BY LiveConstants DEF Idle, InFlight
<1>2. LiveTypeOK
  BY <1>1 DEF LiveInit, LiveTypeOK
<1> QED
  BY <1>2 DEF LiveInit, LiveInv, CleanupsServed, CleaningServed, OpenOwned

\* Neither sessions nor transports end or begin.
LEMMA LiveStays ==
  ASSUME LiveInv, LiveTypeOK', UNCHANGED <<cleaning, open, leaked, req>>,
         \A s \in Session : /\ media'[s].cleanups = media[s].cleanups
                            /\ \/ media'[s].st = media[s].st
                               \/ media[s].st # "live" /\ \A t \in Transport : req[t].pc # "idle" => req[t].session # s
                               \/ media[s].st # "none" /\ media'[s].st = "live"
  PROVE  LiveInv'
<1> USE DEF LiveInv
<1>1. CleanupsServed'
  BY DEF LiveTypeOK, CleanupsServed, Live
<1>2. CleaningServed'
  BY DEF LiveTypeOK, CleaningServed
<1>3. OpenOwned'
  BY DEF LiveTypeOK, OpenOwned
<1> QED
  BY <1>1, <1>2, <1>3

LEMMA MediaTyped ==
  ASSUME LiveTypeOK, NEW s \in Session, NEW st \in {"none", "selected", "live"}
  PROVE  /\ [media EXCEPT ![s].st = st, ![s].profile = bound]
              \in [Session -> [st : {"none", "selected", "live"}, profile : Binding, cleanups : SUBSET Transport]]
         /\ [media EXCEPT ![s].st = st, ![s].cleanups = {}]
              \in [Session -> [st : {"none", "selected", "live"}, profile : Binding, cleanups : SUBSET Transport]]
<1>1. DOMAIN media = Session /\ \A u \in Session :
        media[u] \in [st : {"none", "selected", "live"}, profile : Binding, cleanups : SUBSET Transport]
  BY DEF LiveTypeOK
<1> DEFINE m == [media EXCEPT ![s].st = st]
<1>2. m \in [Session -> [st : {"none", "selected", "live"}, profile : Binding, cleanups : SUBSET Transport]]
  BY DEF LiveTypeOK
<1>3. bound \in Binding /\ {} \in SUBSET Transport
  BY DEF LiveTypeOK
<1> HIDE DEF m
<1>4. /\ [m EXCEPT ![s].profile = bound]
            \in [Session -> [st : {"none", "selected", "live"}, profile : Binding, cleanups : SUBSET Transport]]
      /\ [m EXCEPT ![s].cleanups = {}]
            \in [Session -> [st : {"none", "selected", "live"}, profile : Binding, cleanups : SUBSET Transport]]
  BY <1>2, <1>3
<1>5. /\ [media EXCEPT ![s].st = st, ![s].profile = bound] = [m EXCEPT ![s].profile = bound]
      /\ [media EXCEPT ![s].st = st, ![s].cleanups = {}] = [m EXCEPT ![s].cleanups = {}]
  BY DEF m
<1> QED
  BY <1>4, <1>5

LEMMA SessionBegins ==
  ASSUME LiveInv, NEW s \in Session, SelectLiveStream(s) \/ Issue(s), UNCHANGED kind
  PROVE  LiveInv'
<1> USE DEF SelectLiveStream, Issue, cameraVars, peerVars
<1>1. LiveTypeOK'
  <2>1. CASE SelectLiveStream(s)
    <3>1. media' \in [Session -> [st : {"none", "selected", "live"}, profile : Binding, cleanups : SUBSET Transport]]
      BY <2>1, MediaTyped DEF LiveInv, LiveTypeOK
    <3> QED
      BY <2>1, <3>1 DEF LiveInv, LiveTypeOK
  <2>2. CASE Issue(s)
    BY <2>2 DEF LiveInv, LiveTypeOK
  <2> QED
    BY <2>1, <2>2
<1>2. ASSUME NEW u \in Session
      PROVE  /\ media'[u].cleanups = media[u].cleanups
             /\ \/ media'[u].st = media[u].st
                \/ media[u].st # "live" /\ \A t \in Transport : req[t].pc # "idle" => req[t].session # u
                \/ media[u].st # "none" /\ media'[u].st = "live"
  BY DEF LiveInv, LiveTypeOK, FreshSession
<1> QED
  BY <1>1, <1>2, LiveStays

LEMMA SessionWaits ==
  ASSUME LiveInv, NEW s \in Session, KeepSession(s) \/ Renew(s) \/ TimerFires(s), UNCHANGED kind
  PROVE  LiveInv'
<1> USE DEF KeepSession, Renew, TimerFires, cameraVars, peerVars
<1>1. LiveTypeOK'
  BY DEF LiveInv, LiveTypeOK
<1> QED
  BY <1>1, LiveStays

LEMMA SessionEnded ==
  ASSUME LiveInv, NEW s \in Session, LiveTypeOK', Live(s), EndSession(s), UNCHANGED <<open, leaked, req>>
  PROVE  LiveInv'
<1>1. /\ media'[s].st = "none" /\ media'[s].cleanups = {}
      /\ \A u \in Session \ {s} : media'[u] = media[u]
      /\ cleaning' = cleaning \union media[s].cleanups
  BY DEF LiveInv, LiveTypeOK, EndSession
<1>2. CleanupsServed'
  BY <1>1 DEF LiveInv, LiveTypeOK, CleanupsServed, Live
<1>3. CleaningServed'
  BY <1>1 DEF LiveInv, LiveTypeOK, CleaningServed, CleanupsServed
<1>4. OpenOwned'
  BY <1>1 DEF LiveInv, LiveTypeOK, OpenOwned
<1> QED
  BY <1>2, <1>3, <1>4 DEF LiveInv

LEMMA SessionEndings ==
  ASSUME LiveInv, NEW s \in Session, UNCHANGED kind,
         RevokeSession(s) \/ RevokeNext(s) \/ \E g \in {"current", "stale"} : Expire(s, g)
  PROVE  LiveInv'
<1> USE DEF RevokeSession, RevokeNext, Expire, cameraVars, peerVars
<1>1. LiveTypeOK'
  <2>1. media' \in [Session -> [st : {"none", "selected", "live"}, profile : Binding, cleanups : SUBSET Transport]]
        /\ cleaning' \subseteq Transport
    <3>1. CASE EndSession(s)
      <4>1. media' = [media EXCEPT ![s].st = "none", ![s].cleanups = {}]
        BY <3>1 DEF EndSession
      <4>2. cleaning' \subseteq Transport
        BY <3>1 DEF LiveInv, LiveTypeOK, EndSession
      <4>3. LiveTypeOK
        BY DEF LiveInv
      <4> QED
        BY <4>1, <4>2, <4>3, MediaTyped
    <3>2. CASE UNCHANGED <<media, cleaning>>
      BY <3>2 DEF LiveInv, LiveTypeOK
    <3> QED
      BY <3>1, <3>2
  <2>2. fired' \in [Session -> SUBSET {"current", "stale"}]
    BY DEF LiveInv, LiveTypeOK
  <2> QED
    BY <2>1, <2>2 DEF LiveInv, LiveTypeOK
<1>2. CASE Live(s) /\ EndSession(s)
  BY <1>1, <1>2, SessionEnded
<1>3. CASE UNCHANGED <<media, cleaning>>
  BY <1>1, <1>3, LiveStays
<1> QED
  BY <1>2, <1>3

LEMMA CameraMoves ==
  ASSUME LiveInv, CameraStep, UNCHANGED kind
  PROVE  LiveInv'
<1> USE DEF CameraStep, RevokeCamera, SetEnabled, Rebind, sessionVars, peerVars
<1>1. LiveTypeOK'
  BY DEF LiveInv, LiveTypeOK
<1> QED
  BY <1>1, LiveStays

\* One transport moves.
LEMMA TransportMoves ==
  ASSUME LiveInv, NEW t \in Transport, TransportStep(t), UNCHANGED kind
  PROVE  LiveInv'
<1> USE DEF sessionVars, cameraVars, peerVars
<1>1. Idle \in [pc : InFlight \union {"idle", "served"}, session : Session] /\ Idle.pc = "idle"
  BY LiveConstants DEF Idle, InFlight
<1>2. ASSUME NEW s \in Session, SelectTransport(t, s) PROVE LiveInv'
  <2>1. LiveTypeOK'
    BY <1>2 DEF LiveInv, LiveTypeOK, SelectTransport, InFlight
  <2> QED
    BY <1>2, <2>1 DEF LiveInv, LiveTypeOK, SelectTransport, FreshTransport, CleanupsServed, CleaningServed,
       OpenOwned, Live
<1>3. CASE OpenTransport(t)
  <2>1. LiveTypeOK'
    <3>1. req' \in [Transport -> [pc : InFlight \union {"idle", "served"}, session : Session]]
      <4>1. CASE req' = [req EXCEPT ![t].pc = "opened"]
        BY <4>1 DEF LiveInv, LiveTypeOK, InFlight
      <4>2. CASE req' = [req EXCEPT ![t] = Idle]
        BY <1>1, <4>2 DEF LiveInv, LiveTypeOK
      <4> QED
        BY <1>3, <4>1, <4>2 DEF OpenTransport
    <3> QED
      BY <1>3, <3>1 DEF LiveInv, LiveTypeOK, OpenTransport
  <2>2. t \notin open \ leaked /\ \A u \in Transport \ {t} : req'[u] = req[u]
    BY <1>3 DEF LiveInv, LiveTypeOK, OpenTransport, OpenOwned
  <2>3. CleanupsServed' /\ CleaningServed'
    <3>1. req[t].pc = "selected" /\ UNCHANGED <<media, cleaning>>
      BY <1>3 DEF OpenTransport
    <3>2. t \notin cleaning /\ \A s \in Session : t \notin media[s].cleanups
      BY <3>1 DEF LiveInv, CleanupsServed, CleaningServed
    <3>3. \A u \in cleaning : req'[u] = req[u]
      BY <2>2, <3>2 DEF LiveInv, LiveTypeOK
    <3>4. \A s \in Session : \A u \in media[s].cleanups : req'[u] = req[u]
      BY <2>2, <3>2 DEF LiveInv, LiveTypeOK
    <3> QED
      BY <3>1, <3>3, <3>4 DEF LiveInv, CleanupsServed, CleaningServed, Live
  <2>4. OpenOwned'
    BY <1>3, <2>2 DEF LiveInv, LiveTypeOK, OpenTransport, OpenOwned
  <2> QED
    BY <2>1, <2>3, <2>4 DEF LiveInv
<1>4. CASE Register(t)
  <2> DEFINE s == req[t].session
  <2>1. /\ req[t].pc = "opened" /\ s \in Session /\ UNCHANGED <<fired, keeping, cleaning>>
        /\ UNCHANGED <<enabled, bound, disabling, revoking, open, leaked>>
        /\ t \notin cleaning
    BY <1>4 DEF Register, LiveInv, LiveTypeOK, CleaningServed
  <2>2. CASE Live(s)
    <3>1. media' = [media EXCEPT ![s].cleanups = @ \union {t}] /\ req' = [req EXCEPT ![t].pc = "served"]
      BY <1>4, <2>2 DEF Register
    <3>2. LiveTypeOK'
      BY <2>1, <3>1 DEF LiveInv, LiveTypeOK
    <3>3. /\ req'[t].pc = "served" /\ req'[t].session = s /\ \A u \in Transport \ {t} : req'[u] = req[u]
          /\ media'[s].cleanups = media[s].cleanups \union {t}
          /\ \A u \in Session : media'[u].st = media[u].st
          /\ \A u \in Session \ {s} : media'[u].cleanups = media[u].cleanups
      BY <2>1, <3>1 DEF LiveInv, LiveTypeOK
    <3> HIDE DEF s
    <3>4. CleaningServed'
      BY <2>1, <3>3 DEF LiveInv, LiveTypeOK, CleaningServed
    <3>6. CleanupsServed'
      <4> SUFFICES ASSUME NEW v \in Session, NEW u \in media'[v].cleanups
                   PROVE  req'[u].pc = "served" /\ req'[u].session = v /\ media'[v].st = "live"
        BY DEF CleanupsServed, Live
      <4>1. CASE u = t
        <5>1. v = s
          BY <2>1, <3>3, <4>1 DEF LiveInv, CleanupsServed
        <5> QED
          BY <2>1, <2>2, <3>3, <4>1, <5>1 DEF Live
      <4>2. CASE u # t
        <5>1. u \in media[v].cleanups
          BY <2>1, <3>3, <4>2
        <5> QED
          BY <3>3, <4>2, <5>1 DEF LiveInv, LiveTypeOK, CleanupsServed, Live
      <4> QED
        BY <4>1, <4>2
    <3>5. OpenOwned'
      BY <2>1, <3>3 DEF LiveInv, LiveTypeOK, OpenOwned
    <3> QED
      BY <3>2, <3>4, <3>5, <3>6 DEF LiveInv
  <2>3. CASE ~Live(s)
    <3>1. media' = media /\ req' = [req EXCEPT ![t].pc = "closing"]
      BY <1>4, <2>3 DEF Register
    <3>2. LiveTypeOK'
      BY <2>1, <3>1 DEF LiveInv, LiveTypeOK, InFlight
    <3>3. \A u \in Session : t \notin media[u].cleanups
      BY <2>1 DEF LiveInv, CleanupsServed
    <3>4. CleanupsServed' /\ CleaningServed'
      BY <2>1, <3>1, <3>3 DEF LiveInv, LiveTypeOK, CleanupsServed, CleaningServed, Live
    <3>5. OpenOwned'
      BY <2>1, <3>1 DEF LiveInv, LiveTypeOK, OpenOwned
    <3> QED
      BY <3>2, <3>4, <3>5 DEF LiveInv
  <2> QED
    BY <2>2, <2>3
<1>5. CASE CloseUnregistered(t)
  <2>1. LiveTypeOK'
    BY <1>1, <1>5 DEF LiveInv, LiveTypeOK, CloseUnregistered, Close
  <2>2. CleanupsServed' /\ CleaningServed'
    BY <1>5 DEF LiveInv, LiveTypeOK, CloseUnregistered, CleanupsServed, CleaningServed, Live
  <2>3. OpenOwned'
    BY <1>5 DEF LiveInv, LiveTypeOK, CloseUnregistered, Close, OpenOwned
  <2> QED
    BY <2>1, <2>2, <2>3 DEF LiveInv
<1>6. CASE RunCleanup(t)
  <2>1. LiveTypeOK'
    BY <1>1, <1>6 DEF LiveInv, LiveTypeOK, RunCleanup, Close
  <2>2. CleanupsServed' /\ CleaningServed'
    BY <1>6 DEF LiveInv, LiveTypeOK, RunCleanup, CleanupsServed, CleaningServed, Live
  <2>3. OpenOwned'
    BY <1>6 DEF LiveInv, LiveTypeOK, RunCleanup, Close, OpenOwned
  <2> QED
    BY <2>1, <2>2, <2>3 DEF LiveInv
<1>7. CASE PeerEnds(t)
  BY <1>7 DEF LiveInv, LiveTypeOK, PeerEnds, CleanupsServed, CleaningServed, OpenOwned, Live
<1>8. CASE UnregisterPeer(t)
  <2>1. LiveTypeOK'
    BY <1>1, <1>8 DEF LiveInv, LiveTypeOK, UnregisterPeer, Unregister
  <2>2. CleanupsServed' /\ CleaningServed'
    BY <1>8 DEF LiveInv, LiveTypeOK, UnregisterPeer, Unregister, CleanupsServed, CleaningServed, Live
  <2>3. OpenOwned'
    BY <1>8 DEF LiveInv, LiveTypeOK, UnregisterPeer, Unregister, OpenOwned
  <2> QED
    BY <2>1, <2>2, <2>3 DEF LiveInv
<1>9. CASE UnregisterCompat(t)
  <2>1. LiveTypeOK'
    BY <1>9 DEF LiveInv, LiveTypeOK, UnregisterCompat, Unregister, InFlight
  <2>2. CleanupsServed' /\ CleaningServed'
    BY <1>9 DEF LiveInv, LiveTypeOK, UnregisterCompat, Unregister, CleanupsServed, CleaningServed, Live
  <2>3. OpenOwned'
    BY <1>9 DEF LiveInv, LiveTypeOK, UnregisterCompat, Unregister, OpenOwned
  <2> QED
    BY <2>1, <2>2, <2>3 DEF LiveInv
<1> QED
  BY <1>2, <1>3, <1>4, <1>5, <1>6, <1>7, <1>8, <1>9 DEF TransportStep, CreateWhepSession, GetLivePreview,
     CreateLiveCompatibility

LEMMA LiveStep == LiveInv /\ [LiveNext]_liveVars => LiveInv'
<1> SUFFICES ASSUME LiveInv, [LiveNext]_liveVars PROVE LiveInv'
  OBVIOUS
<1>1. CASE UNCHANGED liveVars
  BY <1>1 DEF liveVars, sessionVars, cameraVars, peerVars, LiveInv, LiveTypeOK, CleanupsServed, CleaningServed,
     OpenOwned, Live
<1>2. CASE LiveNext
  BY <1>2, SessionBegins, SessionWaits, SessionEndings, CameraMoves, TransportMoves DEF LiveNext, SessionStep
<1> QED
  BY <1>1, <1>2

\* A session ends by a revocation or by a callback of its current generation.
LEMMA SessionSurvives ==
  ASSUME LiveInv, LiveNext, NEW s \in Session, Live(s), media'[s].st # "live"
  PROVE  "current" \in fired[s] \ fired'[s] \/ fired' = fired
<1>1. ASSUME NEW u \in Session, SessionStep(u) PROVE "current" \in fired[s] \ fired'[s] \/ fired' = fired
  <2>1. CASE SelectLiveStream(u) \/ Issue(u) \/ KeepSession(u) \/ Renew(u) \/ TimerFires(u)
    BY <2>1 DEF LiveInv, LiveTypeOK, SelectLiveStream, Issue, KeepSession, Renew, TimerFires, Live
  <2>2. CASE RevokeSession(u) \/ RevokeNext(u)
    BY <2>2 DEF RevokeSession, RevokeNext
  <2>3. ASSUME NEW g \in {"current", "stale"}, Expire(u, g) PROVE "current" \in fired[s] \ fired'[s]
    BY <2>3 DEF LiveInv, LiveTypeOK, Expire, EndSession, Live
  <2> QED
    BY <1>1, <2>1, <2>2, <2>3 DEF SessionStep
<1>2. CASE CameraStep
  BY <1>2 DEF CameraStep, RevokeCamera, SetEnabled, Rebind, sessionVars
<1>3. ASSUME NEW t \in Transport, TransportStep(t) PROVE fired' = fired
  BY <1>3 DEF TransportStep, CreateWhepSession, GetLivePreview, CreateLiveCompatibility, SelectTransport,
     OpenTransport, Register, CloseUnregistered, RunCleanup, PeerEnds, UnregisterPeer, UnregisterCompat, sessionVars
<1> QED
  BY <1>1, <1>2, <1>3 DEF LiveNext

-----------------------------------------------------------------------------
(* Transcodes and their leases.                                            *)

\* A table of transcodes is sound: an entry that is not there has nothing, no
\* lease is on two entries, and an entry nobody watches is timed.
TableOK(d) ==
  /\ d \in [Profile -> [up : BOOLEAN, alive : BOOLEAN, leases : SUBSET Lease, idle : BOOLEAN]]
  /\ \A k \in Profile : ~d[k].up => d[k].leases = {} /\ ~d[k].alive
  /\ \A k \in Profile : d[k].up /\ d[k].leases = {} => d[k].idle
  /\ \A j, k \in Profile : j # k => d[j].leases \intersect d[k].leases = {}

LeaseInv == LeaseTypeOK /\ TableOK(deriv) /\ Cardinality(Entries(deriv)) <= MaxDerivatives

LEMMA LeaseInvHeld == LeaseInv => DerivativesWithinCapacity /\ IdleTranscodeIsTimed
BY DEF LeaseInv, TableOK, DerivativesWithinCapacity, IdleTranscodeIsTimed, Entries

LEMMA LeaseStart == LeaseInit => LeaseInv
<1> SUFFICES ASSUME LeaseInit PROVE LeaseInv
  OBVIOUS
<1>1. LeaseTypeOK /\ TableOK(deriv)
  BY DEF LeaseInit, LeaseTypeOK, TableOK, NoEntry
<1>2. Entries(deriv) = {}
  BY DEF LeaseInit, Entries, NoEntry
<1> QED
  BY <1>1, <1>2, FS_EmptySet, LeaseConstants DEF LeaseInv

LEMMA EntriesFinite ==
  ASSUME NEW d
  PROVE  IsFiniteSet(Entries(d)) /\ Cardinality(Entries(d)) \in Nat
BY LeaseConstants, FS_Subset, FS_CardinalityType DEF Entries

\* Entries only go, or change.
LEMMA EntriesShrink ==
  ASSUME NEW d, NEW e, Entries(e) \subseteq Entries(d)
  PROVE  Cardinality(Entries(e)) <= Cardinality(Entries(d))
BY EntriesFinite, FS_Subset

LEMMA DropKeeps ==
  ASSUME NEW d, TableOK(d), NEW out
  PROVE  /\ TableOK(DropEntries(d, out)) /\ Entries(DropEntries(d, out)) \subseteq Entries(d)
         /\ \A k \in Profile : DropEntries(d, out)[k] = IF k \in out THEN NoEntry ELSE d[k]
         /\ \A k \in Profile : DropEntries(d, out)[k].leases \subseteq d[k].leases
<1> DEFINE e == DropEntries(d, out)
<1>1. \A k \in Profile : e[k] = IF k \in out THEN NoEntry ELSE d[k]
  BY DEF DropEntries
<1>2. NoEntry.up = FALSE /\ NoEntry.leases = {} /\ NoEntry.alive = FALSE
      /\ NoEntry \in [up : BOOLEAN, alive : BOOLEAN, leases : SUBSET Lease, idle : BOOLEAN]
  BY DEF NoEntry
<1>3. e \in [Profile -> [up : BOOLEAN, alive : BOOLEAN, leases : SUBSET Lease, idle : BOOLEAN]]
  BY <1>2 DEF DropEntries, TableOK
<1> HIDE DEF e
<1>4. \A k \in Profile : \/ e[k].up = FALSE /\ e[k].leases = {} /\ e[k].alive = FALSE
                         \/ e[k] = d[k]
  BY <1>1, <1>2
<1>5. TableOK(e)
  BY <1>3, <1>4 DEF TableOK
<1>6. Entries(e) \subseteq Entries(d)
  BY <1>4 DEF Entries
<1>7. \A k \in Profile : e[k].leases \subseteq d[k].leases
  BY <1>4
<1> QED
  BY <1>1, <1>5, <1>6, <1>7 DEF e

\* Freeing drops exited processes and processes nobody watches.
LEMMA FreedKeeps ==
  ASSUME NEW d, TableOK(d), NEW e \in Freed(d)
  PROVE  /\ TableOK(e) /\ Entries(e) \subseteq Entries(d)
         /\ \A k \in Profile : e[k].leases \subseteq d[k].leases
         /\ \A k \in Profile : d[k].alive /\ d[k].leases # {} => e[k] = d[k]
<1> DEFINE r == DropEntries(d, {k \in Entries(d) : ~d[k].alive})
           idle == {k \in Entries(r) : r[k].leases = {}}
<1>1. PICK out \in SUBSET idle : e = DropEntries(r, out)
  BY DEF Freed
<1>2. /\ TableOK(r) /\ Entries(r) \subseteq Entries(d)
      /\ \A k \in Profile : r[k] = IF k \in {j \in Entries(d) : ~d[j].alive} THEN NoEntry ELSE d[k]
      /\ \A k \in Profile : r[k].leases \subseteq d[k].leases
  BY DropKeeps
<1>3. \A k \in out : r[k].leases = {}
  BY <1>1
<1> HIDE DEF r
<1>4. /\ TableOK(e) /\ Entries(e) \subseteq Entries(r)
      /\ \A k \in Profile : e[k] = IF k \in out THEN NoEntry ELSE r[k]
      /\ \A k \in Profile : e[k].leases \subseteq r[k].leases
  BY <1>1, <1>2, DropKeeps
<1> QED
  BY <1>2, <1>3, <1>4

LEMMA AcquireKeeps ==
  ASSUME LeaseInv, NEW t \in Lease, NEW k \in Profile, Acquire(t, k)
  PROVE  LeaseInv' /\ \A j \in Profile : deriv[j].alive /\ deriv[j].leases # {} => deriv'[j].up
<1> USE LeaseConstants
<1>1. LeaseTypeOK /\ TableOK(deriv) /\ Cardinality(Entries(deriv)) <= MaxDerivatives
      /\ \A j \in Profile : t \notin deriv[j].leases
  BY DEF LeaseInv, Acquire, Leases
<1>2. idleFired' = idleFired /\ stopping' = stopping
  BY DEF Acquire
<1>3. CASE /\ deriv[k].up /\ deriv[k].alive
           /\ deriv' = [deriv EXCEPT ![k].leases = @ \union {t}, ![k].idle = FALSE]
  <2>1. /\ deriv' \in [Profile -> [up : BOOLEAN, alive : BOOLEAN, leases : SUBSET Lease, idle : BOOLEAN]]
        /\ \A j \in Profile \ {k} : deriv'[j] = deriv[j]
        /\ deriv'[k].up /\ deriv'[k].leases = deriv[k].leases \union {t}
    BY <1>1, <1>3 DEF LeaseTypeOK
  <2>2. TableOK(deriv')
    BY <1>1, <2>1 DEF TableOK
  <2>3. Entries(deriv') = Entries(deriv)
    BY <1>3, <2>1 DEF Entries
  <2>4. \A j \in Profile : deriv[j].alive /\ deriv[j].leases # {} => deriv'[j].up
    BY <1>1, <2>1 DEF TableOK
  <2>5. LeaseTypeOK'
    BY <1>1, <1>2, <2>1 DEF LeaseTypeOK
  <2> QED
    BY <1>1, <2>2, <2>3, <2>4, <2>5 DEF LeaseInv
<1>4. ASSUME ~(deriv[k].up /\ deriv[k].alive), NEW d \in Freed(DropEntries(deriv, {k})),
             deriv' \in IF Full(d) THEN {d} ELSE StartDerivative(d, k, t)
      PROVE  LeaseInv' /\ \A j \in Profile : deriv[j].alive /\ deriv[j].leases # {} => deriv'[j].up
  <2> DEFINE r == DropEntries(deriv, {k})
  <2>1. /\ TableOK(r) /\ Entries(r) \subseteq Entries(deriv)
        /\ \A j \in Profile : r[j] = IF j \in {k} THEN NoEntry ELSE deriv[j]
        /\ \A j \in Profile : r[j].leases \subseteq deriv[j].leases
    BY <1>1, DropKeeps
  <2> HIDE DEF r
  <2>2. /\ TableOK(d) /\ Entries(d) \subseteq Entries(r)
        /\ \A j \in Profile : d[j].leases \subseteq r[j].leases
        /\ \A j \in Profile : r[j].alive /\ r[j].leases # {} => d[j] = r[j]
    BY <1>4, <2>1, FreedKeeps DEF r
  <2>3. ASSUME NEW j \in Profile, deriv[j].alive, deriv[j].leases # {} PROVE j # k /\ d[j].up
    <3>1. j # k
      BY <1>1, <1>4, <2>3 DEF TableOK
    <3> QED
      BY <1>1, <2>1, <2>2, <2>3, <3>1 DEF TableOK
  <2>4. \A j \in Profile : t \notin d[j].leases
    BY <1>1, <2>1, <2>2
  <2>5. Cardinality(Entries(d)) <= MaxDerivatives
    <3>1. Cardinality(Entries(d)) <= Cardinality(Entries(deriv))
      BY <2>1, <2>2, EntriesShrink
    <3> QED
      BY <1>1, <3>1, EntriesFinite
  <2>6. CASE deriv' = d
    <3>1. LeaseTypeOK'
      BY <1>1, <1>2, <2>2, <2>6 DEF LeaseTypeOK, TableOK
    <3> QED
      BY <2>2, <2>3, <2>5, <2>6, <3>1 DEF LeaseInv
  <2>7. CASE ~Full(d) /\ deriv' = [d EXCEPT ![k] = [up |-> TRUE, alive |-> TRUE, leases |-> {t}, idle |-> FALSE]]
    <3>1. /\ deriv' \in [Profile -> [up : BOOLEAN, alive : BOOLEAN, leases : SUBSET Lease, idle : BOOLEAN]]
          /\ \A j \in Profile \ {k} : deriv'[j] = d[j]
          /\ deriv'[k].up /\ deriv'[k].leases = {t}
      BY <2>2, <2>7 DEF TableOK
    <3>2. TableOK(deriv')
      BY <2>2, <2>4, <3>1 DEF TableOK
    <3>3. Entries(deriv') = Entries(d) \union {k}
      BY <3>1 DEF Entries
    <3>4. Cardinality(Entries(deriv')) <= Cardinality(Entries(d)) + 1
      <4>1. IsFiniteSet(Entries(d)) /\ Cardinality(Entries(d)) \in Nat
        BY EntriesFinite
      <4>2. Cardinality(Entries(d) \union {k}) = IF k \in Entries(d) THEN Cardinality(Entries(d))
                                                ELSE Cardinality(Entries(d)) + 1
        BY <4>1, FS_AddElement
      <4> QED
        BY <3>3, <4>1, <4>2
    <3>5. Cardinality(Entries(deriv')) <= MaxDerivatives
      BY <2>7, <3>4, EntriesFinite DEF Full
    <3>6. LeaseTypeOK'
      BY <1>1, <1>2, <3>1 DEF LeaseTypeOK
    <3>7. \A j \in Profile : deriv[j].alive /\ deriv[j].leases # {} => deriv'[j].up
      BY <2>3, <3>1
    <3> QED
      BY <3>2, <3>5, <3>6, <3>7 DEF LeaseInv
  <2> QED
    BY <1>4, <2>6, <2>7 DEF StartDerivative
<1> QED
  BY <1>3, <1>4 DEF Acquire

\* What the other operations have in common: no entry comes back, and only an
\* exited or an unwatched one goes.
LEMMA TableMoves ==
  ASSUME LeaseInv, TableOK(deriv'), idleFired' \subseteq Profile, stopping' \subseteq Profile,
         Entries(deriv') \subseteq Entries(deriv)
  PROVE  LeaseInv'
<1>1. LeaseTypeOK'
  BY DEF LeaseInv, LeaseTypeOK, TableOK
<1>2. Cardinality(Entries(deriv')) <= MaxDerivatives
  <2>1. Cardinality(Entries(deriv')) <= Cardinality(Entries(deriv))
    BY EntriesShrink
  <2> QED
    BY <2>1, EntriesFinite, LeaseConstants DEF LeaseInv
<1> QED
  BY <1>1, <1>2 DEF LeaseInv

LEMMA ReleaseKeeps ==
  ASSUME LeaseInv, NEW t \in Lease, Release(t)
  PROVE  LeaseInv' /\ \A j \in Profile : deriv'[j].up = deriv[j].up
<1>1. LeaseTypeOK /\ TableOK(deriv) /\ idleFired' = idleFired /\ stopping' = stopping
  BY DEF LeaseInv, Release
<1>2. ASSUME NEW k \in Profile
      PROVE  /\ deriv'[k] \in [up : BOOLEAN, alive : BOOLEAN, leases : SUBSET Lease, idle : BOOLEAN]
             /\ deriv'[k].up = deriv[k].up /\ deriv'[k].alive = deriv[k].alive
             /\ deriv'[k].leases \subseteq deriv[k].leases
             /\ deriv'[k].leases = {} =>
                  (deriv[k].leases = {} /\ deriv'[k].idle = deriv[k].idle) \/ deriv'[k].idle
  <2>1. deriv[k] \in [up : BOOLEAN, alive : BOOLEAN, leases : SUBSET Lease, idle : BOOLEAN]
    BY <1>1 DEF LeaseTypeOK
  <2>2. CASE t \in deriv[k].leases
    <3>1. deriv'[k] = [deriv[k] EXCEPT !.leases = @ \ {t}, !.idle = (deriv[k].leases = {t})]
      BY <2>2 DEF Release
    <3>2. deriv'[k].leases = deriv[k].leases \ {t} /\ deriv'[k].idle = (deriv[k].leases = {t})
          /\ deriv'[k].up = deriv[k].up /\ deriv'[k].alive = deriv[k].alive
          /\ deriv'[k] \in [up : BOOLEAN, alive : BOOLEAN, leases : SUBSET Lease, idle : BOOLEAN]
      BY <2>1, <3>1
    <3>3. deriv[k].leases \ {t} = {} => deriv[k].leases = {t}
      BY <2>2
    <3> QED
      BY <3>2, <3>3
  <2>3. CASE t \notin deriv[k].leases
    <3>1. deriv'[k] = deriv[k]
      BY <2>3 DEF Release
    <3> QED
      BY <2>1, <3>1
  <2> QED
    BY <2>2, <2>3
<1>3. TableOK(deriv')
  <2>1. deriv' \in [Profile -> [up : BOOLEAN, alive : BOOLEAN, leases : SUBSET Lease, idle : BOOLEAN]]
    <3>1. deriv' = [k \in Profile |-> deriv'[k]]
      BY DEF Release
    <3> QED
      BY <1>2, <3>1
  <2>2. \A k \in Profile : ~deriv'[k].up => deriv'[k].leases = {} /\ ~deriv'[k].alive
    BY <1>1, <1>2 DEF TableOK
  <2>3. \A k \in Profile : deriv'[k].up /\ deriv'[k].leases = {} => deriv'[k].idle
    BY <1>1, <1>2 DEF TableOK
  <2>4. \A j, k \in Profile : j # k => deriv'[j].leases \intersect deriv'[k].leases = {}
    BY <1>1, <1>2 DEF TableOK
  <2> QED
    BY <2>1, <2>2, <2>3, <2>4 DEF TableOK
<1>4. Entries(deriv') \subseteq Entries(deriv)
  BY <1>2 DEF Entries
<1> QED
  BY <1>1, <1>2, <1>3, <1>4, TableMoves DEF LeaseTypeOK

\* Entries leave the table with whatever they have.
LEMMA DroppedKeeps ==
  ASSUME LeaseInv, NEW out, deriv' = DropEntries(deriv, out),
         idleFired' \subseteq Profile, stopping' \subseteq Profile
  PROVE  LeaseInv' /\ \A j \in Profile \ out : deriv'[j] = deriv[j]
<1>1. TableOK(deriv)
  BY DEF LeaseInv
<1>2. /\ TableOK(deriv') /\ Entries(deriv') \subseteq Entries(deriv)
      /\ \A k \in Profile : deriv'[k] = IF k \in out THEN NoEntry ELSE deriv[k]
  BY <1>1, DropKeeps
<1> QED
  BY <1>2, TableMoves

LEMMA TimersKeep ==
  ASSUME LeaseInv, NEW k \in Profile, IdleTimerFires(k) \/ ExpireDerivative(k) \/ StopProcess(k) \/ ProcessExits(k)
  PROVE  LeaseInv' /\ \A j \in Profile : deriv[j].alive /\ deriv[j].leases # {} => deriv'[j].up
<1>1. LeaseTypeOK /\ TableOK(deriv) /\ \A j \in Profile : deriv[j].alive => deriv[j].up
  BY DEF LeaseInv, TableOK
<1>2. CASE deriv' = deriv
  <2>1. idleFired' \subseteq Profile /\ stopping' \subseteq Profile
    BY <1>1 DEF LeaseTypeOK, IdleTimerFires, ExpireDerivative, StopProcess, ProcessExits
  <2> QED
    BY <1>1, <1>2, <2>1, TableMoves
<1>3. CASE ExpireDerivative(k) /\ deriv[k].up /\ deriv[k].leases = {}
  <2>1. deriv' = DropEntries(deriv, {k}) /\ idleFired' \subseteq Profile /\ stopping' \subseteq Profile
    BY <1>1, <1>3 DEF ExpireDerivative, LeaseTypeOK
  <2> QED
    <3>1. LeaseInv' /\ \A j \in Profile \ {k} : deriv'[j] = deriv[j]
      BY <2>1, DroppedKeeps
    <3>2. \A j \in Profile : deriv[j].leases # {} => j # k
      BY <1>3
    <3> QED
      BY <1>1, <3>1, <3>2
<1>4. CASE ProcessExits(k)
  <2>1. /\ deriv' \in [Profile -> [up : BOOLEAN, alive : BOOLEAN, leases : SUBSET Lease, idle : BOOLEAN]]
        /\ \A j \in Profile \ {k} : deriv'[j] = deriv[j]
        /\ deriv[k].up /\ deriv'[k].up /\ deriv'[k].leases = deriv[k].leases
        /\ deriv[k].idle => deriv'[k].idle
    BY <1>1, <1>4 DEF LeaseTypeOK, ProcessExits
  <2>2. TableOK(deriv')
    BY <1>1, <2>1 DEF TableOK
  <2>3. Entries(deriv') \subseteq Entries(deriv)
    BY <2>1 DEF Entries
  <2>4. idleFired' \subseteq Profile /\ stopping' \subseteq Profile
    BY <1>1, <1>4 DEF LeaseTypeOK, ProcessExits
  <2>5. \A j \in Profile : deriv[j].alive /\ deriv[j].leases # {} => deriv'[j].up
    BY <1>1, <2>1
  <2> QED
    BY <2>2, <2>3, <2>4, <2>5, TableMoves
<1> QED
  BY <1>2, <1>3, <1>4 DEF IdleTimerFires, ExpireDerivative, StopProcess

LEMMA TouchKeeps ==
  ASSUME LeaseInv, NEW t \in Lease, Touch(t)
  PROVE  LeaseInv' /\ \A j \in Profile : deriv[j].alive /\ deriv[j].leases # {} => deriv'[j].up
<1>1. PICK k \in Profile : ~deriv[k].alive /\ deriv' = DropEntries(deriv, {k})
  BY DEF Touch
<1>2. idleFired' \subseteq Profile /\ stopping' \subseteq Profile
  BY DEF Touch, LeaseInv, LeaseTypeOK
<1>3. \A j \in Profile : deriv[j].alive => deriv[j].up
  BY DEF LeaseInv, TableOK
<1> QED
  BY <1>1, <1>2, <1>3, DroppedKeeps

LEMMA StopKeeps ==
  ASSUME LeaseInv, StopManager
  PROVE  LeaseInv'
<1>1. deriv' = DropEntries(deriv, Profile)
  BY DEF StopManager, DropEntries
<1>2. idleFired' \subseteq Profile /\ stopping' \subseteq Profile
  BY DEF StopManager, LeaseInv, LeaseTypeOK, Entries
<1> QED
  BY <1>1, <1>2, DroppedKeeps

LEMMA LeaseStep ==
  ASSUME LeaseInv, [LeaseNext]_leaseVars
  PROVE  /\ LeaseInv'
         /\ ~StopManager => \A j \in Profile : deriv[j].alive /\ deriv[j].leases # {} => deriv'[j].up
<1>1. \A j \in Profile : deriv[j].alive => deriv[j].up
  BY DEF LeaseInv, TableOK
<1>2. CASE UNCHANGED leaseVars
  BY <1>1, <1>2, TableMoves DEF leaseVars, LeaseInv, LeaseTypeOK
<1>3. CASE StopManager
  BY <1>3, StopKeeps
<1>4. ASSUME NEW t \in Lease, Release(t) \/ ExpireLease(t) \/ Touch(t) \/ \E k \in Profile : Acquire(t, k)
      PROVE  LeaseInv' /\ \A j \in Profile : deriv[j].alive /\ deriv[j].leases # {} => deriv'[j].up
  BY <1>1, <1>4, ReleaseKeeps, TouchKeeps, AcquireKeeps DEF ExpireLease
<1>5. CASE LeaseNext
  BY <1>3, <1>4, <1>5, TimersKeep DEF LeaseNext
<1> QED
  BY <1>2, <1>5

-----------------------------------------------------------------------------
(* The preview wall.                                                       *)

FeedStates == [pc : {"none", "opening", "streaming", "cleaning"}, slot : Slot, sub : Sub \union {None}, cancel : BOOLEAN]

WallTyped ==
  /\ desired \in [Slot -> Sub \union {None}] /\ entry \in [Slot -> Feed \union {None}]
  /\ feed \in [Feed -> FeedStates] /\ previews \subseteq Feed
  /\ sync \in [busy : BOOLEAN, todo : SUBSET Slot, wait : Feed \union {None}]
  /\ latest \in [Slot -> Sub \union {None}]

\* The table holds feeds at work for the slots they are in.
EntriesWork ==
  \A s \in Slot : entry[s] # None =>
    feed[entry[s]].pc \in {"opening", "streaming"} /\ feed[entry[s]].slot = s

\* A feed at work is in the table or has been cancelled.
WorkersKnown ==
  \A f \in Feed : feed[f].pc \in {"opening", "streaming"} => Current(f) \/ feed[f].cancel

PreviewsRun == \A f \in previews : feed[f].pc \in {"streaming", "cleaning"}

\* A pending frame comes from the feed in the table.
FramesCurrent == \A s \in Slot : latest[s] # None => entry[s] # None /\ feed[entry[s]].sub = latest[s]

\* What apply_sync does not mean to stop shows what is asked for.
SlotsDesired ==
  /\ ~sync.busy => sync.todo = {}
  /\ \A s \in Slot \ sync.todo : entry[s] # None => feed[entry[s]].sub = desired[s]

WallInv == WallTyped /\ EntriesWork /\ WorkersKnown /\ PreviewsRun /\ FramesCurrent /\ SlotsDesired

LEMMA WallInvShows == WallInv => WallShowsDesired /\ PreviewHasTask
BY DEF WallInv, WallTyped, WorkersKnown, PreviewsRun, FramesCurrent, SlotsDesired, WallShowsDesired,
   PreviewHasTask, Running

LEMMA WallStart == WallInit => WallInv
<1> USE WallConstants
<1> SUFFICES ASSUME WallInit PROVE WallInv
  OBVIOUS
<1>1. NoFeed \in FeedStates /\ NoFeed.pc = "none"
  BY DEF NoFeed, FeedStates
<1>2. WallTyped
  BY <1>1 DEF WallInit, WallTyped, SyncIdle
<1>3. EntriesWork /\ WorkersKnown /\ PreviewsRun /\ FramesCurrent
  BY <1>1 DEF WallInit, EntriesWork, WorkersKnown, PreviewsRun, FramesCurrent
<1>4. SlotsDesired
  BY DEF WallInit, SlotsDesired, SyncIdle
<1> QED
  BY <1>2, <1>3, <1>4 DEF WallInv

\* Feeds leave the table, cancelled, with their pending frames.
LEMMA FeedsLeave ==
  ASSUME WallInv, NEW out \in SUBSET Slot,
         entry' \in [Slot -> Feed \union {None}], latest' \in [Slot -> Sub \union {None}],
         \A s \in Slot : entry'[s] = IF s \in out THEN None ELSE entry[s],
         \A s \in out : latest'[s] = None,
         \A s \in Slot \ out : latest'[s] \in {latest[s], None},
         feed' = Cancelled({f \in Feed : Current(f) /\ feed[f].slot \in out}),
         sync' \in [busy : BOOLEAN, todo : SUBSET Slot, wait : Feed \union {None}],
         desired' \in [Slot -> Sub \union {None}],
         \A s \in Slot \ sync'.todo : entry'[s] # None => s \notin sync.todo /\ desired'[s] = desired[s],
         ~sync'.busy => sync'.todo = {}, previews' = previews
  PROVE  WallInv'
<1> USE WallConstants
<1>1. ASSUME NEW f \in Feed
      PROVE  /\ feed'[f] \in FeedStates
             /\ feed'[f].pc = feed[f].pc /\ feed'[f].slot = feed[f].slot /\ feed'[f].sub = feed[f].sub
             /\ feed'[f].cancel \/ feed'[f] = feed[f]
             /\ (Current(f) /\ feed[f].slot \in out) => feed'[f].cancel
  <2> DEFINE left == {g \in Feed : Current(g) /\ feed[g].slot \in out}
  <2>1. feed[f] \in FeedStates
    BY DEF WallInv, WallTyped
  <2>2. feed'[f] = IF f \in left /\ Running(f) THEN [feed[f] EXCEPT !.cancel = TRUE] ELSE feed[f]
    BY DEF Cancelled
  <2>3. CASE f \in left /\ Running(f)
    <3>1. feed'[f] = [feed[f] EXCEPT !.cancel = TRUE]
      BY <2>2, <2>3
    <3> QED
      BY <2>1, <3>1 DEF FeedStates
  <2>4. CASE ~(f \in left /\ Running(f))
    <3>1. feed'[f] = feed[f]
      BY <2>2, <2>4
    <3>2. ~(Current(f) /\ feed[f].slot \in out)
      BY <2>4 DEF Current, Running
    <3> QED
      BY <2>1, <3>1, <3>2
  <2> QED
    BY <2>3, <2>4
<1>2. WallTyped'
  <2>1. feed' \in [Feed -> FeedStates]
    <3>1. feed' = [f \in Feed |-> feed'[f]]
      BY DEF Cancelled
    <3> QED
      BY <1>1, <3>1
  <2> QED
    BY <2>1 DEF WallInv, WallTyped
<1>3. EntriesWork'
  BY <1>1 DEF WallInv, WallTyped, EntriesWork
<1>4. WorkersKnown'
  BY <1>1 DEF WallInv, WallTyped, WorkersKnown, Current, FeedStates
<1>5. PreviewsRun'
  BY <1>1 DEF WallInv, WallTyped, PreviewsRun
<1>6. FramesCurrent'
  BY <1>1 DEF WallInv, WallTyped, FramesCurrent
<1>7. SlotsDesired'
  BY <1>1 DEF WallInv, WallTyped, SlotsDesired
<1> QED
  BY <1>2, <1>3, <1>4, <1>5, <1>6, <1>7 DEF WallInv

LEMMA SyncBeginKeeps ==
  ASSUME WallInv, NEW want \in Wishes, NEW relayout \in BOOLEAN, SyncBegin(want, relayout)
  PROVE  WallInv'
<1> USE WallConstants
<1>1. WallTyped'
  BY DEF WallInv, WallTyped, SyncBegin
<1>2. EntriesWork' /\ WorkersKnown' /\ PreviewsRun' /\ FramesCurrent'
  BY DEF WallInv, SyncBegin, EntriesWork, WorkersKnown, PreviewsRun, FramesCurrent, Current
<1>3. SlotsDesired'
  BY DEF WallInv, WallTyped, SyncBegin, SlotsDesired
<1> QED
  BY <1>1, <1>2, <1>3 DEF WallInv

LEMMA SyncStopKeeps ==
  ASSUME WallInv, NEW s \in Slot, SyncStop(s)
  PROVE  WallInv'
<1> USE WallConstants
<1>1. /\ entry' \in [Slot -> Feed \union {None}] /\ latest' \in [Slot -> Sub \union {None}]
      /\ \A r \in Slot : entry'[r] = IF r \in {s} THEN None ELSE entry[r]
      /\ \A r \in {s} : latest'[r] = None
      /\ \A r \in Slot \ {s} : latest'[r] \in {latest[r], None}
  BY DEF WallInv, WallTyped, SyncStop, Discard
<1>2. feed' = Cancelled({f \in Feed : Current(f) /\ feed[f].slot \in {s}})
  <2>1. \A f \in Feed : Running(f) => (f = entry[s] <=> Current(f) /\ feed[f].slot = s)
    BY DEF WallInv, WallTyped, EntriesWork, Current, Running
  <2> QED
    BY <2>1 DEF SyncStop, Cancelled
<1>3. /\ sync' \in [busy : BOOLEAN, todo : SUBSET Slot, wait : Feed \union {None}]
      /\ sync'.todo = sync.todo \ {s} /\ sync'.busy /\ desired' = desired
  BY DEF WallInv, WallTyped, SyncStop
<1>4. desired' \in [Slot -> Sub \union {None}] /\ previews' = previews
  BY DEF WallInv, WallTyped, SyncStop
<1> QED
  BY <1>1, <1>2, <1>3, <1>4, FeedsLeave

LEMMA FailKeeps ==
  ASSUME WallInv, NEW x \in Sub, FailSubscription(x)
  PROVE  WallInv'
<1> DEFINE hit == {f \in Feed : Current(f) /\ feed[f].sub = x}
           out == {feed[f].slot : f \in hit}
<1>1. out \in SUBSET Slot
  BY DEF WallInv, WallTyped, FeedStates
<1>2. /\ entry' = [s \in Slot |-> IF s \in out THEN None ELSE entry[s]]
      /\ latest' = [s \in Slot |-> IF s \in out THEN None ELSE latest[s]]
      /\ feed' = Cancelled(hit)
      /\ UNCHANGED <<desired, sync, previews>>
  BY DEF FailSubscription
<1>3. hit = {f \in Feed : Current(f) /\ feed[f].slot \in out}
  BY DEF Current
<1> HIDE DEF hit, out
<1>4. /\ entry' \in [Slot -> Feed \union {None}] /\ latest' \in [Slot -> Sub \union {None}]
      /\ \A s \in Slot : entry'[s] = IF s \in out THEN None ELSE entry[s]
      /\ \A s \in out : latest'[s] = None
      /\ \A s \in Slot \ out : latest'[s] \in {latest[s], None}
  BY <1>1, <1>2 DEF WallInv, WallTyped
<1>5. /\ sync' \in [busy : BOOLEAN, todo : SUBSET Slot, wait : Feed \union {None}]
      /\ desired' \in [Slot -> Sub \union {None}] /\ (~sync'.busy => sync'.todo = {})
  BY <1>2 DEF WallInv, WallTyped, SlotsDesired
<1> QED
  BY <1>1, <1>2, <1>3, <1>4, <1>5, FeedsLeave

LEMMA CloseKeeps ==
  ASSUME WallInv, CloseWall
  PROVE  WallInv'
<1>1. /\ entry' \in [Slot -> Feed \union {None}] /\ latest' \in [Slot -> Sub \union {None}]
      /\ \A s \in Slot : entry'[s] = IF s \in Slot THEN None ELSE entry[s]
      /\ \A s \in Slot : latest'[s] = None
      /\ \A s \in Slot \ Slot : latest'[s] \in {latest[s], None}
      /\ UNCHANGED <<sync, previews>>
  BY DEF CloseWall
<1>2. {f \in Feed : Current(f)} = {f \in Feed : Current(f) /\ feed[f].slot \in Slot}
  BY DEF WallInv, WallTyped, FeedStates
<1>3. feed' = Cancelled({f \in Feed : Current(f) /\ feed[f].slot \in Slot})
  BY <1>2 DEF CloseWall
<1>4. /\ sync' \in [busy : BOOLEAN, todo : SUBSET Slot, wait : Feed \union {None}]
      /\ desired' \in [Slot -> Sub \union {None}] /\ (~sync'.busy => sync'.todo = {})
  BY <1>1 DEF WallInv, WallTyped, SlotsDesired, CloseWall
<1> QED
  BY <1>1, <1>3, <1>4, FeedsLeave

\* Steps that touch neither the table nor the feeds.
LEMMA WallStays ==
  ASSUME WallInv, UNCHANGED <<desired, entry, feed, previews>>,
         sync' \in [busy : BOOLEAN, todo : SUBSET Slot, wait : Feed \union {None}],
         sync'.busy = sync.busy, sync'.todo = sync.todo,
         latest' \in [Slot -> Sub \union {None}], \A s \in Slot : latest'[s] \in {latest[s], None}
  PROVE  WallInv'
<1>1. WallTyped'
  BY DEF WallInv, WallTyped
<1>2. EntriesWork' /\ WorkersKnown' /\ PreviewsRun' /\ FramesCurrent'
  BY DEF WallInv, EntriesWork, WorkersKnown, PreviewsRun, FramesCurrent, Current
<1>3. SlotsDesired'
  BY DEF WallInv, SlotsDesired
<1> QED
  BY <1>1, <1>2, <1>3 DEF WallInv

LEMMA QuietKeeps ==
  ASSUME WallInv, SyncWaited \/ SendControl \/ SendFrame \/ \E x \in Sub : SessionEnds(x)
  PROVE  WallInv'
<1>1. UNCHANGED <<desired, entry, feed, previews>>
  BY DEF SyncWaited, SendControl, SendFrame, SessionEnds
<1>2. /\ sync' \in [busy : BOOLEAN, todo : SUBSET Slot, wait : Feed \union {None}]
      /\ sync'.busy = sync.busy /\ sync'.todo = sync.todo
  BY DEF WallInv, WallTyped, SyncWaited, SendControl, SendFrame, SessionEnds
<1>3. latest' \in [Slot -> Sub \union {None}] /\ \A s \in Slot : latest'[s] \in {latest[s], None}
  BY DEF WallInv, WallTyped, SyncWaited, SendControl, SendFrame, SessionEnds
<1> QED
  BY <1>1, <1>2, <1>3, WallStays

\* A feed starts its finally block.
LEMMA UnwindKeeps ==
  ASSUME WallInv, NEW f \in Feed, NEW report \in BOOLEAN, Unwind(f, report), feed[f].pc \in {"opening", "streaming"},
         previews' \subseteq previews \union {f}, UNCHANGED <<desired, sync>>
  PROVE  WallInv'
<1> USE WallConstants
<1>1. /\ feed' \in [Feed -> FeedStates] /\ feed'[f].pc = "cleaning"
      /\ \A g \in Feed \ {f} : feed'[g] = feed[g]
  <2> DEFINE m == [feed EXCEPT ![f].pc = "cleaning"]
  <2>1. feed' = [m EXCEPT ![f].cancel = FALSE]
    BY DEF WallInv, WallTyped, Unwind
  <2>2. /\ m \in [Feed -> FeedStates] /\ m[f].pc = "cleaning"
        /\ \A g \in Feed \ {f} : m[g] = feed[g]
    BY DEF WallInv, WallTyped, FeedStates
  <2> HIDE DEF m
  <2> QED
    BY <2>1, <2>2 DEF FeedStates
<1>2. /\ entry' \in [Slot -> Feed \union {None}] /\ latest' \in [Slot -> Sub \union {None}]
      /\ \A s \in Slot : entry'[s] = IF entry[s] = f THEN None ELSE entry[s]
      /\ \A s \in Slot : entry[s] = f => latest'[s] = None
      /\ \A s \in Slot : latest'[s] \in {latest[s], None}
  <2>1. \A s \in Slot : entry[s] = f <=> Current(f) /\ s = feed[f].slot
    BY DEF WallInv, WallTyped, EntriesWork, Current
  <2>2. feed[f].slot \in Slot
    BY DEF WallInv, WallTyped, FeedStates
  <2>3. CASE Current(f)
    BY <2>1, <2>2, <2>3 DEF Unwind, Discard, WallInv, WallTyped
  <2>4. CASE ~Current(f)
    BY <2>1, <2>4 DEF Unwind, WallInv, WallTyped
  <2> QED
    BY <2>3, <2>4
<1>3. WallTyped'
  BY <1>1, <1>2 DEF WallInv, WallTyped
<1>4. EntriesWork' /\ FramesCurrent'
  BY <1>1, <1>2 DEF WallInv, WallTyped, EntriesWork, FramesCurrent
<1>5. WorkersKnown'
  BY <1>1, <1>2 DEF WallInv, WallTyped, WorkersKnown, Current, FeedStates
<1>6. PreviewsRun'
  BY <1>1 DEF WallInv, WallTyped, PreviewsRun
<1>7. SlotsDesired'
  BY <1>1, <1>2 DEF WallInv, WallTyped, SlotsDesired
<1> QED
  BY <1>3, <1>4, <1>5, <1>6, <1>7 DEF WallInv

LEMMA FeedStepKeeps ==
  ASSUME WallInv, NEW f \in Feed, FeedStep(f)
  PROVE  WallInv'
<1> USE WallConstants
<1>1. CASE StreamEnds(f) \/ OpeningCancelled(f)
  <2>1. PICK report \in BOOLEAN : Unwind(f, report)
    BY <1>1 DEF StreamEnds, OpeningCancelled, WallInv, WallTyped, FeedStates
  <2> QED
    BY <1>1, <2>1, UnwindKeeps DEF StreamEnds, OpeningCancelled
<1>2. CASE OpenSource(f) /\ \E report \in BOOLEAN : Unwind(f, report)
  BY <1>2, UnwindKeeps DEF OpenSource
<1>3. CASE /\ OpenSource(f) /\ Current(f) /\ feed' = [feed EXCEPT ![f].pc = "streaming"]
           /\ previews' = previews \union {f} /\ UNCHANGED <<entry, latest>>
  <2>1. /\ feed' \in [Feed -> FeedStates] /\ feed'[f].pc = "streaming" /\ feed'[f].slot = feed[f].slot
        /\ feed'[f].sub = feed[f].sub /\ \A g \in Feed \ {f} : feed'[g] = feed[g]
    BY <1>3 DEF WallInv, WallTyped, FeedStates
  <2>2. UNCHANGED <<desired, sync, entry, latest>>
    BY <1>3 DEF OpenSource
  <2>3. WallTyped'
    BY <1>3, <2>1, <2>2 DEF WallInv, WallTyped
  <2>4. EntriesWork' /\ FramesCurrent' /\ SlotsDesired'
    BY <2>1, <2>2 DEF WallInv, WallTyped, EntriesWork, FramesCurrent, SlotsDesired
  <2>5. WorkersKnown' /\ PreviewsRun'
    BY <1>3, <2>1, <2>2 DEF WallInv, WallTyped, WorkersKnown, PreviewsRun, Current
  <2> QED
    BY <2>3, <2>4, <2>5 DEF WallInv
<1>4. CASE Frame(f)
  <2>1. /\ UNCHANGED <<desired, entry, feed, previews, sync>> /\ Current(f)
        /\ latest' = [latest EXCEPT ![feed[f].slot] = feed[f].sub]
    BY <1>4 DEF Frame
  <2>2. WallTyped'
    BY <2>1 DEF WallInv, WallTyped, FeedStates
  <2>3. FramesCurrent'
    BY <2>1 DEF WallInv, WallTyped, FeedStates, FramesCurrent, Current
  <2> QED
    BY <2>1, <2>2, <2>3 DEF WallInv, EntriesWork, WorkersKnown, PreviewsRun, SlotsDesired, Current
<1>5. CASE Cleanup(f)
  <2>1. NoFeed \in FeedStates /\ NoFeed.pc = "none"
    BY DEF NoFeed, FeedStates
  <2>2. /\ feed' \in [Feed -> FeedStates] /\ feed'[f].pc = "none" /\ \A g \in Feed \ {f} : feed'[g] = feed[g]
        /\ previews' = previews \ {f} /\ UNCHANGED <<desired, entry, sync, latest>> /\ feed[f].pc = "cleaning"
    BY <1>5, <2>1 DEF Cleanup, WallInv, WallTyped
  <2>3. \A s \in Slot : entry[s] # f
    BY <2>2 DEF WallInv, EntriesWork
  <2>4. WallTyped'
    BY <2>2 DEF WallInv, WallTyped
  <2>5. EntriesWork' /\ FramesCurrent' /\ SlotsDesired'
    BY <2>2, <2>3 DEF WallInv, WallTyped, EntriesWork, FramesCurrent, SlotsDesired
  <2>6. WorkersKnown' /\ PreviewsRun'
    BY <2>2 DEF WallInv, WallTyped, WorkersKnown, PreviewsRun, Current
  <2> QED
    BY <2>4, <2>5, <2>6 DEF WallInv
<1> QED
  BY <1>1, <1>2, <1>3, <1>4, <1>5 DEF FeedStep, OpenSource

\* There are feeds enough for the slots that miss one.
LEMMA EnoughFeeds ==
  ASSUME NEW S, NEW T, IsFiniteSet(S), IsFiniteSet(T), Cardinality(T) >= Cardinality(S)
  PROVE  Injection(S, T) # {}
<1>1. /\ Cardinality(S) \in Nat /\ ExistsBijection(1 .. Cardinality(S), S)
      /\ Cardinality(T) \in Nat /\ ExistsBijection(1 .. Cardinality(T), T)
  BY FS_CardinalityType
<1>2. ExistsBijection(S, 1 .. Cardinality(S))
  BY <1>1, Fun_ExistsBijSymmetric
<1>3. ExistsInjection(S, 1 .. Cardinality(S)) /\ ExistsInjection(1 .. Cardinality(T), T)
  BY <1>1, <1>2 DEF ExistsBijection, ExistsInjection, Bijection
<1>4. ExistsInjection(1 .. Cardinality(S), 1 .. Cardinality(T))
  BY <1>1, Fun_NatInjLeq
<1>5. ExistsInjection(S, T)
  BY <1>3, <1>4, Fun_ExistsInjTransitive
<1> QED
  BY <1>5 DEF ExistsInjection

LEMMA SyncCreateKeeps ==
  ASSUME WallInv, SyncCreate
  PROVE  WallInv'
<1> USE WallConstants
<1> DEFINE missing == {s \in Slot : desired[s] # None /\ entry[s] = None}
           new == CHOOSE n \in Injection(missing, FreeFeeds) : TRUE
<1>1. /\ Cardinality(FreeFeeds) >= Cardinality(missing)
      /\ entry' = [s \in Slot |-> IF s \in missing THEN new[s] ELSE entry[s]]
      /\ feed' = [f \in Feed |->
           IF \E s \in missing : new[s] = f
             THEN LET s == CHOOSE x \in missing : new[x] = f
                  IN  [pc |-> "opening", slot |-> s, sub |-> desired[s], cancel |-> FALSE]
             ELSE feed[f]]
      /\ sync' = SyncIdle /\ sync.todo = {} /\ UNCHANGED <<desired, previews, latest>>
  BY DEF SyncCreate
<1>2. FreeFeeds \subseteq Feed /\ \A f \in FreeFeeds : feed[f].pc = "none" /\ \A s \in Slot : entry[s] # f
  BY DEF FreeFeeds
<1>3. IsFiniteSet(missing) /\ IsFiniteSet(FreeFeeds)
  BY <1>2, FS_Subset
<1>4. new \in Injection(missing, FreeFeeds)
  <2> HIDE DEF missing
  <2>1. Injection(missing, FreeFeeds) # {}
    BY <1>1, <1>3, EnoughFeeds
  <2> QED
    BY <2>1
<1>5. /\ \A s \in missing : new[s] \in FreeFeeds
      /\ \A s, r \in missing : new[s] = new[r] => s = r
  BY <1>4 DEF Injection, IsInjective
<1>6. missing \subseteq Slot /\ \A s \in Slot : s \in missing <=> desired[s] # None /\ entry[s] = None
  OBVIOUS
<1> HIDE DEF missing, new
<1>7. ASSUME NEW s \in missing
      PROVE  /\ feed'[new[s]] \in FeedStates
             /\ feed'[new[s]].pc = "opening" /\ feed'[new[s]].slot = s /\ feed'[new[s]].sub = desired[s]
             /\ entry'[s] = new[s]
  <2>1. s \in Slot /\ new[s] \in Feed /\ desired[s] \in Sub \union {None}
    BY <1>2, <1>5, <1>6 DEF WallInv, WallTyped
  <2>2. s = CHOOSE x \in missing : new[x] = new[s]
    BY <1>5
  <2>3. feed'[new[s]] = [pc |-> "opening", slot |-> s, sub |-> desired[s], cancel |-> FALSE]
    BY <1>1, <2>1, <2>2
  <2> QED
    BY <1>1, <2>1, <2>3 DEF FeedStates
<1>8. ASSUME NEW f \in Feed, \A s \in missing : new[s] # f
      PROVE  feed'[f] = feed[f]
  BY <1>1, <1>8
<1>9. ASSUME NEW s \in Slot, s \notin missing
      PROVE  /\ entry'[s] = entry[s]
             /\ entry[s] # None => entry[s] \in Feed /\ feed'[entry[s]] = feed[entry[s]]
  <2>1. entry'[s] = entry[s]
    BY <1>1, <1>9
  <2>2. ASSUME entry[s] # None PROVE entry[s] \in Feed /\ feed'[entry[s]] = feed[entry[s]]
    <3>1. entry[s] \in Feed
      BY <2>2 DEF WallInv, WallTyped
    <3>2. \A r \in missing : new[r] # entry[s]
      BY <1>2, <1>5
    <3> QED
      BY <1>8, <3>1, <3>2
  <2> QED
    BY <2>1, <2>2
<1>10. WallTyped'
  <2>1. \A f \in Feed : feed'[f] \in FeedStates
    BY <1>7, <1>8 DEF WallInv, WallTyped
  <2>2. feed' = [f \in Feed |-> feed'[f]]
    BY <1>1
  <2>3. feed' \in [Feed -> FeedStates]
    BY <2>1, <2>2
  <2>4. entry' \in [Slot -> Feed \union {None}]
    BY <1>1, <1>2, <1>5 DEF WallInv, WallTyped
  <2> QED
    BY <1>1, <2>3, <2>4 DEF WallInv, WallTyped, SyncIdle
<1>11. EntriesWork'
  <2> SUFFICES ASSUME NEW s \in Slot, entry'[s] # None
               PROVE  feed'[entry'[s]].pc \in {"opening", "streaming"} /\ feed'[entry'[s]].slot = s
    BY DEF EntriesWork
  <2>1. CASE s \in missing
    BY <1>7, <2>1
  <2>2. CASE s \notin missing
    BY <1>9, <2>2 DEF WallInv, EntriesWork
  <2> QED
    BY <2>1, <2>2
<1>12. WorkersKnown'
  <2> SUFFICES ASSUME NEW f \in Feed, feed'[f].pc \in {"opening", "streaming"}
               PROVE  Current(f)' \/ feed'[f].cancel
    BY DEF WorkersKnown
  <2>1. CASE \E s \in missing : new[s] = f
    <3>1. PICK s \in missing : new[s] = f
      BY <2>1
    <3> QED
      BY <1>7, <3>1 DEF Current
  <2>2. CASE \A s \in missing : new[s] # f
    <3>1. feed'[f] = feed[f]
      BY <1>8, <2>2
    <3>2. Current(f) \/ feed[f].cancel
      BY <3>1 DEF WallInv, WorkersKnown
    <3>3. ASSUME Current(f) PROVE Current(f)'
      <4>1. feed[f].slot \in Slot /\ entry[feed[f].slot] = f /\ f # None
        BY <3>3 DEF Current, WallInv, WallTyped, FeedStates
      <4>2. feed[f].slot \notin missing
        BY <1>6, <4>1
      <4> QED
        <5>1. entry'[feed[f].slot] = f
          BY <1>9, <4>1, <4>2
        <5> QED
          BY <3>1, <3>3, <5>1 DEF Current
    <3> QED
      BY <3>1, <3>2, <3>3
  <2> QED
    BY <2>1, <2>2
<1>13. PreviewsRun'
  <2> SUFFICES ASSUME NEW f \in previews PROVE feed'[f].pc \in {"streaming", "cleaning"}
    BY <1>1 DEF PreviewsRun
  <2>1. f \in Feed /\ feed[f].pc \in {"streaming", "cleaning"}
    BY DEF WallInv, WallTyped, PreviewsRun
  <2>2. \A s \in missing : new[s] # f
    BY <1>2, <1>5, <2>1
  <2> QED
    BY <1>8, <2>1, <2>2
<1>14. FramesCurrent'
  <2> SUFFICES ASSUME NEW s \in Slot, latest[s] # None
               PROVE  entry'[s] # None /\ feed'[entry'[s]].sub = latest[s]
    BY <1>1 DEF FramesCurrent
  <2>1. entry[s] # None /\ feed[entry[s]].sub = latest[s]
    BY DEF WallInv, FramesCurrent
  <2>2. s \notin missing
    BY <1>6, <2>1
  <2> QED
    BY <1>9, <2>1, <2>2
<1>15. SlotsDesired'
  <2>1. sync'.todo = {}
    BY <1>1 DEF SyncIdle
  <2> SUFFICES ASSUME NEW s \in Slot, entry'[s] # None
               PROVE  feed'[entry'[s]].sub = desired[s]
    BY <1>1, <2>1 DEF SlotsDesired
  <2>2. CASE s \in missing
    BY <1>7, <2>2
  <2>3. CASE s \notin missing
    <3>1. sync.todo = {}
      BY <1>1
    <3>2. entry[s] # None => feed[entry[s]].sub = desired[s]
      BY <3>1 DEF WallInv, SlotsDesired
    <3> QED
      BY <1>9, <2>3, <3>2
  <2> QED
    BY <2>2, <2>3
<1> QED
  BY <1>10, <1>11, <1>12, <1>13, <1>14, <1>15 DEF WallInv

LEMMA WallStep == WallInv /\ [WallNext]_wallVars => WallInv'
<1> SUFFICES ASSUME WallInv, [WallNext]_wallVars PROVE WallInv'
  OBVIOUS
<1>1. CASE UNCHANGED wallVars
  <2>1. UNCHANGED <<desired, entry, feed, previews, sync, latest>>
    BY <1>1 DEF wallVars
  <2> QED
    BY <2>1, WallStays DEF WallInv, WallTyped
<1>2. CASE WallNext
  BY <1>2, SyncBeginKeeps, SyncStopKeeps, FeedStepKeeps, QuietKeeps, SyncCreateKeeps, FailKeeps, CloseKeeps
  DEF WallNext
<1> QED
  BY <1>1, <1>2

-----------------------------------------------------------------------------
(* Live viewing as a whole.                                                *)

ViewInv == LiveInv /\ LeaseInv /\ WallInv

LEMMA ViewStart == ViewInit => ViewInv
BY LiveStart, LeaseStart, WallStart DEF ViewInit, ViewInv

\* A step of the whole is a step of each component, or a stutter.
LEMMA ViewStepsAre ==
  ASSUME [ViewNext]_viewVars
  PROVE  [LiveNext]_liveVars /\ [LeaseNext]_leaseVars /\ [WallNext]_wallVars
BY DEF ViewNext, viewVars

LEMMA ViewStep == ViewInv /\ [ViewNext]_viewVars => ViewInv'
BY ViewStepsAre, LiveStep, LeaseStep, WallStep DEF ViewInv

LEMMA ViewInvHolds == ViewSpec => []ViewInv
BY ViewStart, ViewStep, PTL DEF ViewSpec

\* Every open transport is in flight, registered with its live session or about
\* to be cleaned up (media_sessions.py); the table of transcodes stays within
\* its capacity, no lease is on two of them and an unwatched one has its idle
\* timer (live_transcode.py); every ffmpeg preview has the task that stops it
\* (live_preview_wall.py).
THEOREM ResourcesStayHeld == ViewSpec => []LiveResourcesHeld
<1>1. ViewInv => LiveResourcesHeld
  BY LiveInvOwner, LeaseInvHeld, WallInvShows DEF ViewInv, LiveResourcesHeld
<1> QED
  BY <1>1, ViewInvHolds, PTL

\* Between two syncs every feed in the wall's table carries what its slot was
\* asked to show, and no frame of another feed is ever pending, although
\* apply_sync awaits the tasks it stops and feeds end or are revoked meanwhile
\* (live_preview_wall.py).
THEOREM WallStaysDesired == ViewSpec => []WallShowsDesired
<1>1. ViewInv => WallShowsDesired
  BY WallInvShows DEF ViewInv
<1> QED
  BY <1>1, ViewInvHolds, PTL

\* A session that was renewed after its expiry callback fired lives on
\* (media_sessions.py _expire), and so does a transcode that was acquired again
\* after its idle callback fired (live_transcode.py _expire_derivative).
THEOREM UsedStreamsKept == ViewSpec => UsedStreamsStay
<1>1. (ViewInv /\ [ViewNext]_viewVars) =>
        [\A s \in Session : (Live(s) /\ media'[s].st # "live")
            => "current" \in fired[s] \ fired'[s] \/ fired' = fired]_liveVars
  <2> SUFFICES ASSUME ViewInv, LiveNext, NEW s \in Session, Live(s), media'[s].st # "live"
               PROVE  "current" \in fired[s] \ fired'[s] \/ fired' = fired
    BY ViewStepsAre
  <2> QED
    BY SessionSurvives DEF ViewInv
<1>2. (ViewInv /\ [ViewNext]_viewVars) =>
        [\A k \in Profile : deriv[k].alive /\ deriv[k].leases # {} /\ ~StopManager
            => deriv'[k].up]_leaseVars
  <2> SUFFICES ASSUME ViewInv, [LeaseNext]_leaseVars, NEW k \in Profile,
                      deriv[k].alive, deriv[k].leases # {}, ~StopManager
               PROVE  deriv'[k].up
    BY ViewStepsAre
  <2> QED
    BY LeaseStep DEF ViewInv
<1> QED
  BY <1>1, <1>2, ViewInvHolds, PTL DEF ViewSpec, UsedStreamsStay, RenewedSessionSurvives, WatchedTranscodeStays
=============================================================================
