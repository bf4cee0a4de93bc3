-------------------------- MODULE TranscodeLeases ---------------------------
(***************************************************************************)
(* The manager of shared compatibility transcodes (live_transcode.py): one *)
(* ffmpeg process per stream profile, shared by the leases on it, with a   *)
(* timer per lease and an idle timer per unwatched process.                *)
(*                                                                         *)
(* Everything under the manager's lock is one action.  threading.Timer     *)
(* callbacks that have fired but wait for the lock are state: cancelling   *)
(* the timer no longer stops them.  Processes dropped from the table are   *)
(* stopped after the lock has been released.                               *)
(***************************************************************************)
EXTENDS Integers, FiniteSets

CONSTANTS Lease,            \* lease identifiers; free again once released
          Profile,          \* stream profiles, the keys of _derivatives
          MaxDerivatives    \* live_transcode_max_derivatives

ASSUME LeaseConstants == MaxDerivatives \in Nat \ {0} /\ IsFiniteSet(Profile)

VARIABLES
  deriv,      \* _derivatives: entry, process running, leases, idle timer armed
  idleFired,  \* idle callbacks waiting for the lock
  stopping    \* profiles with a process out of the table and not stopped yet

leaseVars == <<deriv, idleFired, stopping>>

NoEntry == [up |-> FALSE, alive |-> FALSE, leases |-> {}, idle |-> FALSE]

LeaseTypeOK ==
  /\ deriv \in [Profile -> [up : BOOLEAN, alive : BOOLEAN,
                            leases : SUBSET Lease, idle : BOOLEAN]]
  /\ idleFired \subseteq Profile /\ stopping \subseteq Profile

LeaseInit ==
  /\ deriv = [k \in Profile |-> NoEntry]
  /\ idleFired = {} /\ stopping = {}

Entries(d) == {k \in Profile : d[k].up}
Leases == UNION {deriv[k].leases : k \in Profile}

\* _drop_entry_locked: the entry goes with its timers and all its leases.
DropEntries(d, out) == [k \in Profile |-> IF k \in out THEN NoEntry ELSE d[k]]

\* _free_idle_capacity_locked: exited processes first, whoever watches them;
\* then, only while the table is full, unwatched entries in some order.
Freed(d) ==
  LET r == DropEntries(d, {k \in Entries(d) : ~d[k].alive})
      idle == {k \in Entries(r) : r[k].leases = {}}
      excess == Cardinality(Entries(r)) - MaxDerivatives + 1
  IN  {DropEntries(r, out) :
         out \in {o \in SUBSET idle :
                    \/ excess <= 0 /\ o = {}
                    \/ excess > 0 /\ Cardinality(o) <= excess
                       /\ (Cardinality(o) = excess \/ o = idle)}}

\* _start_derivative and _wait_online: the process of the preferred encoder, or
\* of the cpu encoder after it, is online before the timeout, or none is.
StartDerivative(d, k, t) ==
  {[d EXCEPT ![k] = [up |-> TRUE, alive |-> TRUE, leases |-> {t}, idle |-> FALSE]], d}

\* The capacity check of acquire, after the idle entries have been freed.
Full(d) == Cardinality(Entries(d)) >= MaxDerivatives

\* acquire, under the lock from the lookup to the new lease.
Acquire(t, k) ==
  /\ t \notin Leases
  /\ \/ /\ deriv[k].up /\ deriv[k].alive
        /\ deriv' = [deriv EXCEPT ![k].leases = @ \union {t}, ![k].idle = FALSE]
     \/ /\ ~(deriv[k].up /\ deriv[k].alive)
        /\ \E d \in Freed(DropEntries(deriv, {k})) :
             deriv' \in IF Full(d) THEN {d}
                        ELSE StartDerivative(d, k, t)
  /\ UNCHANGED <<idleFired, stopping>>

\* release: the last lease of an entry arms its idle timer.
Release(t) ==
  /\ t \in Leases
  /\ deriv' = [k \in Profile |->
       IF t \in deriv[k].leases
         THEN [deriv[k] EXCEPT !.leases = @ \ {t}, !.idle = (deriv[k].leases = {t})]
         ELSE deriv[k]]
  /\ UNCHANGED <<idleFired, stopping>>

\* _expire_lease, at any time: there is no generation check, so a callback that
\* waits for the lock while touch renews the lease releases it all the same.
ExpireLease(t) == Release(t)

\* touch: a lease whose process has exited loses its entry, with every lease
\* on it; the renewal of a lease that is served leaves the table as it is.
Touch(t) ==
  /\ \E k \in Profile : /\ t \in deriv[k].leases /\ ~deriv[k].alive
                        /\ deriv' = DropEntries(deriv, {k})
  /\ UNCHANGED <<idleFired, stopping>>

\* The idle timer scheduled by _schedule_idle_locked fires.
IdleTimerFires(k) ==
  /\ deriv[k].up /\ deriv[k].idle /\ k \notin idleFired
  /\ idleFired' = idleFired \union {k}
  /\ UNCHANGED <<deriv, stopping>>

\* Fault: it does not ask who watches.
ExpireWatched(k) ==
  /\ k \in idleFired \ stopping
  /\ idleFired' = idleFired \ {k}
  /\ IF deriv[k].up
       THEN deriv' = DropEntries(deriv, {k}) /\ stopping' = stopping \union {k}
       ELSE UNCHANGED <<deriv, stopping>>

\* _expire_derivative: nothing when the entry is gone or watched again.
ExpireDerivative(k) ==
  /\ k \in idleFired \ stopping
  /\ idleFired' = idleFired \ {k}
  /\ IF deriv[k].up /\ deriv[k].leases = {}
       THEN deriv' = DropEntries(deriv, {k}) /\ stopping' = stopping \union {k}
       ELSE UNCHANGED <<deriv, stopping>>

\* _stop_process, after the lock.
StopProcess(k) ==
  /\ k \in stopping /\ stopping' = stopping \ {k}
  /\ UNCHANGED <<deriv, idleFired>>

\* ffmpeg exits by itself: nobody is told.
ProcessExits(k) ==
  /\ deriv[k].up /\ deriv[k].alive
  /\ deriv' = [deriv EXCEPT ![k].alive = FALSE]
  /\ UNCHANGED <<idleFired, stopping>>

\* stop, at shutdown: both tables are emptied, the processes stopped after it.
StopManager ==
  /\ Entries(deriv) # {}
  /\ deriv' = [k \in Profile |-> NoEntry]
  /\ stopping' = stopping \union Entries(deriv)
  /\ UNCHANGED idleFired

LeaseNext ==
  \/ \E t \in Lease : \/ Release(t) \/ ExpireLease(t) \/ Touch(t)
                      \/ \E k \in Profile : Acquire(t, k)
  \/ \E k \in Profile : \/ IdleTimerFires(k) \/ ExpireDerivative(k)
                        \/ StopProcess(k) \/ ProcessExits(k)
  \/ StopManager

\* Timers fire and threads that have been started go on.  Nothing is promised
\* about viewers or about the end of an ffmpeg process.
LeaseFairness ==
  \A k \in Profile : /\ WF_leaseVars(IdleTimerFires(k) \/ ExpireDerivative(k))
                     /\ WF_leaseVars(StopProcess(k))

-----------------------------------------------------------------------------
\* The table never holds more transcodes than live_transcode_max_derivatives,
\* and no lease is on two of them, whoever releases, expires or dies.
DerivativesWithinCapacity ==
  /\ Cardinality(Entries(deriv)) <= MaxDerivatives
  /\ \A j, k \in Profile : j # k => deriv[j].leases \intersect deriv[k].leases = {}

\* A transcode nobody watches is on its way out: its idle timer is armed.  An
\* entry that lost its last lease without arming it would run for ever.
IdleTranscodeIsTimed ==
  \A k \in Entries(deriv) : deriv[k].leases = {} => deriv[k].idle

\* A late idle callback never takes a transcode from a viewer who acquired it
\* after the callback fired: a running transcode with leases keeps its entry
\* unless the whole manager stops.
WatchedTranscodeStays ==
  [][\A k \in Profile : deriv[k].alive /\ deriv[k].leases # {} /\ ~StopManager
        => deriv'[k].up]_leaseVars

\* An unwatched transcode is stopped, or somebody watches it again.
IdleTranscodeStops ==
  \A k \in Profile : []<>(deriv[k].up => deriv[k].leases # {})
=============================================================================
