---------------------------- MODULE LoginLimiter ----------------------------
(***************************************************************************)
(* The limiter of failed logins in one API process                         *)
(* (modules/auth/rate_limit.py, called from login in modules/auth/api.py). *)
(* check_login, the password check, and record_login_failure or            *)
(* record_login_success are three steps of a request thread; only the      *)
(* limiter's own steps are under its lock.  All requests here come from    *)
(* one source address.  max_keys is larger than the number of identifiers, *)
(* so that _cap evicts nothing.  The clock is read just before the lock is *)
(* taken; the model reads it under the lock, so a block is not shortened   *)
(* here by the time a thread waits between the two.                        *)
(***************************************************************************)
EXTENDS Naturals, FiniteSets

CONSTANTS
  Identifiers,   \* user names tried
  Threads,       \* request threads of the process
  Window,        \* login_window_seconds, in ticks
  Lockout,       \* login_lockout_seconds, in ticks
  PairLimit,     \* login_pair_limit
  IpLimit,       \* login_ip_limit
  MaxTick        \* bound: the clock

ASSUME LimiterAssumption ==
  /\ {Window, Lockout, PairLimit, IpLimit} \subseteq Nat \ {0}
  /\ Lockout >= Window
  /\ IsFiniteSet(Threads) /\ Threads # {}
  /\ {"source", "none"} \cap Identifiers = {}

VARIABLES
  tick,      \* the monotonic clock
  bucket,    \* _login_pair and _login_ip: the failures remembered
  until,     \* _login_blocked_pair and _login_blocked_ip, 0 for no entry
  judging,   \* per thread: the identifier whose password is being checked
  guesses    \* history: the wrong guesses judged

limiterVars == <<tick, bucket, until, judging, guesses>>

\* The key of the source address beside those of the identifiers.
Source == "source"
BucketKeys == Identifiers \cup {Source}

LimiterInit ==
  /\ tick = 1 /\ bucket = [k \in BucketKeys |-> {}]
  /\ until = [k \in BucketKeys |-> 0]
  /\ judging = [t \in Threads |-> "none"]
  /\ guesses = [k \in BucketKeys |-> {}]

LimitOf(k) == IF k = Source THEN IpLimit ELSE PairLimit

\* A failure is its time and its number among those of one instant: a bucket is
\* pruned and counted, never read in order.
AtTick(failures) == {f \in failures : f[1] = tick}
NewFailure(k) == <<tick, 1 + Cardinality(AtTick(guesses[k]))>>

\* _prune
Pruned(failures) == {f \in failures : f[1] + Window > tick}

Blocked(i) == until[i] > tick \/ until[Source] > tick

\* check_login: a block that is over is forgotten, and its failures with it.
Expired(i) == {k \in {i, Source} : until[k] # 0}

CheckLogin(t, i) ==
  /\ judging[t] = "none" /\ ~Blocked(i)
  /\ until' = [k \in BucketKeys |-> IF k \in Expired(i) THEN 0 ELSE until[k]]
  /\ bucket' = [k \in BucketKeys |-> IF k \in Expired(i) THEN {} ELSE bucket[k]]
  /\ judging' = [judging EXCEPT ![t] = i]
  /\ UNCHANGED <<tick, guesses>>

\* Fault: one failure too many.
FullLate(k, failures) == Cardinality(failures) > LimitOf(k)

\* record_login_failure: the bucket that is full blocks its key anew, even
\* while it is blocked.
Full(k, failures) == Cardinality(failures) >= LimitOf(k)

RecordLoginFailure(t) ==
  LET i == judging[t]
      added(k, failures) == Pruned(failures) \cup {NewFailure(k)}
  IN /\ i # "none"
     /\ bucket' = [k \in BucketKeys |->
          IF k \in {i, Source} THEN added(k, bucket[k]) ELSE bucket[k]]
     /\ until' = [k \in BucketKeys |->
          IF k \in {i, Source} /\ Full(k, added(k, bucket[k]))
          THEN tick + Lockout ELSE until[k]]
     /\ guesses' = [k \in BucketKeys |->
          IF k \in {i, Source} THEN added(k, guesses[k]) ELSE Pruned(guesses[k])]
     /\ judging' = [judging EXCEPT ![t] = "none"]
     /\ UNCHANGED tick

\* record_login_success forgets the failures of the pair, a block that was
\* set since this request was checked included; not those of the address.
RecordLoginSuccess(t) ==
  LET i == judging[t] IN
  /\ i # "none"
  /\ bucket' = [bucket EXCEPT ![i] = {}]
  /\ until' = [until EXCEPT ![i] = 0]
  /\ guesses' = [guesses EXCEPT ![i] = {}]
  /\ judging' = [judging EXCEPT ![t] = "none"]
  /\ UNCHANGED tick

Tick ==
  /\ tick < MaxTick /\ tick' = tick + 1
  /\ UNCHANGED <<bucket, until, judging, guesses>>

LimiterNext ==
  \/ \E t \in Threads : \/ \E i \in Identifiers : CheckLogin(t, i)
                        \/ RecordLoginFailure(t) \/ RecordLoginSuccess(t)
  \/ Tick

LimiterSpec == LimiterInit /\ [][LimiterNext]_limiterVars

-----------------------------------------------------------------------------
(* However threads interleave and blocks expire, the wrong guesses judged  *)
(* within one window, for one name since its last success or from one      *)
(* address, exceed the limit at most by two for every other thread: one    *)
(* that passed the check before the block was set, and one that was        *)
(* recorded when the block was over and forgotten by the next check.       *)
GuessesBounded ==
  \A k \in BucketKeys :
    Cardinality(Pruned(guesses[k])) <= LimitOf(k) + 2 * (Cardinality(Threads) - 1)

=============================================================================
