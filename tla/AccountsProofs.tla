--------------------------- MODULE AccountsProofs ---------------------------
(***************************************************************************)
(* Proofs about accounts, the commands of the host, camera groups and the  *)
(* limiter of failed logins: that an administrator remains, that sessions  *)
(* end with the password or the deactivation they belong to, that secrets  *)
(* stay readable, that no deployment is stranded, that groups stay a tree  *)
(* whose deletions widen nobody's access, and that guesses stay bounded.   *)
(***************************************************************************)
EXTENDS Accounts, HostOperations, CameraGroups, LoginLimiter, FiniteSetTheorems, TLAPS

Roles == {"Administrator", "Custom"}
Removals == {"disable", "demote"}
Closers == {"change", "complete", "disable"}

AccountsTypeOK ==
  /\ account \in [Users -> [exists : BOOLEAN, enabled : BOOLEAN,
                            roles : SUBSET Roles, era : Nat]]
  /\ sess \in [SessionIds -> [user : Users, live : BOOLEAN, era : Nat]]
  /\ straddled \subseteq SessionIds
  /\ reset \in [ResetIds -> [user : Users, at : {"free", "queued", "known", "used"}]]
  /\ req \in [Requests -> [op : {"none", "login"} \cup Removals \cup Closers,
                           user : Users, era : Nat, seen : SUBSET SessionIds,
                           during : SUBSET SessionIds, row : Nat,
                           overlap : BOOLEAN]]
  /\ miscounted \in BOOLEAN

\* Only rows that exist are enabled, have a role, a session or a request.
RowsExist ==
  /\ \A u \in Users : account[u].enabled => account[u].exists
  /\ \A u \in Users : account[u].roles # {} => account[u].exists
  /\ \A s \in SessionIds : sess[s].live => account[sess[s].user].exists
  /\ \A r \in Requests : req[r].op # "none" => account[req[r].user].exists

\* A removal under way, which no other one has overtaken, leaves somebody.
RemovalLeavesOne ==
  \A r \in Requests : req[r].op \in Removals /\ ~miscounted /\ ~req[r].overlap
    => \E v \in Administrators : v # req[r].user

\* A request that will end the sessions of its account has seen each of them,
\* except those opened since.
OpenedOrSeen ==
  \A r \in Requests : req[r].op \in Closers =>
    \A s \in SessionIds : sess[s].live /\ sess[s].user = req[r].user
      => s \in req[r].seen \cup req[r].during

\* SessionsFollowAccount of every session that is not revoked, of a disabled
\* user too.
LiveSessionsFollow ==
  \A s \in SessionIds : sess[s].live =>
    s \in straddled \/ sess[s].era = account[sess[s].user].era

AccountsInv ==
  /\ AccountsTypeOK /\ RowsExist /\ RemovalLeavesOne /\ AdministratorRemains
  /\ OpenedOrSeen /\ LiveSessionsFollow

LEMMA AccountsInvSessions == AccountsInv => SessionsFollowAccount
BY DEF AccountsInv, LiveSessionsFollow, SessionsFollowAccount, Resolves

\* The guard leaves another administrator, if anybody acts at all.
LEMMA GuardLeavesOne ==
  ASSUME AccountsInv, NEW u \in Users, GuardLastAdministrator(u), ActsAsManager,
         ~miscounted
  PROVE  \E v \in Administrators : v # u
<1>1. Administrators # {}
  <2>1. PICK m \in Users : Manages(m)
    BY DEF ActsAsManager
  <2>2. account[m].roles # {}
    BY <2>1 DEF Manages
  <2>3. account[m].exists
    BY <2>2 DEF AccountsInv, RowsExist
  <2> QED
    BY <2>3 DEF AccountsInv, AdministratorRemains
<1>2. CASE u \notin Administrators
  BY <1>1, <1>2
<1>3. CASE u \in Administrators
  <2>1. Cardinality(Administrators) > 1
    BY <1>3 DEF GuardLastAdministrator
  <2>2. IsFiniteSet(Administrators)
    BY AccountsAssumption, FS_Subset DEF Administrators
  <2>3. Administrators # {u}
    BY <2>1, <2>2, FS_Singleton
  <2> QED
    BY <1>3, <2>3
<1> QED
  BY <1>2, <1>3

\* The row of a request, and what a request that ended leaves.
Call == [op : {"none", "login"} \cup Removals \cup Closers, user : Users, era : Nat,
         seen : SUBSET SessionIds, during : SUBSET SessionIds, row : Nat,
         overlap : BOOLEAN]

LEMMA NoCallTyped == NoCall \in Call /\ NoCall.op = "none"
<1>1. (CHOOSE v \in Users : TRUE) \in Users
  BY AccountsAssumption
<1> QED
  BY <1>1 DEF NoCall, Call

LEMMA NoSessionTyped ==
  NoSession \in [user : Users, live : BOOLEAN, era : Nat] /\ ~NoSession.live
<1>1. (CHOOSE v \in Users : TRUE) \in Users
  BY AccountsAssumption
<1> QED
  BY <1>1 DEF NoSession

LEMMA AnsweredTyped ==
  ASSUME AccountsTypeOK, NEW r \in Requests
  PROVE  /\ Answered(r) \in [Requests -> Call] /\ Answered(r)[r] = NoCall
         /\ \A q \in Requests \ {r} : Answered(r)[q] = req[q]
BY NoCallTyped DEF Answered, AccountsTypeOK, Call

\* The session opened at the commit of r is missed by the other requests.
LEMMA MissedTyped ==
  ASSUME AccountsTypeOK, NEW r \in Requests, NEW s \in SessionIds, NEW u \in Users,
         req' = Missed(Answered(r), s, u)
  PROVE  /\ req' \in [Requests -> Call] /\ req'[r] = NoCall
         /\ \A q \in Requests \ {r} :
              /\ req'[q].op = req[q].op /\ req'[q].user = req[q].user
              /\ req'[q].seen = req[q].seen /\ req'[q].overlap = req[q].overlap
              /\ req[q].during \subseteq req'[q].during
              /\ req[q].op # "none" /\ req[q].user = u => s \in req'[q].during
<1> DEFINE rs == Answered(r)
<1>1. /\ rs \in [Requests -> Call] /\ rs[r] = NoCall
      /\ \A q \in Requests \ {r} : rs[q] = req[q]
  BY AnsweredTyped
<1> HIDE DEF rs
<1>2. req' = [q \in Requests |-> IF rs[q].op # "none" /\ rs[q].user = u
                THEN [rs[q] EXCEPT !.during = @ \cup {s}] ELSE rs[q]]
  BY DEF Missed, rs
<1>3. ASSUME NEW q \in Requests
      PROVE  /\ req'[q] \in Call
             /\ rs[q].op = "none" => req'[q] = rs[q]
             /\ req'[q].op = rs[q].op /\ req'[q].user = rs[q].user
             /\ req'[q].seen = rs[q].seen /\ req'[q].overlap = rs[q].overlap
             /\ rs[q].during \subseteq req'[q].during
             /\ rs[q].op # "none" /\ rs[q].user = u => s \in req'[q].during
  <2>1. rs[q] \in Call
    BY <1>1
  <2>2. CASE rs[q].op # "none" /\ rs[q].user = u
    BY <1>2, <2>1, <2>2 DEF Call
  <2>3. CASE ~(rs[q].op # "none" /\ rs[q].user = u)
    BY <1>2, <2>1, <2>3
  <2> QED
    BY <2>2, <2>3
<1>4. req' \in [Requests -> Call]
  BY <1>2, <1>3
<1> QED
  BY <1>1, <1>3, <1>4, NoCallTyped

LEMMA RevokedTyped ==
  ASSUME AccountsTypeOK, NEW ids \in SUBSET SessionIds
  PROVE  /\ Revoked(sess, ids) \in [SessionIds -> [user : Users, live : BOOLEAN, era : Nat]]
         /\ \A s \in ids : ~Revoked(sess, ids)[s].live
         /\ \A s \in SessionIds \ ids : Revoked(sess, ids)[s] = sess[s]
BY NoSessionTyped DEF Revoked, AccountsTypeOK

\* What a change of the password, or one that enables or disables, makes of a row.
LEMMA EraTyped ==
  ASSUME AccountsTypeOK, NEW u \in Users, NEW on \in BOOLEAN,
         account' = [account EXCEPT ![u].era = NextEra(u), ![u].enabled = on]
  PROVE  /\ account' \in [Users -> [exists : BOOLEAN, enabled : BOOLEAN,
                                    roles : SUBSET Roles, era : Nat]]
         /\ \A v \in Users \ {u} : account'[v] = account[v]
         /\ account'[u].exists = account[u].exists /\ account'[u].enabled = on
         /\ account'[u].roles = account[u].roles /\ account'[u].era = account[u].era + 1
<1> DEFINE Row == [exists : BOOLEAN, enabled : BOOLEAN, roles : SUBSET Roles, era : Nat]
           mid == [account EXCEPT ![u].era = NextEra(u)]
<1>1. account \in [Users -> Row] /\ NextEra(u) \in Nat
  BY DEF AccountsTypeOK, NextEra
<1>2. /\ mid \in [Users -> Row] /\ \A v \in Users \ {u} : mid[v] = account[v]
      /\ mid[u].exists = account[u].exists /\ mid[u].roles = account[u].roles
      /\ mid[u].era = NextEra(u)
  BY <1>1
<1>3. account' = [mid EXCEPT ![u].enabled = on]
  OBVIOUS
<1> HIDE DEF mid
<1>4. /\ account' \in [Users -> Row] /\ \A v \in Users \ {u} : account'[v] = mid[v]
      /\ account'[u].exists = mid[u].exists /\ account'[u].enabled = on
      /\ account'[u].roles = mid[u].roles /\ account'[u].era = mid[u].era
  <2>1. account' = [mid EXCEPT ![u] = [mid[u] EXCEPT !.enabled = on]]
    BY <1>3
  <2>2. mid[u] \in Row
    BY <1>2
  <2> DEFINE row == [mid[u] EXCEPT !.enabled = on]
  <2>3. /\ row \in Row /\ row.exists = mid[u].exists /\ row.enabled = on
        /\ row.roles = mid[u].roles /\ row.era = mid[u].era
    BY <2>2
  <2>4. account' = [mid EXCEPT ![u] = row]
    BY <2>1
  <2> HIDE DEF row
  <2> QED
    BY <1>2, <2>3, <2>4
<1> QED
  BY <1>2, <1>4 DEF NextEra

LEMMA DisabledTyped ==
  ASSUME AccountsTypeOK, NEW u \in Users,
         account' = [account EXCEPT ![u].enabled = FALSE, ![u].era = NextEra(u)]
  PROVE  /\ account' \in [Users -> [exists : BOOLEAN, enabled : BOOLEAN,
                                    roles : SUBSET Roles, era : Nat]]
         /\ \A v \in Users \ {u} : account'[v] = account[v]
         /\ account'[u].exists = account[u].exists /\ ~account'[u].enabled
         /\ account'[u].roles = account[u].roles /\ account'[u].era = account[u].era + 1
<1> DEFINE Row == [exists : BOOLEAN, enabled : BOOLEAN, roles : SUBSET Roles, era : Nat]
           row == [account[u] EXCEPT !.enabled = FALSE]
           mid == [account EXCEPT ![u] = row]
<1>1. account \in [Users -> Row] /\ NextEra(u) \in Nat /\ account[u] \in Row
  BY DEF AccountsTypeOK, NextEra
<1>2. /\ row \in Row /\ row.exists = account[u].exists /\ row.enabled = FALSE
      /\ row.roles = account[u].roles
  BY <1>1
<1>3. account' = [mid EXCEPT ![u].era = NextEra(u)]
  OBVIOUS
<1> HIDE DEF row
<1>4. mid \in [Users -> Row] /\ mid[u] = row /\ \A v \in Users \ {u} : mid[v] = account[v]
  BY <1>1, <1>2
<1> HIDE DEF mid
<1>5. /\ account' \in [Users -> Row] /\ \A v \in Users \ {u} : account'[v] = mid[v]
      /\ account'[u].exists = mid[u].exists /\ account'[u].enabled = mid[u].enabled
      /\ account'[u].roles = mid[u].roles /\ account'[u].era = NextEra(u)
  <2> DEFINE last == [mid[u] EXCEPT !.era = NextEra(u)]
  <2>1. mid[u] \in Row
    BY <1>4
  <2>2. /\ last \in Row /\ last.exists = mid[u].exists /\ last.enabled = mid[u].enabled
        /\ last.roles = mid[u].roles /\ last.era = NextEra(u)
    BY <1>1, <2>1
  <2>3. account' = [mid EXCEPT ![u] = last]
    BY <1>3
  <2> HIDE DEF last
  <2> QED
    BY <1>4, <2>2, <2>3
<1> QED
  BY <1>2, <1>4, <1>5 DEF NextEra

LEMMA PasswordTyped ==
  ASSUME AccountsTypeOK, NEW u \in Users,
         account' = [account EXCEPT ![u].era = NextEra(u)]
  PROVE  /\ account' \in [Users -> [exists : BOOLEAN, enabled : BOOLEAN,
                                    roles : SUBSET Roles, era : Nat]]
         /\ \A v \in Users \ {u} : account'[v] = account[v]
         /\ account'[u].exists = account[u].exists /\ account'[u].enabled = account[u].enabled
         /\ account'[u].roles = account[u].roles /\ account'[u].era = NextEra(u)
<1>1. NextEra(u) \in Nat
  BY DEF AccountsTypeOK, NextEra
<1> DEFINE Row == [exists : BOOLEAN, enabled : BOOLEAN, roles : SUBSET Roles, era : Nat]
<1>2. account \in [Users -> Row]
  BY DEF AccountsTypeOK
<1> QED
  BY <1>1, <1>2

LEMMA AccountsStart == AccountsInit => AccountsInv
<1> SUFFICES ASSUME AccountsInit PROVE AccountsInv
  OBVIOUS
<1> USE AccountsAssumption DEF AccountsInit, NoUser, NoSession, NoReset, NoCall
<1>1. AccountsTypeOK
  <2>1. (CHOOSE u \in Users : TRUE) \in Users
    OBVIOUS
  <2> QED
    BY <2>1 DEF AccountsTypeOK, Roles, Removals, Closers
<1>2. RowsExist /\ AdministratorRemains /\ LiveSessionsFollow
  BY DEF RowsExist, AdministratorRemains, LiveSessionsFollow
<1>3. RemovalLeavesOne /\ OpenedOrSeen
  BY DEF RemovalLeavesOne, OpenedOrSeen, Removals, Closers
<1> QED
  BY <1>1, <1>2, <1>3 DEF AccountsInv

\* A step about tokens, roles or reset rows.
LEMMA ElsewhereKeeps ==
  ASSUME AccountsInv, UNCHANGED <<account, sess, straddled, req, miscounted>>,
         reset' \in [ResetIds -> [user : Users, at : {"free", "queued", "known", "used"}]]
  PROVE  AccountsInv'
BY DEF AccountsInv, AccountsTypeOK, RowsExist, RemovalLeavesOne, AdministratorRemains,
       OpenedOrSeen, LiveSessionsFollow, Administrators

\* A row is created, enabled or gets a role.
LEMMA GrowKeeps ==
  ASSUME AccountsInv, NEW u \in Users,
         NEW rec \in [exists : BOOLEAN, enabled : BOOLEAN, roles : SUBSET Roles, era : Nat],
         account' = [account EXCEPT ![u] = rec], rec.exists,
         account[u].exists => rec.era = account[u].era,
         u \in Administrators => rec.enabled /\ "Administrator" \in rec.roles,
         ~miscounted =>
           Administrators # {} \/ (rec.enabled /\ "Administrator" \in rec.roles),
         UNCHANGED <<sess, straddled, reset, req, miscounted>>
  PROVE  AccountsInv'
<1> USE DEF AccountsInv
<1>1. AccountsTypeOK'
  BY DEF AccountsTypeOK
<1>2. account'[u] = rec /\ \A v \in Users \ {u} : account'[v] = account[v]
  BY DEF AccountsTypeOK
<1>3. RowsExist'
  BY <1>2 DEF RowsExist, AccountsTypeOK
<1>4. Administrators \subseteq Administrators'
  BY <1>2 DEF Administrators
<1>5. AdministratorRemains'
  BY <1>2, <1>4 DEF AdministratorRemains, Administrators
<1>6. RemovalLeavesOne'
  BY <1>4 DEF RemovalLeavesOne
<1>7. OpenedOrSeen'
  BY DEF OpenedOrSeen
<1>8. LiveSessionsFollow'
  <2> SUFFICES ASSUME NEW s \in SessionIds, sess[s].live
               PROVE  s \in straddled \/ sess[s].era = account'[sess[s].user].era
    BY DEF LiveSessionsFollow
  <2>1. sess[s].user \in Users
    BY DEF AccountsTypeOK
  <2>2. account[sess[s].user].exists
    BY DEF RowsExist
  <2>3. account'[sess[s].user].era = account[sess[s].user].era
    BY <1>2, <2>1, <2>2
  <2> QED
    BY <2>3 DEF LiveSessionsFollow
<1> QED
  BY <1>1, <1>3, <1>5, <1>6, <1>7, <1>8

\* A request has read what it needs.
LEMMA AskedKeeps ==
  ASSUME AccountsInv, NEW r \in Requests, NEW u \in Users,
         NEW op \in {"login"} \cup Removals \cup Closers, NEW seen \in SUBSET SessionIds,
         Asked(r, op, u, seen), account[u].exists,
         op \in Closers => seen = SessionsOf(u),
         op \in Removals /\ ~miscounted => \E v \in Administrators : v # u,
         UNCHANGED <<account, sess, straddled, reset, miscounted>>
  PROVE  AccountsInv'
<1> USE DEF AccountsInv
<1>1. NoCall \in [op : {"none"}, user : Users, era : Nat, seen : SUBSET SessionIds,
                  during : SUBSET SessionIds, row : Nat, overlap : BOOLEAN]
  <2>1. (CHOOSE v \in Users : TRUE) \in Users
    BY AccountsAssumption
  <2> QED
    BY <2>1 DEF NoCall
<1> DEFINE call == [NoCall EXCEPT !.op = op, !.user = u, !.era = account[u].era, !.seen = seen]
<1>9. account[u].era \in Nat
  BY DEF AccountsTypeOK
<1>10. /\ call \in [op : {"none", "login"} \cup Removals \cup Closers,
                    user : Users, era : Nat, seen : SUBSET SessionIds,
                    during : SUBSET SessionIds, row : Nat, overlap : BOOLEAN]
       /\ call.op = op /\ call.user = u /\ call.seen = seen
  BY <1>1, <1>9
<1>11. req' = [req EXCEPT ![r] = call]
  BY DEF Asked
<1> HIDE DEF call
<1>2. AccountsTypeOK'
  BY <1>10, <1>11 DEF AccountsTypeOK
<1>3. /\ req'[r].op = op /\ req'[r].user = u /\ req'[r].seen = seen
      /\ \A q \in Requests \ {r} : req'[q] = req[q]
  BY <1>10, <1>11 DEF AccountsTypeOK
<1>4. RowsExist'
  BY <1>3 DEF RowsExist, AccountsTypeOK
<1>5. Administrators' = Administrators
  BY DEF Administrators
<1>6. RemovalLeavesOne' /\ AdministratorRemains'
  BY <1>3, <1>5 DEF RemovalLeavesOne, AdministratorRemains
<1>7. OpenedOrSeen'
  BY <1>3 DEF OpenedOrSeen, SessionsOf
<1>8. LiveSessionsFollow'
  BY DEF LiveSessionsFollow
<1> QED
  BY <1>2, <1>4, <1>6, <1>7, <1>8

\* A session ends by itself.
LEMMA EndKeeps ==
  ASSUME AccountsInv, NEW s \in SessionIds,
         sess' = Revoked(sess, {s}), straddled' = straddled \ {s},
         UNCHANGED <<account, reset, req, miscounted>>
  PROVE  AccountsInv'
<1> USE DEF AccountsInv
<1>1. /\ sess' \in [SessionIds -> [user : Users, live : BOOLEAN, era : Nat]]
      /\ ~sess'[s].live /\ \A t \in SessionIds \ {s} : sess'[t] = sess[t]
  BY RevokedTyped
<1>2. AccountsTypeOK'
  BY <1>1 DEF AccountsTypeOK
<1>3. RowsExist'
  BY <1>1 DEF RowsExist
<1>4. RemovalLeavesOne' /\ AdministratorRemains'
  BY DEF RemovalLeavesOne, AdministratorRemains, Administrators
<1>5. OpenedOrSeen' /\ LiveSessionsFollow'
  BY <1>1 DEF OpenedOrSeen, LiveSessionsFollow
<1> QED
  BY <1>2, <1>3, <1>4, <1>5

\* The host sets a password: every session of the user ends in the same step.
LEMMA CliResetKeeps ==
  ASSUME AccountsInv, NEW u \in Users, CliReset(u)
  PROVE  AccountsInv'
<1> USE DEF AccountsInv
<1>1. /\ sess' \in [SessionIds -> [user : Users, live : BOOLEAN, era : Nat]]
      /\ \A t \in SessionsOf(u) : ~sess'[t].live
      /\ \A t \in SessionIds \ SessionsOf(u) : sess'[t] = sess[t]
  BY RevokedTyped DEF CliReset, SessionsOf
<1>2. /\ account' \in [Users -> [exists : BOOLEAN, enabled : BOOLEAN,
                                 roles : SUBSET Roles, era : Nat]]
      /\ \A v \in Users \ {u} : account'[v] = account[v]
      /\ account'[u].exists /\ account'[u].enabled
      /\ account'[u].roles = account[u].roles
  BY EraTyped DEF CliReset, RowsExist, AccountsTypeOK
<1>3. AccountsTypeOK'
  BY <1>1, <1>2 DEF AccountsTypeOK, CliReset
<1>4. RowsExist'
  BY <1>1, <1>2 DEF RowsExist, CliReset, AccountsTypeOK
<1>5. Administrators \subseteq Administrators'
  BY <1>2 DEF Administrators
<1>6. RemovalLeavesOne'
  BY <1>5 DEF RemovalLeavesOne, CliReset
<1>7. AdministratorRemains'
  BY <1>5, <1>2 DEF AdministratorRemains, CliReset
<1>8. OpenedOrSeen'
  BY <1>1 DEF OpenedOrSeen, CliReset
<1>9. LiveSessionsFollow'
  <2> SUFFICES ASSUME NEW t \in SessionIds, sess'[t].live
               PROVE  t \in straddled' \/ sess'[t].era = account'[sess'[t].user].era
    BY DEF LiveSessionsFollow
  <2>1. t \notin SessionsOf(u) /\ sess'[t] = sess[t]
    BY <1>1
  <2>2. sess[t].user # u /\ sess[t].user \in Users
    BY <2>1 DEF SessionsOf, AccountsTypeOK
  <2>3. t \in straddled => t \in straddled'
    BY <2>1 DEF CliReset
  <2> QED
    BY <1>2, <2>1, <2>2, <2>3 DEF LiveSessionsFollow
<1> QED
  BY <1>3, <1>4, <1>6, <1>7, <1>8, <1>9

\* A session opens with the password read before.
LEMMA LoginCommitKeeps ==
  ASSUME AccountsInv, NEW r \in Requests, NEW s \in SessionIds, LoginCommit(r, s)
  PROVE  AccountsInv'
<1> USE DEF AccountsInv
<1> DEFINE u == req[r].user
<1>1. u \in Users /\ req[r].era \in Nat /\ account[u].exists /\ req[r].op = "login"
  BY DEF AccountsTypeOK, RowsExist, LoginCommit
<1>2. /\ req' \in [Requests -> Call] /\ req'[r] = NoCall
      /\ \A q \in Requests \ {r} :
           /\ req'[q].op = req[q].op /\ req'[q].user = req[q].user
           /\ req'[q].seen = req[q].seen /\ req'[q].overlap = req[q].overlap
           /\ req[q].during \subseteq req'[q].during
           /\ req[q].op # "none" /\ req[q].user = u => s \in req'[q].during
  BY <1>1, MissedTyped DEF LoginCommit
<1>3. /\ sess' \in [SessionIds -> [user : Users, live : BOOLEAN, era : Nat]]
      /\ sess'[s].user = u /\ sess'[s].era = req[r].era
      /\ \A t \in SessionIds \ {s} : sess'[t] = sess[t]
  BY <1>1 DEF LoginCommit, Opened, AccountsTypeOK
<1>4. /\ straddled' \subseteq SessionIds
      /\ \A t \in SessionIds \ {s} : t \in straddled => t \in straddled'
      /\ req[r].era # account[u].era => s \in straddled'
  BY DEF LoginCommit, AccountsTypeOK
<1>5. UNCHANGED <<account, reset, miscounted>>
  BY DEF LoginCommit
<1> HIDE DEF u
<1>6. AccountsTypeOK'
  BY <1>2, <1>3, <1>4, <1>5 DEF AccountsTypeOK, Call
<1>7. RowsExist'
  BY <1>1, <1>2, <1>3, <1>5, NoCallTyped DEF RowsExist
<1>8. RemovalLeavesOne' /\ AdministratorRemains'
  BY <1>2, <1>5, NoCallTyped DEF RemovalLeavesOne, AdministratorRemains, Administrators, Removals
<1>9. OpenedOrSeen'
  <2> SUFFICES ASSUME NEW q \in Requests, req'[q].op \in Closers,
                      NEW t \in SessionIds, sess'[t].live, sess'[t].user = req'[q].user
               PROVE  t \in req'[q].seen \cup req'[q].during
    BY DEF OpenedOrSeen
  <2>1. q # r
    BY <1>2, NoCallTyped DEF Closers
  <2>2. CASE t = s
    BY <1>2, <1>3, <2>1, <2>2 DEF Closers
  <2>3. CASE t # s
    BY <1>2, <1>3, <2>1, <2>3 DEF OpenedOrSeen
  <2> QED
    BY <2>2, <2>3
<1>10. LiveSessionsFollow'
  BY <1>3, <1>4, <1>5 DEF LiveSessionsFollow
<1> QED
  BY <1>6, <1>7, <1>8, <1>9, <1>10

\* The commit of a request that ends the sessions of u: those it saw are revoked,
\* those opened meanwhile are straddled, and it may open new ones itself.
LEMMA ClosingKeeps ==
  ASSUME AccountsInv, NEW r \in Requests, req[r].op \in Closers,
         NEW u \in Users, u = req[r].user, NEW new \in SUBSET SessionIds,
         \A v \in Users \ {u} : account'[v] = account[v],
         account'[u].exists = account[u].exists, account'[u].roles = account[u].roles,
         \A t \in new : sess'[t].user = u /\ sess'[t].era = account'[u].era,
         \A t \in req[r].seen \ new : ~sess'[t].live,
         \A t \in SessionIds \ (req[r].seen \cup new) : sess'[t] = sess[t],
         \A t \in (straddled \ req[r].seen) \cup req[r].during : t \in new \/ t \in straddled',
         req'[r] = NoCall,
         \A q \in Requests \ {r} :
           /\ req'[q].op = req[q].op /\ req'[q].user = req[q].user
           /\ req'[q].seen = req[q].seen /\ req[q].during \subseteq req'[q].during
           /\ req[q].op # "none" /\ req[q].user = u => new \subseteq req'[q].during
  PROVE  RowsExist' /\ OpenedOrSeen' /\ LiveSessionsFollow'
<1> USE DEF AccountsInv
<1>1. account[u].exists
  BY DEF RowsExist, Closers
<1>2. RowsExist'
  <2>1. \A v \in Users : account'[v].exists = account[v].exists /\ account'[v].roles = account[v].roles
    OBVIOUS
  <2>2. \A v \in Users : account'[v].enabled => account'[v].exists
    BY <1>1 DEF RowsExist
  <2>3. \A v \in Users : account'[v].roles # {} => account'[v].exists
    BY <2>1 DEF RowsExist
  <2>4. \A t \in SessionIds : sess'[t].live => account'[sess'[t].user].exists
    <3> SUFFICES ASSUME NEW t \in SessionIds, sess'[t].live PROVE account'[sess'[t].user].exists
      OBVIOUS
    <3>1. CASE t \in new
      BY <1>1, <2>1, <3>1
    <3>2. CASE t \notin new
      <4>1. sess'[t] = sess[t] /\ sess[t].user \in Users
        BY <3>2 DEF AccountsTypeOK
      <4> QED
        BY <2>1, <4>1 DEF RowsExist
    <3> QED
      BY <3>1, <3>2
  <2>5. \A q \in Requests : req'[q].op # "none" => account'[req'[q].user].exists
    <3> SUFFICES ASSUME NEW q \in Requests, req'[q].op # "none" PROVE account'[req'[q].user].exists
      OBVIOUS
    <3>1. q # r
      BY NoCallTyped
    <3>2. req[q].user \in Users
      BY DEF AccountsTypeOK
    <3> QED
      BY <2>1, <3>1, <3>2 DEF RowsExist
  <2> QED
    BY <2>2, <2>3, <2>4, <2>5 DEF RowsExist
<1>3. OpenedOrSeen'
  <2> SUFFICES ASSUME NEW q \in Requests, req'[q].op \in Closers,
                      NEW t \in SessionIds, sess'[t].live, sess'[t].user = req'[q].user
               PROVE  t \in req'[q].seen \cup req'[q].during
    BY DEF OpenedOrSeen
  <2>1. q # r
    BY NoCallTyped DEF Closers
  <2>2. CASE t \in new
    BY <2>1, <2>2 DEF Closers
  <2>3. CASE t \notin new
    <3>1. sess'[t] = sess[t]
      BY <2>3
    <3> QED
      BY <2>1, <3>1 DEF OpenedOrSeen
  <2> QED
    BY <2>2, <2>3
<1>4. LiveSessionsFollow'
  <2> SUFFICES ASSUME NEW t \in SessionIds, sess'[t].live
               PROVE  t \in straddled' \/ sess'[t].era = account'[sess'[t].user].era
    BY DEF LiveSessionsFollow
  <2>1. CASE t \in new
    BY <2>1
  <2>2. CASE t \notin new
    <3>1. sess'[t] = sess[t] /\ t \notin req[r].seen /\ sess[t].user \in Users
      BY <2>2 DEF AccountsTypeOK
    <3>2. CASE sess[t].user = u
      <4>1. t \in req[r].during
        BY <3>1, <3>2 DEF OpenedOrSeen
      <4> QED
        BY <2>2, <4>1
    <3>3. CASE sess[t].user # u
      BY <2>2, <3>1, <3>3 DEF LiveSessionsFollow
    <3> QED
      BY <3>2, <3>3
  <2> QED
    BY <2>1, <2>2
<1> QED
  BY <1>2, <1>3, <1>4

LEMMA ChangeCommitKeeps ==
  ASSUME AccountsInv, NEW r \in Requests, NEW s \in SessionIds, ChangeCommit(r, s)
  PROVE  AccountsInv'
<1> USE DEF AccountsInv
<1> DEFINE u == req[r].user
<1>1. /\ u \in Users /\ req[r].op = "change" /\ account[u].exists
      /\ req[r].seen \in SUBSET SessionIds /\ req[r].during \in SUBSET SessionIds
  BY DEF AccountsTypeOK, ChangeCommit, RowsExist
<1>2. /\ req' \in [Requests -> Call] /\ req'[r] = NoCall
      /\ \A q \in Requests \ {r} :
           /\ req'[q].op = req[q].op /\ req'[q].user = req[q].user
           /\ req'[q].seen = req[q].seen /\ req'[q].overlap = req[q].overlap
           /\ req[q].during \subseteq req'[q].during
           /\ req[q].op # "none" /\ req[q].user = u => s \in req'[q].during
  BY <1>1, MissedTyped DEF ChangeCommit
<1>3. /\ account' \in [Users -> [exists : BOOLEAN, enabled : BOOLEAN,
                                 roles : SUBSET Roles, era : Nat]]
      /\ \A v \in Users \ {u} : account'[v] = account[v]
      /\ account'[u].exists = account[u].exists /\ account'[u].enabled = account[u].enabled
      /\ account'[u].roles = account[u].roles /\ account'[u].era = NextEra(u)
      /\ NextEra(u) \in Nat
  <2>1. account' = [account EXCEPT ![u].era = NextEra(u)]
    BY DEF ChangeCommit
  <2>2. NextEra(u) \in Nat
    BY <1>1 DEF AccountsTypeOK, NextEra
  <2> HIDE DEF u
  <2> QED
    BY <1>1, <2>1, <2>2, PasswordTyped
<1> DEFINE ended == Revoked(sess, req[r].seen)
<1>4. /\ ended \in [SessionIds -> [user : Users, live : BOOLEAN, era : Nat]]
      /\ \A t \in req[r].seen : ~ended[t].live
      /\ \A t \in SessionIds \ req[r].seen : ended[t] = sess[t]
  BY <1>1, RevokedTyped
<1>5. sess' = [ended EXCEPT ![s] = [user |-> u, live |-> TRUE, era |-> NextEra(u)]]
  BY DEF ChangeCommit
<1> HIDE DEF ended
<1>6. /\ sess' \in [SessionIds -> [user : Users, live : BOOLEAN, era : Nat]]
      /\ sess'[s].user = u /\ sess'[s].era = NextEra(u)
      /\ \A t \in req[r].seen \ {s} : ~sess'[t].live
      /\ \A t \in SessionIds \ (req[r].seen \cup {s}) : sess'[t] = sess[t]
  BY <1>1, <1>3, <1>4, <1>5
<1>7. /\ straddled' \subseteq SessionIds
      /\ \A t \in (straddled \ req[r].seen) \cup req[r].during : t \in {s} \/ t \in straddled'
  BY <1>1 DEF ChangeCommit, Closing, AccountsTypeOK
<1>8. reset' = reset /\ miscounted' = miscounted
  BY DEF ChangeCommit
<1> HIDE DEF u
<1>9. AccountsTypeOK'
  BY <1>2, <1>3, <1>6, <1>7, <1>8 DEF AccountsTypeOK, Call
<1>10. RowsExist' /\ OpenedOrSeen' /\ LiveSessionsFollow'
  <2>1. req[r].op \in Closers /\ {s} \in SUBSET SessionIds /\ u = req[r].user
    BY <1>1 DEF Closers, u
  <2> DEFINE new == {s}
  <2>2. new \in SUBSET SessionIds /\ \A t \in new : sess'[t].user = u /\ sess'[t].era = account'[u].era
    BY <1>3, <1>6
  <2>3. /\ \A t \in req[r].seen \ new : ~sess'[t].live
        /\ \A t \in SessionIds \ (req[r].seen \cup new) : sess'[t] = sess[t]
    BY <1>6
  <2>4. \A t \in (straddled \ req[r].seen) \cup req[r].during : t \in new \/ t \in straddled'
    BY <1>7
  <2>5. \A q \in Requests \ {r} :
           /\ req'[q].op = req[q].op /\ req'[q].user = req[q].user
           /\ req'[q].seen = req[q].seen /\ req[q].during \subseteq req'[q].during
           /\ req[q].op # "none" /\ req[q].user = u => new \subseteq req'[q].during
    BY <1>2
  <2> HIDE DEF AccountsInv, new
  <2> QED
    BY <1>1, <1>2, <1>3, <2>1, <2>2, <2>3, <2>4, <2>5, ClosingKeeps, Zenon
<1>11. Administrators' = Administrators
  BY <1>1, <1>3 DEF Administrators
<1>12. RemovalLeavesOne'
  BY <1>2, <1>8, <1>11, NoCallTyped DEF RemovalLeavesOne, Removals
<1>13. AdministratorRemains'
  BY <1>3, <1>8, <1>11 DEF AdministratorRemains
<1> QED
  BY <1>9, <1>10, <1>12, <1>13

LEMMA CompleteCommitKeeps ==
  ASSUME AccountsInv, NEW r \in Requests, CompleteCommit(r)
  PROVE  AccountsInv'
<1> USE DEF AccountsInv
<1> DEFINE u == req[r].user
<1>1. /\ u \in Users /\ req[r].op = "complete" /\ account[u].exists
      /\ req[r].seen \in SUBSET SessionIds /\ req[r].during \in SUBSET SessionIds
  BY DEF AccountsTypeOK, CompleteCommit, RowsExist
<1>2. /\ req' \in [Requests -> Call] /\ req'[r] = NoCall
      /\ \A q \in Requests \ {r} : req'[q] = req[q]
  BY AnsweredTyped DEF CompleteCommit
<1>3. /\ account' \in [Users -> [exists : BOOLEAN, enabled : BOOLEAN,
                                 roles : SUBSET Roles, era : Nat]]
      /\ \A v \in Users \ {u} : account'[v] = account[v]
      /\ account'[u].exists = account[u].exists /\ account'[u].enabled = account[u].enabled
      /\ account'[u].roles = account[u].roles
  <2>1. account' = [account EXCEPT ![u].era = NextEra(u)]
    BY DEF CompleteCommit
  <2> HIDE DEF u
  <2> QED
    BY <1>1, <2>1, PasswordTyped
<1>4. /\ sess' \in [SessionIds -> [user : Users, live : BOOLEAN, era : Nat]]
      /\ \A t \in req[r].seen : ~sess'[t].live
      /\ \A t \in SessionIds \ req[r].seen : sess'[t] = sess[t]
  BY <1>1, RevokedTyped DEF CompleteCommit
<1>5. straddled' \subseteq SessionIds /\ straddled' = (straddled \ req[r].seen) \cup req[r].during
  BY <1>1 DEF CompleteCommit, Closing, AccountsTypeOK
<1>6. miscounted' = miscounted
  BY DEF CompleteCommit
<1>7. reset' \in [ResetIds -> [user : Users, at : {"free", "queued", "known", "used"}]]
  BY DEF CompleteCommit, Superseded, AccountsTypeOK
<1> HIDE DEF u
<1>8. AccountsTypeOK'
  BY <1>2, <1>3, <1>4, <1>5, <1>6, <1>7 DEF AccountsTypeOK, Call
<1>9. RowsExist' /\ OpenedOrSeen' /\ LiveSessionsFollow'
  <2>1. req[r].op \in Closers /\ {} \in SUBSET SessionIds /\ u = req[r].user
    BY <1>1 DEF Closers, u
  <2> DEFINE new == {}
  <2>2. /\ new \in SUBSET SessionIds
        /\ \A t \in new : sess'[t].user = u /\ sess'[t].era = account'[u].era
    OBVIOUS
  <2>3. /\ \A t \in req[r].seen \ new : ~sess'[t].live
        /\ \A t \in SessionIds \ (req[r].seen \cup new) : sess'[t] = sess[t]
    BY <1>4
  <2>4. \A t \in (straddled \ req[r].seen) \cup req[r].during : t \in new \/ t \in straddled'
    BY <1>5
  <2>5. \A q \in Requests \ {r} :
           /\ req'[q].op = req[q].op /\ req'[q].user = req[q].user
           /\ req'[q].seen = req[q].seen /\ req[q].during \subseteq req'[q].during
           /\ req[q].op # "none" /\ req[q].user = u => new \subseteq req'[q].during
    BY <1>2
  <2> HIDE DEF AccountsInv, new
  <2> QED
    BY <1>1, <1>2, <1>3, <2>1, <2>2, <2>3, <2>4, <2>5, ClosingKeeps, Zenon
<1>10. Administrators' = Administrators
  BY <1>1, <1>3 DEF Administrators
<1>11. RemovalLeavesOne'
  BY <1>2, <1>6, <1>10, NoCallTyped DEF RemovalLeavesOne, Removals
<1>12. AdministratorRemains'
  BY <1>3, <1>6, <1>10 DEF AdministratorRemains
<1> QED
  BY <1>8, <1>9, <1>11, <1>12

\* The commit of a removal: every other removal under way learns of it.
LEMMA RemovalTyped ==
  ASSUME AccountsTypeOK, NEW r \in Requests, NEW u \in Users,
         req' = Removal(Answered(r), r, u)
  PROVE  /\ req' \in [Requests -> Call] /\ req'[r] = NoCall
         /\ \A q \in Requests \ {r} :
              /\ req'[q].op = req[q].op /\ req'[q].user = req[q].user
              /\ req'[q].seen = req[q].seen /\ req'[q].during = req[q].during
              /\ ~req'[q].overlap => ~req[q].overlap
              /\ req[q].op \in Removals /\ u \in Administrators => req'[q].overlap
<1> DEFINE rs == Answered(r)
<1>1. /\ rs \in [Requests -> Call] /\ rs[r] = NoCall
      /\ \A q \in Requests \ {r} : rs[q] = req[q]
  BY AnsweredTyped
<1> HIDE DEF rs
<1>2. req' = [q \in Requests |-> IF q # r /\ rs[q].op \in Removals /\ u \in Administrators
                THEN [rs[q] EXCEPT !.overlap = TRUE] ELSE rs[q]]
  BY DEF Removal, Removals, rs
<1>3. ASSUME NEW q \in Requests
      PROVE  /\ req'[q] \in Call
             /\ q = r => req'[q] = rs[q]
             /\ req'[q].op = rs[q].op /\ req'[q].user = rs[q].user
             /\ req'[q].seen = rs[q].seen /\ req'[q].during = rs[q].during
             /\ ~req'[q].overlap => ~rs[q].overlap
             /\ q # r /\ rs[q].op \in Removals /\ u \in Administrators => req'[q].overlap
  <2>1. rs[q] \in Call
    BY <1>1
  <2>2. CASE q # r /\ rs[q].op \in Removals /\ u \in Administrators
    BY <1>2, <2>1, <2>2 DEF Call
  <2>3. CASE ~(q # r /\ rs[q].op \in Removals /\ u \in Administrators)
    BY <1>2, <2>1, <2>3
  <2> QED
    BY <2>2, <2>3
<1>4. req' \in [Requests -> Call]
  BY <1>2, <1>3
<1> QED
  BY <1>1, <1>3, <1>4, NoCallTyped

\* An administrator fewer, and those who remain.
LEMMA RemovedOne ==
  ASSUME AccountsInv, NEW r \in Requests, req[r].op \in Removals,
         NEW u \in Users, u = req[r].user,
         req' = Removal(Answered(r), r, u),
         miscounted' = (miscounted \/ req[r].overlap),
         Administrators' = Administrators \ {u}
  PROVE  RemovalLeavesOne' /\ AdministratorRemains'
<1> USE DEF AccountsInv
<1>1. miscounted \in BOOLEAN /\ req[r].overlap \in BOOLEAN
  BY DEF AccountsTypeOK
<1>2. /\ req'[r] = NoCall
      /\ \A q \in Requests \ {r} :
           /\ req'[q].op = req[q].op /\ req'[q].user = req[q].user
           /\ ~req'[q].overlap => ~req[q].overlap
           /\ req[q].op \in Removals /\ u \in Administrators => req'[q].overlap
  BY RemovalTyped
<1>3. ~miscounted' => ~miscounted /\ ~req[r].overlap
  BY <1>1
<1>4. RemovalLeavesOne'
  <2> SUFFICES ASSUME NEW q \in Requests, req'[q].op \in Removals, ~miscounted', ~req'[q].overlap
               PROVE  \E v \in Administrators' : v # req'[q].user
    BY DEF RemovalLeavesOne
  <2>1. q # r
    BY <1>2, NoCallTyped DEF Removals
  <2>2. req[q].op \in Removals /\ ~req[q].overlap /\ u \notin Administrators
    BY <1>2, <2>1
  <2>3. Administrators' = Administrators
    BY <2>2
  <2> QED
    BY <1>2, <1>3, <2>1, <2>2, <2>3 DEF RemovalLeavesOne
<1>5. AdministratorRemains'
  BY <1>3 DEF RemovalLeavesOne, AdministratorRemains
<1> QED
  BY <1>4, <1>5

LEMMA DisableCommitKeeps ==
  ASSUME AccountsInv, NEW r \in Requests, DisableCommit(r)
  PROVE  AccountsInv'
<1> USE DEF AccountsInv
<1> DEFINE u == req[r].user
<1>1. /\ u \in Users /\ req[r].op = "disable" /\ account[u].exists
      /\ req[r].seen \in SUBSET SessionIds /\ req[r].during \in SUBSET SessionIds
      /\ miscounted \in BOOLEAN /\ req[r].overlap \in BOOLEAN
  BY DEF AccountsTypeOK, DisableCommit, RowsExist
<1>2. req' = Removal(Answered(r), r, u) /\ miscounted' = (miscounted \/ req[r].overlap)
  BY DEF DisableCommit
<1>3. /\ account' \in [Users -> [exists : BOOLEAN, enabled : BOOLEAN,
                                 roles : SUBSET Roles, era : Nat]]
      /\ \A v \in Users \ {u} : account'[v] = account[v]
      /\ account'[u].exists = account[u].exists /\ ~account'[u].enabled
      /\ account'[u].roles = account[u].roles
  <2>1. account' = [account EXCEPT ![u].enabled = FALSE, ![u].era = NextEra(u)]
    BY DEF DisableCommit
  <2> HIDE DEF u
  <2> QED
    BY <1>1, <2>1, DisabledTyped
<1>4. /\ sess' \in [SessionIds -> [user : Users, live : BOOLEAN, era : Nat]]
      /\ \A t \in req[r].seen : ~sess'[t].live
      /\ \A t \in SessionIds \ req[r].seen : sess'[t] = sess[t]
  BY <1>1, RevokedTyped DEF DisableCommit
<1>5. straddled' \subseteq SessionIds /\ straddled' = (straddled \ req[r].seen) \cup req[r].during
  BY <1>1 DEF DisableCommit, Closing, AccountsTypeOK
<1>6. reset' = reset
  BY DEF DisableCommit
<1> HIDE DEF u
<1>7. /\ req' \in [Requests -> Call] /\ req'[r] = NoCall
      /\ \A q \in Requests \ {r} :
           /\ req'[q].op = req[q].op /\ req'[q].user = req[q].user
           /\ req'[q].seen = req[q].seen /\ req'[q].during = req[q].during
  BY <1>1, <1>2, RemovalTyped
<1>8. AccountsTypeOK'
  BY <1>1, <1>2, <1>3, <1>4, <1>5, <1>6, <1>7 DEF AccountsTypeOK, Call
<1>9. RowsExist' /\ OpenedOrSeen' /\ LiveSessionsFollow'
  <2>1. req[r].op \in Closers /\ u = req[r].user
    BY <1>1 DEF Closers, u
  <2> DEFINE new == {}
  <2>2. /\ new \in SUBSET SessionIds
        /\ \A t \in new : sess'[t].user = u /\ sess'[t].era = account'[u].era
    OBVIOUS
  <2>3. /\ \A t \in req[r].seen \ new : ~sess'[t].live
        /\ \A t \in SessionIds \ (req[r].seen \cup new) : sess'[t] = sess[t]
    BY <1>4
  <2>4. \A t \in (straddled \ req[r].seen) \cup req[r].during : t \in new \/ t \in straddled'
    BY <1>5
  <2>5. \A q \in Requests \ {r} :
           /\ req'[q].op = req[q].op /\ req'[q].user = req[q].user
           /\ req'[q].seen = req[q].seen /\ req[q].during \subseteq req'[q].during
           /\ req[q].op # "none" /\ req[q].user = u => new \subseteq req'[q].during
    BY <1>7
  <2> HIDE DEF AccountsInv, new
  <2> QED
    BY <1>1, <1>3, <1>7, <2>1, <2>2, <2>3, <2>4, <2>5, ClosingKeeps, Zenon
<1>10. Administrators' = Administrators \ {u}
  BY <1>1, <1>3 DEF Administrators
<1>11. RemovalLeavesOne' /\ AdministratorRemains'
  <2>1. req[r].op \in Removals /\ u = req[r].user
    BY <1>1 DEF Removals, u
  <2> HIDE DEF AccountsInv
  <2> QED
    BY <1>1, <1>2, <1>10, <2>1, RemovedOne, Zenon
<1> QED
  BY <1>8, <1>9, <1>11

LEMMA DemoteCommitKeeps ==
  ASSUME AccountsInv, NEW r \in Requests, DemoteCommit(r)
  PROVE  AccountsInv'
<1> USE DEF AccountsInv
<1> DEFINE u == req[r].user
           Row == [exists : BOOLEAN, enabled : BOOLEAN, roles : SUBSET Roles, era : Nat]
<1>1. /\ u \in Users /\ req[r].op = "demote" /\ account[u].exists
      /\ miscounted \in BOOLEAN /\ req[r].overlap \in BOOLEAN
  BY DEF AccountsTypeOK, DemoteCommit, RowsExist
<1>2. req' = Removal(Answered(r), r, u) /\ miscounted' = (miscounted \/ req[r].overlap)
  BY DEF DemoteCommit
<1>3. UNCHANGED <<sess, straddled, reset>>
  BY DEF DemoteCommit
<1>4. account' = [account EXCEPT ![u].roles = account[u].roles \ {"Administrator"}]
  BY DEF DemoteCommit
<1> HIDE DEF u
<1>5. account \in [Users -> Row] /\ account[u].roles \ {"Administrator"} \in SUBSET Roles
  BY <1>1 DEF AccountsTypeOK
<1>6. /\ account' \in [Users -> Row]
      /\ \A v \in Users \ {u} : account'[v] = account[v]
      /\ account'[u].exists = account[u].exists /\ account'[u].enabled = account[u].enabled
      /\ account'[u].roles = account[u].roles \ {"Administrator"}
      /\ account'[u].era = account[u].era
  BY <1>1, <1>4, <1>5
<1>7. /\ req' \in [Requests -> Call] /\ req'[r] = NoCall
      /\ \A q \in Requests \ {r} :
           /\ req'[q].op = req[q].op /\ req'[q].user = req[q].user
           /\ req'[q].seen = req[q].seen /\ req'[q].during = req[q].during
  BY <1>1, <1>2, RemovalTyped
<1>8. AccountsTypeOK'
  BY <1>1, <1>2, <1>3, <1>6, <1>7 DEF AccountsTypeOK, Call
<1>9. \A v \in Users : account'[v].exists = account[v].exists /\ account'[v].era = account[v].era
  BY <1>6
<1>10. RowsExist'
  <2>1. \A v \in Users : account'[v].enabled => account'[v].exists
    BY <1>6, <1>9 DEF RowsExist
  <2>2. \A v \in Users : account'[v].roles # {} => account'[v].exists
    BY <1>1, <1>6, <1>9 DEF RowsExist
  <2>3. \A t \in SessionIds : sess'[t].live => account'[sess'[t].user].exists
    BY <1>3, <1>9 DEF RowsExist, AccountsTypeOK
  <2>4. \A q \in Requests : req'[q].op # "none" => account'[req'[q].user].exists
    BY <1>7, <1>9, NoCallTyped DEF RowsExist, AccountsTypeOK
  <2> QED
    BY <2>1, <2>2, <2>3, <2>4 DEF RowsExist
<1>11. OpenedOrSeen'
  BY <1>3, <1>7, NoCallTyped DEF OpenedOrSeen, Closers
<1>12. LiveSessionsFollow'
  BY <1>3, <1>8, <1>9 DEF LiveSessionsFollow, AccountsTypeOK
<1>13. Administrators' = Administrators \ {u}
  BY <1>1, <1>6 DEF Administrators
<1>14. RemovalLeavesOne' /\ AdministratorRemains'
  <2>1. req[r].op \in Removals /\ u = req[r].user
    BY <1>1 DEF Removals, u
  <2> HIDE DEF AccountsInv
  <2> QED
    BY <1>1, <1>2, <1>13, <2>1, RemovedOne, Zenon
<1> QED
  BY <1>8, <1>10, <1>11, <1>12, <1>14

LEMMA AccountsStep == AccountsInv /\ [AccountsNext]_accountVars => AccountsInv'
<1> SUFFICES ASSUME AccountsInv, [AccountsNext]_accountVars PROVE AccountsInv'
  OBVIOUS
<1> DEFINE Resets == [ResetIds -> [user : Users, at : {"free", "queued", "known", "used"}]]
           Row == [exists : BOOLEAN, enabled : BOOLEAN, roles : SUBSET Roles, era : Nat]
<1>0. reset \in Resets /\ account \in [Users -> Row]
  BY DEF AccountsInv, AccountsTypeOK
<1>1. CASE UNCHANGED accountVars
  BY <1>0, <1>1, ElsewhereKeeps DEF accountVars
<1>2. ASSUME NEW u \in Users, Setup(u) PROVE AccountsInv'
  <2> DEFINE rec == [exists |-> TRUE, enabled |-> TRUE, roles |-> {"Administrator"}, era |-> 0]
  <2>1. rec \in Row /\ rec.exists /\ rec.enabled /\ "Administrator" \in rec.roles
    BY DEF Roles
  <2>2. account' = [account EXCEPT ![u] = rec] /\ ~account[u].exists
    BY <1>2 DEF Setup
  <2>3. UNCHANGED <<sess, straddled, reset, req, miscounted>>
    BY <1>2 DEF Setup
  <2> HIDE DEF rec
  <2> QED
    BY <2>1, <2>2, <2>3, GrowKeeps
<1>3. ASSUME ActsAsManager, ~miscounted PROVE Administrators # {}
  <2>1. PICK m \in Users : Manages(m)
    BY <1>3 DEF ActsAsManager
  <2>2. account[m].roles # {}
    BY <2>1 DEF Manages
  <2>3. account[m].exists
    BY <2>2 DEF AccountsInv, RowsExist
  <2> QED
    BY <1>3, <2>3 DEF AccountsInv, AdministratorRemains
<1>4. ASSUME NEW u \in Users, EnableUser(u) PROVE AccountsInv'
  <2> DEFINE rec == [account[u] EXCEPT !.enabled = TRUE]
  <2>1. account[u] \in Row
    BY <1>0
  <2>2. /\ rec \in Row /\ rec.exists = account[u].exists /\ rec.enabled
        /\ rec.roles = account[u].roles /\ rec.era = account[u].era
    BY <2>1
  <2>3. /\ account' = [account EXCEPT ![u] = rec] /\ account[u].exists
        /\ UNCHANGED <<sess, straddled, reset, req, miscounted>> /\ ActsAsManager
    BY <1>4 DEF EnableUser
  <2> HIDE DEF rec
  <2> QED
    BY <1>3, <2>2, <2>3, GrowKeeps DEF Administrators
<1>5. ASSUME NEW u \in Users, NEW role \in {"Administrator", "Custom"}, GrantRole(u, role)
      PROVE  AccountsInv'
  <2> DEFINE rec == [account[u] EXCEPT !.roles = account[u].roles \cup {role}]
  <2>1. account[u] \in Row /\ account[u].roles \cup {role} \in SUBSET Roles
    BY <1>0 DEF Roles
  <2>2. /\ rec \in Row /\ rec.exists = account[u].exists /\ rec.enabled = account[u].enabled
        /\ rec.roles = account[u].roles \cup {role} /\ rec.era = account[u].era
    BY <2>1
  <2>3. /\ account' = [account EXCEPT ![u] = rec] /\ account[u].exists
        /\ UNCHANGED <<sess, straddled, reset, req, miscounted>> /\ ActsAsManager
    BY <1>5 DEF GrantRole
  <2> HIDE DEF rec
  <2> QED
    BY <1>3, <2>2, <2>3, GrowKeeps DEF Administrators
<1>6. ASSUME NEW u \in Users, NEW roles \in SUBSET {"Administrator", "Custom"},
             CreateUser(u, roles)
      PROVE  AccountsInv'
  <2> DEFINE rec == [exists |-> TRUE, enabled |-> TRUE, roles |-> roles, era |-> 0]
  <2>1. rec \in Row /\ rec.exists
    BY DEF Roles
  <2>2. /\ account' = [account EXCEPT ![u] = rec] /\ ~account[u].exists
        /\ UNCHANGED <<sess, straddled, reset, req, miscounted>> /\ ActsAsManager
    BY <1>6 DEF CreateUser
  <2>3. u \notin Administrators
    BY <2>2 DEF Administrators, AccountsInv, RowsExist
  <2> HIDE DEF rec
  <2> QED
    BY <1>3, <2>1, <2>2, <2>3, GrowKeeps
<1>7. ASSUME NEW u \in Users, CliReset(u) PROVE AccountsInv'
  BY <1>7, CliResetKeeps
<1>8. ASSUME NEW u \in Users, RevokeToken(u) PROVE AccountsInv'
  BY <1>0, <1>8, ElsewhereKeeps DEF RevokeToken
<1>9. ASSUME NEW u \in Users, NEW kind \in {"plain", "managing"}, CreateToken(u, kind)
      PROVE  AccountsInv'
  BY <1>0, <1>9, ElsewhereKeeps DEF CreateToken
<1>10. ASSUME NEW kind \in {"plain", "managing"}, CreateRole(kind) \/ UpdateRole(kind)
       PROVE  AccountsInv'
  BY <1>0, <1>10, ElsewhereKeeps DEF CreateRole, UpdateRole
<1>11. ASSUME NEW u \in Users PROVE Superseded(u) \in Resets
  BY <1>0 DEF Superseded
<1>12. ASSUME NEW u \in Users, NEW i \in ResetIds, RequestReset(u, i) \/ IssueReset(u, i)
       PROVE  AccountsInv'
  <2>1. PICK at \in {"queued", "known"} :
           reset' = [Superseded(u) EXCEPT ![i] = [user |-> u, at |-> at]]
    BY <1>12 DEF RequestReset, IssueReset
  <2>2. [user |-> u, at |-> at] \in [user : Users, at : {"free", "queued", "known", "used"}]
    OBVIOUS
  <2>3. Superseded(u) \in Resets
    BY <1>11
  <2>4. reset' \in Resets
    BY <2>1, <2>2, <2>3
  <2> QED
    BY <1>12, <2>4, ElsewhereKeeps DEF RequestReset, IssueReset
<1>13. ASSUME NEW i \in ResetIds, DeliverMail(i) \/ ResetExpires(i)
       PROVE  AccountsInv'
  <2>1. reset' \in Resets
    BY <1>0, <1>13 DEF DeliverMail, ResetExpires
  <2> QED
    BY <1>13, <2>1, ElsewhereKeeps DEF DeliverMail, ResetExpires
<1>14. ASSUME NEW s \in SessionIds, Logout(s) \/ RevokeOwned(s)
       PROVE  AccountsInv'
  BY <1>14, EndKeeps DEF Logout, RevokeOwned
<1>15. ASSUME NEW u \in Users PROVE SessionsOf(u) \in SUBSET SessionIds
  BY DEF SessionsOf
<1>16. \A u \in Users : account[u].enabled \/ account[u].roles # {} => account[u].exists
  BY DEF AccountsInv, RowsExist
<1>17. ASSUME NEW r \in Requests, NEW u \in Users, LoginVerify(r, u)
       PROVE  AccountsInv'
  <2>1. "login" \in {"login"} \cup Removals \cup Closers /\ "login" \notin Removals \cup Closers
    BY DEF Removals, Closers
  <2> QED
    BY <1>16, <1>17, <2>1, AskedKeeps DEF LoginVerify
<1>18. ASSUME NEW r \in Requests, NEW u \in Users, ChangeVerify(r, u)
       PROVE  AccountsInv'
  <2>1. "change" \in Closers /\ "change" \notin Removals
    BY DEF Removals, Closers
  <2>2. account[u].exists
    BY <1>16, <1>18 DEF ChangeVerify, Interactive, Resolves
  <2> QED
    BY <1>15, <1>18, <2>1, <2>2, AskedKeeps DEF ChangeVerify
<1>19. ASSUME NEW r \in Requests, NEW i \in ResetIds, CompleteVerify(r, i)
       PROVE  AccountsInv'
  <2>1. "complete" \in Closers /\ "complete" \notin Removals
    BY DEF Removals, Closers
  <2>2. reset[i].user \in Users
    BY <1>0
  <2> QED
    BY <1>15, <1>16, <1>19, <2>1, <2>2, AskedKeeps DEF CompleteVerify
<1>20. ASSUME NEW r \in Requests, NEW u \in Users, DisableVerify(r, u)
       PROVE  AccountsInv'
  <2>1. "disable" \in Closers \cap Removals
    BY DEF Removals, Closers
  <2>2. ~miscounted => \E v \in Administrators : v # u
    BY <1>20, GuardLeavesOne DEF DisableVerify
  <2> QED
    BY <1>15, <1>16, <1>20, <2>1, <2>2, AskedKeeps DEF DisableVerify
<1>21. ASSUME NEW r \in Requests, NEW u \in Users, DemoteVerify(r, u)
       PROVE  AccountsInv'
  <2>1. "demote" \in Removals /\ "demote" \notin Closers
    BY DEF Removals, Closers
  <2>2. ~miscounted => \E v \in Administrators : v # u
    BY <1>21, GuardLeavesOne DEF DemoteVerify
  <2>3. account[u].exists
    BY <1>16, <1>21 DEF DemoteVerify
  <2> QED
    BY <1>21, <2>1, <2>2, <2>3, AskedKeeps DEF DemoteVerify
<1>22. ASSUME NEW r \in Requests, NEW s \in SessionIds, LoginCommit(r, s) \/ ChangeCommit(r, s)
       PROVE  AccountsInv'
  BY <1>22, LoginCommitKeeps, ChangeCommitKeeps
<1>23. ASSUME NEW r \in Requests, CompleteCommit(r) \/ DisableCommit(r) \/ DemoteCommit(r)
       PROVE  AccountsInv'
  BY <1>23, CompleteCommitKeeps, DisableCommitKeeps, DemoteCommitKeeps
<1> QED
  BY <1>1, <1>2, <1>4, <1>5, <1>6, <1>7, <1>8, <1>9, <1>10, <1>12, <1>13, <1>14,
     <1>17, <1>18, <1>19, <1>20, <1>21, <1>22, <1>23, Zenon DEF AccountsNext

\* Once set up, the system keeps an enabled administrator through whatever is
\* disabled, demoted or reset (_guard_last_administrator), unless two removals
\* overlapped.
THEOREM AdministratorStays == AccountsSpec => []AdministratorRemains
<1>1. AccountsInv => AdministratorRemains
  BY DEF AccountsInv
<1> QED
  BY <1>1, AccountsStart, AccountsStep, PTL DEF AccountsSpec

\* A session that resolves was opened under the password of now and since the last
\* deactivation (change_password, consume and disable_user revoke what they selected),
\* unless it was committed while such a request was under way.
THEOREM SessionsEnd == AccountsSpec => []SessionsFollowAccount
BY AccountsInvSessions, AccountsStart, AccountsStep, PTL DEF AccountsSpec

-----------------------------------------------------------------------------
(* The commands of the host.                                               *)

Ring == [primary : Keys, previous : SUBSET Keys]
Data == [schema : Nat, keys : SUBSET Keys, backend : Backends]
Releases == Revisions \cup {0}
JobOps == {"idle", "update", "rollback", "restore", "transfer", "rotate"}
JobSteps == {"done", "snapshot", "record", "checkout", "stop", "migrate", "start", "finish",
             "restore", "recover source", "recover data", "recover services", "replace",
             "copy", "switch", "rewrite"}
HostJob == [op : JobOps, step : JobSteps, target : Releases, from : Releases,
            fallback : Releases, mode : {"normal", "failed-update"}, snap : Data, pre : Data]
HostState == [deployed : Revisions, rollback : Releases, rollbackSnap : Data,
              pending : Releases, previous : Releases, pendingSnap : Data]

HostTypeOK ==
  /\ source \in Revisions /\ image \in Revisions /\ serving \in Releases
  /\ loaded \in Ring /\ env \in Ring /\ active \in Backends
  /\ databases \in [Backends -> Data]
  /\ state \in HostState /\ job \in HostJob /\ kept \in Data
  /\ rewound \in BOOLEAN /\ blurred \in BOOLEAN
  /\ job.op \in {"update", "rollback"} => job.target # 0 /\ job.from # 0
  /\ job.op = "rollback" => job.fallback # 0

LEMMA HostNaturals ==
  /\ \A r \in Revisions : r \in Nat /\ r # 0 /\ SchemaOf[r] \in Nat /\ SchemaOf[r] # 0
  /\ \A r, q \in Revisions : r <= q => SchemaOf[r] <= SchemaOf[q]
  /\ \A k \in Keys : k \in Nat
BY HostAssumption

LEMMA NothingTyped == Nothing \in Data /\ Nothing.schema = 0 /\ Nothing.keys = {}
BY DEF Nothing, Data, Backends

LEMMA NoJobTyped == NoJob \in HostJob /\ NoJob.op = "idle" /\ NoJob.step = "done"
BY NothingTyped DEF NoJob, HostJob, JobOps, JobSteps, Releases

LEMMA OtherTyped ==
  ASSUME active \in Backends
  PROVE  Other \in Backends /\ Other # active /\ \A b \in Backends : b # active => b = Other
<1>1. \E b \in Backends : b # active
  BY DEF Backends
<1>2. Other \in Backends /\ Other # active
  BY <1>1 DEF Other
<1> QED
  BY <1>2 DEF Backends

\* A script goes on to its next step.
LEMMA ProceedTyped ==
  ASSUME job \in HostJob, NEW step \in JobSteps, Proceed(step)
  PROVE  /\ job' \in HostJob /\ job'.step = step /\ job'.op = job.op
         /\ job'.target = job.target /\ job'.from = job.from /\ job'.fallback = job.fallback
         /\ job'.mode = job.mode /\ job'.snap = job.snap /\ job'.pre = job.pre
BY DEF Proceed, HostJob

LEMMA SnapshotTyped ==
  ASSUME HostTypeOK
  PROVE  SafetySnapshot \in Data /\ SafetySnapshot.schema = Db.schema
BY DEF SafetySnapshot, HostTypeOK, Db, Data

\* The whole database is replaced by that of a snapshot.
LEMMA ReplacedTyped ==
  ASSUME HostTypeOK, NEW snap \in Data, databases' = Replaced(snap)
  PROVE  /\ databases' \in [Backends -> Data]
         /\ databases'[active].schema = snap.schema /\ databases'[active].keys = snap.keys
         /\ \A b \in Backends : b # active => databases'[b] = databases[b]
<1> DEFINE data == [schema |-> snap.schema, keys |-> snap.keys, backend |-> active]
<1>1. data \in Data /\ data.schema = snap.schema /\ data.keys = snap.keys
  BY DEF Data, HostTypeOK
<1>2. databases' = [databases EXCEPT ![active] = data]
  BY DEF Replaced
<1> HIDE DEF data
<1> QED
  BY <1>1, <1>2 DEF HostTypeOK

LEMMA TransferredTyped ==
  ASSUME HostTypeOK, NEW b \in Backends, databases' = Transferred(Db, b)
  PROVE  /\ databases' \in [Backends -> Data]
         /\ databases'[b].schema = Db.schema /\ databases'[b].keys = Db.keys
         /\ \A c \in Backends : c # b => databases'[c] = databases[c]
<1> DEFINE data == [schema |-> Db.schema, keys |-> Db.keys, backend |-> b]
<1>1. Db \in Data
  BY DEF Db, HostTypeOK
<1>2. data \in Data /\ data.schema = Db.schema /\ data.keys = Db.keys
  BY <1>1 DEF Data
<1>3. databases' = [databases EXCEPT ![b] = data]
  BY DEF Transferred
<1> HIDE DEF data
<1> QED
  BY <1>2, <1>3 DEF HostTypeOK

LEMMA UpgradedTyped ==
  ASSUME HostTypeOK, NEW schema \in Nat, Upgraded(schema)
  PROVE  /\ databases' \in [Backends -> Data]
         /\ databases'[active].schema = schema /\ databases'[active].keys = databases[active].keys
         /\ \A b \in Backends : b # active => databases'[b] = databases[b]
<1>1. active \in Backends /\ databases \in [Backends -> Data]
  BY DEF HostTypeOK
<1>2. databases' = [databases EXCEPT ![active].schema = schema]
  BY DEF Upgraded
<1> QED
  BY <1>1, <1>2 DEF Data

\* Only the keys of its records change.
LEMMA RekeyedTyped ==
  ASSUME HostTypeOK, NEW keys \in SUBSET Keys,
         databases' = [databases EXCEPT ![active].keys = keys]
  PROVE  /\ databases' \in [Backends -> Data]
         /\ databases'[active].schema = databases[active].schema /\ databases'[active].keys = keys
         /\ \A b \in Backends : b # active => databases'[b] = databases[b]
<1>1. active \in Backends /\ databases \in [Backends -> Data]
  BY DEF HostTypeOK
<1> QED
  BY <1>1 DEF Data

\* A rotation leaves records of the primary key only, if any.
LEMMA RotatedTyped ==
  ASSUME HostTypeOK, NEW ring \in Ring,
         databases' = [databases EXCEPT ![active] = Rotated(Db, ring)]
  PROVE  /\ databases' \in [Backends -> Data]
         /\ databases'[active].schema = databases[active].schema
         /\ databases'[active].keys \subseteq {ring.primary}
         /\ \A b \in Backends : b # active => databases'[b] = databases[b]
<1> DEFINE data == Rotated(Db, ring)
<1>1. Db \in Data /\ ring.primary \in Keys
  BY DEF Db, HostTypeOK, Ring
<1>2. data \in Data /\ data.schema = Db.schema /\ data.keys \subseteq {ring.primary}
  BY <1>1 DEF Rotated, Data
<1>3. databases' = [databases EXCEPT ![active] = data]
  OBVIOUS
<1> HIDE DEF data
<1> QED
  BY <1>2, <1>3 DEF HostTypeOK, Db

\* Starting the services, or not, changes nothing but what is served.
LEMMA StartedTyped ==
  ASSUME HostTypeOK, NEW rev \in Revisions, Started(rev)
  PROVE  /\ serving' \in Releases /\ loaded' \in Ring
         /\ serving' = 0 \/ (SchemaCurrent(rev) /\ serving' = rev /\ loaded' = env)
BY DEF Started, HostTypeOK, Releases

LEMMA StoppedTyped ==
  ASSUME HostTypeOK, Stopped
  PROVE  serving' \in Releases /\ loaded' \in Ring /\ serving' = 0
BY DEF Stopped, HostTypeOK, Releases

\* A script begins.
LEMMA BegunTyped ==
  ASSUME NEW op \in JobOps, NEW step \in JobSteps
  PROVE  LET new == [NoJob EXCEPT !.op = op, !.step = step]
         IN  new \in HostJob /\ new.op = op /\ new.step = step
<1>1. NoJob \in HostJob
  BY NoJobTyped
<1> QED
  BY <1>1 DEF HostJob

LEMMA UpdateTyped ==
  ASSUME HostTypeOK, UpdateFinish \/ UpdateRecord
  PROVE  state' \in HostState
<1>1. state \in HostState /\ job \in HostJob /\ Nothing \in Data /\ 0 \in Releases
  BY NothingTyped DEF HostTypeOK, Releases
<1>2. CASE UpdateRecord
  BY <1>1, <1>2 DEF UpdateRecord, HostState, HostJob
<1>3. CASE UpdateFinish
  <2>1. job.target \in Revisions /\ job.from \in Releases /\ job.snap \in Data
    BY <1>1, <1>3 DEF UpdateFinish, At, HostTypeOK, HostJob, Releases
  <2>2. CASE job.from # job.target
    BY <1>1, <1>3, <2>1, <2>2 DEF UpdateFinish, HostState
  <2>3. CASE job.from = job.target
    BY <1>1, <1>3, <2>3 DEF UpdateFinish, HostState
  <2> QED
    BY <2>2, <2>3
<1> QED
  BY <1>2, <1>3

\* The rest of a step that only moves its script on, or ends it.
LEMMA MovedTyped ==
  ASSUME HostTypeOK, \/ \E step \in JobSteps : Proceed(step)
                     \/ job' = NoJob \/ job' = job
  PROVE  /\ job' \in HostJob
         /\ job'.op \in {"update", "rollback"} => job'.target # 0 /\ job'.from # 0
         /\ job'.op = "rollback" => job'.fallback # 0
<1>1. job \in HostJob
  BY DEF HostTypeOK
<1>2. ASSUME NEW step \in JobSteps, Proceed(step)
      PROVE  /\ job' \in HostJob /\ job'.op = job.op /\ job'.target = job.target
             /\ job'.from = job.from /\ job'.fallback = job.fallback
  BY <1>1, <1>2, ProceedTyped
<1> QED
  BY <1>1, <1>2, NoJobTyped DEF HostTypeOK

LEMMA HostTypeStep == HostTypeOK /\ [HostNext]_hostVars => HostTypeOK'
<1> SUFFICES ASSUME HostTypeOK, [HostNext]_hostVars PROVE HostTypeOK'
  OBVIOUS
<1>1. CASE UNCHANGED hostVars
  BY <1>1 DEF hostVars, HostTypeOK
<1>2. job \in HostJob /\ databases \in [Backends -> Data] /\ state \in HostState
  BY DEF HostTypeOK
<1>3. ASSUME NEW target \in Revisions, NEW pinned \in BOOLEAN, UpdateStart(target, pinned)
      PROVE  HostTypeOK'
  <2> DEFINE new == [NoJob EXCEPT !.op = "update", !.step = "snapshot",
                                  !.target = target, !.from = state.deployed]
  <2>1. state.deployed \in Revisions /\ target # 0 /\ state.deployed # 0
        /\ "update" \in JobOps /\ "snapshot" \in JobSteps
    BY <1>2, HostNaturals DEF HostState, JobOps, JobSteps
  <2>2. new \in HostJob /\ new.op = "update" /\ new.target = target /\ new.from = state.deployed
    <3>1. target \in Releases /\ state.deployed \in Releases
      BY <2>1 DEF Releases
    <3> QED
      BY <2>1, <3>1, NoJobTyped DEF HostJob
  <2>3. job' = new /\ source' \in Revisions
    BY <1>3 DEF UpdateStart, HostTypeOK
  <2> HIDE DEF new
  <2> QED
    BY <1>3, <2>1, <2>2, <2>3 DEF UpdateStart, HostTypeOK
<1>4. CASE UpdateSnapshot
  <2>1. SafetySnapshot \in Data
    BY SnapshotTyped
  <2>2. /\ job' \in HostJob /\ job'.op = job.op /\ job'.target = job.target /\ job'.from = job.from
        /\ job'.fallback = job.fallback
    BY <1>2, <1>4, <2>1 DEF UpdateSnapshot, HostJob, JobSteps
  <2> QED
    BY <1>4, <2>1, <2>2 DEF UpdateSnapshot, HostTypeOK
<1>5. CASE UpdateRecord
  <2>1. state' \in HostState
    BY <1>5, UpdateTyped
  <2>2. "checkout" \in JobSteps
    BY DEF JobSteps
  <2> QED
    BY <1>5, <2>1, <2>2, MovedTyped DEF UpdateRecord, HostTypeOK
<1>6. CASE UpdateCheckout
  <2>1. job.target \in Revisions /\ "stop" \in JobSteps
    BY <1>2, <1>6 DEF UpdateCheckout, At, HostTypeOK, HostJob, Releases, JobSteps
  <2> QED
    BY <1>6, <2>1, MovedTyped DEF UpdateCheckout, HostTypeOK
<1>7. CASE UpdateStop \/ RollbackStop \/ RestoreStop
  <2>1. {"migrate", "restore", "replace"} \subseteq JobSteps
    BY DEF JobSteps
  <2> QED
    BY <1>7, <2>1, MovedTyped, StoppedTyped DEF UpdateStop, RollbackStop, RestoreStop, HostTypeOK
<1>8. CASE UpdateMigrate
  <2>1. PICK schema \in Db.schema..SchemaOf[image] :
          Upgraded(schema) /\ (Proceed("start") \/ job' = NoJob)
    BY <1>8 DEF UpdateMigrate
  <2>2. Db.schema \in Nat /\ SchemaOf[image] \in Nat /\ "start" \in JobSteps
    BY HostNaturals DEF HostTypeOK, Db, Data, JobSteps
  <2>3. schema \in Nat
    BY <2>2
  <2> QED
    BY <1>8, <2>1, <2>2, <2>3, UpgradedTyped, MovedTyped DEF UpdateMigrate, HostTypeOK
<1>9. CASE \/ UpdateUp \/ RollbackUp \/ RecoverServices \/ RestoreUp \/ TransferUp \/ RotateUp
           \/ StartServices
  <2>1. {"finish", "recover source"} \subseteq JobSteps /\ image \in Revisions
    BY DEF JobSteps, HostTypeOK
  <2>2. Started(image)
    BY <1>9 DEF UpdateUp, RollbackUp, RecoverServices, RestoreUp, TransferUp, RotateUp, StartServices
  <2>3. Proceed("finish") \/ Proceed("recover source") \/ job' = NoJob \/ job' = job
    BY <1>9 DEF UpdateUp, RollbackUp, RecoverServices, RestoreUp, TransferUp, RotateUp, StartServices
  <2>4. UNCHANGED <<source, image, active, databases, env, state, kept, rewound, blurred>>
    BY <1>9 DEF UpdateUp, RollbackUp, RecoverServices, RestoreUp, TransferUp, RotateUp, StartServices
  <2>5. job' \in HostJob
        /\ (job'.op \in {"update", "rollback"} => job'.target # 0 /\ job'.from # 0)
        /\ (job'.op = "rollback" => job'.fallback # 0)
    BY <2>1, <2>3, MovedTyped
  <2>6. serving' \in Releases /\ loaded' \in Ring
    BY <2>1, <2>2, StartedTyped
  <2> QED
    BY <2>4, <2>5, <2>6 DEF HostTypeOK
<1>10. CASE UpdateFinish
  BY <1>10, UpdateTyped, MovedTyped DEF UpdateFinish, HostTypeOK
<1>11. CASE RollbackStart
  <2>1. RollbackTarget \in Releases /\ RollbackSnap \in Data /\ SafetySnapshot \in Data
    BY <1>2, SnapshotTyped DEF RollbackTarget, RollbackSnap, HostState
  <2>2. /\ RollbackTarget # 0 /\ source \in Releases /\ image \in Releases /\ source # 0 /\ image # 0
    BY <1>11, HostNaturals DEF RollbackStart, RollbackAllowed, HostTypeOK, Releases
  <2>3. /\ job' \in HostJob /\ job'.target = RollbackTarget /\ job'.from = source
        /\ job'.fallback = image
    BY <1>11, <2>1, <2>2 DEF RollbackStart, HostJob, JobOps, JobSteps
  <2> QED
    BY <1>11, <2>2, <2>3 DEF RollbackStart, HostTypeOK
<1>12. CASE RollbackRestore \/ RecoverData
  <2>1. PICK snap \in Data : databases' = Replaced(snap)
    BY <1>2, <1>12 DEF RollbackRestore, RecoverData, HostJob
  <2>2. databases' \in [Backends -> Data]
    BY <2>1, ReplacedTyped
  <2>3. {"checkout", "recover services"} \subseteq JobSteps
    BY DEF JobSteps
  <2>4. rewound' \in BOOLEAN
    BY <1>12 DEF RollbackRestore, RecoverData
  <2> QED
    BY <1>12, <2>2, <2>3, <2>4, MovedTyped DEF RollbackRestore, RecoverData, HostTypeOK
<1>13. CASE RollbackCheckout
  <2>1. job.target \in Revisions /\ "start" \in JobSteps
    BY <1>2, <1>13 DEF RollbackCheckout, At, HostTypeOK, HostJob, Releases, JobSteps
  <2> QED
    BY <1>13, <2>1, MovedTyped DEF RollbackCheckout, HostTypeOK
<1>14. CASE RollbackFinish
  <2>1. job.target \in Revisions /\ job.pre \in Data /\ state.deployed \in Releases
    BY <1>2, <1>14 DEF RollbackFinish, At, HostTypeOK, HostJob, HostState, Releases
  <2>2. Nothing \in Data /\ 0 \in Releases
    BY NothingTyped DEF Releases
  <2>3. state' \in HostState
    <3>1. CASE job.mode = "normal"
      BY <1>2, <1>14, <2>1, <2>2, <3>1 DEF RollbackFinish, HostState
    <3>2. CASE job.mode # "normal"
      BY <1>2, <1>14, <2>1, <2>2, <3>2 DEF RollbackFinish, HostState
    <3> QED
      BY <3>1, <3>2
  <2>4. blurred' \in BOOLEAN
    BY <1>14 DEF RollbackFinish
  <2> QED
    BY <1>14, <2>3, <2>4, MovedTyped DEF RollbackFinish, HostTypeOK
<1>15. CASE RollbackFails \/ Abort
  <2>1. "recover source" \in JobSteps
    BY DEF JobSteps
  <2> QED
    BY <1>15, <2>1, MovedTyped DEF RollbackFails, Abort, HostTypeOK
<1>16. CASE RecoverSource
  <2>1. job.from \in Revisions /\ job.fallback \in Revisions /\ "recover data" \in JobSteps
    BY <1>2, <1>16 DEF RecoverSource, At, HostTypeOK, HostJob, Releases, JobSteps
  <2> QED
    BY <1>16, <2>1, MovedTyped DEF RecoverSource, HostTypeOK
<1>17. CASE RestoreStart
  <2> DEFINE new == [NoJob EXCEPT !.op = "restore", !.step = "stop"]
  <2>1. "restore" \in JobOps /\ "stop" \in JobSteps /\ 0 \in Releases
    BY DEF JobOps, JobSteps, Releases
  <2>2. new \in HostJob /\ new.op = "restore"
    BY <2>1, BegunTyped
  <2>3. job' = new \/ job' = NoJob
    BY <1>17 DEF RestoreStart
  <2> HIDE DEF new
  <2>4. job' \in HostJob /\ job'.op \in {"restore", "idle"}
    BY <2>2, <2>3, NoJobTyped
  <2> QED
    BY <1>17, <2>4 DEF RestoreStart, HostTypeOK
<1>18. CASE RestoreStaged
  <2>1. databases' = databases \/ databases' = Replaced(kept)
    BY <1>18 DEF RestoreStaged
  <2>2. databases' \in [Backends -> Data]
    BY <1>2, <2>1, ReplacedTyped DEF HostTypeOK
  <2>3. "start" \in JobSteps
    BY DEF JobSteps
  <2> QED
    BY <1>18, <2>2, <2>3, MovedTyped DEF RestoreStaged, HostTypeOK
<1>19. CASE TransferStart
  <2> DEFINE new == [NoJob EXCEPT !.op = "transfer", !.step = "copy"]
  <2>1. "transfer" \in JobOps /\ "copy" \in JobSteps /\ 0 \in Releases
    BY DEF JobOps, JobSteps, Releases
  <2>2. new \in HostJob /\ new.op = "transfer"
    BY <2>1, BegunTyped
  <2>3. job' = new
    BY <1>19 DEF TransferStart
  <2> HIDE DEF new
  <2> QED
    BY <1>19, <2>2, <2>3, StoppedTyped, SnapshotTyped DEF TransferStart, HostTypeOK
<1>20. CASE TransferCopy
  <2>1. "switch" \in JobSteps /\ Other \in Backends /\ image \in Revisions
    BY OtherTyped DEF JobSteps, HostTypeOK
  <2>2. databases' \in [Backends -> Data]
    BY <1>2, <1>20, <2>1, TransferredTyped DEF TransferCopy
  <2>3. serving' \in Releases /\ loaded' \in Ring
    BY <1>20, <2>1, StartedTyped DEF TransferCopy, HostTypeOK
  <2> QED
    BY <1>20, <2>1, <2>2, <2>3, MovedTyped DEF TransferCopy, HostTypeOK
<1>21. CASE TransferSwitch
  <2>1. "start" \in JobSteps /\ Other \in Backends
    BY OtherTyped DEF JobSteps, HostTypeOK
  <2> QED
    BY <1>21, <2>1, MovedTyped DEF TransferSwitch, HostTypeOK
<1>22. CASE TransferRecover
  <2>1. Other \in Backends
    BY OtherTyped DEF HostTypeOK
  <2> QED
    BY <1>22, <2>1, MovedTyped DEF TransferRecover, HostTypeOK, Releases
<1>23. ASSUME NEW k \in Keys, ConfigureKey(k) PROVE HostTypeOK'
  <2>1. env' \in Ring
    BY <1>23 DEF ConfigureKey, Ring, KeysOf, HostTypeOK
  <2> QED
    BY <1>23, <2>1 DEF ConfigureKey, HostTypeOK
<1>24. CASE RotateStart
  <2> DEFINE new == [NoJob EXCEPT !.op = "rotate", !.step = "rewrite"]
  <2>1. "rotate" \in JobOps /\ "rewrite" \in JobSteps /\ 0 \in Releases
    BY DEF JobOps, JobSteps, Releases
  <2>2. new \in HostJob /\ new.op = "rotate"
    BY <2>1, BegunTyped
  <2>3. job' = new
    BY <1>24 DEF RotateStart
  <2> HIDE DEF new
  <2> QED
    BY <1>24, <2>2, <2>3, StoppedTyped DEF RotateStart, HostTypeOK
<1>25. CASE RotateRecords
  <2>1. "start" \in JobSteps /\ env \in Ring
    BY DEF JobSteps, HostTypeOK
  <2>2. databases' \in [Backends -> Data]
    BY <1>2, <1>25, <2>1, RotatedTyped DEF RotateRecords
  <2> QED
    BY <1>25, <2>1, <2>2, MovedTyped DEF RotateRecords, HostTypeOK
<1>26. CASE RotateOnline
  <2>1. loaded \in Ring
    BY DEF HostTypeOK
  <2>2. databases' \in [Backends -> Data]
    BY <1>26, <2>1, RotatedTyped DEF RotateOnline
  <2> QED
    BY <1>26, <2>2 DEF RotateOnline, HostTypeOK
<1>27. CASE DropKeys
  <2>1. env' \in Ring
    BY <1>27 DEF DropKeys, Ring, HostTypeOK
  <2> QED
    BY <1>27, <2>1 DEF DropKeys, HostTypeOK
<1>28. CASE WriteSecret
  <2>1. databases[active].keys \cup {loaded.primary} \in SUBSET Keys
    BY DEF HostTypeOK, Data, Ring
  <2>2. databases' = [databases EXCEPT ![active].keys = databases[active].keys \cup {loaded.primary}]
    BY <1>28 DEF WriteSecret
  <2>3. databases' \in [Backends -> Data]
    BY <2>1, <2>2, RekeyedTyped
  <2> QED
    BY <1>28, <2>3 DEF WriteSecret, HostTypeOK
<1>29. CASE TakeBackup
  BY <1>29, SnapshotTyped DEF TakeBackup, HostTypeOK
<1>30. CASE MigrateOnly
  <2>1. SchemaOf[image] \in Nat
    BY HostNaturals DEF HostTypeOK
  <2> QED
    BY <1>30, <2>1, UpgradedTyped DEF MigrateOnly, HostTypeOK
<1> QED
  BY <1>1, <1>3, <1>4, <1>5, <1>6, <1>7, <1>8, <1>9, <1>10, <1>11, <1>12, <1>13, <1>14, <1>15,
     <1>16, <1>17, <1>18, <1>19, <1>20, <1>21, <1>22, <1>23, <1>24, <1>25, <1>26, <1>27, <1>28,
     <1>29, <1>30, Zenon DEF HostNext

LEMMA HostStart ==
  ASSUME HostInit
  PROVE  /\ HostTypeOK /\ job = NoJob /\ image = source /\ ~blurred
         /\ Db.schema = SchemaOf[image] /\ Db.keys \subseteq KeysOf(env)
         /\ loaded = env
         /\ state.rollback = 0 /\ state.pending = 0
<1> DEFINE first == CHOOSE r \in Revisions : \A q \in Revisions : r <= q
           key == CHOOSE k \in Keys : \A l \in Keys : k <= l
           data(b) == IF b = active THEN [schema |-> SchemaOf[first], keys |-> {key}, backend |-> b]
                                    ELSE Nothing
<1>1. first \in Revisions /\ key \in Keys
  BY HostAssumption
<1>2. /\ source = first /\ image = first /\ serving = first
      /\ env = [primary |-> key, previous |-> {}] /\ loaded = env /\ active \in Backends
      /\ databases = [b \in Backends |-> data(b)]
      /\ state = [deployed |-> first, rollback |-> 0, rollbackSnap |-> Nothing,
                  pending |-> 0, previous |-> 0, pendingSnap |-> Nothing]
      /\ job = NoJob /\ kept = Nothing /\ rewound = FALSE /\ blurred = FALSE
  BY DEF HostInit
<1> HIDE DEF first, key
<1>3. SchemaOf[first] \in Nat
  BY <1>1, HostNaturals
<1>4. \A b \in Backends : data(b) \in Data
  BY <1>1, <1>3, NothingTyped DEF Data
<1>5. databases[active] = [schema |-> SchemaOf[first], keys |-> {key}, backend |-> active]
  BY <1>2
<1>6. env \in Ring /\ state \in HostState
  BY <1>1, <1>2, NothingTyped DEF Ring, HostState, Releases
<1> HIDE DEF data
<1>7. HostTypeOK
  BY <1>1, <1>2, <1>4, <1>6, NothingTyped, NoJobTyped DEF HostTypeOK, Releases
<1> QED
  BY <1>2, <1>5, <1>7 DEF Db, KeysOf

\* The inductive part of SecretsReadable: what the running services write can be read
\* with the keyring of .env, and so can both databases of a transfer.
SecretsKept ==
  /\ SecretsReadable
  /\ serving # 0 => loaded.primary \in KeysOf(env)
  /\ job.op = "transfer" /\ job.step \in {"switch", "start"} /\ ~rewound =>
       \A b \in Backends : databases[b].keys \subseteq KeysOf(env)

\* A step that leaves the databases and the keys alone.
LEMMA SameKeys ==
  ASSUME HostTypeOK, SecretsKept, UNCHANGED <<databases, env, active, rewound>>,
         serving' = 0 \/ loaded' = env \/ UNCHANGED <<serving, loaded>>,
         job'.op = "transfer" /\ job'.step \in {"switch", "start"} =>
           job.op = "transfer" /\ job.step \in {"switch", "start"}
  PROVE  SecretsKept'
<1>1. KeysOf(env)' = KeysOf(env) /\ env.primary \in KeysOf(env)
  BY DEF KeysOf
<1>2. loaded' = env => loaded'.primary \in KeysOf(env)
  BY <1>1
<1> QED
  BY <1>1, <1>2 DEF SecretsKept, SecretsReadable, Readable, Db

\* A step that changes the active database only.
LEMMA ReadableKeys ==
  ASSUME HostTypeOK, SecretsKept, UNCHANGED <<env, active>>,
         ~rewound' => ~rewound,
         ~rewound' => databases'[active].keys \subseteq KeysOf(env),
         \A b \in Backends : b # active => databases'[b] = databases[b],
         UNCHANGED <<serving, loaded>>,
         job'.op = "transfer" /\ job'.step \in {"switch", "start"} =>
           job.op = "transfer" /\ job.step \in {"switch", "start"}
  PROVE  SecretsKept'
<1>1. KeysOf(env)' = KeysOf(env) /\ active \in Backends
  BY DEF KeysOf, HostTypeOK
<1>2. ASSUME ~rewound', job'.op = "transfer", job'.step \in {"switch", "start"}, NEW b \in Backends
      PROVE  databases'[b].keys \subseteq KeysOf(env)
  BY <1>1, <1>2 DEF SecretsKept
<1>3. rewound' \/ databases'[active].keys \subseteq KeysOf(env)
  OBVIOUS
<1> QED
  BY <1>1, <1>2, <1>3 DEF SecretsKept, SecretsReadable, Readable, Db

LEMMA SecretsStep ==
  ASSUME HostTypeOK, SecretsKept, [HostNext]_hostVars
  PROVE  SecretsKept'
<1>0. /\ job \in HostJob /\ databases \in [Backends -> Data] /\ active \in Backends
      /\ image \in Revisions /\ rewound \in BOOLEAN
  BY DEF HostTypeOK
<1>1. \A step \in JobSteps : Proceed(step) => job'.op = job.op /\ job'.step = step
  BY <1>0, ProceedTyped
<1>2. ASSUME Started(image) PROVE serving' = 0 \/ loaded' = env
  BY <1>0, <1>2, StartedTyped
<1>3. ASSUME Stopped PROVE serving' = 0
  BY <1>3 DEF Stopped
<1>4. CASE UNCHANGED hostVars
  BY <1>4, SameKeys DEF hostVars
<1>5. ASSUME NEW target \in Revisions, NEW pinned \in BOOLEAN, UpdateStart(target, pinned)
      PROVE  SecretsKept'
  <2>1. job'.op = "update"
    BY <1>5, NoJobTyped DEF UpdateStart, HostJob
  <2> QED
    BY <1>5, <2>1, SameKeys DEF UpdateStart
<1>6. CASE UpdateSnapshot
  <2>1. job'.op = "update"
    BY <1>0, <1>6 DEF UpdateSnapshot, At, HostJob
  <2> QED
    BY <1>6, <2>1, SameKeys DEF UpdateSnapshot
<1>7. CASE UpdateRecord
  <2>1. job'.op = "update"
    BY <1>1, <1>7 DEF UpdateRecord, At, JobSteps
  <2> QED
    BY <1>7, <2>1, SameKeys DEF UpdateRecord
<1>8. CASE UpdateCheckout
  <2>1. job'.op = "update"
    BY <1>1, <1>8 DEF UpdateCheckout, At, JobSteps
  <2> QED
    BY <1>8, <2>1, SameKeys DEF UpdateCheckout
<1>9. CASE UpdateStop
  <2>1. job'.op = "update"
    BY <1>1, <1>9 DEF UpdateStop, At, JobSteps
  <2> QED
    BY <1>3, <1>9, <2>1, SameKeys DEF UpdateStop
<1>10. CASE UpdateMigrate
  <2>1. PICK schema \in Db.schema..SchemaOf[image] :
          Upgraded(schema) /\ (Proceed("start") \/ job' = NoJob)
    BY <1>10 DEF UpdateMigrate
  <2>2. Db.schema \in Nat /\ SchemaOf[image] \in Nat /\ "start" \in JobSteps
    BY HostNaturals DEF HostTypeOK, Db, Data, JobSteps
  <2>3. schema \in Nat
    BY <2>2
  <2>4. /\ databases'[active].keys = databases[active].keys
        /\ \A b \in Backends : b # active => databases'[b] = databases[b]
    BY <2>1, <2>3, UpgradedTyped
  <2>5. job'.op # "transfer"
    BY <1>1, <1>10, <2>1, <2>2, NoJobTyped DEF UpdateMigrate, At
  <2>6. ~rewound => databases'[active].keys \subseteq KeysOf(env)
    BY <2>4 DEF SecretsKept, SecretsReadable, Readable, Db
  <2> QED
    BY <1>10, <2>4, <2>5, <2>6, ReadableKeys DEF UpdateMigrate
<1>11. CASE \/ UpdateUp \/ RollbackUp \/ RecoverServices \/ RestoreUp \/ TransferUp \/ RotateUp
            \/ StartServices
  <2>1. {"finish", "recover source"} \subseteq JobSteps
    BY DEF JobSteps
  <2>2. Started(image)
    BY <1>11 DEF UpdateUp, RollbackUp, RecoverServices, RestoreUp, TransferUp, RotateUp, StartServices
  <2>3. Proceed("finish") \/ Proceed("recover source") \/ job' = NoJob \/ job' = job
    BY <1>11 DEF UpdateUp, RollbackUp, RecoverServices, RestoreUp, TransferUp, RotateUp, StartServices
  <2>4. UNCHANGED <<active, databases, env, rewound>>
    BY <1>11 DEF UpdateUp, RollbackUp, RecoverServices, RestoreUp, TransferUp, RotateUp, StartServices
  <2>5. job'.op = "transfer" /\ job'.step \in {"switch", "start"} => job' = job
    BY <1>1, <2>1, <2>3, NoJobTyped
  <2> QED
    BY <1>2, <2>2, <2>4, <2>5, SameKeys
<1>12. CASE UpdateFinish \/ RollbackFinish \/ Abort
  <2>1. job' = NoJob /\ UNCHANGED <<databases, env, active, rewound, serving, loaded>>
    BY <1>12 DEF UpdateFinish, RollbackFinish, Abort
  <2> QED
    BY <2>1, NoJobTyped, SameKeys
<1>13. CASE RollbackStart
  <2>1. job'.op = "rollback"
    BY <1>13 DEF RollbackStart
  <2> QED
    BY <1>13, <2>1, SameKeys DEF RollbackStart
<1>14. CASE RollbackStop \/ RollbackCheckout \/ RollbackFails \/ RecoverSource
  <2>1. job'.op = "rollback"
    BY <1>1, <1>14 DEF RollbackStop, RollbackCheckout, RollbackFails, RecoverSource, At, JobSteps
  <2>2. UNCHANGED <<databases, env, active, rewound>> /\ (serving' = 0 \/ UNCHANGED <<serving, loaded>>)
    BY <1>14 DEF RollbackStop, RollbackCheckout, RollbackFails, RecoverSource, Stopped
  <2> QED
    BY <2>1, <2>2, SameKeys
<1>15. CASE RollbackRestore \/ RecoverData
  <2>1. PICK snap \in Data : databases' = Replaced(snap) /\ rewound' = (rewound \/ ~Readable(snap, env))
    BY <1>0, <1>15 DEF RollbackRestore, RecoverData, HostJob
  <2>2. job'.op = "rollback"
    BY <1>1, <1>15 DEF RollbackRestore, RecoverData, At, JobSteps
  <2>3. ~rewound' => ~rewound /\ snap.keys \subseteq KeysOf(env)
    BY <1>0, <2>1 DEF Readable
  <2> QED
    BY <1>15, <2>1, <2>2, <2>3, ReplacedTyped, ReadableKeys DEF RollbackRestore, RecoverData
<1>16. CASE RestoreStart
  <2>1. job'.op # "transfer"
    BY <1>16, NoJobTyped DEF RestoreStart, HostJob
  <2> QED
    BY <1>16, <2>1, SameKeys DEF RestoreStart
<1>17. CASE RestoreStop
  <2>1. job'.op = "restore"
    BY <1>1, <1>17 DEF RestoreStop, At, JobSteps
  <2> QED
    BY <1>3, <1>17, <2>1, SameKeys DEF RestoreStop
<1>18. CASE RestoreStaged
  <2>1. job'.op # "transfer"
    BY <1>1, <1>18, NoJobTyped DEF RestoreStaged, At, JobSteps
  <2>2. CASE databases' = databases
    BY <1>18, <2>1, <2>2, SameKeys DEF RestoreStaged
  <2>3. CASE databases' # databases
    <3>1. databases' = Replaced(kept) /\ kept.keys \subseteq KeysOf(env) /\ kept \in Data
      BY <1>18, <2>3 DEF RestoreStaged, RestorePreflight, ValidRestoreKeyring, Readable, HostTypeOK
    <3> QED
      BY <1>18, <2>1, <3>1, ReplacedTyped, ReadableKeys DEF RestoreStaged
  <2> QED
    BY <2>2, <2>3
<1>19. CASE TransferStart
  <2>1. job'.op = "transfer" /\ job'.step = "copy"
    BY <1>19, NoJobTyped DEF TransferStart, HostJob
  <2> QED
    BY <1>3, <1>19, <2>1, SameKeys DEF TransferStart
<1>20. CASE TransferCopy
  <2>1. CASE TransferPossible
    <3>1. /\ databases' = Transferred(Db, Other) /\ UNCHANGED <<serving, loaded, env, active, rewound>>
      BY <1>20, <2>1 DEF TransferCopy
    <3>2. Other \in Backends /\ Other # active /\ \A b \in Backends : b # active => b = Other
      BY <1>0, OtherTyped
    <3>3. databases'[Other].keys = databases[active].keys /\ databases'[active] = databases[active]
      BY <1>0, <3>1, <3>2, TransferredTyped DEF Db
    <3>4. ~rewound => \A b \in Backends : databases'[b].keys \subseteq KeysOf(env)
      BY <3>2, <3>3 DEF SecretsKept, SecretsReadable, Readable, Db
    <3>5. KeysOf(env)' = KeysOf(env)
      BY <3>1 DEF KeysOf
    <3> QED
      BY <1>0, <3>1, <3>4, <3>5 DEF SecretsKept, SecretsReadable, Readable, Db
  <2>2. CASE ~TransferPossible
    BY <1>2, <1>20, <2>2, NoJobTyped, SameKeys DEF TransferCopy
  <2> QED
    BY <2>1, <2>2
<1>21. CASE TransferSwitch
  <2>1. job.op = "transfer" /\ job.step = "switch" /\ Other \in Backends
    BY <1>0, <1>21, OtherTyped DEF TransferSwitch, At
  <2>2. KeysOf(env)' = KeysOf(env) /\ UNCHANGED <<databases, rewound, serving, loaded, env>> /\ active' = Other
    BY <1>21 DEF TransferSwitch, KeysOf
  <2> QED
    BY <2>1, <2>2 DEF SecretsKept, SecretsReadable, Readable, Db
<1>22. CASE TransferRecover
  <2>1. job.op = "transfer" /\ job.step = "start" /\ Other \in Backends
    BY <1>0, <1>22, OtherTyped DEF TransferRecover, At
  <2>2. KeysOf(env)' = KeysOf(env) /\ UNCHANGED <<databases, rewound, env>> /\ active' = Other
        /\ job' = NoJob /\ loaded' = env
    BY <1>22 DEF TransferRecover, KeysOf
  <2>3. loaded'.primary \in KeysOf(env)
    BY <2>2 DEF KeysOf
  <2> QED
    BY <2>1, <2>2, <2>3, NoJobTyped DEF SecretsKept, SecretsReadable, Readable, Db
<1>23. ASSUME NEW k \in Keys, ConfigureKey(k) PROVE SecretsKept'
  <2>1. env' = [primary |-> k, previous |-> KeysOf(env)]
    BY <1>23 DEF ConfigureKey
  <2>2. KeysOf(env)' = {k} \cup KeysOf(env)
    <3>1. KeysOf(env)' = {env'.primary} \cup env'.previous
      BY DEF KeysOf
    <3> QED
      BY <2>1, <3>1
  <2>3. KeysOf(env) \subseteq KeysOf(env)'
    BY <2>2
  <2>4. UNCHANGED <<databases, active, rewound, serving, loaded, job>>
    BY <1>23 DEF ConfigureKey
  <2> QED
    BY <2>3, <2>4 DEF SecretsKept, SecretsReadable, Readable, Db
<1>24. CASE RotateStart
  <2>1. job'.op = "rotate"
    BY <1>24, NoJobTyped DEF RotateStart, HostJob
  <2> QED
    BY <1>3, <1>24, <2>1, SameKeys DEF RotateStart
<1>25. CASE RotateRecords
  <2>1. job'.op = "rotate"
    BY <1>1, <1>25 DEF RotateRecords, At, JobSteps
  <2>2. CASE databases' = databases
    BY <1>25, <2>1, <2>2, SameKeys DEF RotateRecords
  <2>3. CASE databases' # databases
    <3>1. databases' = [databases EXCEPT ![active] = Rotated(Db, env)] /\ env \in Ring
      BY <1>25, <2>3 DEF RotateRecords, HostTypeOK
    <3>2. databases'[active].keys \subseteq {env.primary}
          /\ \A b \in Backends : b # active => databases'[b] = databases[b]
      BY <3>1, RotatedTyped
    <3>3. databases'[active].keys \subseteq KeysOf(env)
      BY <3>2 DEF KeysOf
    <3> QED
      BY <1>25, <2>1, <3>2, <3>3, ReadableKeys DEF RotateRecords
  <2> QED
    BY <2>2, <2>3
<1>26. CASE RotateOnline
  <2>1. databases' = [databases EXCEPT ![active] = Rotated(Db, loaded)] /\ loaded \in Ring
    BY <1>26 DEF RotateOnline, HostTypeOK
  <2>2. databases'[active].keys \subseteq {loaded.primary}
        /\ \A b \in Backends : b # active => databases'[b] = databases[b]
    BY <2>1, RotatedTyped
  <2>3. databases'[active].keys \subseteq KeysOf(env)
    BY <1>26, <2>2 DEF RotateOnline, SecretsKept
  <2> QED
    BY <1>26, <2>2, <2>3, ReadableKeys DEF RotateOnline
<1>27. CASE DropKeys
  <2>1. env' = [env EXCEPT !.previous = {}] /\ env \in Ring /\ loaded' = env'
    BY <1>27 DEF DropKeys, HostTypeOK
  <2>2. env'.primary = env.primary /\ KeysOf(env)' = {env'.primary} \cup env'.previous
    BY <2>1 DEF Ring, KeysOf
  <2>3. env.primary \in KeysOf(env)'
    BY <2>2
  <2>4. databases[active].keys \subseteq {env.primary} /\ job = NoJob
    BY <1>27 DEF DropKeys, AllCurrent, Db
  <2>5. databases[active].keys \subseteq KeysOf(env)'
    BY <2>3, <2>4
  <2>6. UNCHANGED <<databases, active, rewound, job>> /\ loaded'.primary \in KeysOf(env)'
    BY <1>27, <2>1, <2>2, <2>3 DEF DropKeys
  <2> QED
    BY <2>4, <2>5, <2>6, NoJobTyped DEF SecretsKept, SecretsReadable, Readable, Db
<1>28. CASE WriteSecret
  <2>1. databases[active].keys \cup {loaded.primary} \in SUBSET Keys
    BY DEF HostTypeOK, Data, Ring
  <2>2. databases' = [databases EXCEPT ![active].keys = databases[active].keys \cup {loaded.primary}]
    BY <1>28 DEF WriteSecret
  <2>3. databases'[active].keys = databases[active].keys \cup {loaded.primary}
        /\ \A b \in Backends : b # active => databases'[b] = databases[b]
    BY <2>1, <2>2, RekeyedTyped
  <2>4. ~rewound => databases'[active].keys \subseteq KeysOf(env)
    BY <1>28, <2>3 DEF WriteSecret, SecretsKept, SecretsReadable, Readable, Db
  <2> QED
    BY <1>28, <2>3, <2>4, ReadableKeys DEF WriteSecret
<1>29. CASE TakeBackup
  BY <1>29, SameKeys DEF TakeBackup
<1>30. CASE MigrateOnly
  <2>1. SchemaOf[image] \in Nat
    BY <1>0, HostNaturals
  <2>2. /\ databases'[active].keys = databases[active].keys
        /\ \A b \in Backends : b # active => databases'[b] = databases[b]
    BY <1>30, <2>1, UpgradedTyped DEF MigrateOnly
  <2>3. ~rewound => databases'[active].keys \subseteq KeysOf(env)
    BY <2>2 DEF SecretsKept, SecretsReadable, Readable, Db
  <2> QED
    BY <1>30, <2>2, <2>3, ReadableKeys DEF MigrateOnly
<1> QED
  BY <1>4, <1>5, <1>6, <1>7, <1>8, <1>9, <1>10, <1>11, <1>12, <1>13, <1>14, <1>15, <1>16, <1>17,
     <1>18, <1>19, <1>20, <1>21, <1>22, <1>23, <1>24, <1>25, <1>26, <1>27, <1>28, <1>29, <1>30,
     Zenon DEF HostNext

\* As long as keys are removed only as documented, every secret record of the active
\* database can be decrypted with the keyring of .env (inspect_records), whatever
\* rotation, update, restore or transfer died half way; a rollback to a snapshot older
\* than the removal is the exception.
THEOREM SecretsStayReadable == HostSpec => []SecretsReadable
<1>1. HostInit => HostTypeOK /\ SecretsKept
  <2>1. SUFFICES ASSUME HostInit PROVE HostTypeOK /\ SecretsKept
    OBVIOUS
  <2>2. env.primary \in KeysOf(env)
    BY DEF KeysOf
  <2> QED
    BY <2>1, <2>2, HostStart, NoJobTyped DEF SecretsKept, SecretsReadable, Readable
<1>2. HostTypeOK /\ SecretsKept /\ [HostNext]_hostVars => (HostTypeOK /\ SecretsKept)'
  BY HostTypeStep, SecretsStep
<1>3. HostTypeOK /\ SecretsKept => SecretsReadable
  BY DEF SecretsKept
<1> QED
  BY <1>1, <1>2, <1>3, PTL DEF HostSpec

-----------------------------------------------------------------------------
(* NeverStranded.                                                          *)

\* What the recorded state allows with src checked out.
FailedAt(src) ==
  state.pending # 0 /\ state.previous = state.deployed /\ src \in {state.pending, state.previous}
TargetAt(src) == IF FailedAt(src) THEN state.previous ELSE state.rollback
SnapAt(src) == IF FailedAt(src) THEN state.pendingSnap ELSE state.rollbackSnap

\* Recorded rollback points are databases of the releases they name.
PointsFit ==
  ~blurred =>
    /\ state.rollback # 0 => state.rollbackSnap.schema = SchemaOf[state.rollback]
    /\ state.pending # 0 => state.pendingSnap.schema = SchemaOf[state.previous]

\* An update moves to a release that knows the schema of the database.
UpdateFits ==
  job.op = "update" =>
    /\ source <= job.target /\ databases[active].schema <= SchemaOf[image]
    /\ job.step \notin {"snapshot", "record"} /\ ~blurred => job.snap.schema = SchemaOf[job.from]

\* A rollback under way is the one the state still allows where it began.
RollbackPlanned ==
  job.op = "rollback" =>
    /\ FailedAt(job.from) \/ job.from = state.deployed
    /\ job.target = TargetAt(job.from) /\ job.snap = SnapAt(job.from)
    /\ job.snap # Nothing /\ job.snap.backend = active
    /\ job.fallback <= job.from

\* Its checkout and image are those it began with, or those of its target after the
\* database was restored.
Begun == source = job.from /\ image = job.fallback
Switched == /\ source = job.target /\ image = job.target
            /\ databases[active].schema = job.snap.schema

RollbackPlaces ==
  job.op = "rollback" =>
    /\ job.step \in {"stop", "restore", "checkout", "recover data", "recover services"} => Begun
    /\ job.step = "checkout" => databases[active].schema = job.snap.schema
    /\ job.step \in {"start", "finish"} => Switched
    /\ Begun \/ Switched

\* Both databases of a transfer have the schema of the image.
TransferFits ==
  job.op = "transfer" /\ job.step \in {"switch", "start"} =>
    \A b \in Backends : databases[b].schema = SchemaOf[image]

Ahead == databases[active].schema > SchemaOf[image]
WayOut == RollbackAllowed /\ RollbackSnap.schema = SchemaOf[RollbackTarget]

WayOutKept == job.op # "rollback" /\ Ahead /\ ~blurred => WayOut

StrandInv ==
  /\ image <= source /\ PointsFit /\ UpdateFits /\ RollbackPlanned /\ RollbackPlaces
  /\ TransferFits /\ WayOutKept

LEMMA PlannedFits ==
  ASSUME HostTypeOK, StrandInv, job.op = "rollback", ~blurred
  PROVE  job.snap.schema = SchemaOf[job.target]
BY DEF HostTypeOK, StrandInv, RollbackPlanned, PointsFit, TargetAt, SnapAt, FailedAt

\* Wherever a rollback dies, it has not cut off its own repetition.
LEMMA RollbackWayOut ==
  ASSUME HostTypeOK, StrandInv, job.op = "rollback", Ahead, ~blurred
  PROVE  WayOut
<1>1. job.snap.schema = SchemaOf[job.target] /\ job.target # 0
  BY PlannedFits DEF HostTypeOK
<1>2. ~Switched
  <2>1. image \in Revisions /\ databases[active].schema \in Nat
    BY DEF HostTypeOK, Data
  <2> QED
    BY <1>1, <2>1, HostNaturals DEF Switched, Ahead
<1>3. source = job.from
  BY <1>2 DEF StrandInv, RollbackPlaces, Begun
<1>4. FailedUpdate = FailedAt(source) /\ RollbackTarget = TargetAt(source)
      /\ RollbackSnap = SnapAt(source)
  BY DEF FailedUpdate, RollbackTarget, RollbackSnap, FailedAt, TargetAt, SnapAt
<1> QED
  BY <1>1, <1>3, <1>4 DEF StrandInv, RollbackPlanned, WayOut, RollbackAllowed, ValidSafetySnapshot

\* What the schema, the releases and the recorded state say is as before.
SameReleases ==
  /\ UNCHANGED <<source, image, active, state, blurred>>
  /\ \A b \in Backends : databases'[b].schema = databases[b].schema

LEMMA SameWayOut ==
  ASSUME HostTypeOK, SameReleases
  PROVE  Ahead' = Ahead /\ WayOut' = WayOut /\ PointsFit' = PointsFit
BY DEF HostTypeOK, SameReleases, Ahead, WayOut, RollbackAllowed, RollbackSnap, RollbackTarget,
       FailedUpdate, ValidSafetySnapshot, PointsFit

LEMMA SameScript ==
  ASSUME HostTypeOK, StrandInv, SameReleases, job' = job
  PROVE  StrandInv'
<1>1. Ahead' = Ahead /\ WayOut' = WayOut /\ PointsFit' = PointsFit
  BY SameWayOut
<1>2. WayOutKept' /\ PointsFit' /\ image' <= source'
  BY <1>1 DEF StrandInv, WayOutKept, SameReleases
<1>3. UpdateFits' /\ TransferFits'
  BY DEF StrandInv, UpdateFits, TransferFits, SameReleases, HostTypeOK
<1>4. RollbackPlanned' /\ RollbackPlaces'
  BY DEF StrandInv, RollbackPlanned, RollbackPlaces, Begun, Switched, SameReleases, HostTypeOK,
         FailedAt, TargetAt, SnapAt
<1> QED
  BY <1>2, <1>3, <1>4 DEF StrandInv

\* A script ends, or one that looks at no release goes on.
LEMMA PlainScript ==
  ASSUME HostTypeOK, StrandInv, SameReleases,
         job'.op \in {"idle", "restore", "rotate"} \/ (job'.op = "transfer" /\ job'.step = "copy")
  PROVE  StrandInv'
<1>1. Ahead' = Ahead /\ WayOut' = WayOut /\ PointsFit' = PointsFit
  BY SameWayOut
<1>2. Ahead /\ ~blurred => WayOut
  BY RollbackWayOut DEF StrandInv, WayOutKept
<1>3. WayOutKept' /\ PointsFit' /\ image' <= source'
  BY <1>1, <1>2 DEF StrandInv, WayOutKept, SameReleases
<1> QED
  BY <1>3 DEF StrandInv, UpdateFits, TransferFits, RollbackPlanned, RollbackPlaces

\* The steps of an update after its start.
LEMMA UpdateSteps ==
  ASSUME HostTypeOK, StrandInv,
         \/ UpdateSnapshot \/ UpdateRecord \/ UpdateCheckout \/ UpdateStop
         \/ UpdateMigrate \/ UpdateUp \/ UpdateFinish
  PROVE  StrandInv'
<1>0. /\ job \in HostJob /\ databases \in [Backends -> Data] /\ active \in Backends
      /\ image \in Revisions /\ source \in Revisions /\ databases[active].schema \in Nat
      /\ state \in HostState /\ blurred \in BOOLEAN /\ job.op = "update"
  BY DEF HostTypeOK, Data, UpdateSnapshot, UpdateRecord, UpdateCheckout, UpdateStop,
         UpdateMigrate, UpdateUp, UpdateFinish, At
<1>1. job.target \in Revisions /\ job.from \in Revisions /\ source <= job.target
      /\ databases[active].schema <= SchemaOf[image] /\ image <= source
  BY <1>0 DEF HostTypeOK, HostJob, Releases, StrandInv, UpdateFits
<1>2. ASSUME databases'[active].schema <= SchemaOf[image'], image' \in Revisions, active' = active,
             databases'[active].schema \in Nat
      PROVE  ~Ahead'
  BY <1>2, HostNaturals DEF Ahead
<1>3. ASSUME job'.op \in {"update", "idle"} PROVE RollbackPlanned' /\ RollbackPlaces' /\ TransferFits'
  BY <1>3 DEF RollbackPlanned, RollbackPlaces, TransferFits
<1>4. CASE UpdateSnapshot
  <2>1. /\ job'.op = "update" /\ job'.step = "record" /\ job'.target = job.target
    BY <1>0, <1>4 DEF UpdateSnapshot, HostJob
  <2>2. UNCHANGED <<source, image, active, databases, state, blurred>>
    BY <1>4 DEF UpdateSnapshot
  <2>3. UpdateFits' /\ image' <= source'
    BY <1>1, <2>1, <2>2 DEF UpdateFits
  <2>4. ~Ahead' /\ PointsFit'
    BY <1>0, <1>1, <1>2, <2>2 DEF StrandInv, PointsFit
  <2> QED
    BY <1>3, <2>1, <2>3, <2>4 DEF StrandInv, WayOutKept
<1>5. CASE UpdateRecord
  <2>1. /\ job'.op = "update" /\ job'.step = "checkout" /\ job'.target = job.target
        /\ job'.from = job.from /\ job'.snap = job.snap
    BY <1>0, <1>5, ProceedTyped DEF UpdateRecord, JobSteps
  <2>2. UNCHANGED <<source, image, active, databases>>
    BY <1>5 DEF UpdateRecord
  <2>3. ~blurred' => ~blurred /\ job.snap.schema = SchemaOf[job.from]
    BY <1>0, <1>5 DEF UpdateRecord, Unfit
  <2>4. UpdateFits' /\ image' <= source'
    BY <1>1, <2>1, <2>2, <2>3 DEF UpdateFits
  <2>5. /\ state'.rollback = state.rollback /\ state'.rollbackSnap = state.rollbackSnap
        /\ state'.previous = job.from /\ state'.pendingSnap = job.snap
    BY <1>0, <1>5 DEF UpdateRecord, HostState
  <2>6. PointsFit'
    BY <2>3, <2>5 DEF StrandInv, PointsFit
  <2>7. ~Ahead'
    BY <1>0, <1>1, <1>2, <2>2
  <2> QED
    BY <1>3, <2>1, <2>4, <2>6, <2>7 DEF StrandInv, WayOutKept
<1>6. CASE UpdateCheckout
  <2>1. /\ job'.op = "update" /\ job'.step = "stop" /\ job'.target = job.target
        /\ job'.from = job.from /\ job'.snap = job.snap /\ job.step = "checkout"
    BY <1>0, <1>6, ProceedTyped DEF UpdateCheckout, JobSteps, At
  <2>2. UNCHANGED <<active, databases, state, blurred>> /\ source' = job.target /\ image' = job.target
    BY <1>6 DEF UpdateCheckout
  <2>3. databases'[active].schema <= SchemaOf[image']
    <3>1. image <= job.target
      BY <1>0, <1>1, HostNaturals
    <3>2. SchemaOf[image] <= SchemaOf[job.target]
      BY <1>0, <1>1, <3>1, HostNaturals
    <3> QED
      BY <1>0, <1>1, <2>2, <3>2, HostNaturals
  <2>4. UpdateFits' /\ image' <= source'
    BY <1>0, <1>1, <2>1, <2>2, <2>3, HostNaturals DEF UpdateFits, StrandInv
  <2>5. ~Ahead' /\ PointsFit'
    BY <1>0, <1>1, <1>2, <2>2, <2>3 DEF StrandInv, PointsFit
  <2> QED
    BY <1>3, <2>1, <2>4, <2>5 DEF StrandInv, WayOutKept
<1>7. CASE UpdateStop
  <2>1. /\ job'.op = "update" /\ job'.target = job.target /\ job.step = "stop"
        /\ job'.from = job.from /\ job'.snap = job.snap
    BY <1>0, <1>7, ProceedTyped DEF UpdateStop, JobSteps, At
  <2>2. UNCHANGED <<source, image, active, databases, state, blurred>>
    BY <1>7 DEF UpdateStop
  <2>3. UpdateFits' /\ image' <= source'
    BY <1>0, <1>1, <2>1, <2>2 DEF UpdateFits, StrandInv
  <2>4. ~Ahead' /\ PointsFit'
    BY <1>0, <1>1, <1>2, <2>2 DEF StrandInv, PointsFit
  <2> QED
    BY <1>3, <2>1, <2>3, <2>4 DEF StrandInv, WayOutKept
<1>8. CASE UpdateMigrate
  <2>1. PICK schema \in Db.schema..SchemaOf[image] :
          Upgraded(schema) /\ (Proceed("start") \/ job' = NoJob)
    BY <1>8 DEF UpdateMigrate
  <2>2. Db.schema \in Nat /\ SchemaOf[image] \in Nat /\ "start" \in JobSteps
    BY <1>0, HostNaturals DEF Db, JobSteps
  <2>3. schema \in Nat /\ schema <= SchemaOf[image]
    BY <2>2
  <2>4. databases'[active].schema = schema
    BY <2>1, <2>3, UpgradedTyped
  <2>5. UNCHANGED <<source, image, active, state, blurred>> /\ job.step = "migrate"
    BY <1>8 DEF UpdateMigrate, At
  <2>6. \/ job'.op = "idle"
        \/ /\ job'.op = "update" /\ job'.target = job.target /\ job'.from = job.from
           /\ job'.snap = job.snap
    BY <1>0, <2>1, <2>2, ProceedTyped, NoJobTyped
  <2>7. UpdateFits' /\ image' <= source'
    BY <1>0, <1>1, <2>3, <2>4, <2>5, <2>6 DEF UpdateFits, StrandInv
  <2>8. ~Ahead' /\ PointsFit'
    BY <1>0, <1>2, <2>3, <2>4, <2>5 DEF StrandInv, PointsFit
  <2> QED
    BY <1>3, <2>6, <2>7, <2>8 DEF StrandInv, WayOutKept
<1>9. CASE UpdateUp
  <2>1. UNCHANGED <<source, image, active, databases, state, blurred>> /\ job.step = "start"
        /\ (Proceed("finish") \/ job' = NoJob)
    BY <1>9 DEF UpdateUp, At
  <2>2. \/ job'.op = "idle"
        \/ /\ job'.op = "update" /\ job'.target = job.target /\ job'.from = job.from
           /\ job'.snap = job.snap
    BY <1>0, <2>1, ProceedTyped, NoJobTyped DEF JobSteps
  <2>3. UpdateFits' /\ image' <= source'
    BY <1>0, <1>1, <2>1, <2>2 DEF UpdateFits, StrandInv
  <2>4. ~Ahead' /\ PointsFit'
    BY <1>0, <1>1, <1>2, <2>1 DEF StrandInv, PointsFit
  <2> QED
    BY <1>3, <2>2, <2>3, <2>4 DEF StrandInv, WayOutKept
<1>10. CASE UpdateFinish
  <2>1. UNCHANGED <<source, image, active, databases, blurred>> /\ job' = NoJob /\ job.step = "finish"
    BY <1>10 DEF UpdateFinish, At
  <2>2. ~blurred => job.snap.schema = SchemaOf[job.from]
    BY <1>0, <2>1 DEF StrandInv, UpdateFits
  <2>3. state'.pending = 0
        /\ \/ state'.rollback = job.from /\ state'.rollbackSnap = job.snap
           \/ state'.rollback = state.rollback /\ state'.rollbackSnap = state.rollbackSnap
    <3>1. CASE job.from # job.target
      BY <1>10, <3>1 DEF UpdateFinish
    <3>2. CASE job.from = job.target
      BY <1>0, <1>10, <3>2 DEF UpdateFinish, HostState
    <3> QED
      BY <3>1, <3>2
  <2>4. PointsFit'
    BY <2>1, <2>2, <2>3 DEF StrandInv, PointsFit
  <2>5. ~Ahead' /\ image' <= source'
    BY <1>0, <1>1, <1>2, <2>1
  <2>6. job'.op = "idle"
    BY <2>1, NoJobTyped
  <2> QED
    BY <1>3, <2>4, <2>5, <2>6 DEF StrandInv, WayOutKept, UpdateFits
<1> QED
  BY <1>4, <1>5, <1>6, <1>7, <1>8, <1>9, <1>10

\* The steps of a rollback between its first and its last.
LEMMA RollbackSteps ==
  ASSUME HostTypeOK, StrandInv,
         \/ RollbackStop \/ RollbackRestore \/ RollbackCheckout \/ RollbackUp
         \/ RollbackFails \/ RecoverSource \/ RecoverData
  PROVE  StrandInv'
<1>0. /\ job \in HostJob /\ databases \in [Backends -> Data] /\ active \in Backends
      /\ image \in Revisions /\ source \in Revisions /\ job.op = "rollback"
  BY DEF HostTypeOK, RollbackStop, RollbackRestore, RollbackCheckout, RollbackUp,
         RollbackFails, RecoverSource, RecoverData, At
<1>1. /\ job' \in HostJob /\ job'.op = "rollback" /\ job'.target = job.target
      /\ job'.from = job.from /\ job'.fallback = job.fallback /\ job'.snap = job.snap
      /\ job'.pre = job.pre
  <2>1. \E step \in JobSteps : Proceed(step)
    BY DEF RollbackStop, RollbackRestore, RollbackCheckout, RollbackUp,
           RollbackFails, RecoverSource, RecoverData, JobSteps
  <2> QED
    BY <1>0, <2>1, ProceedTyped
<1>2. UNCHANGED <<active, state, blurred>>
  BY DEF RollbackStop, RollbackRestore, RollbackCheckout, RollbackUp,
         RollbackFails, RecoverSource, RecoverData
<1>3. PointsFit' /\ RollbackPlanned'
  BY <1>0, <1>1, <1>2 DEF StrandInv, PointsFit, RollbackPlanned, FailedAt, TargetAt, SnapAt
<1>4. UpdateFits' /\ TransferFits' /\ WayOutKept'
  BY <1>1 DEF UpdateFits, TransferFits, WayOutKept
<1>5. /\ job.target \in Revisions /\ job.fallback <= job.from /\ job.snap \in Data /\ job.pre \in Data
  BY <1>0 DEF HostTypeOK, HostJob, Releases, StrandInv, RollbackPlanned
<1>6. ASSUME Begun' PROVE image' <= source'
  BY <1>1, <1>5, <1>6 DEF Begun
<1>7. ASSUME Switched' PROVE image' <= source'
  BY <1>1, <1>5, <1>7, HostNaturals DEF Switched
<1>8. RollbackPlaces'
  <2>1. CASE RollbackStop
    BY <1>0, <1>1, <2>1, ProceedTyped DEF RollbackStop, At, StrandInv, RollbackPlaces, Begun, JobSteps
  <2>2. CASE RollbackRestore
    <3>1. databases'[active].schema = job.snap.schema /\ job'.step = "checkout"
      BY <1>0, <1>5, <2>2, ReplacedTyped, ProceedTyped DEF RollbackRestore, JobSteps
    <3> QED
      BY <1>0, <1>1, <1>2, <2>2, <3>1 DEF RollbackRestore, At, StrandInv, RollbackPlaces, Begun
  <2>3. CASE RollbackCheckout
    <3>1. job'.step = "start" /\ databases[active].schema = job.snap.schema
      BY <1>0, <2>3, ProceedTyped DEF RollbackCheckout, At, StrandInv, RollbackPlaces, JobSteps
    <3>2. Switched'
      BY <1>1, <2>3, <3>1 DEF RollbackCheckout, Switched
    <3> QED
      BY <3>1, <3>2 DEF RollbackPlaces
  <2>4. CASE RollbackUp
    <3>1. job'.step \in {"finish", "recover source"}
      BY <1>0, <2>4, ProceedTyped DEF RollbackUp, JobSteps
    <3>2. Switched
      BY <1>0, <2>4 DEF RollbackUp, At, StrandInv, RollbackPlaces
    <3>3. Switched'
      BY <1>1, <2>4, <3>2 DEF RollbackUp, Switched
    <3> QED
      BY <3>1, <3>3 DEF RollbackPlaces
  <2>5. CASE RollbackFails
    <3>1. job'.step = "recover source"
      BY <1>0, <2>5, ProceedTyped DEF RollbackFails, JobSteps
    <3>2. Begun' \/ Switched'
      BY <1>0, <1>1, <2>5 DEF RollbackFails, StrandInv, RollbackPlaces, Begun, Switched
    <3> QED
      BY <3>1, <3>2 DEF RollbackPlaces
  <2>6. CASE RecoverSource
    <3>1. job'.step = "recover data" /\ Begun'
      BY <1>0, <1>1, <2>6, ProceedTyped DEF RecoverSource, Begun, JobSteps
    <3> QED
      BY <3>1 DEF RollbackPlaces
  <2>7. CASE RecoverData
    <3>1. job'.step = "recover services" /\ Begun
      BY <1>0, <2>7, ProceedTyped DEF RecoverData, At, StrandInv, RollbackPlaces, JobSteps
    <3>2. Begun'
      BY <1>1, <2>7, <3>1 DEF RecoverData, Begun
    <3> QED
      BY <3>1, <3>2 DEF RollbackPlaces
  <2> QED
    BY <2>1, <2>2, <2>3, <2>4, <2>5, <2>6, <2>7
<1>9. image' <= source'
  BY <1>1, <1>6, <1>7, <1>8 DEF RollbackPlaces
<1> QED
  BY <1>3, <1>4, <1>8, <1>9 DEF StrandInv

\* The last step of a rollback: the point it leaves behind fits, or is recorded as
\* unfit.
LEMMA RollbackEnds ==
  ASSUME HostTypeOK, StrandInv, RollbackFinish
  PROVE  StrandInv'
<1>0. /\ job \in HostJob /\ image \in Revisions /\ state \in HostState /\ blurred \in BOOLEAN
      /\ job.op = "rollback" /\ job.step = "finish" /\ databases[active].schema \in Nat
  BY DEF HostTypeOK, RollbackFinish, At, Data
<1>1. /\ UNCHANGED <<source, image, active, databases>> /\ job' = NoJob
      /\ blurred' = (blurred \/ (job.mode = "normal" /\ Unfit(job.pre, state.deployed)))
  BY DEF RollbackFinish
<1>2. Switched
  BY <1>0 DEF StrandInv, RollbackPlaces
<1>3. ~blurred' => ~blurred /\ (job.mode = "normal" => job.pre.schema = SchemaOf[state.deployed])
  BY <1>0, <1>1 DEF Unfit
<1>4. ~blurred' => ~Ahead'
  BY <1>0, <1>1, <1>2, <1>3, PlannedFits DEF Switched, Ahead
<1>5. state'.pending = 0 /\ IF job.mode = "normal"
        THEN state'.rollback = state.deployed /\ state'.rollbackSnap = job.pre
        ELSE state'.rollback = state.rollback /\ state'.rollbackSnap = state.rollbackSnap
  BY DEF RollbackFinish
<1>6. PointsFit'
  BY <1>3, <1>5 DEF StrandInv, PointsFit
<1>7. job'.op = "idle"
  BY <1>1, NoJobTyped
<1> QED
  BY <1>1, <1>4, <1>6, <1>7
     DEF StrandInv, WayOutKept, UpdateFits, RollbackPlanned, RollbackPlaces, TransferFits

LEMMA StrandStep ==
  ASSUME HostTypeOK, StrandInv, [HostNext]_hostVars
  PROVE  StrandInv'
<1>0. /\ job \in HostJob /\ databases \in [Backends -> Data] /\ active \in Backends
      /\ image \in Revisions /\ source \in Revisions /\ databases[active].schema \in Nat
      /\ state \in HostState
  BY DEF HostTypeOK, Data
<1>1. \A step \in JobSteps : Proceed(step) => job'.op = job.op /\ job'.step = step
  BY <1>0, ProceedTyped
<1>2. /\ NoJob.op = "idle" /\ {"replace", "start", "switch"} \subseteq JobSteps
  BY NoJobTyped DEF JobSteps
<1>3. CASE UNCHANGED hostVars
  BY <1>3, SameScript DEF hostVars, SameReleases
<1>4. ASSUME NEW target \in Revisions, NEW pinned \in BOOLEAN, UpdateStart(target, pinned)
      PROVE  StrandInv'
  <2>1. job'.op = "update" /\ job'.target = target /\ job'.step = "snapshot"
    BY <1>4, NoJobTyped DEF UpdateStart, HostJob
  <2>2. UNCHANGED <<image, active, databases, state, blurred>> /\ source <= target
        /\ source' \in {source, target} /\ databases[active].schema = SchemaOf[image]
    BY <1>4 DEF UpdateStart, UpdatePreflight, SchemaCurrent, Db
  <2>3. source' <= target /\ image' <= source'
    BY <1>0, <2>2, HostNaturals DEF StrandInv
  <2>4. UpdateFits'
    BY <1>0, <2>1, <2>2, <2>3 DEF UpdateFits
  <2>5. ~Ahead' /\ PointsFit'
    BY <1>0, <2>2 DEF StrandInv, PointsFit, Ahead
  <2> QED
    BY <2>1, <2>3, <2>4, <2>5 DEF StrandInv, WayOutKept, RollbackPlanned, RollbackPlaces, TransferFits
<1>5. CASE RollbackStart
  <2>1. /\ job'.op = "rollback" /\ job'.step = "stop" /\ job'.target = RollbackTarget
        /\ job'.from = source /\ job'.fallback = image /\ job'.snap = RollbackSnap
        /\ RollbackAllowed /\ UNCHANGED <<source, image, active, databases, state, blurred>>
    BY <1>5 DEF RollbackStart
  <2>2. FailedUpdate = FailedAt(source) /\ RollbackTarget = TargetAt(source)
        /\ RollbackSnap = SnapAt(source)
    BY DEF FailedUpdate, RollbackTarget, RollbackSnap, FailedAt, TargetAt, SnapAt
  <2>3. /\ FailedAt(source)' = FailedAt(source) /\ TargetAt(source)' = TargetAt(source)
        /\ SnapAt(source)' = SnapAt(source)
    BY <2>1 DEF FailedAt, TargetAt, SnapAt
  <2>4. FailedAt(job.from)' = FailedAt(source)' /\ TargetAt(job.from)' = TargetAt(source)'
        /\ SnapAt(job.from)' = SnapAt(source)'
    BY <2>1 DEF FailedAt, TargetAt, SnapAt
  <2>5. RollbackPlanned'
    BY <1>0, <2>1, <2>2, <2>3, <2>4 DEF RollbackPlanned, RollbackAllowed, ValidSafetySnapshot, StrandInv
  <2>6. RollbackPlaces'
    BY <2>1 DEF RollbackPlaces, Begun
  <2>7. PointsFit' /\ image' <= source'
    BY <2>1 DEF StrandInv, PointsFit
  <2> QED
    BY <2>1, <2>5, <2>6, <2>7 DEF StrandInv, WayOutKept, UpdateFits, TransferFits
<1>6. CASE RecoverServices \/ RestoreUp \/ TransferUp \/ RotateUp \/ Abort
  <2>1. job' = NoJob /\ SameReleases
    BY <1>6 DEF RecoverServices, RestoreUp, TransferUp, RotateUp, Abort, SameReleases
  <2> QED
    BY <1>2, <2>1, PlainScript
<1>7. CASE RestoreStart
  <2>1. image' = source /\ UNCHANGED <<source, active, databases, state, blurred>>
    BY <1>7 DEF RestoreStart
  <2>2. job'.op \in {"restore", "idle"}
    BY <1>7, NoJobTyped DEF RestoreStart, HostJob
  <2>3. SchemaOf[image] <= SchemaOf[source] /\ SchemaOf[image] \in Nat /\ SchemaOf[source] \in Nat
    BY <1>0, HostNaturals DEF StrandInv
  <2>4. Ahead' => Ahead
    BY <1>0, <2>1, <2>3 DEF Ahead
  <2>5. WayOut' = WayOut
    BY <2>1 DEF WayOut, RollbackAllowed, RollbackSnap, RollbackTarget, FailedUpdate,
                ValidSafetySnapshot
  <2>6. job.op # "rollback" /\ blurred' = blurred
    BY <1>2, <1>7 DEF RestoreStart, BeginCommand
  <2>7. WayOutKept' /\ PointsFit' /\ image' <= source'
    BY <1>0, <2>1, <2>4, <2>5, <2>6, HostNaturals DEF StrandInv, WayOutKept, PointsFit
  <2> QED
    BY <2>2, <2>7 DEF StrandInv, UpdateFits, RollbackPlanned, RollbackPlaces, TransferFits
<1>8. CASE RestoreStop
  BY <1>1, <1>2, <1>8, PlainScript DEF RestoreStop, At, SameReleases
<1>9. CASE RestoreStaged
  <2>1. job'.op \in {"restore", "idle"}
    BY <1>1, <1>2, <1>9 DEF RestoreStaged, At
  <2>2. CASE databases' = databases
    BY <1>9, <2>1, <2>2, PlainScript DEF RestoreStaged, SameReleases
  <2>3. CASE databases' # databases
    <3>1. databases' = Replaced(kept) /\ kept.schema <= SchemaOf[image] /\ kept \in Data
      BY <1>9, <2>3 DEF RestoreStaged, RestorePreflight, ValidManifest, HostTypeOK
    <3>2. UNCHANGED <<source, image, active, state, blurred>>
      BY <1>9 DEF RestoreStaged
    <3>3. databases'[active].schema = kept.schema /\ kept.schema \in Nat
      BY <3>1, ReplacedTyped DEF Data
    <3>4. ~Ahead'
      BY <1>0, <3>1, <3>2, <3>3, HostNaturals DEF Ahead
    <3>5. PointsFit' /\ image' <= source'
      BY <3>2 DEF StrandInv, PointsFit
    <3> QED
      BY <2>1, <3>4, <3>5
         DEF StrandInv, WayOutKept, UpdateFits, RollbackPlanned, RollbackPlaces, TransferFits
  <2> QED
    BY <2>2, <2>3
<1>10. CASE TransferStart
  <2>1. job'.op = "transfer" /\ job'.step = "copy"
    BY <1>10, NoJobTyped DEF TransferStart, HostJob
  <2> QED
    BY <1>10, <2>1, PlainScript DEF TransferStart, SameReleases
<1>11. CASE TransferCopy
  <2>1. CASE TransferPossible
    <3>1. /\ databases' = Transferred(Db, Other) /\ job'.op = "transfer"
          /\ UNCHANGED <<source, image, active, state, blurred>>
      BY <1>1, <1>2, <1>11, <2>1 DEF TransferCopy, At
    <3>2. Other \in Backends /\ Other # active /\ \A b \in Backends : b # active => b = Other
      BY <1>0, OtherTyped
    <3>3. databases[active].schema = SchemaOf[image]
      BY <2>1 DEF TransferPossible, SchemaCurrent, Db
    <3>4. databases'[Other].schema = databases[active].schema /\ databases'[active] = databases[active]
      BY <1>0, <3>1, <3>2, TransferredTyped DEF Db
    <3>5. TransferFits'
      BY <3>1, <3>2, <3>3, <3>4 DEF TransferFits
    <3>6. ~Ahead' /\ PointsFit' /\ image' <= source'
      BY <1>0, <3>1, <3>3, <3>4 DEF Ahead, StrandInv, PointsFit
    <3> QED
      BY <3>1, <3>5, <3>6 DEF StrandInv, WayOutKept, UpdateFits, RollbackPlanned, RollbackPlaces
  <2>2. CASE ~TransferPossible
    BY <1>2, <1>11, <2>2, PlainScript DEF TransferCopy, SameReleases
  <2> QED
    BY <2>1, <2>2
<1>12. CASE TransferSwitch \/ TransferRecover
  <2>1. job.op = "transfer" /\ job.step \in {"switch", "start"} /\ Other \in Backends
    BY <1>0, <1>12, OtherTyped DEF TransferSwitch, TransferRecover, At
  <2>2. UNCHANGED <<source, image, databases, state, blurred>> /\ active' = Other
    BY <1>12 DEF TransferSwitch, TransferRecover
  <2>3. \A b \in Backends : databases'[b].schema = SchemaOf[image']
    BY <2>1, <2>2 DEF StrandInv, TransferFits
  <2>4. job'.op \in {"transfer", "idle"}
    BY <1>1, <1>2, <1>12, <2>1 DEF TransferSwitch, TransferRecover
  <2>5. ~Ahead' /\ PointsFit' /\ image' <= source'
    BY <1>0, <2>1, <2>2, <2>3, HostNaturals DEF Ahead, StrandInv, PointsFit
  <2> QED
    BY <2>3, <2>4, <2>5
       DEF StrandInv, WayOutKept, UpdateFits, RollbackPlanned, RollbackPlaces, TransferFits
<1>13. ASSUME NEW k \in Keys, ConfigureKey(k) PROVE StrandInv'
  BY <1>13, SameScript DEF ConfigureKey, SameReleases
<1>14. CASE RotateStart
  <2>1. job'.op = "rotate"
    BY <1>14, NoJobTyped DEF RotateStart, HostJob
  <2> QED
    BY <1>14, <2>1, PlainScript DEF RotateStart, SameReleases
<1>15. CASE RotateRecords
  <2>1. job'.op = "rotate"
    BY <1>1, <1>2, <1>15 DEF RotateRecords, At
  <2>2. env \in Ring
    BY DEF HostTypeOK
  <2>3. \A b \in Backends : databases'[b].schema = databases[b].schema
    BY <1>15, <2>2, RotatedTyped DEF RotateRecords
  <2> QED
    BY <1>15, <2>1, <2>3, PlainScript DEF RotateRecords, SameReleases
<1>16. CASE RotateOnline
  <2>1. loaded \in Ring
    BY DEF HostTypeOK
  <2>2. \A b \in Backends : databases'[b].schema = databases[b].schema
    BY <1>16, <2>1, RotatedTyped DEF RotateOnline
  <2> QED
    BY <1>16, <2>2, SameScript DEF RotateOnline, SameReleases
<1>17. CASE WriteSecret
  <2>1. databases[active].keys \cup {loaded.primary} \in SUBSET Keys
    BY DEF HostTypeOK, Data, Ring
  <2>2. databases' = [databases EXCEPT ![active].keys = databases[active].keys \cup {loaded.primary}]
    BY <1>17 DEF WriteSecret
  <2>3. \A b \in Backends : databases'[b].schema = databases[b].schema
    BY <2>1, <2>2, RekeyedTyped
  <2> QED
    BY <1>17, <2>3, SameScript DEF WriteSecret, SameReleases
<1>18. CASE DropKeys \/ TakeBackup \/ StartServices
  <2>1. SameReleases /\ job' = job
    BY <1>18 DEF DropKeys, TakeBackup, StartServices, SameReleases
  <2> QED
    BY <2>1, SameScript
<1>19. CASE MigrateOnly
  <2>1. SchemaOf[image] \in Nat
    BY <1>0, HostNaturals
  <2>2. databases'[active].schema = SchemaOf[image]
    BY <1>19, <2>1, UpgradedTyped DEF MigrateOnly
  <2>3. UNCHANGED <<source, image, active, state, blurred, job>> /\ job.op = "idle"
    BY <1>2, <1>19 DEF MigrateOnly
  <2>4. ~Ahead' /\ PointsFit' /\ image' <= source'
    BY <2>1, <2>2, <2>3 DEF Ahead, StrandInv, PointsFit
  <2> QED
    BY <2>3, <2>4
       DEF StrandInv, WayOutKept, UpdateFits, RollbackPlanned, RollbackPlaces, TransferFits
<1>20. CASE \/ UpdateSnapshot \/ UpdateRecord \/ UpdateCheckout \/ UpdateStop
            \/ UpdateMigrate \/ UpdateUp \/ UpdateFinish
  BY <1>20, UpdateSteps
<1>21. CASE \/ RollbackStop \/ RollbackRestore \/ RollbackCheckout \/ RollbackUp
            \/ RollbackFails \/ RecoverSource \/ RecoverData
  BY <1>21, RollbackSteps
<1>22. CASE RollbackFinish
  BY <1>22, RollbackEnds
<1> QED
  BY <1>3, <1>4, <1>5, <1>6, <1>7, <1>8, <1>9, <1>10, <1>11, <1>12, <1>13, <1>14, <1>15, <1>16,
     <1>17, <1>18, <1>19, <1>20, <1>21, <1>22, Zenon DEF HostNext

\* Wherever deploy.sh dies, and however often, the database is never newer than the
\* configured image unless deploy.sh rollback is still accepted and will put a matching
\* database and image back.
THEOREM DeploymentNeverStranded == HostSpec => []NeverStranded
<1>1. HostInit => HostTypeOK /\ StrandInv
  <2> SUFFICES ASSUME HostInit PROVE HostTypeOK /\ StrandInv
    OBVIOUS
  <2>1. /\ HostTypeOK /\ job = NoJob /\ image = source /\ databases[active].schema = SchemaOf[image]
        /\ state.rollback = 0 /\ state.pending = 0
    BY HostStart DEF Db
  <2>2. ~Ahead /\ image <= source
    BY <2>1, HostNaturals DEF Ahead, HostTypeOK
  <2> QED
    BY <2>1, <2>2, NoJobTyped
       DEF StrandInv, PointsFit, WayOutKept, UpdateFits, RollbackPlanned, RollbackPlaces, TransferFits
<1>2. HostTypeOK /\ StrandInv /\ [HostNext]_hostVars => (HostTypeOK /\ StrandInv)'
  BY HostTypeStep, StrandStep
<1>3. HostTypeOK /\ StrandInv => NeverStranded
  BY NoJobTyped DEF NeverStranded, StrandInv, WayOutKept, Ahead, WayOut, Db
<1> QED
  BY <1>1, <1>2, <1>3, PTL DEF HostSpec

-----------------------------------------------------------------------------
(* Camera groups and scopes.                                               *)

Ids == Groups \cup {Root}
Scopes == [mode : {"absent", "none", "all", "selected"}, entries : SUBSET Cameras, groups : SUBSET Groups]
GroupRequests == [op : {"none", "move", "delete", "scope"}, group : Ids, to : Ids, who : Principals,
                  entries : SUBSET Cameras, groups : SUBSET Groups, overlap : BOOLEAN]

GroupsTyped ==
  /\ known \subseteq Groups /\ parent \in [Groups -> Ids]
  /\ scope \in [Principals -> Scopes] /\ asking \in [Askers -> GroupRequests]
  /\ \A a \in Askers : asking[a].op = "move" => asking[a].group \in Groups

\* The parents of the groups that exist, exist.
KnownClosed == \A g \in known : parent[g] \in known \cup {Root}

\* The groups above g when par gives the parents.
Closed(par, S) == \A y \in S : par[y] \in S \cup {Root}
Above(par, g) == {x \in Groups : \A S \in SUBSET Groups : (g \in S /\ Closed(par, S)) => x \in S}

\* A move that was validated, and that no other move has overtaken, still hangs
\* its group under one that is not below it.
MovesValid ==
  \A a \in Askers : ( /\ asking[a].op = "move" /\ ~asking[a].overlap
                      /\ asking[a].group \in known /\ asking[a].to \in known )
                    => asking[a].group \notin Above(parent, asking[a].to)

GroupsInv == GroupsTyped /\ KnownClosed /\ MovesValid /\ HierarchyIsForest

LEMMA UpwardIsAbove == \A g : Upward(g) = Above(parent, g) /\ Upward(g)' = Above(parent', g)
BY DEF Upward, Above, Closed, Groups

LEMMA AboveLeast ==
  ASSUME NEW par, NEW S \in SUBSET Groups, Closed(par, S), NEW g \in S
  PROVE  Above(par, g) \subseteq S
BY DEF Above

LEMMA AboveClosed ==
  ASSUME NEW par \in [Groups -> Ids], NEW g \in Groups
  PROVE  g \in Above(par, g) /\ Closed(par, Above(par, g)) /\ Above(par, g) \in SUBSET Groups
BY DEF Above, Closed, Ids

\* The groups above a group do not depend on the parents of the others.
LEMMA AboveSame ==
  ASSUME NEW par \in [Groups -> Ids], NEW new \in [Groups -> Ids], NEW g \in Groups,
         \A y \in Above(par, g) : new[y] = par[y]
  PROVE  Above(new, g) = Above(par, g)
<1>1. Above(new, g) \subseteq Above(par, g)
  <2>1. Closed(new, Above(par, g)) /\ g \in Above(par, g) /\ Above(par, g) \in SUBSET Groups
    BY AboveClosed DEF Closed
  <2> QED
    BY <2>1, AboveLeast
<1>2. Above(par, g) \subseteq Above(new, g)
  <2>1. /\ Closed(par, Above(par, g)) /\ g \in Above(par, g) /\ Above(par, g) \in SUBSET Groups
        /\ Closed(new, Above(new, g)) /\ g \in Above(new, g) /\ Above(new, g) \in SUBSET Groups
    BY AboveClosed
  <2>2. Closed(par, Above(new, g))
    BY <1>1, <2>1 DEF Closed
  <2> QED
    BY <2>1, <2>2, AboveLeast
<1> QED
  BY <1>1, <1>2

\* Above a group that exists there are only groups that exist, and a group
\* without children is only above itself.
LEMMA AboveKnown ==
  ASSUME GroupsTyped, KnownClosed, NEW h \in known
  PROVE  Upward(h) \subseteq known
BY UpwardIsAbove, AboveLeast DEF GroupsTyped, KnownClosed, Closed

LEMMA LeafAbove ==
  ASSUME GroupsTyped, KnownClosed, NEW g \in known, Children(g) = {}, NEW h \in known, h # g
  PROVE  g \notin Upward(h)
<1>1. Closed(parent, known \ {g})
  BY DEF KnownClosed, Closed, Children
<1> QED
  BY <1>1, UpwardIsAbove, AboveLeast DEF GroupsTyped

\* One parent changes.
LEMMA OneParent ==
  ASSUME GroupsTyped, NEW g \in Groups, NEW p \in Ids, parent' = [parent EXCEPT ![g] = p],
         NEW h \in Groups, g \notin Upward(h)
  PROVE  Upward(h)' = Upward(h) /\ \A x \in Upward(h) : parent'[x] = parent[x]
<1>1. parent \in [Groups -> Ids] /\ parent' \in [Groups -> Ids]
  BY DEF GroupsTyped
<1>2. \A x \in Above(parent, h) : parent'[x] = parent[x]
  BY <1>1, UpwardIsAbove DEF Above
<1> QED
  BY <1>1, <1>2, AboveSame, UpwardIsAbove

LEMMA GroupsStart == GroupsInit => GroupsInv
<1> SUFFICES ASSUME GroupsInit PROVE GroupsInv
  OBVIOUS
<1>1. Unasked \in GroupRequests /\ Unasked.op = "none"
  BY DEF Unasked, GroupRequests, Ids, Principals
<1>2. Absent \in Scopes /\ [Absent EXCEPT !.mode = "none"] \in Scopes
  BY DEF Absent, Scopes
<1>3. GroupsTyped
  BY <1>1, <1>2 DEF GroupsInit, GroupsTyped, Ids
<1> QED
  BY <1>1, <1>3 DEF GroupsInit, GroupsInv, KnownClosed, MovesValid, HierarchyIsForest

\* A step that leaves the tree alone.
LEMMA TreeStays ==
  ASSUME GroupsInv, GroupsTyped', UNCHANGED <<known, parent>>, crossed => crossed',
         \A a \in Askers : \/ asking'[a] = asking[a]
                           \/ asking'[a].op # "move"
                           \/ asking'[a].overlap
                           \/ asking'[a].to # Root => asking'[a].group \notin Above(parent, asking'[a].to)
  PROVE  GroupsInv'
<1>1. \A g : Upward(g)' = Upward(g)
  BY DEF Upward
<1>2. KnownClosed'
  BY DEF GroupsInv, KnownClosed
<1>3. HierarchyIsForest'
  BY <1>1 DEF GroupsInv, HierarchyIsForest
<1>4. Root \notin known
  BY DEF GroupsInv, GroupsTyped, Root, Groups
<1>5. MovesValid'
  BY <1>1, <1>4 DEF GroupsInv, MovesValid
<1> QED
  BY <1>2, <1>3, <1>5 DEF GroupsInv

\* The request of an asker is replaced.
LEMMA AskedTyped ==
  ASSUME GroupsTyped, NEW a \in Askers, NEW r \in GroupRequests, r.op = "move" => r.group \in Groups,
         asking' = [asking EXCEPT ![a] = r]
  PROVE  /\ asking' \in [Askers -> GroupRequests] /\ asking'[a] = r
         /\ \A b \in Askers : b # a => asking'[b] = asking[b]
         /\ \A b \in Askers : asking'[b].op = "move" => asking'[b].group \in Groups
BY DEF GroupsTyped

LEMMA UnaskedTyped == Unasked \in GroupRequests /\ Unasked.op = "none"
BY DEF Unasked, GroupRequests, Ids, Principals

LEMMA VerifyKeeps ==
  ASSUME GroupsInv, NEW a \in Askers,
         \/ \E g \in Groups : DeleteVerify(a, g)
         \/ \E g \in Groups, p \in Ids : MoveVerify(a, g, p)
         \/ \E who \in Principals, cameras \in SUBSET Cameras, groups \in SUBSET Groups :
              ScopeVerify(a, who, cameras, groups)
  PROVE  GroupsInv'
<1>1. UNCHANGED <<known, parent, scope, crossed>>
  BY DEF DeleteVerify, MoveVerify, ScopeVerify
<1>2. PICK r \in GroupRequests : /\ asking' = [asking EXCEPT ![a] = r] /\ (r.op = "move" => r.group \in Groups)
                            /\ (r.op # "move" \/ (r.to # Root => r.group \notin Above(parent, r.to)))
  <2> DEFINE Proper(r) == /\ r.op = "move" => r.group \in Groups
                          /\ r.op # "move" \/ (r.to # Root => r.group \notin Above(parent, r.to))
         Replaces(r) == asking' = [asking EXCEPT ![a] = r]
  <2>1. ASSUME NEW g \in Groups, DeleteVerify(a, g)
        PROVE  \E r \in GroupRequests : Replaces(r) /\ Proper(r)
    <3> DEFINE r == [Unasked EXCEPT !.op = "delete", !.group = g]
    <3>1. r \in GroupRequests /\ r.op = "delete"
      BY DEF Unasked, GroupRequests, Ids, Principals
    <3> QED
      BY <2>1, <3>1 DEF DeleteVerify, Ask
  <2>2. ASSUME NEW g \in Groups, NEW p \in Ids, MoveVerify(a, g, p)
        PROVE  \E r \in GroupRequests : Replaces(r) /\ Proper(r)
    <3> DEFINE r == [Unasked EXCEPT !.op = "move", !.group = g, !.to = p]
    <3>1. r \in GroupRequests /\ r.group = g /\ r.to = p
      BY DEF Unasked, GroupRequests, Ids, Principals
    <3>2. asking' = [asking EXCEPT ![a] = r] /\ (p # Root => g \notin Above(parent, p))
      BY <2>2, UpwardIsAbove DEF MoveVerify, Ask, ValidateParent
    <3> HIDE DEF r
    <3> QED
      BY <3>1, <3>2
  <2>3. ASSUME NEW who \in Principals, NEW cameras \in SUBSET Cameras, NEW groups \in SUBSET Groups,
               ScopeVerify(a, who, cameras, groups)
        PROVE  \E r \in GroupRequests : Replaces(r) /\ Proper(r)
    <3> DEFINE r == [Unasked EXCEPT !.op = "scope", !.who = who, !.entries = cameras, !.groups = groups]
    <3>1. r \in GroupRequests /\ r.op = "scope"
      BY DEF Unasked, GroupRequests, Ids, Principals
    <3> QED
      BY <2>3, <3>1 DEF ScopeVerify, Ask
  <2> HIDE DEF Proper, Replaces
  <2>4. \E r \in GroupRequests : Replaces(r) /\ Proper(r)
    BY <2>1, <2>2, <2>3
  <2> QED
    BY <2>4 DEF Proper, Replaces
<1>3. /\ asking' \in [Askers -> GroupRequests] /\ asking'[a] = r
      /\ \A b \in Askers : b # a => asking'[b] = asking[b]
      /\ \A b \in Askers : asking'[b].op = "move" => asking'[b].group \in Groups
  BY <1>2, AskedTyped DEF GroupsInv
<1>4. GroupsTyped'
  BY <1>1, <1>3 DEF GroupsInv, GroupsTyped
<1> QED
  BY <1>1, <1>2, <1>3, <1>4, TreeStays

LEMMA ScopeKeeps ==
  ASSUME GroupsInv,
         \/ \E g \in Groups, cameras \in SUBSET Cameras : ReplaceMembers(g, cameras)
         \/ \E a \in Askers : ScopeCommit(a)
         \/ \E who \in Principals, mode \in {"all", "none", "absent"} : ScopeMode(who, mode)
  PROVE  GroupsInv'
<1>1. UNCHANGED <<known, parent, crossed>>
  BY DEF ReplaceMembers, ScopeCommit, ScopeMode
<1>2. CASE \E g \in Groups, cameras \in SUBSET Cameras : ReplaceMembers(g, cameras)
  <2>1. UNCHANGED <<scope, asking>>
    BY <1>2 DEF ReplaceMembers
  <2>2. GroupsTyped'
    BY <1>1, <2>1 DEF GroupsInv, GroupsTyped
  <2> QED
    BY <1>1, <2>1, <2>2, TreeStays
<1>3. ASSUME NEW a \in Askers, ScopeCommit(a) PROVE GroupsInv'
  <2> DEFINE value == [mode |-> "selected", entries |-> asking[a].entries, groups |-> asking[a].groups]
  <2>1. asking[a] \in GroupRequests
    BY DEF GroupsInv, GroupsTyped
  <2>2. value \in Scopes /\ asking[a].who \in Principals
    BY <2>1 DEF GroupRequests, Scopes
  <2>3. scope' \in [Principals -> Scopes]
    <3>1. scope' = scope \/ scope' = [scope EXCEPT ![asking[a].who] = value]
      BY <1>3 DEF ScopeCommit
    <3> HIDE DEF value
    <3> QED
      BY <2>2, <3>1 DEF GroupsInv, GroupsTyped
  <2>4. /\ asking' \in [Askers -> GroupRequests] /\ asking'[a] = Unasked
        /\ \A b \in Askers : b # a => asking'[b] = asking[b]
        /\ \A b \in Askers : asking'[b].op = "move" => asking'[b].group \in Groups
    BY <1>3, AskedTyped, UnaskedTyped DEF GroupsInv, ScopeCommit, Answer
  <2>5. GroupsTyped'
    BY <1>1, <2>3, <2>4 DEF GroupsInv, GroupsTyped
  <2> QED
    BY <1>1, <2>4, <2>5, TreeStays, UnaskedTyped
<1>4. ASSUME NEW who \in Principals, NEW mode \in {"all", "none", "absent"}, ScopeMode(who, mode) PROVE GroupsInv'
  <2> DEFINE value == [Absent EXCEPT !.mode = mode]
  <2>1. value \in Scopes
    BY DEF Absent, Scopes
  <2>2. scope' = [scope EXCEPT ![who] = value] /\ asking' = asking
    BY <1>4 DEF ScopeMode
  <2> HIDE DEF value
  <2>3. GroupsTyped'
    BY <1>1, <2>1, <2>2 DEF GroupsInv, GroupsTyped
  <2> QED
    BY <1>1, <2>2, <2>3, TreeStays
<1> QED
  BY <1>2, <1>3, <1>4

LEMMA CreateKeeps ==
  ASSUME GroupsInv, NEW g \in Groups, NEW p \in Ids, NEW cameras \in SUBSET Cameras, CreateGroup(g, p, cameras)
  PROVE  GroupsInv'
<1>1. /\ g \notin known /\ ~Named(g) /\ p \in known \cup {Root}
      /\ known' = known \cup {g} /\ parent' = [parent EXCEPT ![g] = p] /\ UNCHANGED <<scope, asking, crossed>>
  BY DEF CreateGroup
<1>2. GroupsTyped'
  BY <1>1 DEF GroupsInv, GroupsTyped
<1>3. parent'[g] = p /\ \A h \in known : parent'[h] = parent[h]
  BY <1>1 DEF GroupsInv, GroupsTyped
<1>4. KnownClosed'
  BY <1>1, <1>3 DEF GroupsInv, KnownClosed
<1>5. ASSUME NEW h \in known PROVE Upward(h)' = Upward(h) /\ Upward(h) \subseteq known
  <2>1. Upward(h) \subseteq known /\ h \in Groups
    BY AboveKnown DEF GroupsInv, GroupsTyped
  <2> QED
    BY <1>1, <2>1, OneParent DEF GroupsInv
<1>6. MovesValid'
  <2> SUFFICES ASSUME NEW a \in Askers, asking[a].op = "move", ~asking[a].overlap,
                      asking[a].group \in known', asking[a].to \in known'
               PROVE  asking[a].group \notin Above(parent', asking[a].to)
    BY <1>1 DEF MovesValid
  <2>1. asking[a].group # g /\ asking[a].to # g
    BY <1>1 DEF Named
  <2>2. asking[a].group \in known /\ asking[a].to \in known
    BY <1>1, <2>1
  <2>3. asking[a].group \notin Above(parent, asking[a].to)
    BY <2>2 DEF GroupsInv, MovesValid
  <2>4. \A h \in known : Above(parent', h) = Above(parent, h)
    BY <1>5, UpwardIsAbove
  <2> QED
    BY <2>2, <2>3, <2>4
<1>7. HierarchyIsForest'
  <2> SUFFICES ASSUME ~crossed, NEW h \in known' PROVE \E x \in Upward(h)' : parent'[x] = Root
    BY <1>1 DEF HierarchyIsForest
  <2>1. ASSUME NEW k \in known PROVE \E x \in Upward(k)' : parent'[x] = Root
    <3>1. PICK x \in Upward(k) : parent[x] = Root
      BY DEF GroupsInv, HierarchyIsForest
    <3> QED
      BY <1>3, <1>5, <3>1
  <2>2. parent' \in [Groups -> Ids]
    BY <1>2 DEF GroupsTyped
  <2>3. g \in Upward(g)' /\ Closed(parent', Upward(g)')
    BY <2>2, AboveClosed, UpwardIsAbove
  <2>4. CASE h = g /\ p = Root
    BY <1>3, <2>3, <2>4
  <2>5. CASE h = g /\ p # Root
    <3>1. p \in known /\ p \in Upward(g)'
      BY <1>1, <1>3, <2>3, <2>5 DEF Closed
    <3>2. Upward(p)' \subseteq Upward(g)'
      BY <2>2, <2>3, <3>1, AboveClosed, AboveLeast, UpwardIsAbove
    <3> QED
      BY <2>1, <2>5, <3>1, <3>2
  <2> QED
    BY <1>1, <2>1, <2>4, <2>5
<1> QED
  BY <1>2, <1>4, <1>6, <1>7 DEF GroupsInv

LEMMA DeleteKeeps ==
  ASSUME GroupsInv, NEW a \in Askers, DeleteCommit(a)
  PROVE  GroupsInv'
<1> DEFINE g == asking[a].group
<1>1. /\ asking' \in [Askers -> GroupRequests] /\ asking'[a] = Unasked
      /\ \A b \in Askers : b # a => asking'[b] = asking[b]
      /\ \A b \in Askers : asking'[b].op = "move" => asking'[b].group \in Groups
  BY AskedTyped, UnaskedTyped DEF GroupsInv, DeleteCommit, Answer
<1>2. CASE ~(g \in known /\ Children(g) = {})
  <2>1. UNCHANGED <<known, parent, scope, crossed>>
    BY <1>2 DEF DeleteCommit
  <2>2. GroupsTyped'
    BY <1>1, <2>1 DEF GroupsInv, GroupsTyped
  <2> QED
    BY <1>1, <2>1, <2>2, TreeStays, UnaskedTyped
<1>3. CASE g \in known /\ Children(g) = {}
  <2>1. /\ known' = known \ {g} /\ parent' = [parent EXCEPT ![g] = Root] /\ scope' = Cascaded(g)
        /\ crossed' = crossed
    BY <1>3 DEF DeleteCommit
  <2>2. PICK d \in known : d = g
    BY <1>3
  <2> HIDE DEF g
  <2>3. d \in Groups /\ Children(d) = {}
    BY <1>3, <2>2 DEF GroupsInv, GroupsTyped
  <2>4. /\ parent' \in [Groups -> Ids] /\ \A h \in known' : parent'[h] = parent[h]
    BY <2>1, <2>2 DEF GroupsInv, GroupsTyped, Ids
  <2>5. scope' \in [Principals -> Scopes]
    BY <2>1 DEF GroupsInv, GroupsTyped, Cascaded, Scopes
  <2>6. GroupsTyped'
    BY <1>1, <2>1, <2>4, <2>5 DEF GroupsInv, GroupsTyped
  <2>7. KnownClosed'
    BY <2>1, <2>2, <2>3, <2>4 DEF GroupsInv, KnownClosed, Children
  <2>8. ASSUME NEW h \in known' PROVE Above(parent', h) = Above(parent, h) /\ Above(parent, h) \subseteq known'
    <3>1. h \in known /\ h # d /\ h \in Groups
      BY <2>1, <2>2 DEF GroupsInv, GroupsTyped
    <3>2. d \notin Upward(h) /\ Upward(h) \subseteq known
      BY <2>3, <3>1, LeafAbove, AboveKnown DEF GroupsInv
    <3>3. Upward(h)' = Upward(h)
      BY <2>1, <2>2, <2>3, <3>1, <3>2, OneParent DEF GroupsInv, Ids
    <3> QED
      BY <2>1, <2>2, <3>2, <3>3, UpwardIsAbove
  <2>9. MovesValid'
    <3> SUFFICES ASSUME NEW b \in Askers, asking'[b].op = "move", ~asking'[b].overlap,
                        asking'[b].group \in known', asking'[b].to \in known'
                 PROVE  asking'[b].group \notin Above(parent', asking'[b].to)
      BY DEF MovesValid
    <3>1. asking'[b] = asking[b]
      BY <1>1, UnaskedTyped
    <3>2. asking[b].group \notin Above(parent, asking[b].to)
      BY <2>1, <3>1 DEF GroupsInv, MovesValid
    <3> QED
      BY <2>8, <3>1, <3>2
  <2>10. HierarchyIsForest'
    <3> SUFFICES ASSUME ~crossed, NEW h \in known' PROVE \E x \in Upward(h)' : parent'[x] = Root
      BY <2>1 DEF HierarchyIsForest
    <3>1. PICK x \in Upward(h) : parent[x] = Root
      BY <2>1 DEF GroupsInv, HierarchyIsForest
    <3> QED
      BY <2>4, <2>8, <3>1, UpwardIsAbove
  <2> QED
    BY <2>6, <2>7, <2>9, <2>10 DEF GroupsInv
<1> QED
  BY <1>2, <1>3

LEMMA MoveKeeps ==
  ASSUME GroupsInv, NEW a \in Askers, MoveCommit(a)
  PROVE  GroupsInv'
<1> DEFINE moved == asking[a].group
           target == asking[a].to
           possible == moved \in known /\ target \in known \cup {Root}
<1>1. asking[a].op = "move" /\ moved \in Groups /\ target \in Ids
  BY DEF MoveCommit, GroupsInv, GroupsTyped, GroupRequests
<1>2. \A b \in Askers : /\ asking'[b] \in GroupRequests
                        /\ asking'[b].op = "move" => asking'[b].group \in Groups
                        /\ asking'[b] = asking[b] \/ asking'[b].op # "move" \/ asking'[b].overlap
                        /\ possible => asking'[b].op # "move" \/ asking'[b].overlap
  <2> TAKE b \in Askers
  <2>1. asking[b] \in GroupRequests /\ (asking[b].op = "move" => asking[b].group \in Groups)
    BY DEF GroupsInv, GroupsTyped
  <2>2. asking'[b] = IF b # a /\ possible /\ asking[b].op = "move"
                     THEN [asking[b] EXCEPT !.overlap = TRUE] ELSE Answer(a)[b]
    BY DEF MoveCommit
  <2>3. Answer(a)[b] = IF b = a THEN Unasked ELSE asking[b]
    BY DEF Answer, GroupsInv, GroupsTyped
  <2> HIDE DEF possible
  <2>4. CASE b # a /\ possible /\ asking[b].op = "move"
    <3>1. asking'[b] = [asking[b] EXCEPT !.overlap = TRUE]
      BY <2>2, <2>4
    <3> QED
      BY <2>1, <2>4, <3>1 DEF GroupRequests
  <2>5. CASE b = a
    <3>1. asking'[b] = Unasked
      BY <2>2, <2>3, <2>5
    <3> QED
      BY <3>1, UnaskedTyped
  <2>6. CASE b # a /\ ~(possible /\ asking[b].op = "move")
    <3>1. asking'[b] = asking[b]
      BY <2>2, <2>3, <2>6
    <3> QED
      BY <2>1, <2>6, <3>1
  <2> QED
    BY <2>4, <2>5, <2>6
<1>3. asking' \in [Askers -> GroupRequests]
  <2>1. asking' = [b \in Askers |-> asking'[b]]
    BY DEF MoveCommit
  <2> QED
    BY <1>2, <2>1
<1>4. CASE ~possible
  <2>1. UNCHANGED <<known, parent, scope>>
    BY <1>4 DEF MoveCommit
  <2>2. crossed => crossed'
    BY <1>4 DEF MoveCommit
  <2>3. GroupsTyped'
    BY <1>2, <1>3, <2>1 DEF GroupsInv, GroupsTyped
  <2> QED
    BY <1>2, <2>1, <2>2, <2>3, TreeStays
<1>5. CASE possible
  <2>1. PICK g \in Groups, p \in Ids : g = moved /\ p = target
    BY <1>1
  <2>2. /\ UNCHANGED <<known, scope>> /\ parent' = [parent EXCEPT ![g] = p]
        /\ g \in known /\ p \in known \cup {Root}
    BY <1>5, <2>1 DEF MoveCommit
  <2>3. ~crossed' => ~crossed /\ ~asking[a].overlap
    BY <1>5 DEF MoveCommit
  <2>4. GroupsTyped'
    BY <1>2, <1>3, <2>2 DEF GroupsInv, GroupsTyped
  <2>5. KnownClosed'
    BY <2>2 DEF GroupsInv, GroupsTyped, KnownClosed
  <2>6. MovesValid'
    BY <1>2, <1>5 DEF MovesValid
  <2>7. HierarchyIsForest'
    <3> SUFFICES ASSUME ~crossed', NEW h \in known PROVE \E x \in Upward(h)' : parent'[x] = Root
      BY <2>2 DEF HierarchyIsForest
    <3>1. \A k \in known : k \in Groups /\ \E x \in Upward(k) : parent[x] = Root
      BY <2>3 DEF GroupsInv, GroupsTyped, HierarchyIsForest
    <3>2. ASSUME NEW k \in known, g \notin Upward(k)
          PROVE  \E x \in Upward(k)' : parent'[x] = Root
      <4>1. Upward(k)' = Upward(k) /\ \A x \in Upward(k) : parent'[x] = parent[x]
        BY <2>2, <3>1, <3>2, OneParent DEF GroupsInv
      <4> QED
        BY <3>1, <4>1
    <3>3. parent \in [Groups -> Ids] /\ parent' \in [Groups -> Ids] /\ parent'[g] = p
      BY <2>2, <2>4 DEF GroupsInv, GroupsTyped
    <3>4. \E x \in Upward(g)' : parent'[x] = Root
      <4>1. g \in Upward(g)' /\ Closed(parent', Upward(g)') /\ Upward(g)' \in SUBSET Groups
        BY <3>3, AboveClosed, UpwardIsAbove
      <4>2. CASE p = Root
        BY <3>3, <4>1, <4>2
      <4>3. CASE p # Root
        <5>1. p \in known /\ g \notin Upward(p)
          BY <1>1, <2>1, <2>2, <2>3, <4>3, UpwardIsAbove DEF GroupsInv, MovesValid
        <5>2. p \in Upward(g)'
          BY <3>3, <4>1, <4>3 DEF Closed
        <5>3. Upward(p)' \subseteq Upward(g)'
          BY <4>1, <5>2, AboveLeast, UpwardIsAbove
        <5> QED
          BY <3>2, <5>1, <5>3
      <4> QED
        BY <4>2, <4>3
    <3>5. CASE g \in Upward(h)'
      <4>1. Closed(parent', Upward(h)') /\ Upward(h)' \in SUBSET Groups
        BY <3>1, <3>3, AboveClosed, UpwardIsAbove
      <4>2. Upward(g)' \subseteq Upward(h)'
        BY <3>5, <4>1, AboveLeast, UpwardIsAbove
      <4> QED
        BY <3>4, <4>2
    <3>6. CASE g \notin Upward(h)'
      <4>1. \A x \in Above(parent', h) : parent[x] = parent'[x]
        BY <2>2, <3>3, <3>6, UpwardIsAbove DEF Above
      <4>2. Above(parent, h) = Above(parent', h)
        BY <3>1, <3>3, <4>1, AboveSame
      <4> QED
        BY <3>1, <4>1, <4>2, UpwardIsAbove
    <3> QED
      BY <3>5, <3>6
  <2> QED
    BY <2>4, <2>5, <2>6, <2>7 DEF GroupsInv
<1> QED
  BY <1>4, <1>5

LEMMA GroupsStep == GroupsInv /\ [GroupsNext]_groupVars => GroupsInv'
<1> SUFFICES ASSUME GroupsInv, [GroupsNext]_groupVars PROVE GroupsInv'
  OBVIOUS
<1>1. CASE UNCHANGED groupVars
  <2>1. UNCHANGED <<known, parent, scope, asking, crossed>>
    BY <1>1 DEF groupVars
  <2>2. GroupsTyped'
    BY <2>1 DEF GroupsInv, GroupsTyped
  <2> QED
    BY <2>1, <2>2, TreeStays
<1>2. CASE GroupsNext
  BY <1>2, VerifyKeeps, ScopeKeeps, CreateKeeps, DeleteKeeps, MoveKeeps DEF GroupsNext, Ids
<1> QED
  BY <1>1, <1>2

\* A deletion opens no camera to the holder of a scope.
LEMMA DeletionNarrows ==
  ASSUME GroupsInv, NEW a \in Askers, DeleteCommit(a), known' # known
  PROVE  EffectiveScope' \subseteq EffectiveScope
<1>1. PICK g \in known : g = asking[a].group /\ Children(g) = {}
  BY DEF DeleteCommit
<1>2. /\ known' = known \ {g} /\ parent' = [parent EXCEPT ![g] = Root] /\ scope' = Cascaded(g)
      /\ members' = [members EXCEPT ![g] = {}]
  BY <1>1 DEF DeleteCommit
<1>3. g \in Groups /\ known \subseteq Groups
  BY DEF GroupsInv, GroupsTyped
<1>4. ASSUME NEW h \in known' PROVE Upward(h)' = Upward(h) /\ members'[h] = members[h] /\ h \in known
  <2>1. h \in known /\ h # g /\ h \in Groups
    BY <1>2, <1>3
  <2>2. g \notin Upward(h)
    BY <1>1, <2>1, LeafAbove DEF GroupsInv
  <2>3. Upward(h)' = Upward(h)
    BY <1>2, <1>3, <2>1, <2>2, OneParent DEF GroupsInv, Ids
  <2> QED
    BY <1>2, <2>1, <2>3
<1>5. ASSUME NEW who \in Principals
      PROVE  /\ scope'[who].mode = scope[who].mode /\ scope'[who].entries = scope[who].entries
             /\ scope'[who].groups \subseteq scope[who].groups
  <2>1. scope[who] \in Scopes
    BY DEF GroupsInv, GroupsTyped
  <2>2. scope'[who] = [scope[who] EXCEPT !.groups = @ \ {g}]
    BY <1>2 DEF Cascaded
  <2> QED
    BY <2>1, <2>2 DEF Scopes
<1>6. ASSUME NEW who \in Principals
      PROVE  ExpandGroups(scope[who].groups)' \subseteq ExpandGroups(scope[who].groups)
  BY <1>4, <1>5 DEF ExpandGroups
<1>7. ASSUME NEW who \in Principals PROVE CamerasOf(scope[who])' \subseteq CamerasOf(scope[who])
  <2>1. CASE scope[who].mode = "all"
    BY <1>5, <2>1 DEF CamerasOf
  <2>2. CASE scope[who].mode = "selected"
    BY <1>5, <1>6, <2>2 DEF CamerasOf
  <2>3. CASE scope[who].mode \notin {"all", "selected"}
    BY <1>5, <2>3 DEF CamerasOf
  <2> QED
    BY <2>1, <2>2, <2>3
<1>8. "user" \in Principals /\ "role" \in Principals
  BY DEF Principals
<1> QED
  BY <1>5, <1>7, <1>8 DEF EffectiveScope

\* Whatever is moved, deleted and scoped at the same time, every group hangs under
\* the root, unless two moves overlapped (_validate_parent, update), and the
\* deletion of a group takes access away or leaves it (delete, the cascade of
\* principal_camera_scope_entries, effective_scope).
THEOREM GroupsRemainSound == GroupsSpec => GroupsStaySound
<1>1. GroupsInv => HierarchyIsForest
  BY DEF GroupsInv
<1>2. GroupsInv /\ [GroupsNext]_groupVars =>
        [known' # known /\ known' \subseteq known => EffectiveScope' \subseteq EffectiveScope]_groupVars
  <2> SUFFICES ASSUME GroupsInv, GroupsNext, known' # known, known' \subseteq known
               PROVE  EffectiveScope' \subseteq EffectiveScope
    OBVIOUS
  <2>1. \E a \in Askers : DeleteCommit(a)
    BY DEF GroupsNext, ReplaceMembers, CreateGroup, DeleteVerify, MoveVerify, ScopeVerify, MoveCommit, ScopeCommit,
       ScopeMode
  <2> QED
    BY <2>1, DeletionNarrows
<1> QED
  BY <1>1, <1>2, GroupsStart, GroupsStep, PTL DEF GroupsSpec, GroupsStaySound, DeletionNeverWidens

-----------------------------------------------------------------------------
(* The limiter of failed logins.                                           *)

LimiterTypeOK ==
  /\ tick \in Nat \ {0}
  /\ bucket \in [BucketKeys -> SUBSET (Nat \X Nat)]
  /\ until \in [BucketKeys -> Nat]
  /\ judging \in [Threads -> Identifiers \cup {"none"}]
  /\ guesses \in [BucketKeys -> SUBSET (Nat \X Nat)]

Others == Cardinality(Threads) - 1

\* The threads whose verdict will count for key k.
Judges(k) == {t \in Threads : judging[t] # "none" /\ (k = Source \/ judging[t] = k)}
Recent(k) == Pruned(guesses[k])
Remembered(k) == Pruned(bucket[k])

\* The recent guesses judged after the block of k was last set.
AfterBlock(k) == {g \in Recent(k) : g[1] + Lockout > until[k]}

\* Failures lie in the past, those of one instant are numbered without a gap, and
\* what a bucket still remembers was a wrong guess.
FailuresCounted(k) ==
  /\ IsFiniteSet(guesses[k])
  /\ \A g \in guesses[k] \cup bucket[k] : g[1] <= tick
  /\ \A g \in AtTick(guesses[k]) : g[2] <= Cardinality(AtTick(guesses[k]))
  /\ Remembered(k) \subseteq guesses[k]

\* While there is no entry of a block, the bucket is not full, and what it has
\* forgotten of the window was judged by the other threads.
OpenKeyCounted(k) ==
  until[k] = 0 =>
    /\ Cardinality(Remembered(k)) <= LimitOf(k) - 1
    /\ Cardinality(Recent(k) \ Remembered(k)) <= Others

\* While there is one, each further guess is one that was under judgement when the
\* block was set.
BlockedKeyCounted(k) ==
  until[k] # 0 =>
    /\ Cardinality(Recent(k)) + Cardinality(Judges(k)) <= LimitOf(k) + 2 * Others
    /\ Cardinality(AfterBlock(k)) + Cardinality(Judges(k)) <= Others

KeyCounted(k) == FailuresCounted(k) /\ OpenKeyCounted(k) /\ BlockedKeyCounted(k)

LimiterInv == LimiterTypeOK /\ \A k \in BucketKeys : KeyCounted(k)

LEMMA LimitsPositive ==
  ASSUME NEW k \in BucketKeys
  PROVE  LimitOf(k) \in Nat \ {0}
BY LimiterAssumption DEF LimitOf

\* A name is neither the key of the source nor the mark of an idle thread.
LEMMA NamesApart ==
  ASSUME NEW i \in Identifiers
  PROVE  i # Source /\ i # "none" /\ i \in BucketKeys /\ Source \in BucketKeys
BY LimiterAssumption DEF Source, BucketKeys

LEMMA JudgesFinite ==
  ASSUME NEW k \in BucketKeys
  PROVE  /\ IsFiniteSet(Judges(k)) /\ Cardinality(Judges(k)) \in Nat
         /\ Cardinality(Threads) \in Nat
<1>1. Judges(k) \in SUBSET Threads
  BY DEF Judges
<1>2. IsFiniteSet(Threads)
  BY LimiterAssumption
<1> QED
  BY <1>1, <1>2, FS_Subset, FS_CardinalityType

LEMMA OthersNatural == Others \in Nat
<1>1. IsFiniteSet(Threads) /\ Cardinality(Threads) \in Nat
  BY LimiterAssumption, FS_CardinalityType
<1>2. Cardinality(Threads) # 0
  BY <1>1, LimiterAssumption, FS_EmptySet
<1> QED
  BY <1>1, <1>2 DEF Others

LEMMA CountsFinite ==
  ASSUME LimiterTypeOK, NEW k \in BucketKeys, FailuresCounted(k)
  PROVE  /\ \A S \in SUBSET Recent(k) : IsFiniteSet(S) /\ Cardinality(S) \in Nat
         /\ \A S \in SUBSET guesses[k] : IsFiniteSet(S) /\ Cardinality(S) \in Nat
         /\ Remembered(k) \subseteq Recent(k) /\ AfterBlock(k) \subseteq Recent(k)
<1>1. Recent(k) \in SUBSET guesses[k] /\ IsFiniteSet(guesses[k])
  BY DEF Recent, Pruned, FailuresCounted
<1>2. \A S \in SUBSET guesses[k] : IsFiniteSet(S) /\ Cardinality(S) \in Nat
  BY <1>1, FS_Subset, FS_CardinalityType
<1>3. Remembered(k) \subseteq Recent(k) /\ AfterBlock(k) \subseteq Recent(k)
  BY DEF Remembered, Recent, AfterBlock, Pruned, FailuresCounted
<1> QED
  BY <1>1, <1>2, <1>3

\* What the guesses of a key, those its bucket remembers and its judges may do
\* without disturbing the counts: become fewer.
LEMMA FewerCounted ==
  ASSUME LimiterTypeOK, LimiterTypeOK', NEW k \in BucketKeys, KeyCounted(k),
         FailuresCounted(k)', until'[k] = until[k],
         Recent(k)' \subseteq Recent(k), Remembered(k)' \subseteq Remembered(k),
         Recent(k)' \ Remembered(k)' \subseteq Recent(k) \ Remembered(k),
         Judges(k)' \subseteq Judges(k) \/ until[k] = 0
  PROVE  KeyCounted(k)'
<1> USE DEF KeyCounted
<1> DEFINE R == Recent(k)
           M == Remembered(k)
           A == AfterBlock(k)
           J == Judges(k)
           RN == Recent(k)'
           MN == Remembered(k)'
           AN == AfterBlock(k)'
           JN == Judges(k)'
<1>1. LimitOf(k) \in Nat /\ Others \in Int /\ Cardinality(J) \in Nat /\ IsFiniteSet(J)
  BY LimitsPositive, JudgesFinite DEF Others
<1>2. \A S \in SUBSET R : IsFiniteSet(S) /\ Cardinality(S) \in Nat
  BY CountsFinite
<1>3. AN \subseteq A
  BY DEF AfterBlock
<1>4. MN \in SUBSET M /\ M \in SUBSET R /\ A \in SUBSET R /\ AN \in SUBSET A /\ RN \in SUBSET R
  BY CountsFinite, <1>3
<1>5. RN \ MN \in SUBSET (R \ M)
  OBVIOUS
<1>6. /\ Cardinality(MN) <= Cardinality(M) /\ Cardinality(AN) <= Cardinality(A)
      /\ Cardinality(RN) <= Cardinality(R) /\ Cardinality(RN \ MN) <= Cardinality(R \ M)
  <2>1. IsFiniteSet(M) /\ IsFiniteSet(A) /\ IsFiniteSet(R) /\ IsFiniteSet(R \ M)
    BY <1>2, <1>4
  <2> HIDE DEF R, M, A, J, RN, MN, AN, JN
  <2> QED
    BY <2>1, <1>4, <1>5, FS_Subset
<1>7. /\ Cardinality(M) \in Nat /\ Cardinality(A) \in Nat /\ Cardinality(R) \in Nat
      /\ Cardinality(R \ M) \in Nat
      /\ Cardinality(MN) \in Nat /\ Cardinality(AN) \in Nat /\ Cardinality(RN) \in Nat
      /\ Cardinality(RN \ MN) \in Nat
  <2> HIDE DEF R, M, A, J, RN, MN, AN, JN
  <2> QED
    BY <1>2, <1>4
<1>8. JN \subseteq J => Cardinality(JN) <= Cardinality(J) /\ Cardinality(JN) \in Nat
  <2> HIDE DEF R, M, A, J, RN, MN, AN, JN
  <2> QED
    BY <1>1, FS_Subset, FS_CardinalityType
<1>9. OpenKeyCounted(k)'
  <2> SUFFICES ASSUME until'[k] = 0
               PROVE  Cardinality(MN) <= LimitOf(k) - 1 /\ Cardinality(RN \ MN) <= Others
    BY DEF OpenKeyCounted, Others, LimitOf
  <2>1. Cardinality(M) <= LimitOf(k) - 1 /\ Cardinality(R \ M) <= Others
    BY DEF OpenKeyCounted
  <2> HIDE DEF R, M, A, J, RN, MN, AN, JN
  <2> QED
    BY <2>1, <1>1, <1>6, <1>7
<1>10. BlockedKeyCounted(k)'
  <2> SUFFICES ASSUME until'[k] # 0
               PROVE  /\ Cardinality(RN) + Cardinality(JN) <= LimitOf(k) + 2 * Others
                      /\ Cardinality(AN) + Cardinality(JN) <= Others
    BY DEF BlockedKeyCounted, Others, LimitOf
  <2>1. /\ Cardinality(R) + Cardinality(J) <= LimitOf(k) + 2 * Others
        /\ Cardinality(A) + Cardinality(J) <= Others
    BY DEF BlockedKeyCounted
  <2>2. JN \subseteq J
    OBVIOUS
  <2> HIDE DEF R, M, A, J, RN, MN, AN, JN
  <2> QED
    BY <2>1, <2>2, <1>1, <1>6, <1>7, <1>8
<1> QED
  BY <1>9, <1>10

LEMMA LimiterStart == LimiterInit => LimiterInv
<1> SUFFICES ASSUME LimiterInit PROVE LimiterInv
  OBVIOUS
<1>1. LimiterTypeOK
  BY DEF LimiterInit, LimiterTypeOK
<1>2. ASSUME NEW k \in BucketKeys PROVE KeyCounted(k)
  <2>1. guesses[k] = {} /\ bucket[k] = {} /\ until[k] = 0
    BY <1>2 DEF LimiterInit
  <2>2. Recent(k) = {} /\ Remembered(k) = {} /\ AtTick(guesses[k]) = {} /\ Judges(k) = {}
    BY <2>1 DEF Recent, Remembered, Pruned, AtTick, Judges, LimiterInit
  <2>3. IsFiniteSet({}) /\ Cardinality({}) = 0 /\ {} \ {} = {}
    BY FS_EmptySet
  <2>4. LimitOf(k) \in Nat \ {0}
    BY <1>2, LimitsPositive
  <2>5. Others \in Nat
    BY OthersNatural
  <2>6. FailuresCounted(k)
    BY <2>1, <2>2, <2>3 DEF FailuresCounted
  <2> QED
    BY <2>1, <2>2, <2>3, <2>4, <2>5, <2>6 DEF KeyCounted, OpenKeyCounted, BlockedKeyCounted
<1> QED
  BY <1>1, <1>2 DEF LimiterInv

LEMMA LimiterTypeStep == LimiterInv /\ [LimiterNext]_limiterVars => LimiterTypeOK'
<1> SUFFICES ASSUME LimiterTypeOK, [LimiterNext]_limiterVars,
                    \A k \in BucketKeys : IsFiniteSet(guesses[k])
             PROVE  LimiterTypeOK'
  BY DEF LimiterInv, KeyCounted, FailuresCounted
<1>1. ASSUME NEW t \in Threads, NEW i \in Identifiers, CheckLogin(t, i)
      PROVE  LimiterTypeOK'
  BY <1>1 DEF LimiterTypeOK, CheckLogin
<1>2. ASSUME NEW t \in Threads, RecordLoginFailure(t)
      PROVE  LimiterTypeOK'
  <2>1. tick + Lockout \in Nat
    BY LimiterAssumption DEF LimiterTypeOK
  <2>2. ASSUME NEW k \in BucketKeys
        PROVE  NewFailure(k) \in Nat \X Nat
    <3>1. AtTick(guesses[k]) \in SUBSET guesses[k]
      BY DEF AtTick
    <3>2. Cardinality(AtTick(guesses[k])) \in Nat
      BY <2>2, <3>1, FS_Subset, FS_CardinalityType
    <3> QED
      BY <3>2 DEF NewFailure, LimiterTypeOK
  <2> QED
    BY <1>2, <2>1, <2>2 DEF LimiterTypeOK, RecordLoginFailure, Pruned
<1>3. ASSUME NEW t \in Threads, RecordLoginSuccess(t)
      PROVE  LimiterTypeOK'
  BY <1>3 DEF LimiterTypeOK, RecordLoginSuccess
<1>4. CASE Tick
  BY <1>4 DEF LimiterTypeOK, Tick
<1>5. CASE UNCHANGED limiterVars
  BY <1>5 DEF LimiterTypeOK, limiterVars
<1> QED
  BY <1>1, <1>2, <1>3, <1>4, <1>5 DEF LimiterNext

\* The failure that is recorded for a key is new to it.
LEMMA FailureIsNew ==
  ASSUME LimiterTypeOK, NEW k \in BucketKeys, FailuresCounted(k)
  PROVE  /\ NewFailure(k) \notin guesses[k] /\ NewFailure(k)[1] = tick
         /\ Cardinality(AtTick(guesses[k])) \in Nat
         /\ NewFailure(k)[2] = 1 + Cardinality(AtTick(guesses[k]))
<1>1. AtTick(guesses[k]) \in SUBSET guesses[k]
  BY DEF AtTick
<1>2. Cardinality(AtTick(guesses[k])) \in Nat
  BY <1>1, CountsFinite
<1>3. NewFailure(k)[1] = tick /\ NewFailure(k)[2] = 1 + Cardinality(AtTick(guesses[k]))
  BY DEF NewFailure
<1>4. ASSUME NewFailure(k) \in guesses[k] PROVE FALSE
  <2>1. NewFailure(k) \in AtTick(guesses[k])
    BY <1>3, <1>4 DEF AtTick
  <2>2. NewFailure(k)[2] <= Cardinality(AtTick(guesses[k]))
    BY <2>1 DEF FailuresCounted
  <2> QED
    BY <2>2, <1>2, <1>3
<1> QED
  BY <1>2, <1>3, <1>4

\* A failure joins what its keys count.
LEMMA FailureJoins ==
  ASSUME LimiterInv, LimiterTypeOK', NEW t \in Threads, RecordLoginFailure(t),
         NEW k \in {judging[t], Source}
  PROVE  /\ k \in BucketKeys /\ FailuresCounted(k)'
         /\ Recent(k)' = Recent(k) \cup {NewFailure(k)}
         /\ Remembered(k)' = Remembered(k) \cup {NewFailure(k)}
<1> DEFINE nf == NewFailure(k)
           at == AtTick(guesses[k])
<1>1. judging[t] \in Identifiers
  BY DEF LimiterInv, LimiterTypeOK, RecordLoginFailure
<1>2. k \in BucketKeys
  BY <1>1, NamesApart
<1>3. FailuresCounted(k)
  BY <1>2 DEF LimiterInv, KeyCounted
<1>4. /\ tick \in Nat /\ tick' = tick /\ Window \in Nat \ {0}
      /\ guesses[k] \in SUBSET (Nat \X Nat) /\ bucket[k] \in SUBSET (Nat \X Nat)
  <2>1. tick' = tick
    BY DEF RecordLoginFailure
  <2> QED
    BY <1>2, <2>1, LimiterAssumption DEF LimiterInv, LimiterTypeOK
<1>5. nf \notin guesses[k] /\ nf[1] = tick /\ Cardinality(at) \in Nat /\ nf[2] = 1 + Cardinality(at)
  BY <1>2, <1>3, FailureIsNew DEF LimiterInv
<1>6. /\ guesses'[k] = Pruned(guesses[k]) \cup {nf}
      /\ bucket'[k] = Pruned(bucket[k]) \cup {nf}
  BY <1>2 DEF RecordLoginFailure
<1> HIDE DEF nf
<1>7. AtTick(guesses[k])' = at \cup {nf}
  <2>1. AtTick(guesses[k])' = {f \in guesses'[k] : f[1] = tick}
    BY DEF AtTick, RecordLoginFailure
  <2>2. {f \in Pruned(guesses[k]) : f[1] = tick} = at
    BY <1>4 DEF AtTick, Pruned
  <2> QED
    BY <2>1, <2>2, <1>5, <1>6
<1>8. Recent(k)' = Recent(k) \cup {nf} /\ Remembered(k)' = Remembered(k) \cup {nf}
  BY <1>4, <1>5, <1>6 DEF Recent, Remembered, Pruned
<1>9. FailuresCounted(k)'
  <2>1. IsFiniteSet(guesses'[k])
    <3>1. IsFiniteSet(Pruned(guesses[k]))
      BY <1>2, <1>3, CountsFinite DEF LimiterInv, Recent
    <3> QED
      BY <3>1, <1>6, FS_AddElement
  <2>2. \A g \in guesses'[k] \cup bucket'[k] : g[1] <= tick'
    BY <1>3, <1>4, <1>5, <1>6 DEF Pruned, FailuresCounted
  <2>3. Cardinality(at \cup {nf}) = Cardinality(at) + 1
    <3>1. IsFiniteSet(at)
      BY <1>2, <1>3, CountsFinite DEF LimiterInv, AtTick
    <3>2. nf \notin at
      BY <1>5 DEF AtTick
    <3> QED
      BY <3>1, <3>2, FS_AddElement
  <2>4. \A g \in at \cup {nf} : g[2] <= Cardinality(at) + 1
    <3>1. \A g \in at : g[2] \in Nat /\ g[2] <= Cardinality(at)
      BY <1>3, <1>4 DEF FailuresCounted, AtTick
    <3> QED
      BY <3>1, <1>5
  <2>5. Remembered(k)' \subseteq guesses'[k]
    <3>1. Remembered(k) \subseteq Pruned(guesses[k])
      BY <1>2, <1>3, CountsFinite DEF LimiterInv, Recent
    <3> QED
      BY <3>1, <1>6, <1>8
  <2> QED
    BY <1>7, <2>1, <2>2, <2>3, <2>4, <2>5 DEF FailuresCounted
<1> QED
  BY <1>2, <1>8, <1>9 DEF nf

\* What a failure does to the count of a key that it concerns: either the bucket is
\* full, and the block is set or renewed, or it is not, and a block stays as it was.
LEMMA FailureKeeps ==
  ASSUME LimiterInv, LimiterTypeOK', NEW t \in Threads, RecordLoginFailure(t),
         NEW k \in {judging[t], Source}
  PROVE  KeyCounted(k)'
<1> DEFINE nf == NewFailure(k)
           R == Recent(k)
           M == Remembered(k)
           A == AfterBlock(k)
           J == Judges(k)
           RN == Recent(k)'
           MN == Remembered(k)'
           AN == AfterBlock(k)'
           JN == Judges(k)'
<1>1. /\ k \in BucketKeys /\ FailuresCounted(k)' /\ RN = R \cup {nf} /\ MN = M \cup {nf}
  BY FailureJoins
<1>2. /\ LimiterTypeOK /\ KeyCounted(k)
      /\ FailuresCounted(k) /\ OpenKeyCounted(k) /\ BlockedKeyCounted(k)
      /\ tick \in Nat \ {0} /\ tick' = tick /\ until[k] \in Nat /\ until'[k] \in Nat
      /\ Lockout \in Nat \ {0} /\ judging[t] \in Identifiers
  BY <1>1, LimiterAssumption DEF LimiterInv, LimiterTypeOK, KeyCounted, RecordLoginFailure
<1>3. nf \notin R /\ nf \notin M /\ nf[1] = tick
  BY <1>1, <1>2, FailureIsNew, CountsFinite DEF Recent, Pruned
<1>4. JN = J \ {t} /\ t \in J
  <2>1. t \in J
    BY <1>2, NamesApart DEF Judges
  <2>2. judging' = [judging EXCEPT ![t] = "none"] /\ judging \in [Threads -> Identifiers \cup {"none"}]
    BY <1>2 DEF RecordLoginFailure, LimiterTypeOK
  <2>3. \A s \in Threads \ {t} : judging'[s] = judging[s]
    BY <2>2
  <2>4. judging'[t] = "none"
    BY <2>2
  <2>5. JN = {s \in Threads : judging'[s] # "none" /\ (k = Source \/ judging'[s] = k)}
    BY DEF Judges
  <2> QED
    BY <2>1, <2>3, <2>4, <2>5 DEF Judges
<1>5. /\ LimitOf(k) \in Nat \ {0} /\ Others \in Nat /\ Cardinality(J) \in Nat /\ IsFiniteSet(J)
      /\ \A S \in SUBSET R : IsFiniteSet(S) /\ Cardinality(S) \in Nat
      /\ M \in SUBSET R /\ A \in SUBSET R
  BY <1>1, <1>2, LimitsPositive, OthersNatural, JudgesFinite, CountsFinite
<1>6. Cardinality(JN) = Cardinality(J) - 1 /\ Cardinality(JN) \in Nat
  <2>1. Cardinality(JN) = Cardinality(J) - 1
    <3> HIDE DEF J, JN
    <3> QED
      BY <1>4, <1>5, FS_RemoveElement
  <2>2. IsFiniteSet(JN)
    BY <1>4, <1>5, FS_RemoveElement
  <2> QED
    BY <2>1, <2>2, FS_CardinalityType
<1>7. Cardinality(JN) <= Others
  <2>1. JN \in SUBSET (Threads \ {t})
    BY <1>4 DEF Judges
  <2>2. IsFiniteSet(Threads \ {t}) /\ Cardinality(Threads \ {t}) = Others
    BY LimiterAssumption, FS_RemoveElement DEF Others
  <2> QED
    BY <2>1, <2>2, FS_Subset
<1>8. /\ Cardinality(RN) = Cardinality(R) + 1 /\ Cardinality(MN) = Cardinality(M) + 1
      /\ RN \ MN = R \ M
      /\ Cardinality(R) \in Nat /\ Cardinality(M) \in Nat /\ Cardinality(R \ M) \in Nat
  <2>1. IsFiniteSet(R) /\ IsFiniteSet(M)
    BY <1>5
  <2>2. Cardinality(RN) = Cardinality(R) + 1 /\ Cardinality(MN) = Cardinality(M) + 1
    <3> HIDE DEF R, M, RN, MN, nf
    <3> QED
      BY <2>1, <1>1, <1>3, FS_AddElement
  <2>3. RN \ MN = R \ M
    BY <1>1, <1>3
  <2> QED
    BY <2>2, <2>3, <1>5
<1>9. Cardinality(R) = Cardinality(M) + Cardinality(R \ M)
  <2> HIDE DEF R, M
  <2>1. IsFiniteSet(R) /\ IsFiniteSet(M) /\ R \cap M = M
    BY <1>5
  <2>2. Cardinality(R \ M) = Cardinality(R) - Cardinality(R \cap M)
    BY <2>1, FS_Difference
  <2> QED
    BY <2>1, <2>2, <1>8
<1>10. bucket'[k] = Pruned(bucket[k]) \cup {nf}
  BY <1>1 DEF RecordLoginFailure
<1>11. MN = bucket'[k]
  BY <1>1, <1>10 DEF Remembered
<1>12. until'[k] = IF Full(k, bucket'[k]) THEN tick + Lockout ELSE until[k]
  BY <1>1, <1>10 DEF RecordLoginFailure
<1>13. CASE Full(k, bucket'[k])
  <2>1. until'[k] = tick + Lockout /\ until'[k] # 0
    BY <1>2, <1>12, <1>13
  <2>2. AN = {}
    <3>1. \A g \in RN : g[1] \in Nat /\ g[1] <= tick
      BY <1>1, <1>2 DEF FailuresCounted, Recent, Pruned, LimiterTypeOK
    <3>2. AN = {g \in RN : g[1] + Lockout > until'[k]}
      BY DEF AfterBlock
    <3> QED
      BY <3>1, <3>2, <2>1, <1>2
  <2>3. Cardinality(AN) + Cardinality(JN) <= Others
    BY <2>2, <1>6, <1>7, FS_EmptySet
  <2>4. Cardinality(RN) + Cardinality(JN) <= LimitOf(k) + 2 * Others
    <3>1. CASE until[k] = 0
      <4>1. Cardinality(M) <= LimitOf(k) - 1 /\ Cardinality(R \ M) <= Others
        BY <3>1, <1>2 DEF OpenKeyCounted
      <4> HIDE DEF R, M, RN, MN, J, JN
      <4> QED
        BY <4>1, <1>5, <1>6, <1>7, <1>8, <1>9
    <3>2. CASE until[k] # 0
      <4>1. Cardinality(R) + Cardinality(J) <= LimitOf(k) + 2 * Others
        BY <3>2, <1>2 DEF BlockedKeyCounted
      <4> HIDE DEF R, M, RN, MN, J, JN
      <4> QED
        BY <4>1, <1>5, <1>6, <1>8
    <3> QED
      BY <3>1, <3>2
  <2> QED
    BY <1>1, <2>1, <2>3, <2>4 DEF KeyCounted, OpenKeyCounted, BlockedKeyCounted, LimitOf, Others
<1>14. CASE ~Full(k, bucket'[k])
  <2>1. until'[k] = until[k] /\ Cardinality(MN) <= LimitOf(k) - 1
    <3>1. Cardinality(MN) < LimitOf(k)
      BY <1>14, <1>11, <1>8, <1>5 DEF Full
    <3> QED
      BY <3>1, <1>12, <1>14, <1>8, <1>5
  <2>2. CASE until[k] = 0
    <3>1. Cardinality(RN \ MN) <= Others
      BY <2>2, <1>2, <1>8 DEF OpenKeyCounted
    <3> QED
      BY <1>1, <2>1, <2>2, <3>1 DEF KeyCounted, OpenKeyCounted, BlockedKeyCounted, LimitOf, Others
  <2>3. CASE until[k] # 0
    <3>1. /\ Cardinality(R) + Cardinality(J) <= LimitOf(k) + 2 * Others
          /\ Cardinality(A) + Cardinality(J) <= Others
      BY <2>3, <1>2 DEF BlockedKeyCounted
    <3>2. AN \in SUBSET (A \cup {nf})
      BY <1>1, <2>1 DEF AfterBlock
    <3>3. Cardinality(AN) <= Cardinality(A) + 1 /\ Cardinality(AN) \in Nat /\ Cardinality(A) \in Nat
      <4> HIDE DEF A, AN, nf, R
      <4>1. IsFiniteSet(A) /\ Cardinality(A) \in Nat
        BY <1>5
      <4>2. /\ IsFiniteSet(A \cup {nf}) /\ Cardinality(A \cup {nf}) \in Nat
            /\ Cardinality(A \cup {nf}) <= Cardinality(A) + 1
        BY <4>1, FS_AddElement
      <4> QED
        BY <3>2, <4>1, <4>2, FS_Subset, FS_CardinalityType
    <3>4. /\ Cardinality(RN) + Cardinality(JN) <= LimitOf(k) + 2 * Others
          /\ Cardinality(AN) + Cardinality(JN) <= Others
      <4> HIDE DEF R, M, RN, MN, J, JN, A, AN
      <4> QED
        BY <3>1, <3>3, <1>5, <1>6, <1>8
    <3> QED
      BY <1>1, <2>1, <2>3, <3>4 DEF KeyCounted, OpenKeyCounted, BlockedKeyCounted, LimitOf, Others
  <2> QED
    BY <2>2, <2>3
<1> QED
  BY <1>13, <1>14

\* A check that forgets a block that is over: what the window still holds was judged
\* since the block was set.
LEMMA ExpiryKeeps ==
  ASSUME LimiterInv, LimiterTypeOK', NEW t \in Threads, NEW i \in Identifiers, CheckLogin(t, i),
         NEW k \in Expired(i)
  PROVE  KeyCounted(k)'
<1>1. /\ k \in BucketKeys /\ until[k] # 0 /\ until[k] <= tick
      /\ until'[k] = 0 /\ bucket'[k] = {} /\ guesses' = guesses /\ tick' = tick
  <2>1. k \in BucketKeys /\ until[k] # 0 /\ k \in {i, Source}
    BY NamesApart DEF Expired
  <2>2. until[k] \in Nat /\ tick \in Nat
    BY <2>1 DEF LimiterInv, LimiterTypeOK
  <2>3. until[k] <= tick
    BY <2>1, <2>2, NamesApart DEF CheckLogin, Blocked, LimiterInv, LimiterTypeOK
  <2> QED
    BY <2>1, <2>3 DEF CheckLogin
<1>2. KeyCounted(k) /\ FailuresCounted(k) /\ BlockedKeyCounted(k) /\ LimiterTypeOK
  BY <1>1 DEF LimiterInv, KeyCounted
<1>3. Recent(k)' = Recent(k) /\ Remembered(k)' = {} /\ AtTick(guesses[k])' = AtTick(guesses[k])
  BY <1>1 DEF Recent, Remembered, Pruned, AtTick
<1>4. FailuresCounted(k)'
  BY <1>1, <1>2, <1>3 DEF FailuresCounted
<1>5. Recent(k) \subseteq AfterBlock(k)
  <2>1. guesses[k] \in SUBSET (Nat \X Nat) /\ tick \in Nat /\ until[k] \in Nat
    BY <1>1, <1>2 DEF LimiterTypeOK
  <2>2. Window \in Nat /\ Lockout \in Nat /\ Lockout >= Window
    BY LimiterAssumption
  <2> QED
    BY <1>1, <2>1, <2>2 DEF AfterBlock, Recent, Pruned
<1>6. /\ Cardinality(AfterBlock(k)) + Cardinality(Judges(k)) <= Others
      /\ Cardinality(Judges(k)) \in Nat /\ Others \in Nat /\ LimitOf(k) \in Nat \ {0}
      /\ Cardinality(AfterBlock(k)) \in Nat /\ IsFiniteSet(AfterBlock(k))
  BY <1>1, <1>2, JudgesFinite, OthersNatural, LimitsPositive, CountsFinite DEF BlockedKeyCounted
<1>7. Cardinality(Recent(k)) <= Cardinality(AfterBlock(k)) /\ Cardinality(Recent(k)) \in Nat
  <2>1. IsFiniteSet(Recent(k))
    BY <1>5, <1>6, FS_Subset
  <2>2. Recent(k) \in SUBSET AfterBlock(k)
    BY <1>5
  <2> QED
    BY <2>1, <2>2, <1>6, FS_Subset, FS_CardinalityType
<1>8. Cardinality(Recent(k)') <= Others /\ Recent(k)' \ {} = Recent(k)'
  BY <1>3, <1>6, <1>7
<1>9. Cardinality({}) = 0
  BY FS_EmptySet
<1>10. OpenKeyCounted(k)'
  <2> SUFFICES /\ Cardinality(Remembered(k)') <= LimitOf(k) - 1
               /\ Cardinality(Recent(k)' \ Remembered(k)') <= Others
    BY DEF OpenKeyCounted, LimitOf, Others
  <2> QED
    BY <1>3, <1>6, <1>8, <1>9
<1> QED
  BY <1>1, <1>4, <1>10 DEF KeyCounted, BlockedKeyCounted

\* A key whose guesses, bucket and block a step leaves alone, and for which nobody
\* is judged anew unless it is open.
LEMMA UntouchedKeeps ==
  ASSUME LimiterInv, LimiterTypeOK', NEW k \in BucketKeys, tick' = tick,
         until'[k] = until[k], bucket'[k] = bucket[k],
         guesses'[k] = guesses[k] \/ guesses'[k] = Pruned(guesses[k]),
         Judges(k)' \subseteq Judges(k) \/ until[k] = 0
  PROVE  KeyCounted(k)'
<1>1. LimiterTypeOK /\ KeyCounted(k) /\ FailuresCounted(k)
  BY DEF LimiterInv, KeyCounted
<1>2. /\ tick \in Nat /\ Window \in Nat \ {0}
      /\ guesses[k] \in SUBSET (Nat \X Nat) /\ bucket[k] \in SUBSET (Nat \X Nat)
  BY <1>1, LimiterAssumption DEF LimiterTypeOK
<1>3. Recent(k)' = Recent(k) /\ Remembered(k)' = Remembered(k)
  BY <1>2 DEF Recent, Remembered, Pruned
<1>4. AtTick(guesses[k])' = AtTick(guesses[k])
  BY <1>2 DEF AtTick, Pruned
<1>5. FailuresCounted(k)'
  <2>1. IsFiniteSet(guesses'[k]) /\ guesses'[k] \subseteq guesses[k]
    BY <1>1, CountsFinite DEF Recent, Pruned
  <2>2. Remembered(k) \subseteq Pruned(guesses[k])
    BY <1>1, CountsFinite DEF Recent
  <2>3. Remembered(k)' \subseteq guesses'[k]
    BY <1>3, <2>2 DEF Pruned
  <2>4. \A g \in guesses'[k] \cup bucket'[k] : g[1] <= tick'
    BY <1>1, <2>1 DEF FailuresCounted
  <2>5. \A g \in AtTick(guesses[k])' : g[2] <= Cardinality(AtTick(guesses[k])')
    BY <1>1, <1>4 DEF FailuresCounted
  <2> QED
    BY <2>1, <2>3, <2>4, <2>5 DEF FailuresCounted
<1> QED
  BY <1>1, <1>3, <1>5, FewerCounted

\* A success forgets all about its name.
LEMMA SuccessKeeps ==
  ASSUME LimiterInv, LimiterTypeOK', NEW t \in Threads, RecordLoginSuccess(t),
         NEW k \in BucketKeys, k = judging[t]
  PROVE  KeyCounted(k)'
<1>1. k \in Identifiers /\ k \in BucketKeys
  BY NamesApart DEF LimiterInv, LimiterTypeOK, RecordLoginSuccess
<1>2. guesses'[k] = {} /\ bucket'[k] = {} /\ until'[k] = 0
  BY <1>1 DEF LimiterInv, LimiterTypeOK, RecordLoginSuccess
<1>3. IsFiniteSet({}) /\ Cardinality({}) = 0 /\ {} \ {} = {}
  BY FS_EmptySet
<1>4. LimitOf(k) \in Nat \ {0} /\ Others \in Nat
  BY <1>1, LimitsPositive, OthersNatural
<1>6. Recent(k)' = {} /\ Remembered(k)' = {} /\ AtTick(guesses[k])' = {}
  BY <1>2 DEF Recent, Remembered, Pruned, AtTick
<1>7. FailuresCounted(k)'
  BY <1>3, <1>2, <1>6 DEF FailuresCounted
<1>8. OpenKeyCounted(k)'
  <2> SUFFICES /\ Cardinality(Remembered(k)') <= LimitOf(k) - 1
               /\ Cardinality(Recent(k)' \ Remembered(k)') <= Others
    BY DEF OpenKeyCounted, LimitOf, Others
  <2> QED
    BY <1>3, <1>4, <1>2, <1>6
<1> QED
  BY <1>2, <1>7, <1>8 DEF KeyCounted, BlockedKeyCounted

\* As time passes, failures leave the window.
LEMMA TickKeeps ==
  ASSUME LimiterInv, LimiterTypeOK', Tick, NEW k \in BucketKeys
  PROVE  KeyCounted(k)'
<1>1. LimiterTypeOK /\ KeyCounted(k) /\ FailuresCounted(k)
  BY DEF LimiterInv, KeyCounted
<1>2. /\ tick \in Nat /\ Window \in Nat \ {0} /\ tick' = tick + 1
      /\ guesses[k] \in SUBSET (Nat \X Nat) /\ bucket[k] \in SUBSET (Nat \X Nat)
      /\ guesses' = guesses /\ bucket' = bucket /\ until' = until /\ judging' = judging
  BY <1>1, LimiterAssumption DEF LimiterTypeOK, Tick
<1>3. /\ Recent(k)' \subseteq Recent(k) /\ Remembered(k)' \subseteq Remembered(k)
      /\ Recent(k)' \ Remembered(k)' \subseteq Recent(k) \ Remembered(k)
  BY <1>2 DEF Recent, Remembered, Pruned
<1>4. Judges(k)' = Judges(k)
  BY <1>2 DEF Judges
<1>5. FailuresCounted(k)'
  <2>1. \A g \in guesses'[k] \cup bucket'[k] : g[1] \in Nat /\ g[1] <= tick /\ g[1] <= tick'
    BY <1>1, <1>2 DEF FailuresCounted
  <2>2. AtTick(guesses[k])' = {}
    BY <1>2, <2>1 DEF AtTick
  <2> QED
    BY <1>1, <1>2, <1>3, <2>1, <2>2 DEF FailuresCounted
<1> QED
  BY <1>1, <1>2, <1>3, <1>4, <1>5, FewerCounted

LEMMA LimiterStep == LimiterInv /\ [LimiterNext]_limiterVars => LimiterInv'
<1> SUFFICES ASSUME LimiterInv, [LimiterNext]_limiterVars PROVE LimiterInv'
  OBVIOUS
<1>0. LimiterTypeOK' /\ LimiterTypeOK
  BY LimiterTypeStep DEF LimiterInv
<1> SUFFICES ASSUME NEW k \in BucketKeys PROVE KeyCounted(k)'
  BY <1>0 DEF LimiterInv
<1>1. ASSUME NEW t \in Threads, NEW i \in Identifiers, CheckLogin(t, i)
      PROVE  KeyCounted(k)'
  <2>1. CASE k \in Expired(i)
    BY <1>0, <1>1, <2>1, ExpiryKeeps
  <2>2. CASE k \notin Expired(i)
    <3>1. tick' = tick /\ until'[k] = until[k] /\ bucket'[k] = bucket[k] /\ guesses' = guesses
      BY <1>1, <2>2 DEF CheckLogin
    <3>2. judging' = [judging EXCEPT ![t] = i] /\ judging[t] = "none"
      BY <1>1 DEF CheckLogin
    <3>3. k \in {i, Source} => until[k] = 0
      BY <2>2 DEF Expired
    <3>4. k \notin {i, Source} => Judges(k)' \subseteq Judges(k)
      <4>1. judging \in [Threads -> Identifiers \cup {"none"}]
        BY <1>0 DEF LimiterTypeOK
      <4> QED
        BY <3>2, <4>1 DEF Judges
    <3> QED
      BY <1>0, <3>1, <3>3, <3>4, UntouchedKeeps
  <2> QED
    BY <2>1, <2>2
<1>2. ASSUME NEW t \in Threads, RecordLoginFailure(t)
      PROVE  KeyCounted(k)'
  <2>1. CASE k \in {judging[t], Source}
    BY <1>0, <1>2, <2>1, FailureKeeps
  <2>2. CASE k \notin {judging[t], Source}
    <3>1. /\ tick' = tick /\ until'[k] = until[k] /\ bucket'[k] = bucket[k]
          /\ guesses'[k] = Pruned(guesses[k])
      BY <1>2, <2>2 DEF RecordLoginFailure
    <3>2. judging' = [judging EXCEPT ![t] = "none"]
      BY <1>2 DEF RecordLoginFailure
    <3>3. Judges(k)' \subseteq Judges(k)
      <4>1. judging \in [Threads -> Identifiers \cup {"none"}]
        BY <1>0 DEF LimiterTypeOK
      <4> QED
        BY <3>2, <4>1 DEF Judges
    <3> QED
      BY <1>0, <3>1, <3>3, UntouchedKeeps
  <2> QED
    BY <2>1, <2>2
<1>3. ASSUME NEW t \in Threads, RecordLoginSuccess(t)
      PROVE  KeyCounted(k)'
  <2>1. CASE k = judging[t]
    BY <1>0, <1>3, <2>1, SuccessKeeps
  <2>2. CASE k # judging[t]
    <3>1. tick' = tick /\ until'[k] = until[k] /\ bucket'[k] = bucket[k] /\ guesses'[k] = guesses[k]
      BY <1>0, <1>3, <2>2 DEF RecordLoginSuccess, LimiterTypeOK
    <3>2. judging' = [judging EXCEPT ![t] = "none"]
      BY <1>3 DEF RecordLoginSuccess
    <3>3. Judges(k)' \subseteq Judges(k)
      <4>1. judging \in [Threads -> Identifiers \cup {"none"}]
        BY <1>0 DEF LimiterTypeOK
      <4> QED
        BY <3>2, <4>1 DEF Judges
    <3> QED
      BY <1>0, <3>1, <3>3, UntouchedKeeps
  <2> QED
    BY <2>1, <2>2
<1>4. CASE Tick
  BY <1>0, <1>4, TickKeeps
<1>5. CASE UNCHANGED limiterVars
  <2>1. /\ tick' = tick /\ until' = until /\ bucket' = bucket /\ guesses' = guesses
        /\ judging' = judging
    BY <1>5 DEF limiterVars
  <2>2. Judges(k)' = Judges(k)
    BY <2>1 DEF Judges
  <2> QED
    BY <1>0, <2>1, <2>2, UntouchedKeeps
<1> QED
  BY <1>1, <1>2, <1>3, <1>4, <1>5 DEF LimiterNext

\* However requests interleave (check_login, the password check and the record of its
\* verdict are separate steps), and for any limits and any number of threads, the
\* wrong guesses judged within a window exceed the limit by at most two for every
\* other thread.
THEOREM GuessesStayBounded == LimiterSpec => []GuessesBounded
<1>1. LimiterInv => GuessesBounded
  <2> SUFFICES ASSUME LimiterInv, NEW k \in BucketKeys
               PROVE  Cardinality(Recent(k)) <= LimitOf(k) + 2 * Others
    BY DEF GuessesBounded, Recent, Others
  <2>1. LimiterTypeOK /\ FailuresCounted(k) /\ OpenKeyCounted(k) /\ BlockedKeyCounted(k)
    BY DEF LimiterInv, KeyCounted
  <2>2. /\ LimitOf(k) \in Nat \ {0} /\ Others \in Nat /\ Cardinality(Judges(k)) \in Nat
        /\ \A S \in SUBSET Recent(k) : IsFiniteSet(S) /\ Cardinality(S) \in Nat
        /\ Remembered(k) \subseteq Recent(k)
    BY <2>1, LimitsPositive, OthersNatural, JudgesFinite, CountsFinite
  <2>3. CASE until[k] = 0
    <3> DEFINE R == Recent(k)
               M == Remembered(k)
    <3>1. Cardinality(M) <= LimitOf(k) - 1 /\ Cardinality(R \ M) <= Others
      BY <2>1, <2>3 DEF OpenKeyCounted
    <3>2. IsFiniteSet(R) /\ R \cap M = M /\ R \ M \in SUBSET R /\ M \in SUBSET R
      BY <2>2
    <3>3. /\ Cardinality(R) \in Nat /\ Cardinality(M) \in Nat /\ Cardinality(R \ M) \in Nat
      BY <2>2, <3>2
    <3> HIDE DEF R, M
    <3>4. Cardinality(R \ M) = Cardinality(R) - Cardinality(M)
      <4>1. Cardinality(R \ M) = Cardinality(R) - Cardinality(R \cap M)
        BY <3>2, FS_Difference
      <4> QED
        BY <3>2, <4>1
    <3>5. Cardinality(R) <= LimitOf(k) + 2 * Others
      BY <2>2, <3>1, <3>3, <3>4
    <3> QED
      BY <3>5 DEF R
  <2>4. CASE until[k] # 0
    <3>1. Cardinality(Recent(k)) + Cardinality(Judges(k)) <= LimitOf(k) + 2 * Others
      BY <2>1, <2>4 DEF BlockedKeyCounted
    <3> QED
      BY <2>2, <3>1
  <2> QED
    BY <2>3, <2>4
<1> QED
  BY <1>1, LimiterStart, LimiterStep, PTL DEF LimiterSpec

=============================================================================
