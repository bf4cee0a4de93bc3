------------------------------ MODULE Accounts ------------------------------
(***************************************************************************)
(* Users, roles, browser sessions, personal API tokens and password resets *)
(* (modules/auth).  Every request is a database transaction that reads,    *)
(* computes (an Argon2 hash takes a tenth of a second) and commits; no row *)
(* is locked, so a request may commit between the reads and the commit of  *)
(* another.  The requests for which that matters take two steps.           *)
(***************************************************************************)
EXTENDS Naturals, FiniteSets

CONSTANTS
  Users,        \* user names
  MaxSessions,  \* bound: session rows
  MaxResets,    \* bound: password reset rows
  MaxServed,    \* bound: requests
  MaxEra        \* bound: password changes and deactivations of one user

ASSUME AccountsAssumption ==
  /\ IsFiniteSet(Users) /\ Users # {}
  /\ MaxSessions \in Nat /\ MaxResets \in Nat /\ MaxServed \in Nat /\ MaxEra \in Nat

VARIABLES
  account,  \* user rows: [exists, enabled, roles, era]
  custom,   \* the custom role: "absent", "plain" or with user.manage
  sess,     \* session rows: [user, live, era]
  straddled,     \* history: sessions committed while their account was changed
  pat,      \* the personal API token of a user and its scope
  reset,    \* password reset rows: [user, at], at = "free" for no row
  req,      \* requests between their reads and their commit
  miscounted,    \* history: two removals of an administrator overlapped
  served    \* requests so far

accountVars == <<account, custom, sess, straddled, pat, reset, req, miscounted, served>>

Requests == {1, 2}
SessionIds == 1..MaxSessions
ResetIds == 1..MaxResets

NoCall == [op |-> "none", user |-> CHOOSE u \in Users : TRUE, era |-> 0,
              seen |-> {}, during |-> {}, row |-> 0, overlap |-> FALSE]
NoSession == [user |-> CHOOSE u \in Users : TRUE, live |-> FALSE, era |-> 0]
NoReset == [user |-> CHOOSE u \in Users : TRUE, at |-> "free"]

\* The era of an account counts what must end its sessions: a new password,
\* a deactivation.
NoUser == [exists |-> FALSE, enabled |-> FALSE, roles |-> {}, era |-> 0]

AccountsInit ==
  /\ account = [u \in Users |-> NoUser] /\ custom = "absent"
  /\ sess = [s \in SessionIds |-> NoSession] /\ straddled = {}
  /\ pat = [u \in Users |-> "none"]
  /\ reset = [i \in ResetIds |-> NoReset]
  /\ req = [r \in Requests |-> NoCall] /\ miscounted = FALSE /\ served = 0

-----------------------------------------------------------------------------
(* Who may do what.                                                        *)

\* user_roles_and_permissions, for the one permission this module is about.
Manages(u) ==
  "Administrator" \in account[u].roles
    \/ ("Custom" \in account[u].roles /\ custom = "managing")

\* resolve_session: neither revoked nor expired, and the user is enabled.
Resolves(s) == sess[s].live /\ account[sess[s].user].enabled

Interactive(u) == \E s \in SessionIds : Resolves(s) /\ sess[s].user = u

\* resolve_api_token: the permissions of the owner, cut to the scope.
TokenManages(u) == account[u].enabled /\ Manages(u) /\ pat[u] = "managing"

\* require_permission("user.manage")
ActsAsManager == \E u \in Users : Manages(u) /\ (Interactive(u) \/ TokenManages(u))

-----------------------------------------------------------------------------
(* Sessions and requests.                                                  *)

SessionsOf(u) == {s \in SessionIds : sess[s].live /\ sess[s].user = u}

\* A row nothing refers to any more; the lowest is as good as any other.
FreeSession(s) ==
  /\ ~sess[s].live /\ \A r \in Requests : s \notin req[r].seen \cup req[r].during
  /\ \A t \in 1..(s - 1) : sess[t].live
       \/ \E r \in Requests : t \in req[r].seen \cup req[r].during

\* create_session.  Requests about the same account that are under way have
\* not seen the new row.
Opened(s, u, era) == [sess EXCEPT ![s] = [user |-> u, live |-> TRUE, era |-> era]]
Missed(rs, s, u) ==
  [r \in Requests |-> IF rs[r].op # "none" /\ rs[r].user = u
                      THEN [rs[r] EXCEPT !.during = @ \cup {s}] ELSE rs[r]]

\* "for user_session in active_sessions: user_session.revoked_at = now"
Revoked(ss, ids) == [s \in SessionIds |-> IF s \in ids THEN NoSession ELSE ss[s]]

Counted == served < MaxServed /\ served' = served + 1

Asked(r, op, u, seen) ==
  /\ Counted
  /\ req[r] = NoCall /\ \A q \in 1..(r - 1) : req[q] # NoCall
  /\ req' = [req EXCEPT ![r] = [NoCall EXCEPT
       !.op = op, !.user = u, !.era = account[u].era, !.seen = seen]]

Answered(r) == [req EXCEPT ![r] = NoCall]

\* The account changes in a way that ends its sessions.
NextEra(u) == account[u].era + 1
Closing(r) == (straddled \ req[r].seen) \cup req[r].during

-----------------------------------------------------------------------------
(* Setup, login, logout.                                                   *)

\* create_initial_administrator.  The claim is a row with a fixed primary
\* key: of two requests that both find setup required, one fails.
Setup(u) ==
  /\ \A v \in Users : ~account[v].exists
  /\ account' = [account EXCEPT ![u] = [exists |-> TRUE, enabled |-> TRUE,
                                        roles |-> {"Administrator"}, era |-> 0]]
  /\ Counted /\ UNCHANGED <<custom, sess, straddled, pat, reset, req, miscounted>>

\* authenticate: an enabled user and the password of the row read.
LoginVerify(r, u) ==
  /\ account[u].enabled
  /\ Asked(r, "login", u, {})
  /\ UNCHANGED <<account, custom, sess, straddled, pat, reset, miscounted>>

\* Nothing is read again.
LoginCommit(r, s) ==
  /\ req[r].op = "login" /\ FreeSession(s)
  /\ sess' = Opened(s, req[r].user, req[r].era)
  /\ straddled' = (IF req[r].era # account[req[r].user].era THEN straddled \cup {s} ELSE straddled \ {s})
  /\ req' = Missed(Answered(r), s, req[r].user)
  /\ UNCHANGED <<account, custom, pat, reset, miscounted, served>>

\* revoke_session (logout) asks for no enabled user; the expiry of a row
\* looks the same to resolve_session.
Logout(s) ==
  /\ sess[s].live
  /\ sess' = Revoked(sess, {s}) /\ straddled' = straddled \ {s}
  /\ UNCHANGED <<account, custom, pat, reset, req, miscounted, served>>

\* revoke_owned_session
RevokeOwned(s) ==
  /\ sess[s].live /\ Interactive(sess[s].user)
  /\ sess' = Revoked(sess, {s}) /\ straddled' = straddled \ {s}
  /\ Counted /\ UNCHANGED <<account, custom, pat, reset, req, miscounted>>

-----------------------------------------------------------------------------
(* Passwords.                                                              *)

\* change_password: the sessions to revoke are selected, then the new one is
\* created and all is committed.
ChangeVerify(r, u) ==
  /\ Interactive(u) /\ account[u].era < MaxEra
  /\ Asked(r, "change", u, SessionsOf(u))
  /\ UNCHANGED <<account, custom, sess, straddled, pat, reset, miscounted>>

ChangeCommit(r, s) ==
  LET u == req[r].user IN
  /\ req[r].op = "change" /\ FreeSession(s) /\ account[u].era < MaxEra
  /\ account' = [account EXCEPT ![u].era = NextEra(u)]
  /\ sess' = [Revoked(sess, req[r].seen) EXCEPT
                ![s] = [user |-> u, live |-> TRUE, era |-> NextEra(u)]]
  /\ straddled' = Closing(r) \ {s}
  /\ req' = Missed(Answered(r), s, u)
  /\ UNCHANGED <<custom, pat, reset, miscounted, served>>

\* _create_reset: older rows of the user count as used.
FreeReset(i) == reset[i].at = "free" /\ \A j \in 1..(i - 1) : reset[j].at # "free"
Superseded(u) ==
  [i \in ResetIds |-> IF reset[i].user = u /\ reset[i].at # "free"
                      THEN [reset[i] EXCEPT !.at = "used"] ELSE reset[i]]

\* issue: the token is known to nobody before the mail is sent.
RequestReset(u, i) ==
  /\ account[u].enabled /\ FreeReset(i)
  /\ reset' = [Superseded(u) EXCEPT ![i] = [user |-> u, at |-> "queued"]]
  /\ Counted /\ UNCHANGED <<account, custom, sess, straddled, pat, req, miscounted>>

\* issue_admin hands it to the administrator.
IssueReset(u, i) ==
  /\ ActsAsManager /\ account[u].enabled /\ FreeReset(i)
  /\ reset' = [Superseded(u) EXCEPT ![i] = [user |-> u, at |-> "known"]]
  /\ Counted /\ UNCHANGED <<account, custom, sess, straddled, pat, req, miscounted>>

\* delivery_mail in the notification worker.  A row that was superseded or
\* has expired, or a user disabled meanwhile, ends the delivery.
DeliverMail(i) ==
  /\ reset[i].at = "queued"
  /\ reset' = [reset EXCEPT ![i].at =
       IF account[reset[i].user].enabled THEN "known" ELSE "used"]
  /\ UNCHANGED <<account, custom, sess, straddled, pat, req, miscounted, served>>

ResetExpires(i) ==
  /\ reset[i].at \in {"queued", "known"}
  /\ reset' = [reset EXCEPT ![i].at = "used"]
  /\ UNCHANGED <<account, custom, sess, straddled, pat, req, miscounted, served>>

\* consume: the row is read, the password hashed, the sessions selected.
CompleteVerify(r, i) ==
  LET u == reset[i].user IN
  /\ reset[i].at = "known" /\ account[u].enabled /\ account[u].era < MaxEra
  /\ Asked(r, "complete", u, SessionsOf(u))
  /\ UNCHANGED <<account, custom, sess, straddled, pat, reset, miscounted>>

CompleteCommit(r) ==
  LET u == req[r].user IN
  /\ req[r].op = "complete" /\ account[u].era < MaxEra
  /\ account' = [account EXCEPT ![u].era = NextEra(u)]
  /\ sess' = Revoked(sess, req[r].seen) /\ straddled' = Closing(r)
  /\ reset' = Superseded(u) /\ req' = Answered(r)
  /\ UNCHANGED <<custom, pat, miscounted, served>>

\* app.cli reset-password, on the host: it also enables the user.
CliReset(u) ==
  /\ account[u].exists /\ account[u].era < MaxEra
  /\ account' = [account EXCEPT ![u].era = NextEra(u), ![u].enabled = TRUE]
  /\ sess' = Revoked(sess, SessionsOf(u)) /\ straddled' = straddled \ SessionsOf(u)
  /\ Counted /\ UNCHANGED <<custom, pat, reset, req, miscounted>>

-----------------------------------------------------------------------------
(* Administration of users and roles.                                      *)

Administrators == {u \in Users : account[u].enabled
                                   /\ "Administrator" \in account[u].roles}

\* Fault: the count forgets that disabled users are no administrators.
GuardCountsAll(u) ==
  u \in Administrators =>
    Cardinality({v \in Users : "Administrator" \in account[v].roles}) > 1

\* _guard_last_administrator: _enabled_admin_count <= 1 is refused.
GuardLastAdministrator(u) ==
  u \in Administrators => Cardinality(Administrators) > 1

CreateUser(u, roles) ==
  /\ ActsAsManager /\ ~account[u].exists
  /\ "Custom" \in roles => custom # "absent"
  /\ account' = [account EXCEPT ![u] = [exists |-> TRUE, enabled |-> TRUE,
                                        roles |-> roles, era |-> 0]]
  /\ Counted /\ UNCHANGED <<custom, sess, straddled, pat, reset, req, miscounted>>

DisableVerify(r, u) ==
  /\ ActsAsManager /\ account[u].enabled /\ account[u].era < MaxEra
  /\ GuardLastAdministrator(u)
  /\ Asked(r, "disable", u, SessionsOf(u))
  /\ UNCHANGED <<account, custom, sess, straddled, pat, reset, miscounted>>

\* Another removal that is under way has counted this administrator.
Removal(rs, r, u) ==
  [q \in Requests |-> IF q # r /\ rs[q].op \in {"disable", "demote"}
                           /\ u \in Administrators
                      THEN [rs[q] EXCEPT !.overlap = TRUE] ELSE rs[q]]

\* Fault: disabling leaves the sessions as they are.
DisableKeepsSessions(r) ==
  LET u == req[r].user IN
  /\ req[r].op = "disable" /\ account[u].era < MaxEra
  /\ account' = [account EXCEPT ![u].enabled = FALSE, ![u].era = NextEra(u)]
  /\ straddled' = Closing(r)
  /\ miscounted' = (miscounted \/ req[r].overlap)
  /\ req' = Removal(Answered(r), r, u)
  /\ UNCHANGED <<custom, sess, pat, reset, served>>

DisableCommit(r) ==
  LET u == req[r].user IN
  /\ req[r].op = "disable" /\ account[u].era < MaxEra
  /\ account' = [account EXCEPT ![u].enabled = FALSE, ![u].era = NextEra(u)]
  /\ sess' = Revoked(sess, req[r].seen) /\ straddled' = Closing(r)
  /\ miscounted' = (miscounted \/ req[r].overlap)
  /\ req' = Removal(Answered(r), r, u)
  /\ UNCHANGED <<custom, pat, reset, served>>

EnableUser(u) ==
  /\ ActsAsManager /\ account[u].exists /\ ~account[u].enabled
  /\ account' = [account EXCEPT ![u].enabled = TRUE]
  /\ Counted /\ UNCHANGED <<custom, sess, straddled, pat, reset, req, miscounted>>

\* update_user with role_ids.  Taking the Administrator role away is guarded.
DemoteVerify(r, u) ==
  /\ ActsAsManager /\ "Administrator" \in account[u].roles
  /\ GuardLastAdministrator(u)
  /\ Asked(r, "demote", u, {})
  /\ UNCHANGED <<account, custom, sess, straddled, pat, reset, miscounted>>

DemoteCommit(r) ==
  LET u == req[r].user IN
  /\ req[r].op = "demote"
  /\ account' = [account EXCEPT ![u].roles = @ \ {"Administrator"}]
  /\ miscounted' = (miscounted \/ req[r].overlap)
  /\ req' = Removal(Answered(r), r, u)
  /\ UNCHANGED <<custom, sess, straddled, pat, reset, served>>

GrantRole(u, role) ==
  /\ ActsAsManager /\ account[u].exists /\ role \notin account[u].roles
  /\ role = "Custom" => custom # "absent"
  /\ account' = [account EXCEPT ![u].roles = @ \cup {role}]
  /\ Counted /\ UNCHANGED <<custom, sess, straddled, pat, reset, req, miscounted>>

CreateRole(kind) ==
  /\ ActsAsManager /\ custom = "absent" /\ custom' = kind
  /\ Counted /\ UNCHANGED <<account, sess, straddled, pat, reset, req, miscounted>>

\* Built-in roles are immutable.
UpdateRole(kind) ==
  /\ ActsAsManager /\ custom \notin {"absent", kind} /\ custom' = kind
  /\ Counted /\ UNCHANGED <<account, sess, straddled, pat, reset, req, miscounted>>

-----------------------------------------------------------------------------
(* Personal API tokens: made in a browser session, never revoked by a new  *)
(* password.                                                               *)

CreateToken(u, scope) ==
  /\ Interactive(u) /\ pat[u] = "none"
  /\ scope = "managing" => Manages(u)
  /\ pat' = [pat EXCEPT ![u] = scope]
  /\ Counted /\ UNCHANGED <<account, custom, sess, straddled, reset, req, miscounted>>

RevokeToken(u) ==
  /\ Interactive(u) /\ pat[u] # "none"
  /\ pat' = [pat EXCEPT ![u] = "none"]
  /\ Counted /\ UNCHANGED <<account, custom, sess, straddled, reset, req, miscounted>>

AccountsNext ==
  \/ \E u \in Users : \/ Setup(u) \/ CliReset(u) \/ EnableUser(u) \/ RevokeToken(u)
                      \/ \E i \in ResetIds : RequestReset(u, i) \/ IssueReset(u, i)
                      \/ \E roles \in SUBSET {"Administrator", "Custom"} : CreateUser(u, roles)
                      \/ \E role \in {"Administrator", "Custom"} : GrantRole(u, role)
                      \/ \E scope \in {"plain", "managing"} : CreateToken(u, scope)
  \/ \E s \in SessionIds : Logout(s) \/ RevokeOwned(s)
  \/ \E i \in ResetIds : DeliverMail(i) \/ ResetExpires(i)
  \/ \E kind \in {"plain", "managing"} : CreateRole(kind) \/ UpdateRole(kind)
  \/ \E r \in Requests :
       \/ \E u \in Users : \/ LoginVerify(r, u) \/ ChangeVerify(r, u)
                           \/ DisableVerify(r, u) \/ DemoteVerify(r, u)
       \/ \E i \in ResetIds : CompleteVerify(r, i)
       \/ \E s \in SessionIds : LoginCommit(r, s) \/ ChangeCommit(r, s)
       \/ CompleteCommit(r) \/ DisableCommit(r) \/ DemoteCommit(r)

AccountsSpec == AccountsInit /\ [][AccountsNext]_accountVars

-----------------------------------------------------------------------------
(* Once set up, the system has an enabled administrator, whatever is       *)
(* disabled, demoted, renamed or reset, in whatever order.  The exception: *)
(* two removals that both counted before either committed.                 *)
AdministratorRemains ==
  (\E u \in Users : account[u].exists) => miscounted \/ Administrators # {}

(* "Disabling a user or resetting/changing a password revokes prior        *)
(* sessions by default" (docs/specs/0011): a session that resolves was     *)
(* opened with the password that is valid now and since the last           *)
(* deactivation.  The exception: a session committed while the request     *)
(* that changed the account was between its reads and its commit.          *)
SessionsFollowAccount ==
  \A s \in SessionIds : Resolves(s) => s \in straddled \/ sess[s].era = account[sess[s].user].era

=============================================================================
