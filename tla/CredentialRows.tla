--------------------------- MODULE CredentialRows ---------------------------
(***************************************************************************)
(* Settings that own a secret: Apprise and SMTP notification targets       *)
(* (notifications/service.py), rclone archive targets (storage/service.py) *)
(* and the Frigate provider (system/frigate.py).  The row holds a          *)
(* reference; the secret store (core/secret_store.py) holds the value.     *)
(* Replacing a secret creates a new one, points the row to it and deletes  *)
(* the one the request had read.                                           *)
(*                                                                         *)
(* A request reads its row, may talk to the remote service to validate the *)
(* new credentials, and then writes in one transaction.  Other requests    *)
(* may commit in between.                                                  *)
(***************************************************************************)
EXTENDS Naturals, FiniteSets

CONSTANTS MaxSecrets,   \* bound: secrets created
          MaxEdit       \* bound: requests

ASSUME SecretsAssumption == MaxSecrets \in Nat

VARIABLES
  owner,     \* rows: [exists, ref], ref = 0: no credentials
  store,     \* ids of the secrets stored
  created,   \* secrets created so far
  editing,   \* requests that have read their row, by slot
  asked,
  security,  \* the SMTP target is the security email target
  notifies,  \* an alert policy names the Apprise target
  raced      \* history: owners two requests changed at the same time

credentialVars == <<owner, store, created, editing, asked, security, notifies, raced>>

Owners == {"apprise", "smtp", "rclone", "frigate"}
Editors == {1, 2}
NoEdit == [op |-> "none", of |-> "none", ref |-> 0]
NoOwner == [exists |-> FALSE, ref |-> 0]

CredentialsInit ==
  /\ owner = [o \in Owners |-> NoOwner] /\ store = {} /\ created = 0
  /\ editing = [e \in Editors |-> NoEdit] /\ asked = 0
  /\ security = FALSE /\ notifies = FALSE /\ raced = {}

\* Rows are told apart by the requests that are about to change them.
Contended(e, o) == \E f \in Editors \ {e} : editing[f].of = o

Done(e) == editing' = [editing EXCEPT ![e] = NoEdit]

-----------------------------------------------------------------------------
(* The secret store.                                                       *)

CreateSecret == created < MaxSecrets /\ created' = created + 1
FreshId == created + 1

\* Deleting a secret that is gone already is not an error to the callers.
DeleteSecret(s, id) == s \ {id}

-----------------------------------------------------------------------------
(* Creation: the secret first, then the row that refers to it.             *)

Insert(o, withCredentials) ==
  /\ asked < MaxEdit /\ asked' = asked + 1 /\ ~owner[o].exists
  /\ IF withCredentials
     THEN /\ CreateSecret /\ store' = store \cup {FreshId}
          /\ owner' = [owner EXCEPT ![o] = [exists |-> TRUE, ref |-> FreshId]]
     ELSE /\ owner' = [owner EXCEPT ![o] = [exists |-> TRUE, ref |-> 0]]
          /\ UNCHANGED <<store, created>>
  /\ UNCHANGED <<editing, security, notifies, raced>>

CreateApprise == Insert("apprise", TRUE)
CreateSmtp(with) == Insert("smtp", with)
CreateRclone == Insert("rclone", TRUE)
FirstPutFrigate(with) == Insert("frigate", with)

-----------------------------------------------------------------------------
(* Change: the row is read, then written.                                  *)

ReadRow(e, o, op) ==
  /\ asked < MaxEdit /\ asked' = asked + 1
  /\ editing[e] = NoEdit /\ \A f \in Editors : f < e => editing[f] # NoEdit
  /\ owner[o].exists
  /\ op = "delete" => o # "frigate"
  /\ editing' = [editing EXCEPT ![e] = [op |-> op, of |-> o, ref |-> owner[o].ref]]
  /\ UNCHANGED <<owner, store, created, security, notifies, raced>>

\* New rclone or Frigate credentials are tried first, and may be refused.
ValidationFails(e) ==
  /\ editing[e].op = "replace" /\ editing[e].of \in {"rclone", "frigate"}
  /\ Done(e) /\ UNCHANGED <<owner, store, created, asked, security, notifies, raced>>

NoteRace(e, o) == raced' = IF Contended(e, o) THEN raced \cup {o} ELSE raced

\* Fault: the replaced secret is left behind.
ReplaceKeeping(e, o) ==
  /\ editing[e].op = "replace" /\ editing[e].of = o
  /\ owner[o].exists /\ CreateSecret
  /\ owner' = [owner EXCEPT ![o].ref = FreshId]
  /\ store' = store \cup {FreshId}

\* The new secret, the new reference, and the old secret as it was read.
ReplaceSecret(e, o) ==
  /\ editing[e].op = "replace" /\ editing[e].of = o
  /\ owner[o].exists /\ CreateSecret
  /\ owner' = [owner EXCEPT ![o].ref = FreshId]
  /\ store' = DeleteSecret(store, editing[e].ref) \cup {FreshId}

ClearSecret(e, o) ==
  /\ editing[e].op = "clear" /\ editing[e].of = o
  /\ owner[o].exists /\ UNCHANGED created
  /\ owner' = [owner EXCEPT ![o].ref = 0]
  /\ store' = DeleteSecret(store, editing[e].ref)

\* The other columns are written, the reference is not touched; the Frigate
\* row is one value, which is written with the reference that was read and
\* read back: a reference that does not resolve rolls everything back.
KeepSecret(e, o) ==
  /\ editing[e].op = "keep" /\ editing[e].of = o
  /\ owner[o].exists /\ UNCHANGED <<store, created>>
  /\ IF o = "frigate"
     THEN /\ editing[e].ref \in store \cup {0}
          /\ owner' = [owner EXCEPT ![o].ref = editing[e].ref]
     ELSE UNCHANGED owner

\* A target a policy notifies, or with deliveries, is not deleted; the
\* security email setting lets go of a target that is.
DeleteRow(e, o) ==
  /\ editing[e].op = "delete" /\ editing[e].of = o
  /\ owner[o].exists /\ UNCHANGED created
  /\ o = "apprise" => ~notifies
  /\ owner' = [owner EXCEPT ![o] = NoOwner]
  /\ store' = DeleteSecret(store, editing[e].ref)

Change(e, o) == ReplaceSecret(e, o) \/ ClearSecret(e, o) \/ KeepSecret(e, o) \/ DeleteRow(e, o)

Commit(e) ==
  \E o \in Owners :
    /\ Change(e, o) /\ NoteRace(e, o) /\ Done(e)
    /\ security' = (security /\ ~(o = "smtp" /\ ~owner'[o].exists))
    /\ UNCHANGED <<asked, notifies>>

\* The row is gone, or in use, or its reference is: the request is refused.
Refused(e) ==
  LET r == editing[e] IN
  /\ r.op # "none"
  /\ \/ ~owner[r.of].exists
     \/ r.op = "delete" /\ r.of = "apprise" /\ notifies
     \/ r.op = "keep" /\ r.of = "frigate" /\ r.ref \notin store \cup {0}
  /\ Done(e) /\ UNCHANGED <<owner, store, created, asked, security, notifies, raced>>

-----------------------------------------------------------------------------
(* Settings that name a target.                                            *)

SetSecurityEmailTarget(on) ==
  /\ asked < MaxEdit /\ asked' = asked + 1 /\ security # on
  /\ on => owner["smtp"].exists
  /\ security' = on /\ UNCHANGED <<owner, store, created, editing, notifies, raced>>

SaveAlertPolicy(on) ==
  /\ asked < MaxEdit /\ asked' = asked + 1 /\ notifies # on
  /\ on => owner["apprise"].exists
  /\ notifies' = on /\ UNCHANGED <<owner, store, created, editing, security, raced>>

CredentialsNext ==
  \/ CreateApprise \/ CreateRclone
  \/ \E with \in BOOLEAN : CreateSmtp(with) \/ FirstPutFrigate(with)
  \/ \E e \in Editors :
       \/ \E o \in Owners, op \in {"replace", "clear", "keep", "delete"} : ReadRow(e, o, op)
       \/ ValidationFails(e) \/ Commit(e) \/ Refused(e)
  \/ \E on \in BOOLEAN : SetSecurityEmailTarget(on) \/ SaveAlertPolicy(on)

CredentialsSpec == CredentialsInit /\ [][CredentialsNext]_credentialVars

-----------------------------------------------------------------------------
(* References and secrets belong together, however requests interleave:     *)
(* every reference resolves, and a secret nobody refers to can only be left *)
(* by two requests that changed the same row at the same time (create, then *)
(* refer, then delete; Frigate's read-back).  A setting that names a target *)
(* names one that exists.                                                   *)
ReferencesResolve ==
  /\ \A o \in Owners : owner[o].ref # 0 => owner[o].ref \in store
  /\ raced = {} => store = {owner[o].ref : o \in Owners} \ {0}
  /\ security => owner["smtp"].exists
  /\ notifies => owner["apprise"].exists
=============================================================================
