--------------------------- MODULE SettingsProofs ---------------------------
(***************************************************************************)
(* What is proved of the settings: the secrets of credential rows, the      *)
(* routing of recorders to storage targets, and the configuration of a      *)
(* camera with the proxies that play it.  Each part gives an inductive      *)
(* invariant, shows that it holds initially and that every action keeps it, *)
(* and concludes.                                                           *)
(***************************************************************************)
EXTENDS CredentialRows, StorageTargets, CameraConfig, FiniteSetTheorems, TLAPS

-----------------------------------------------------------------------------
(* Credential rows.                                                        *)

CredentialsTypeOK ==
  /\ created \in Nat
  /\ owner \in [Owners -> [exists : BOOLEAN, ref : Nat]]
  /\ store \subseteq Nat
  /\ editing \in [Editors -> [op : {"none", "replace", "clear", "keep", "delete"},
                              of : Owners \union {"none"}, ref : Nat]]
  /\ security \in BOOLEAN /\ notifies \in BOOLEAN /\ raced \subseteq Owners

\* Every reference was created.
RefsCreated ==
  /\ \A o \in Owners : owner[o].ref <= created
  /\ \A e \in Editors : editing[e].ref <= created
  /\ \A i \in store : i # 0 /\ i <= created

\* A row that is gone refers to nothing, and no secret belongs to two rows: neither
\* by their references nor by those that requests about them have read.
RefsApart ==
  /\ \A o \in Owners : ~owner[o].exists => owner[o].ref = 0
  /\ \A o, p \in Owners : o # p /\ owner[o].ref # 0 => owner[o].ref # owner[p].ref
  /\ \A e \in Editors : /\ editing[e].op = "none" <=> editing[e].of = "none"
                        /\ editing[e].op = "none" => editing[e].ref = 0
  /\ \A e \in Editors, p \in Owners :
       editing[e].ref # 0 /\ editing[e].of # p => editing[e].ref # owner[p].ref
  /\ \A e, f \in Editors :
       editing[e].ref # 0 /\ editing[e].of # editing[f].of => editing[e].ref # editing[f].ref

\* As long as no row was changed by two requests at the same time, what a request
\* has read of its row is what the row holds.
ReadsCurrent ==
  raced = {} => \A e \in Editors : editing[e].op # "none" =>
                  /\ owner[editing[e].of].exists
                  /\ editing[e].ref = owner[editing[e].of].ref

\* The parts of ReferencesResolve.
RefsStored == \A o \in Owners : owner[o].ref # 0 => owner[o].ref \in store
NoneLeft == raced = {} => \A i \in store : \E o \in Owners : owner[o].ref = i
NamedExist == (security => owner["smtp"].exists) /\ (notifies => owner["apprise"].exists)

CredentialsInv ==
  /\ CredentialsTypeOK /\ RefsCreated /\ RefsApart /\ ReadsCurrent
  /\ RefsStored /\ NoneLeft /\ NamedExist

LEMMA CredentialsInvResolve == CredentialsInv => ReferencesResolve
BY DEF CredentialsInv, RefsCreated, RefsStored, NoneLeft, NamedExist, ReferencesResolve

LEMMA CredentialsStart == CredentialsInit => CredentialsInv
<1> SUFFICES ASSUME CredentialsInit PROVE CredentialsInv
  OBVIOUS
<1> USE DEF CredentialsInit, NoOwner, NoEdit
<1>1. CredentialsTypeOK
  BY DEF CredentialsTypeOK
<1>2. RefsCreated /\ RefsStored /\ NoneLeft /\ NamedExist /\ ReadsCurrent
  BY DEF RefsCreated, RefsStored, NoneLeft, NamedExist, ReadsCurrent
<1>3. RefsApart
  BY DEF RefsApart
<1> QED
  BY <1>1, <1>2, <1>3 DEF CredentialsInv

\* A new row with or without a new secret.
LEMMA InsertedKeeps ==
  ASSUME CredentialsInv, NEW o \in Owners, NEW r \in Nat, ~owner[o].exists,
         \/ r = 0 /\ created' = created /\ store' = store
         \/ r = created + 1 /\ created' = created + 1 /\ store' = store \cup {r},
         owner' = [owner EXCEPT ![o] = [exists |-> TRUE, ref |-> r]],
         UNCHANGED <<editing, security, notifies, raced>>
  PROVE  CredentialsInv'
<1> USE DEF CredentialsInv
<1>1. CredentialsTypeOK'
  BY DEF CredentialsTypeOK
<1>8. owner'[o].ref = r /\ \A p \in Owners \ {o} : owner'[p].ref = owner[p].ref
  BY DEF CredentialsTypeOK
<1>9. created' \in Nat /\ created <= created' /\ r <= created'
  BY DEF CredentialsTypeOK
<1>10. store \subseteq store' /\ \A i \in store' : i \in store \/ (i = r /\ r # 0)
  BY DEF CredentialsTypeOK
<1>2. RefsCreated'
  <2>1. \A p \in Owners : owner'[p].ref <= created'
    BY <1>8, <1>9 DEF CredentialsTypeOK, RefsCreated
  <2>2. \A e \in Editors : editing'[e].ref <= created'
    BY <1>9 DEF CredentialsTypeOK, RefsCreated
  <2>3. \A i \in store' : i # 0 /\ i <= created'
    BY <1>9, <1>10 DEF CredentialsTypeOK, RefsCreated
  <2> QED
    BY <2>1, <2>2, <2>3 DEF RefsCreated
<1>3. RefsApart'
  BY DEF CredentialsTypeOK, RefsCreated, RefsApart
<1>4. ReadsCurrent'
  BY DEF CredentialsTypeOK, RefsApart, ReadsCurrent
<1>5. RefsStored'
  BY DEF CredentialsTypeOK, RefsCreated, RefsApart, RefsStored
<1>6. NoneLeft'
  BY <1>8, <1>10 DEF CredentialsTypeOK, RefsApart, RefsCreated, NoneLeft
<1>7. NamedExist'
  BY DEF CredentialsTypeOK, RefsApart, NamedExist, Owners
<1> QED
  BY <1>1, <1>2, <1>3, <1>4, <1>5, <1>6, <1>7

LEMMA InsertKeeps ==
  ASSUME CredentialsInv, NEW o \in Owners, NEW with \in BOOLEAN, Insert(o, with)
  PROVE  CredentialsInv'
<1> created \in Nat
  BY DEF CredentialsInv, CredentialsTypeOK
<1>1. CASE with
  BY <1>1, InsertedKeeps DEF Insert, CreateSecret, FreshId
<1>2. CASE ~with
  BY <1>2, InsertedKeeps DEF Insert
<1> QED
  BY <1>1, <1>2

LEMMA ReadRowKeeps ==
  ASSUME CredentialsInv, NEW e \in Editors, NEW o \in Owners,
         NEW op \in {"replace", "clear", "keep", "delete"}, ReadRow(e, o, op)
  PROVE  CredentialsInv'
<1> USE DEF CredentialsInv, ReadRow
<1>1. CredentialsTypeOK'
  BY DEF CredentialsTypeOK
<1>2. RefsCreated'
  BY DEF CredentialsTypeOK, RefsCreated
<1>3. RefsApart'
  BY DEF CredentialsTypeOK, RefsCreated, RefsApart, Owners
<1>4. ReadsCurrent'
  BY DEF CredentialsTypeOK, RefsApart, ReadsCurrent
<1>5. RefsStored'
  BY DEF CredentialsTypeOK, RefsCreated, RefsApart, RefsStored
<1>6. NoneLeft'
  BY DEF CredentialsTypeOK, RefsApart, ReadsCurrent, RefsStored, NoneLeft
<1>7. NamedExist'
  BY DEF CredentialsTypeOK, RefsApart, NamedExist, Owners
<1> QED
  BY <1>1, <1>2, <1>3, <1>4, <1>5, <1>6, <1>7 DEF CredentialsInv

LEMMA DoneKeeps ==
  ASSUME CredentialsInv, NEW e \in Editors, Done(e),
         UNCHANGED <<owner, store, created, asked, security, notifies, raced>>
  PROVE  CredentialsInv'
<1> USE DEF CredentialsInv, Done, NoEdit
<1>1. CredentialsTypeOK'
  BY DEF CredentialsTypeOK
<1>2. RefsCreated'
  BY DEF CredentialsTypeOK, RefsCreated
<1>3. RefsApart'
  BY DEF CredentialsTypeOK, RefsCreated, RefsApart
<1>4. ReadsCurrent'
  BY DEF CredentialsTypeOK, RefsApart, ReadsCurrent
<1>5. RefsStored'
  BY DEF CredentialsTypeOK, RefsCreated, RefsApart, RefsStored
<1>6. NoneLeft'
  BY DEF CredentialsTypeOK, RefsApart, ReadsCurrent, RefsStored, NoneLeft
<1>7. NamedExist'
  BY DEF CredentialsTypeOK, RefsApart, NamedExist, Owners
<1> QED
  BY <1>1, <1>2, <1>3, <1>4, <1>5, <1>6, <1>7 DEF CredentialsInv

LEMMA CommitKeeps ==
  ASSUME CredentialsInv, NEW e \in Editors, NEW o \in Owners,
         Change(e, o), NoteRace(e, o), Done(e),
         security' = (security /\ ~(o = "smtp" /\ ~owner'[o].exists)),
         UNCHANGED <<asked, notifies>>
  PROVE  CredentialsInv'
<1> USE DEF CredentialsInv, NoteRace, Done, Contended, DeleteSecret, CreateSecret, FreshId,
            NoEdit, NoOwner
<1>1. CASE ReplaceSecret(e, o)
  <2>1. CredentialsTypeOK'
    BY <1>1 DEF CredentialsTypeOK, ReplaceSecret
  <2>2. RefsCreated'
    BY <1>1 DEF CredentialsTypeOK, RefsCreated, ReplaceSecret
  <2>3. RefsApart'
    BY <1>1 DEF CredentialsTypeOK, RefsCreated, RefsApart, ReplaceSecret
  <2>4. ReadsCurrent'
    BY <1>1 DEF CredentialsTypeOK, RefsApart, ReadsCurrent, ReplaceSecret
  <2>5. RefsStored'
    BY <1>1 DEF CredentialsTypeOK, RefsCreated, RefsApart, RefsStored, ReplaceSecret
  <2>6. NoneLeft'
    BY <1>1 DEF CredentialsTypeOK, RefsApart, ReadsCurrent, RefsStored, NoneLeft, ReplaceSecret
  <2>7. NamedExist'
    BY <1>1 DEF CredentialsTypeOK, RefsApart, NamedExist, Owners, ReplaceSecret
  <2> QED
    BY <2>1, <2>2, <2>3, <2>4, <2>5, <2>6, <2>7 DEF CredentialsInv
<1>2. CASE ClearSecret(e, o)
  <2>1. CredentialsTypeOK'
    BY <1>2 DEF CredentialsTypeOK, ClearSecret
  <2>2. RefsCreated'
    BY <1>2 DEF CredentialsTypeOK, RefsCreated, ClearSecret
  <2>3. RefsApart'
    BY <1>2 DEF CredentialsTypeOK, RefsCreated, RefsApart, ClearSecret
  <2>4. ReadsCurrent'
    BY <1>2 DEF CredentialsTypeOK, RefsApart, ReadsCurrent, ClearSecret
  <2>5. RefsStored'
    BY <1>2 DEF CredentialsTypeOK, RefsCreated, RefsApart, RefsStored, ClearSecret
  <2>6. NoneLeft'
    BY <1>2 DEF CredentialsTypeOK, RefsApart, ReadsCurrent, RefsStored, NoneLeft, ClearSecret
  <2>7. NamedExist'
    BY <1>2 DEF CredentialsTypeOK, RefsApart, NamedExist, Owners, ClearSecret
  <2> QED
    BY <2>1, <2>2, <2>3, <2>4, <2>5, <2>6, <2>7 DEF CredentialsInv
<1>3. CASE KeepSecret(e, o) /\ o = "frigate"
  <2>1. CredentialsTypeOK'
    BY <1>3 DEF CredentialsTypeOK, KeepSecret
  <2>2. RefsCreated'
    BY <1>3 DEF CredentialsTypeOK, RefsCreated, KeepSecret
  <2>8. owner'[o].ref = editing[e].ref /\ \A p \in Owners \ {o} : owner'[p].ref = owner[p].ref
    BY <1>3 DEF CredentialsTypeOK, KeepSecret
  <2>9. /\ editing[e].of = o /\ editing'[e] = NoEdit
        /\ \A f \in Editors \ {e} : editing'[f] = editing[f]
        /\ \A p \in Owners : owner'[p].exists = owner[p].exists
    BY <1>3 DEF CredentialsTypeOK, KeepSecret
  <2>3. RefsApart'
    BY <2>8, <2>9, <1>3 DEF RefsApart, KeepSecret, CredentialsTypeOK
  <2>4. ReadsCurrent'
    BY <1>3 DEF CredentialsTypeOK, RefsApart, ReadsCurrent, KeepSecret
  <2>5. RefsStored'
    BY <1>3 DEF CredentialsTypeOK, RefsCreated, RefsApart, RefsStored, KeepSecret
  <2>6. NoneLeft'
    BY <1>3 DEF CredentialsTypeOK, RefsApart, ReadsCurrent, RefsStored, NoneLeft, KeepSecret
  <2>7. NamedExist'
    BY <1>3 DEF CredentialsTypeOK, RefsApart, NamedExist, Owners, KeepSecret
  <2> QED
    BY <2>1, <2>2, <2>3, <2>4, <2>5, <2>6, <2>7 DEF CredentialsInv
<1>4. CASE KeepSecret(e, o) /\ o # "frigate"
  <2>1. CredentialsTypeOK'
    BY <1>4 DEF CredentialsTypeOK, KeepSecret
  <2>2. RefsCreated'
    BY <1>4 DEF CredentialsTypeOK, RefsCreated, KeepSecret
  <2>3. RefsApart'
    BY <1>4 DEF CredentialsTypeOK, RefsCreated, RefsApart, KeepSecret
  <2>4. ReadsCurrent'
    BY <1>4 DEF CredentialsTypeOK, RefsApart, ReadsCurrent, KeepSecret
  <2>5. RefsStored'
    BY <1>4 DEF CredentialsTypeOK, RefsCreated, RefsApart, RefsStored, KeepSecret
  <2>6. NoneLeft'
    BY <1>4 DEF CredentialsTypeOK, RefsApart, ReadsCurrent, RefsStored, NoneLeft, KeepSecret
  <2>7. NamedExist'
    BY <1>4 DEF CredentialsTypeOK, RefsApart, NamedExist, Owners, KeepSecret
  <2> QED
    BY <2>1, <2>2, <2>3, <2>4, <2>5, <2>6, <2>7 DEF CredentialsInv
<1>5. CASE DeleteRow(e, o)
  <2>1. CredentialsTypeOK'
    BY <1>5 DEF CredentialsTypeOK, DeleteRow
  <2>2. RefsCreated'
    BY <1>5 DEF CredentialsTypeOK, RefsCreated, DeleteRow
  <2>3. RefsApart'
    BY <1>5 DEF CredentialsTypeOK, RefsCreated, RefsApart, DeleteRow
  <2>4. ReadsCurrent'
    BY <1>5 DEF CredentialsTypeOK, RefsApart, ReadsCurrent, DeleteRow
  <2>5. RefsStored'
    BY <1>5 DEF CredentialsTypeOK, RefsCreated, RefsApart, RefsStored, DeleteRow
  <2>6. NoneLeft'
    BY <1>5 DEF CredentialsTypeOK, RefsApart, ReadsCurrent, RefsStored, NoneLeft, DeleteRow
  <2>7. NamedExist'
    BY <1>5 DEF CredentialsTypeOK, RefsApart, NamedExist, Owners, DeleteRow
  <2> QED
    BY <2>1, <2>2, <2>3, <2>4, <2>5, <2>6, <2>7 DEF CredentialsInv
<1> QED
  BY <1>1, <1>2, <1>3, <1>4, <1>5 DEF Change

LEMMA CredentialsStep == CredentialsInv /\ [CredentialsNext]_credentialVars => CredentialsInv'
<1> SUFFICES ASSUME CredentialsInv, [CredentialsNext]_credentialVars PROVE CredentialsInv'
  OBVIOUS
<1>1. CASE UNCHANGED credentialVars
  BY <1>1 DEF credentialVars, CredentialsInv, CredentialsTypeOK, RefsCreated, RefsApart,
     ReadsCurrent, RefsStored, NoneLeft, NamedExist
<1>2. CASE CreateApprise \/ CreateRclone \/ \E with \in BOOLEAN : CreateSmtp(with) \/ FirstPutFrigate(with)
  BY <1>2, InsertKeeps DEF CreateApprise, CreateRclone, CreateSmtp, FirstPutFrigate, Owners
<1>3. ASSUME NEW e \in Editors, ValidationFails(e) \/ Refused(e) PROVE CredentialsInv'
  BY <1>3, DoneKeeps DEF ValidationFails, Refused
<1>4. ASSUME NEW e \in Editors, Commit(e) PROVE CredentialsInv'
  BY <1>4, CommitKeeps DEF Commit
<1>5. ASSUME NEW on \in BOOLEAN, SetSecurityEmailTarget(on) PROVE CredentialsInv'
  BY <1>5 DEF SetSecurityEmailTarget, CredentialsInv, CredentialsTypeOK, RefsCreated, RefsApart,
     ReadsCurrent, RefsStored, NoneLeft, NamedExist
<1>6. ASSUME NEW on \in BOOLEAN, SaveAlertPolicy(on) PROVE CredentialsInv'
  BY <1>6 DEF SaveAlertPolicy, CredentialsInv, CredentialsTypeOK, RefsCreated, RefsApart,
     ReadsCurrent, RefsStored, NoneLeft, NamedExist
<1> QED
  BY <1>1, <1>2, <1>3, <1>4, <1>5, <1>6, ReadRowKeeps DEF CredentialsNext

(* Whatever requests create, replace, clear and delete credentials, and in   *)
(* whatever order they commit: every reference of a row resolves to a stored *)
(* secret of its own, the rows that settings name exist, and no secret is    *)
(* left behind unless two requests changed the same row at the same time.    *)
THEOREM SecretsBelong == CredentialsSpec => []ReferencesResolve
BY CredentialsStart, CredentialsStep, CredentialsInvResolve, PTL DEF CredentialsSpec

-----------------------------------------------------------------------------
(* Recording targets.                                                      *)

Errands == [kind : {"request", "task", "guard"}, cam : Cam, want : Disk \cup {Off, NoTarget},
            pc : {"look", "stop", "start"}]

TargetsTypeOK ==
  /\ disk \in [Disk -> [exists : BOOLEAN, enabled : BOOLEAN, default : BOOLEAN]]
  /\ route \in [Cam -> Disk \cup {Unset}]
  /\ DOMAIN writes = Cam
  /\ DOMAIN errand = Runner /\ \A r \in Runner : errand[r] # Free => errand[r] \in Errands

OneDefault == \A t, u \in Defaults(disk) : t = u

\* Of cameras that are not astray: the jobs at work want the same, whoever is about to
\* start the recorder finds it off or started for that by another, and what they want
\* is what the camera resolves to by now, unless it resolves to nothing or a task waits
\* to read again.
SameWants ==
  \A p, q \in Runner :
    errand[p] # Free /\ errand[q] # Free /\ errand[p].cam = errand[q].cam /\ errand[p].cam \notin astray
      => errand[p].want = errand[q].want

StartsSafely ==
  \A r \in Runner :
    errand[r] # Free /\ errand[r].pc = "start" /\ errand[r].cam \notin astray
      => writes[errand[r].cam] \in {Off, errand[r].want}

Resolved(c) == LocalTargetForCamera(disk, route, c) # NoTarget

WantsAreCurrent ==
  \A r \in Runner :
    errand[r] # Free /\ errand[r].cam \notin pending \cup astray /\ Resolved(errand[r].cam)
      => errand[r].want = RecorderFor(disk, route, errand[r].cam)

\* Somebody will start the recorder, if it is not where it should be.
Starter(r, c) ==
  errand[r] # Free /\ errand[r].cam = c /\ (errand[r].kind # "guard" \/ errand[r].pc = "start")

WritesFollow ==
  \A c \in Cam \ (pending \cup astray) :
    Resolved(c) => writes[c] = RecorderFor(disk, route, c) \/ \E r \in Runner : Starter(r, c)

TargetsInv ==
  TargetsTypeOK /\ OneDefault /\ SameWants /\ StartsSafely /\ WantsAreCurrent /\ WritesFollow

LEMMA TargetsInvFollow == TargetsInv => RecordersFollowRoute
<1> SUFFICES ASSUME TargetsInv PROVE RecordersFollowRoute
  OBVIOUS
<1>1. Cardinality(Defaults(disk)) <= 1
  <2>1. CASE Defaults(disk) = {}
    BY <2>1, FS_EmptySet
  <2>2. CASE Defaults(disk) # {}
    <3> PICK t \in Defaults(disk) : Defaults(disk) = {t}
      BY <2>2 DEF TargetsInv, OneDefault
    <3> QED
      BY FS_Singleton
  <2> QED
    BY <2>1, <2>2
<1>2. ASSUME NEW c \in Cam \ (pending \cup astray), Working(c) = {}, Resolved(c)
      PROVE  writes[c] = RecorderFor(disk, route, c)
  <2>1. \A r \in Runner : ~Starter(r, c)
    BY <1>2 DEF Starter, Working
  <2> QED
    BY <1>2, <2>1 DEF TargetsInv, WritesFollow
<1> QED
  BY <1>1, <1>2 DEF RecordersFollowRoute, Resolved

LEMMA TargetsStart == TargetsInit => TargetsInv
<1> SUFFICES ASSUME TargetsInit PROVE TargetsInv
  OBVIOUS
<1> PICK t \in Disk, all \in BOOLEAN, isDefault \in BOOLEAN :
      disk = [u \in Disk |-> [exists |-> u = t \/ all, enabled |-> u = t \/ all, default |-> u = t /\ isDefault]]
  BY DEF TargetsInit
<1>1. TargetsTypeOK
  <2>1. disk \in [Disk -> [exists : BOOLEAN, enabled : BOOLEAN, default : BOOLEAN]]
    BY Zenon
  <2> QED
    BY <2>1 DEF TargetsInit, TargetsTypeOK
<1>2. OneDefault
  BY DEF OneDefault, Defaults
<1>3. SameWants /\ StartsSafely /\ WantsAreCurrent
  BY DEF TargetsInit, SameWants, StartsSafely, WantsAreCurrent
<1>4. WritesFollow
  BY DEF TargetsInit, WritesFollow, Resolved, LocalTargetForCamera
<1> QED
  BY <1>1, <1>2, <1>3, <1>4 DEF TargetsInv

\* Rows change: cameras whose target changes are astray, or a task waits for them.
LEMMA RowsChange ==
  ASSUME TargetsInv, TargetsTypeOK', OneDefault', UNCHANGED <<writes, errand, full>>,
         pending \subseteq pending', astray \subseteq astray',
         \A c \in Cam \ (pending' \cup astray') :
           LocalTargetForCamera(disk, route, c)' = LocalTargetForCamera(disk, route, c)
  PROVE  TargetsInv'
<1>1. SameWants' /\ StartsSafely'
  BY DEF TargetsInv, SameWants, StartsSafely
<1>2. ASSUME NEW c \in Cam \ (pending' \cup astray')
      PROVE  /\ Resolved(c)' <=> Resolved(c)
             /\ RecorderFor(disk, route, c)' = RecorderFor(disk, route, c)
  <2>1. LocalTargetForCamera(disk, route, c)' = LocalTargetForCamera(disk, route, c)
    BY <1>2
  <2> QED
    BY <2>1 DEF Resolved, RecorderFor, EnsureWriteCapacity
<1>3. WantsAreCurrent'
  <2> SUFFICES ASSUME NEW r \in Runner, errand'[r] # Free, errand'[r].cam \notin pending' \cup astray',
                      Resolved(errand[r].cam)'
               PROVE  errand'[r].want = RecorderFor(disk, route, errand[r].cam)'
    BY DEF WantsAreCurrent, Resolved, RecorderFor, EnsureWriteCapacity
  <2>1. errand[r].cam \in Cam \ (pending' \cup astray') /\ errand[r].cam \notin pending \cup astray
    BY DEF TargetsInv, TargetsTypeOK, Errands
  <2>2. Resolved(errand[r].cam)
    BY <1>2, <2>1
  <2>3. errand[r].want = RecorderFor(disk, route, errand[r].cam)
    BY <2>1, <2>2 DEF TargetsInv, WantsAreCurrent
  <2> QED
    BY <1>2, <2>1, <2>3
<1>4. WritesFollow'
  <2> SUFFICES ASSUME NEW c \in Cam \ (pending' \cup astray'), Resolved(c)'
               PROVE  writes'[c] = RecorderFor(disk, route, c)' \/ \E r \in Runner : Starter(r, c)'
    BY DEF WritesFollow
  <2>1. writes[c] = RecorderFor(disk, route, c) \/ \E r \in Runner : Starter(r, c)
    BY <1>2 DEF TargetsInv, WritesFollow
  <2> QED
    BY <1>2, <2>1 DEF Starter
<1> QED
  BY <1>1, <1>3, <1>4 DEF TargetsInv

\* Rows that are stored without a reconcile task.
LEMMA StoreKeeps ==
  ASSUME TargetsInv, NEW t \in Disk,
         NEW d \in [Disk -> [exists : BOOLEAN, enabled : BOOLEAN, default : BOOLEAN]],
         \A u \in Disk \ {t} : d[u] = disk[u],
         EnsureDefaultTargetUnique(d, t), Store(d)
  PROVE  TargetsInv'
<1>1. TargetsTypeOK'
  BY DEF TargetsInv, TargetsTypeOK, Store
<1>2. OneDefault'
  BY DEF TargetsInv, OneDefault, Store, Defaults, EnsureDefaultTargetUnique
<1>3. ASSUME NEW c \in Cam \ (pending' \cup astray')
      PROVE  LocalTargetForCamera(disk, route, c)' = LocalTargetForCamera(disk, route, c)
  <2>1. LocalTargetForCamera(d, route, c) = LocalTargetForCamera(disk, route, c)
    BY <1>3 DEF Store
  <2>2. LocalTargetForCamera(disk', route', c) = LocalTargetForCamera(d, route, c)
    BY DEF Store
  <2>3. LocalTargetForCamera(disk, route, c)' = LocalTargetForCamera(disk', route', c)
    BY DEF LocalTargetForCamera, ImplicitTarget, Defaults, Candidates
  <2> QED
    BY <2>1, <2>2, <2>3
<1>4. UNCHANGED <<writes, errand, full>> /\ pending \subseteq pending' /\ astray \subseteq astray'
  BY DEF Store
<1> QED
  BY <1>1, <1>2, <1>3, <1>4, RowsChange

LEMMA CreateTargetKeeps ==
  ASSUME TargetsInv, NEW t \in Disk, NEW a \in BOOLEAN, NEW b \in BOOLEAN, CreateTarget(t, a, b)
  PROVE  TargetsInv'
<1> DEFINE d == [disk EXCEPT ![t] = [exists |-> TRUE, enabled |-> a, default |-> b]]
<1>1. d \in [Disk -> [exists : BOOLEAN, enabled : BOOLEAN, default : BOOLEAN]]
       /\ \A u \in Disk \ {t} : d[u] = disk[u]
  BY DEF TargetsInv, TargetsTypeOK
<1> QED
  BY <1>1, StoreKeeps DEF CreateTarget

LEMMA UpdateTargetKeeps ==
  ASSUME TargetsInv, NEW t \in Disk, NEW a \in BOOLEAN, NEW b \in BOOLEAN, UpdateTarget(t, a, b)
  PROVE  TargetsInv'
<1> DEFINE d == [disk EXCEPT ![t].enabled = a, ![t].default = b]
<1>1. d \in [Disk -> [exists : BOOLEAN, enabled : BOOLEAN, default : BOOLEAN]]
       /\ \A u \in Disk \ {t} : d[u] = disk[u]
  BY DEF TargetsInv, TargetsTypeOK
<1> QED
  BY <1>1, StoreKeeps DEF UpdateTarget

LEMMA DeleteTargetKeeps ==
  ASSUME TargetsInv, NEW t \in Disk, DeleteTarget(t)
  PROVE  TargetsInv'
<1> DEFINE d == [disk EXCEPT ![t] = NoDisk]
<1>1. d \in [Disk -> [exists : BOOLEAN, enabled : BOOLEAN, default : BOOLEAN]]
       /\ (\A u \in Disk \ {t} : d[u] = disk[u]) /\ ~d[t].enabled
  BY DEF TargetsInv, TargetsTypeOK, NoDisk
<1>2. EnsureDefaultTargetUnique(d, t)
  BY <1>1 DEF EnsureDefaultTargetUnique
<1> QED
  BY <1>1, <1>2, StoreKeeps DEF DeleteTarget

LEMMA SwitchKeeps ==
  ASSUME TargetsInv, NEW s \in Disk, NEW t \in Disk, SwitchRecordingTarget(s, t)
  PROVE  TargetsInv'
<1>1. TargetsTypeOK'
  BY DEF TargetsInv, TargetsTypeOK, SwitchRecordingTarget
<1>2. OneDefault'
  BY DEF TargetsInv, TargetsTypeOK, OneDefault, SwitchRecordingTarget, Defaults, EnsureDefaultTargetUnique
<1>3. ASSUME NEW c \in Cam \ AffectedCameras(s)
      PROVE  LocalTargetForCamera(disk', route', c) = LocalTargetForCamera(disk, route, c)
  <2>1. route'[c] = route[c] /\ route[c] # s /\ route[c] \in Disk \cup {Unset}
    BY <1>3 DEF TargetsInv, TargetsTypeOK, SwitchRecordingTarget, AffectedCameras, Explicit
  <2>2. CASE MoveDefault(s)
    <3>1. route[c] # Unset
      <4>1. AffectedCameras(s) = Explicit(s) \cup Implicit
        BY <2>2 DEF AffectedCameras
      <4> QED
        BY <1>3, <4>1 DEF Implicit
    <3>2. disk' = [disk EXCEPT ![s].default = FALSE, ![t].default = TRUE]
      BY <2>2 DEF SwitchRecordingTarget
    <3>3. disk'[route[c]].enabled = disk[route[c]].enabled
      BY <2>1, <3>1, <3>2 DEF TargetsInv, TargetsTypeOK
    <3>4. /\ LocalTargetForCamera(disk, route, c)
              = IF disk[route[c]].enabled THEN route[c] ELSE NoTarget
          /\ LocalTargetForCamera(disk', route', c)
              = IF disk'[route'[c]].enabled THEN route'[c] ELSE NoTarget
      BY <2>1, <3>1 DEF LocalTargetForCamera
    <3> QED
      BY <2>1, <3>3, <3>4
  <2>3. CASE ~MoveDefault(s)
    BY <2>1, <2>3 DEF SwitchRecordingTarget, LocalTargetForCamera
  <2> QED
    BY <2>2, <2>3
<1>4. ASSUME NEW c \in Cam \ (pending' \cup astray')
      PROVE  LocalTargetForCamera(disk, route, c)' = LocalTargetForCamera(disk, route, c)
  <2>1. c \notin AffectedCameras(s)
    BY <1>4 DEF SwitchRecordingTarget
  <2>2. LocalTargetForCamera(disk', route', c) = LocalTargetForCamera(disk, route, c)
    BY <1>3, <2>1
  <2>3. LocalTargetForCamera(disk, route, c)' = LocalTargetForCamera(disk', route', c)
    BY DEF LocalTargetForCamera, ImplicitTarget, Defaults, Candidates
  <2> QED
    BY <2>2, <2>3
<1>5. UNCHANGED <<writes, errand, full>> /\ pending \subseteq pending' /\ astray \subseteq astray'
  BY DEF SwitchRecordingTarget
<1> QED
  BY <1>1, <1>2, <1>4, <1>5, RowsChange

LEMMA WantsByCamera ==
  ASSUME TargetsTypeOK', full' = full,
         \A q \in Runner, e \in Cam :
           errand'[q] # Free /\ e = errand'[q].cam /\ e \notin pending' \cup astray' /\ Resolved(e)'
             => errand'[q].want = RecorderFor(disk, route, e)'
  PROVE  WantsAreCurrent'
BY DEF TargetsTypeOK, Errands, WantsAreCurrent, Resolved, RecorderFor, EnsureWriteCapacity, LocalTargetForCamera,
       ImplicitTarget, Defaults, Candidates

\* A job reads what is wanted: by a request whose new route nobody else has read, or
\* when a task takes the camera from the queue, or the guard adds a job.
LEMMA DesiredKeeps ==
  ASSUME TargetsInv, NEW r \in Runner, NEW c \in Cam, NEW kind \in {"request", "task", "guard"},
         ReadDesired(r, kind, c, route'), route' \in [Cam -> Disk \cup {Unset}],
         \A e \in Cam \ {c} : route'[e] = route[e],
         kind = "guard" => route'[c] = route[c] /\ pending' = pending,
         pending' \in {pending, pending \ {c}}, kind = "task" \/ pending' = pending,
         UNCHANGED <<disk, full, writes>>
  PROVE  TargetsInv'
<1> DEFINE want == RecorderFor(disk, route', c)
           new == [kind |-> kind, cam |-> c, want |-> want, pc |-> "look"]
<1>1. /\ errand[r] = Free /\ errand' = [errand EXCEPT ![r] = new]
      /\ astray' = IF \E q \in Working(c) : errand[q].want # want THEN astray \cup {c}
                   ELSE IF Working(c) = {} /\ kind # "guard" THEN astray \ {c} ELSE astray
  BY DEF ReadDesired
<1>2. want \in Disk \cup {Off, NoTarget}
  BY DEF TargetsInv, TargetsTypeOK, RecorderFor, LocalTargetForCamera, ImplicitTarget, TheOnly,
         Defaults, Candidates
<1>3. new \in Errands /\ new # Free /\ new.cam = c /\ new.want = want /\ new.kind = kind /\ new.pc = "look"
  BY <1>2 DEF Errands, Free
<1> HIDE DEF new, want
<1>4. /\ DOMAIN errand' = Runner /\ errand'[r] = new
      /\ \A q \in Runner \ {r} : errand'[q] = errand[q]
  BY <1>1 DEF TargetsInv, TargetsTypeOK
<1>5. TargetsTypeOK' /\ OneDefault'
  BY <1>3, <1>4 DEF TargetsInv, TargetsTypeOK, OneDefault, Defaults
<1>6. ASSUME c \notin astray'
      PROVE  /\ \A q \in Working(c) : errand[q].want = want
             /\ c \in astray => Working(c) = {}
  BY <1>1, <1>6
<1>7. \A e \in Cam \ {c} : e \in astray' <=> e \in astray
  BY <1>1
<1>8. ASSUME NEW e \in Cam \ {c}
      PROVE  /\ Resolved(e)' <=> Resolved(e)
             /\ RecorderFor(disk, route, e)' = RecorderFor(disk, route, e)
  BY <1>8 DEF Resolved, RecorderFor, EnsureWriteCapacity, LocalTargetForCamera, ImplicitTarget,
              Defaults, Candidates
<1>9. RecorderFor(disk, route, c)' = want
  BY DEF want, RecorderFor, EnsureWriteCapacity, LocalTargetForCamera, ImplicitTarget, Defaults, Candidates
<1>10. SameWants'
  <2> SUFFICES ASSUME NEW p \in Runner, NEW q \in Runner, errand'[p] # Free, errand'[q] # Free,
                      errand'[p].cam = errand'[q].cam, errand'[p].cam \notin astray'
               PROVE  errand'[p].want = errand'[q].want
    BY DEF SameWants
  <2>1. CASE errand'[p].cam = c
    <3>1. c \notin astray' /\ errand'[q].cam = c
      BY <2>1
    <3>2. \A x \in Working(c) : errand[x].want = want
      BY <1>6, <3>1
    <3>3. \A x \in {p, q} : x = r \/ x \in Working(c)
      BY <1>4, <2>1, <3>1 DEF Working
    <3> QED
      BY <1>3, <1>4, <3>2, <3>3 DEF Working
  <2>2. CASE errand'[p].cam # c
    <3>1. p # r /\ q # r /\ errand[p].cam \in Cam \ {c}
      BY <1>3, <1>4, <2>2 DEF TargetsInv, TargetsTypeOK, Errands
    <3> QED
      BY <1>4, <1>7, <3>1 DEF TargetsInv, SameWants
  <2> QED
    BY <2>1, <2>2
<1>11. StartsSafely'
  <2> SUFFICES ASSUME NEW q \in Runner, errand'[q] # Free, errand'[q].pc = "start", errand'[q].cam \notin astray'
               PROVE  writes[errand'[q].cam] \in {Off, errand'[q].want}
    BY DEF StartsSafely
  <2>1. q # r /\ errand[q] # Free /\ errand[q].cam \in Cam
    BY <1>3, <1>4 DEF TargetsInv, TargetsTypeOK, Errands
  <2>2. errand[q].cam \notin astray
    BY <1>4, <1>6, <1>7, <2>1 DEF Working
  <2> QED
    BY <1>4, <2>1, <2>2 DEF TargetsInv, StartsSafely
<1>12. WantsAreCurrent'
  <2> SUFFICES ASSUME NEW q \in Runner, errand'[q] # Free, NEW e \in Cam, e = errand'[q].cam,
                      e \notin pending' \cup astray', Resolved(e)'
               PROVE  errand'[q].want = RecorderFor(disk, route, e)'
    BY <1>5, WantsByCamera
  <2>1. CASE e = c
    <3>1. \A x \in Working(c) : errand[x].want = want
      BY <1>6, <2>1
    <3>2. q = r \/ q \in Working(c)
      BY <1>4, <2>1 DEF Working
    <3> QED
      BY <1>3, <1>4, <1>9, <2>1, <3>1, <3>2 DEF Working
  <2>2. CASE e # c
    <3>1. q # r /\ errand[q].cam = e /\ e \in Cam \ {c} /\ errand[q] # Free
      BY <1>3, <1>4, <2>2
    <3>2. e \notin pending \cup astray /\ Resolved(e)
      BY <1>7, <1>8, <3>1
    <3> QED
      BY <1>4, <1>8, <3>1, <3>2 DEF TargetsInv, WantsAreCurrent
  <2> QED
    BY <2>1, <2>2
<1>13. WritesFollow'
  <2> SUFFICES ASSUME NEW e \in Cam \ (pending' \cup astray'), Resolved(e)'
               PROVE  writes[e] = RecorderFor(disk, route, e)' \/ \E q \in Runner : Starter(q, e)'
    BY DEF WritesFollow
  <2>1. ASSUME NEW q \in Runner, NEW x \in Cam, Starter(q, x) PROVE Starter(q, x)'
    BY <1>1, <1>4, <2>1 DEF Starter
  <2>2. CASE e # c
    BY <1>7, <1>8, <2>1, <2>2 DEF TargetsInv, WritesFollow
  <2>3. CASE e = c /\ kind # "guard"
    BY <1>3, <1>4, <2>3 DEF Starter
  <2>4. CASE e = c /\ kind = "guard"
    <3>1. c \notin pending \cup astray
      BY <1>1, <2>4
    <3>2. /\ Resolved(c)' <=> Resolved(c)
          /\ RecorderFor(disk, route, c)' = RecorderFor(disk, route, c)
      BY <2>4 DEF Resolved, RecorderFor, EnsureWriteCapacity, LocalTargetForCamera, ImplicitTarget,
                  Defaults, Candidates
    <3> QED
      BY <2>1, <2>4, <3>1, <3>2 DEF TargetsInv, WritesFollow
  <2> QED
    BY <2>2, <2>3, <2>4
<1> QED
  BY <1>5, <1>10, <1>11, <1>12, <1>13 DEF TargetsInv

LEMMA PutPolicyKeeps ==
  ASSUME TargetsInv, NEW r \in Runner, NEW c \in Cam, NEW t \in Disk \cup {Unset}, PutPolicy(r, c, t)
  PROVE  TargetsInv'
<1>1. /\ route' \in [Cam -> Disk \cup {Unset}] /\ \A e \in Cam \ {c} : route'[e] = route[e]
      /\ UNCHANGED <<disk, full, writes, pending>>
  BY DEF TargetsInv, TargetsTypeOK, PutPolicy
<1>2. CASE ReadDesired(r, "request", c, route')
  BY <1>1, <1>2, DesiredKeeps
<1>3. CASE LocalTargetForCamera(disk, route', c) = NoTarget /\ UNCHANGED <<errand, astray>>
  <2>1. LocalTargetForCamera(disk, route, c)' = NoTarget
    BY <1>1, <1>3 DEF LocalTargetForCamera, ImplicitTarget, Defaults, Candidates
  <2>2. ASSUME NEW e \in Cam \ {c}
        PROVE  /\ Resolved(e)' <=> Resolved(e)
               /\ RecorderFor(disk, route, e)' = RecorderFor(disk, route, e)
    BY <1>1, <2>2 DEF Resolved, RecorderFor, EnsureWriteCapacity, LocalTargetForCamera, ImplicitTarget,
                Defaults, Candidates
  <2>3. ~Resolved(c)'
    BY <2>1 DEF Resolved
  <2>4. TargetsTypeOK' /\ OneDefault' /\ SameWants' /\ StartsSafely'
    BY <1>1, <1>3 DEF TargetsInv, TargetsTypeOK, OneDefault, Defaults, SameWants, StartsSafely
  <2>5. WantsAreCurrent'
    <3> SUFFICES ASSUME NEW q \in Runner, errand'[q] # Free, NEW e \in Cam, e = errand'[q].cam,
                        e \notin pending' \cup astray', Resolved(e)'
                 PROVE  errand'[q].want = RecorderFor(disk, route, e)'
      BY <1>1, <2>4, WantsByCamera
    <3>1. e \in Cam \ {c} /\ errand[q].cam = e
      BY <1>3, <2>3
    <3>2. Resolved(e)
      BY <2>2, <3>1
    <3> QED
      BY <1>1, <1>3, <2>2, <3>1, <3>2 DEF TargetsInv, WantsAreCurrent
  <2>6. WritesFollow'
    BY <1>1, <1>3, <2>2, <2>3 DEF TargetsInv, WritesFollow, Starter
  <2> QED
    BY <2>4, <2>5, <2>6 DEF TargetsInv
<1> QED
  BY <1>2, <1>3 DEF PutPolicy

LEMMA BeginKeeps ==
  ASSUME TargetsInv, NEW r \in Runner, NEW c \in Cam, StartTask(r, c) \/ Guard(r, c)
  PROVE  TargetsInv'
<1>1. route' = route /\ UNCHANGED <<disk, full, writes>> /\ route \in [Cam -> Disk \cup {Unset}]
  BY DEF StartTask, Guard, TargetsInv, TargetsTypeOK
<1>2. CASE StartTask(r, c)
  BY <1>1, <1>2, DesiredKeeps DEF StartTask
<1>3. CASE Guard(r, c)
  BY <1>1, <1>3, DesiredKeeps DEF Guard
<1> QED
  BY <1>2, <1>3

LEMMA TaskRaisesKeeps ==
  ASSUME TargetsInv, NEW c \in Cam, TaskRaises(c)
  PROVE  TargetsInv'
<1>1. /\ pending' = pending \ {c} /\ ~Resolved(c)
      /\ UNCHANGED <<disk, full, route, writes, errand, astray>>
  BY DEF TaskRaises, Resolved
<1>2. \A e \in Cam : /\ Resolved(e)' <=> Resolved(e)
                     /\ RecorderFor(disk, route, e)' = RecorderFor(disk, route, e)
  BY <1>1 DEF Resolved, RecorderFor, EnsureWriteCapacity, LocalTargetForCamera, ImplicitTarget,
              Defaults, Candidates
<1>3. TargetsTypeOK' /\ OneDefault' /\ SameWants' /\ StartsSafely'
  BY <1>1 DEF TargetsInv, TargetsTypeOK, OneDefault, Defaults, SameWants, StartsSafely
<1>4. WantsAreCurrent'
  BY <1>1 DEF TargetsInv, WantsAreCurrent, Resolved, RecorderFor, EnsureWriteCapacity, LocalTargetForCamera,
              ImplicitTarget, Defaults, Candidates
<1>5. WritesFollow'
  BY <1>1, <1>2 DEF TargetsInv, WritesFollow, Starter
<1> QED
  BY <1>3, <1>4, <1>5 DEF TargetsInv

\* A job goes on, or ends.
LEMMA JobMoves ==
  ASSUME TargetsInv, NEW r \in Runner, errand[r] # Free,
         NEW pc \in {"stop", "start"}, Leave(r) \/ Go(r, pc)
  PROVE  /\ DOMAIN errand' = Runner /\ \A q \in Runner \ {r} : errand'[q] = errand[q]
         /\ Leave(r) => errand'[r] = Free
         /\ Go(r, pc) => /\ errand'[r] \in Errands /\ errand'[r] # Free /\ errand'[r].pc = pc
                         /\ errand'[r].cam = errand[r].cam /\ errand'[r].want = errand[r].want
                         /\ errand'[r].kind = errand[r].kind
         /\ errand[r] \in Errands
<1> DEFINE new == [errand[r] EXCEPT !.pc = pc]
<1>0. DOMAIN errand = Runner /\ errand[r] \in Errands
  BY DEF TargetsInv, TargetsTypeOK
<1>1. /\ new \in Errands /\ new.cam = errand[r].cam /\ new.want = errand[r].want
      /\ new.kind = errand[r].kind /\ new.pc = pc
  BY <1>0 DEF Errands
<1>2. new # Free
  BY <1>1 DEF Errands, Free
<1> HIDE DEF new
<1>3. Go(r, pc) => errand' = [errand EXCEPT ![r] = new]
  BY DEF Go, new
<1>4. Leave(r) => errand' = [errand EXCEPT ![r] = Free]
  BY DEF Leave
<1> QED
  BY <1>0, <1>1, <1>2, <1>3, <1>4

\* What it wants stays current, or a task waits or the camera is astray.
LEMMA JobKeeps ==
  ASSUME TargetsInv, NEW r \in Runner, errand[r] # Free,
         NEW pc \in {"stop", "start"}, Leave(r) \/ Go(r, pc),
         UNCHANGED <<disk, full, route>>, DOMAIN writes' = Cam,
         pending \subseteq pending', astray \subseteq astray', StartsSafely', WritesFollow'
  PROVE  TargetsInv'
<1>1. /\ DOMAIN errand' = Runner
      /\ \A q \in Runner : errand'[q] # Free =>
           /\ errand'[q] \in Errands /\ errand[q] \in Errands /\ errand[q] # Free
           /\ errand'[q].cam = errand[q].cam /\ errand'[q].want = errand[q].want
  <2>1. \A q \in Runner : errand[q] # Free => errand[q] \in Errands
    BY DEF TargetsInv, TargetsTypeOK
  <2> QED
    BY <2>1, JobMoves
<1>2. TargetsTypeOK' /\ OneDefault'
  BY <1>1 DEF TargetsInv, TargetsTypeOK, OneDefault, Defaults
<1>3. SameWants'
  BY <1>1 DEF TargetsInv, SameWants
<1>4. WantsAreCurrent'
  <2> SUFFICES ASSUME NEW q \in Runner, errand'[q] # Free, errand'[q].cam \notin pending' \cup astray',
                      Resolved(errand'[q].cam)
               PROVE  errand'[q].want = RecorderFor(disk, route, errand'[q].cam)
    BY DEF WantsAreCurrent, Resolved, RecorderFor, EnsureWriteCapacity, LocalTargetForCamera, ImplicitTarget,
           Defaults, Candidates
  <2> QED
    BY <1>1 DEF TargetsInv, WantsAreCurrent
<1> QED
  BY <1>2, <1>3, <1>4 DEF TargetsInv

\* The recorders that are followed are the same before and after.
LEMMA FollowSame ==
  ASSUME UNCHANGED <<disk, full, route>>, pending \subseteq pending', astray \subseteq astray',
         \A c \in Cam \ (pending' \cup astray') :
            Resolved(c) => writes'[c] = RecorderFor(disk, route, c) \/ \E r \in Runner : Starter(r, c)'
  PROVE  WritesFollow'
BY DEF WritesFollow, Resolved, RecorderFor, EnsureWriteCapacity, LocalTargetForCamera, ImplicitTarget,
       Defaults, Candidates

LEMMA LookKeeps ==
  ASSUME TargetsInv, NEW r \in Runner, Look(r)
  PROVE  TargetsInv'
<1>1. /\ errand[r] # Free /\ errand[r].pc = "look"
      /\ UNCHANGED <<disk, full, route, writes, pending, astray>>
      /\ \/ writes[errand[r].cam] # Off /\ Go(r, "stop")
         \/ writes[errand[r].cam] # Off /\ errand[r].kind = "guard" /\ Leave(r)
         \/ writes[errand[r].cam] = Off /\ Go(r, "start")
         \/ writes[errand[r].cam] = Off /\ errand[r].want = Off /\ Leave(r)
  BY DEF Look
<1>2. PICK pc \in {"stop", "start"} : Leave(r) \/ Go(r, pc)
  BY <1>1
<1>3. \A q \in Runner \ {r} : errand'[q] = errand[q]
  BY <1>1, <1>2, JobMoves
<1>4. StartsSafely'
  BY <1>1, <1>3, JobMoves DEF TargetsInv, StartsSafely
<1>5. WritesFollow'
  <2> SUFFICES ASSUME NEW c \in Cam \ (pending \cup astray), Resolved(c), writes[c] # RecorderFor(disk, route, c)
               PROVE  \E q \in Runner : Starter(q, c)'
    BY <1>1, FollowSame
  <2>1. PICK q \in Runner : Starter(q, c)
    BY DEF TargetsInv, WritesFollow
  <2>2. CASE q # r
    BY <1>3, <2>1, <2>2 DEF Starter
  <2>3. CASE q = r
    <3>1. c = errand[r].cam /\ errand[r].kind # "guard" /\ errand[r].want = RecorderFor(disk, route, c)
      BY <1>1, <2>1, <2>3 DEF Starter, TargetsInv, WantsAreCurrent
    <3>2. Go(r, "stop") \/ Go(r, "start")
      BY <1>1, <3>1
    <3> QED
      BY <1>1, <3>1, <3>2, JobMoves DEF Starter
  <2> QED
    BY <2>2, <2>3
<1>6. DOMAIN writes' = Cam
  BY <1>1 DEF TargetsInv, TargetsTypeOK
<1> QED
  BY <1>1, <1>2, <1>4, <1>5, <1>6, JobKeeps

LEMMA StopRecordKeeps ==
  ASSUME TargetsInv, NEW r \in Runner, StopRecord(r)
  PROVE  TargetsInv'
<1>1. /\ errand[r] # Free /\ writes' = [writes EXCEPT ![errand[r].cam] = Off]
      /\ UNCHANGED <<disk, full, route, pending, astray>>
      /\ (errand[r].want = Off /\ Leave(r)) \/ Go(r, "start")
  BY DEF StopRecord
<1>2. Leave(r) \/ Go(r, "start")
  BY <1>1
<1>3. /\ \A q \in Runner \ {r} : errand'[q] = errand[q]
      /\ errand[r].cam \in Cam
  BY <1>1, <1>2, JobMoves DEF Errands
<1>4. /\ DOMAIN writes' = Cam /\ writes'[errand[r].cam] = Off
      /\ \A c \in Cam \ {errand[r].cam} : writes'[c] = writes[c]
  BY <1>1, <1>3 DEF TargetsInv, TargetsTypeOK
<1>5. StartsSafely'
  <2> SUFFICES ASSUME NEW q \in Runner, errand'[q] # Free, errand'[q].pc = "start", errand'[q].cam \notin astray
               PROVE  writes'[errand'[q].cam] \in {Off, errand'[q].want}
    BY <1>1 DEF StartsSafely
  <2>1. CASE q = r
    BY <1>1, <1>2, <1>4, <2>1, JobMoves
  <2>2. CASE q # r
    BY <1>3, <1>4, <2>2 DEF TargetsInv, TargetsTypeOK, Errands, StartsSafely
  <2> QED
    BY <2>1, <2>2
<1>6. WritesFollow'
  <2> SUFFICES ASSUME NEW c \in Cam \ (pending \cup astray), Resolved(c)
               PROVE  writes'[c] = RecorderFor(disk, route, c) \/ \E q \in Runner : Starter(q, c)'
    BY <1>1, FollowSame
  <2>1. CASE c = errand[r].cam
    <3>1. errand[r].want = RecorderFor(disk, route, c)
      BY <1>1, <2>1 DEF TargetsInv, WantsAreCurrent
    <3>2. CASE errand[r].want = Off
      BY <1>4, <2>1, <3>1, <3>2
    <3>3. CASE Go(r, "start")
      BY <1>1, <2>1, <3>3, JobMoves DEF Starter
    <3> QED
      BY <1>1, <3>2, <3>3
  <2>2. CASE c # errand[r].cam
    BY <1>3, <1>4, <2>2 DEF TargetsInv, WritesFollow, Starter
  <2> QED
    BY <2>1, <2>2
<1> QED
  BY <1>1, <1>2, <1>4, <1>5, <1>6, JobKeeps

LEMMA StartRecordKeeps ==
  ASSUME TargetsInv, NEW r \in Runner, StartRecord(r)
  PROVE  TargetsInv'
<1> DEFINE k == errand[r].cam
           on == IF writes[k] = Off THEN errand[r].want ELSE writes[k]
<1>1. /\ errand[r] # Free /\ errand[r].pc = "start" /\ Leave(r)
      /\ UNCHANGED <<disk, full, route, pending, astray>>
      /\ writes' = [writes EXCEPT ![k] = on]
  BY DEF StartRecord
<1>2. (\A q \in Runner \ {r} : errand'[q] = errand[q]) /\ errand'[r] = Free /\ k \in Cam
  BY <1>1, JobMoves DEF Errands
<1>3. /\ DOMAIN writes' = Cam /\ writes'[k] = on
      /\ \A c \in Cam \ {k} : writes'[c] = writes[c]
  BY <1>1, <1>2 DEF TargetsInv, TargetsTypeOK
<1>4. k \notin astray => on = errand[r].want
  BY <1>1 DEF TargetsInv, StartsSafely
<1> HIDE DEF on, k
<1>5. StartsSafely'
  <2> SUFFICES ASSUME NEW q \in Runner, errand'[q] # Free, errand'[q].pc = "start", errand'[q].cam \notin astray
               PROVE  writes'[errand'[q].cam] \in {Off, errand'[q].want}
    BY <1>1 DEF StartsSafely
  <2>1. errand[q] # Free /\ errand'[q] = errand[q] /\ errand[q].cam \in Cam
    BY <1>2 DEF TargetsInv, TargetsTypeOK, Errands
  <2>2. CASE errand[q].cam = k
    <3>1. errand[q].want = errand[r].want
      BY <1>1, <2>1, <2>2 DEF TargetsInv, SameWants, k
    <3> QED
      BY <1>3, <1>4, <2>1, <2>2, <3>1
  <2>3. CASE errand[q].cam # k
    BY <1>3, <2>1, <2>3 DEF TargetsInv, StartsSafely
  <2> QED
    BY <2>2, <2>3
<1>6. WritesFollow'
  <2> SUFFICES ASSUME NEW c \in Cam \ (pending \cup astray), Resolved(c)
               PROVE  writes'[c] = RecorderFor(disk, route, c) \/ \E q \in Runner : Starter(q, c)'
    BY <1>1, FollowSame
  <2>1. CASE c = k
    BY <1>1, <1>3, <1>4, <2>1 DEF TargetsInv, WantsAreCurrent, k
  <2>2. CASE c # k
    BY <1>2, <1>3, <2>2 DEF TargetsInv, WritesFollow, Starter, k
  <2> QED
    BY <2>1, <2>2
<1> QED
  BY <1>1, <1>3, <1>5, <1>6, JobKeeps

LEMMA JobFailsKeeps ==
  ASSUME TargetsInv, NEW r \in Runner, JobFails(r)
  PROVE  TargetsInv'
<1>1. /\ errand[r] # Free /\ Leave(r) /\ UNCHANGED <<disk, full, route, writes>>
      /\ pending \subseteq pending' /\ astray \subseteq astray'
      /\ ~Starter(r, errand[r].cam) \/ errand[r].cam \in pending' \cup astray'
  BY DEF JobFails, Starter
<1>2. (\A q \in Runner \ {r} : errand'[q] = errand[q]) /\ errand'[r] = Free
  BY <1>1, JobMoves
<1>3. StartsSafely'
  BY <1>1, <1>2 DEF TargetsInv, StartsSafely
<1>4. WritesFollow'
  <2> SUFFICES ASSUME NEW c \in Cam \ (pending' \cup astray'), Resolved(c)
               PROVE  writes'[c] = RecorderFor(disk, route, c) \/ \E q \in Runner : Starter(q, c)'
    BY <1>1, FollowSame
  <2>1. writes[c] = RecorderFor(disk, route, c) \/ \E q \in Runner : Starter(q, c)
    BY <1>1 DEF TargetsInv, WritesFollow
  <2>2. \A q \in Runner : Starter(q, c) => q # r
    BY <1>1 DEF Starter
  <2> QED
    BY <1>1, <1>2, <2>1, <2>2 DEF Starter
<1>5. DOMAIN writes' = Cam
  BY <1>1 DEF TargetsInv, TargetsTypeOK
<1> QED
  BY <1>1, <1>3, <1>4, <1>5, JobKeeps

LEMMA TargetsStep == TargetsInv /\ [TargetsNext]_targetVars => TargetsInv'
<1> SUFFICES ASSUME TargetsInv, [TargetsNext]_targetVars PROVE TargetsInv'
  OBVIOUS
<1>1. CASE UNCHANGED targetVars
  <2>1. TargetsTypeOK' /\ OneDefault'
    BY <1>1 DEF targetVars, TargetsInv, TargetsTypeOK, OneDefault, Defaults
  <2>2. \A c \in Cam : LocalTargetForCamera(disk, route, c)' = LocalTargetForCamera(disk, route, c)
    BY <1>1 DEF targetVars, LocalTargetForCamera, ImplicitTarget, Defaults, Candidates
  <2> QED
    BY <1>1, <2>1, <2>2, RowsChange DEF targetVars
<1>2. ASSUME NEW t \in Disk, NEW a \in BOOLEAN, NEW b \in BOOLEAN,
             CreateTarget(t, a, b) \/ UpdateTarget(t, a, b)
      PROVE  TargetsInv'
  BY <1>2, CreateTargetKeeps, UpdateTargetKeeps
<1>3. ASSUME NEW t \in Disk, DeleteTarget(t) \/ \E s \in Disk : SwitchRecordingTarget(s, t)
      PROVE  TargetsInv'
  BY <1>3, DeleteTargetKeeps, SwitchKeeps
<1>4. ASSUME NEW r \in Runner, NEW c \in Cam,
             StartTask(r, c) \/ Guard(r, c) \/ \E t \in Disk \cup {Unset} : PutPolicy(r, c, t)
      PROVE  TargetsInv'
  BY <1>4, PutPolicyKeeps, BeginKeeps
<1>5. ASSUME NEW r \in Runner, Look(r) \/ StopRecord(r) \/ StartRecord(r) \/ JobFails(r)
      PROVE  TargetsInv'
  BY <1>5, LookKeeps, StopRecordKeeps, StartRecordKeeps, JobFailsKeeps
<1>6. CASE TargetsNext
  BY <1>2, <1>3, <1>4, <1>5, <1>6, TaskRaisesKeeps, Zenon DEF TargetsNext
<1> QED
  BY <1>1, <1>6

(* At most one target is the default, and every recorder nobody is at work  *)
(* on and no task waits for writes to the target its policy resolves to,     *)
(* however targets and policies change between the reading of a job and its  *)
(* last call (except those the property calls astray).                       *)
THEOREM RecordersFollow == TargetsSpec => []RecordersFollowRoute
BY TargetsStart, TargetsStep, TargetsInvFollow, PTL DEF TargetsSpec

-----------------------------------------------------------------------------
(* The configuration of a camera.                                          *)

CamSource == Nat
CamPlay == [src : CamSource, cred : Nat]
CamDevice == [hw : Nat, cred : Nat, at : [Profile -> Nat]]
CamTask == [targets : SUBSET Profile, previous : Profile \cup {NoProfile}]
CamBindings == [record : Profile \cup {NoProfile}, live : Profile \cup {NoProfile}]
QueueRequests == [kind : {"queue"}, pc : {"queue"}, task : CamTask]
DeviceRequests ==
  [kind : {"import", "refresh"}, pc : {"inspected", "listed", "probed"}, seen : CamDevice,
   cred : Nat, need : SUBSET Profile, confirm : BOOLEAN]
StreamRequests ==
  [kind : {"verify", "probe"}, pc : {"read", "ok", "bad"}, p : Profile, play : CamPlay, revision : Nat]
CamRequest == {NoRequest} \cup QueueRequests \cup DeviceRequests \cup StreamRequests

ConfigTypeOK ==
  /\ dev \in CamDevice
  /\ row \in [kind : {"none", "manual", "onvif"}, hw : Nat, cred : Nat, enabled : BOOLEAN,
              retired : BOOLEAN, revision : Nat]
  /\ prof \in [Profile -> [src : CamSource, status : {"none", "configured", "available", "unavailable"},
                           drift : BOOLEAN]]
  /\ bind \in CamBindings /\ request \in [Slot -> CamRequest] /\ tasks \in Seq(CamTask)
  /\ proxy \in [Profile -> CamPlay] /\ viewing \in [Profile -> CamPlay]
  /\ DOMAIN running = Worker
  /\ \A w \in Worker : running[w].pc \in {"idle", "read"}
  /\ lost \in BOOLEAN /\ overtaken \in BOOLEAN /\ late \subseteq Profile /\ loose \subseteq Profile

\* What a task under way has read: the streams bound then, when the camera was enabled.
TasksRead ==
  \A w \in Worker : running[w].pc = "read" =>
    /\ running[w].task \in CamTask /\ running[w].bind \in CamBindings /\ running[w].enabled \in BOOLEAN
    /\ running[w].enabled => running[w].desired \in [Bound(running[w].bind) -> CamPlay]
    /\ ~running[w].enabled => DOMAIN running[w].desired = {}

BoundHaveRows == Bound(bind) \subseteq Rows /\ (row.kind = "none" => Rows = {})

\* A profile without a row is not played, and nothing is about to play it.
RowlessUnplayed == \A p \in Profile \ Rows : proxy[p] = NoPlay /\ viewing[p] = NoPlay /\ ~MayStart(p)

\* A profile to be played anew is bound, and the task that does it has seen that.
RestartsBound ==
  /\ \A p \in Profile \ loose : RestartQueued(p) \/ Restarting(p) => p \in Bound(bind)
  /\ \A p \in Profile \ loose, w \in Worker :
       running[w].pc = "read" /\ p \in running[w].task.targets => p \in Bound(running[w].bind)

OneAtATime == ~overtaken => \A v, w \in Worker : running[v].pc = "read" /\ running[w].pc = "read" => v = w

Awaited(p) == RestartQueued(p) \/ Restarting(p)
PlaysAreCurrent ==
  ~lost /\ ~overtaken =>
    \A p \in Profile \ loose :
      /\ proxy[p] \in {NoPlay, ResolveStreamUri(p)} \/ Awaited(p)
      /\ \A w \in Worker : running[w].pc = "read" /\ p \in DOMAIN running[w].desired =>
           running[w].desired[p] = ResolveStreamUri(p) \/ RestartQueued(p)

\* What an import verifies: whatever its device offers, or whatever rows the camera had.
ImportsCover ==
  \A s \in Slot :
    LET r == request[s] IN
    /\ r.kind = "import" => row.kind # "manual"
    /\ r.kind = "refresh" => row.kind = "onvif"
    /\ r.kind = "import" /\ r.pc \in {"listed", "probed"} =>
         /\ r.need # {}
         /\ IF r.confirm THEN row.kind = "onvif" /\ Rows \subseteq r.need \cup late ELSE r.need = Usable(r.seen)

\* A verification of the current revision has read what the rows hold.
VerifiesFenced ==
  \A s \in Slot :
    LET r == request[s] IN
    r.kind = "verify" =>
      /\ r.p \in Rows /\ r.revision <= row.revision
      /\ r.revision = row.revision /\ r.p \in Bound(bind) => r.play = ResolveStreamUri(r.p)

ConfigInv ==
  /\ ConfigTypeOK /\ TasksRead /\ BoundHaveRows /\ RowlessUnplayed /\ RestartsBound /\ OneAtATime
  /\ PlaysAreCurrent /\ ImportsCover /\ VerifiesFenced

LEMMA ConfigInvFollows == ConfigInv => ProxyFollowsConfig
BY DEF ConfigInv, ConfigTypeOK, CamBindings, PlaysAreCurrent, Awaited, RestartQueued, Restarting,
   ProxyFollowsConfig, Settled, Bound

LEMMA RequestKinds ==
  ASSUME NEW r \in CamRequest
  PROVE  /\ r.kind \in {"import", "refresh"} <=> r \in DeviceRequests
         /\ r.kind \in {"verify", "probe"} <=> r \in StreamRequests
         /\ r.kind = "queue" <=> r \in QueueRequests
         /\ r.pc = "queue" <=> r \in QueueRequests
         /\ r.pc \in {"inspected", "listed", "probed"} <=> r \in DeviceRequests
         /\ r.pc \in {"read", "ok", "bad"} <=> r \in StreamRequests
         /\ r.kind = "none" <=> r = NoRequest
         /\ r.kind \in {"none", "queue", "import", "refresh", "verify", "probe"}
BY DEF CamRequest, QueueRequests, DeviceRequests, StreamRequests, NoRequest

LEMMA ConfigStart == ConfigInit => ConfigInv
<1> SUFFICES ASSUME ConfigInit PROVE ConfigInv
  OBVIOUS
<1> USE ProfilesAssumption
<1> PICK ps \in {Profile, {High}}, h \in {0, 1} :
      /\ dev = [hw |-> h, cred |-> 1, at |-> [p \in Profile |-> IF p \in ps THEN 1 ELSE 0]]
      /\ (ps = Profile /\ Unconfigured) \/ Imported(ps)
  BY DEF ConfigInit
<1>1. NoSource \in CamSource /\ NoPlay \in CamPlay /\ NoRequest \in CamRequest
  BY DEF NoSource, NoPlay, CamSource, CamPlay, CamRequest
<1>2. dev \in CamDevice
  BY DEF CamDevice
<1>3. \A p \in Profile : SourceOn(dev, p) \in CamSource /\ (p \in ps => SourceOn(dev, p) # NoSource)
  BY DEF SourceOn, NoSource, CamSource
<1>4. DefaultBindings(ps) \in CamBindings /\ Bound(DefaultBindings(ps)) \subseteq ps
  BY DEF DefaultBindings, CamBindings, Bound, Profile
<1>5. ConfigTypeOK
  <2>1. prof \in [Profile -> [src : CamSource, status : {"none", "configured", "available", "unavailable"},
                              drift : BOOLEAN]]
    <3>1. NoRow \in [src : CamSource, status : {"none", "configured", "available", "unavailable"},
                     drift : BOOLEAN]
      BY <1>1 DEF NoRow
    <3>2. CASE Unconfigured
      BY <3>1, <3>2 DEF Unconfigured
    <3>3. CASE Imported(ps)
      <4>1. \A p \in Profile : [src |-> SourceOn(dev, p), status |-> "available", drift |-> FALSE]
              \in [src : CamSource, status : {"none", "configured", "available", "unavailable"},
                   drift : BOOLEAN]
        BY <1>3
      <4> QED
        BY <3>1, <3>3, <4>1 DEF Imported
    <3> QED
      BY <3>2, <3>3
  <2>2. row \in [kind : {"none", "manual", "onvif"}, hw : Nat, cred : Nat, enabled : BOOLEAN,
                 retired : BOOLEAN, revision : Nat]
    <3>1. CASE Unconfigured
      BY <3>1 DEF Unconfigured
    <3>2. CASE Imported(ps)
      BY <3>2 DEF Imported
    <3> QED
      BY <3>1, <3>2
  <2>3. bind \in CamBindings
    BY <1>4 DEF Unconfigured, Imported, CamBindings
  <2>4. tasks \in Seq(CamTask)
    BY DEF ConfigInit
  <2>5. /\ request \in [Slot -> CamRequest]
        /\ proxy \in [Profile -> CamPlay] /\ viewing \in [Profile -> CamPlay]
    BY <1>1 DEF ConfigInit
  <2> QED
    BY <1>2, <2>1, <2>2, <2>3, <2>4, <2>5 DEF ConfigInit, ConfigTypeOK, Idle
<1>6. BoundHaveRows
  <2>1. CASE Unconfigured
    BY <2>1 DEF Unconfigured, BoundHaveRows, Bound, Rows, NoRow
  <2>2. CASE Imported(ps)
    BY <1>3, <1>4, <2>2 DEF BoundHaveRows, Imported, Rows, Profile
  <2> QED
    BY <2>1, <2>2
<1>7. (\A w \in Worker : running[w].pc = "idle") /\ (\A s \in Slot : request[s] = NoRequest) /\ tasks = << >>
      /\ \A p \in Profile : proxy[p] = NoPlay /\ viewing[p] = NoPlay
  BY DEF ConfigInit, Idle
<1>8. TasksRead /\ OneAtATime /\ RowlessUnplayed
  BY <1>7 DEF TasksRead, OneAtATime, RowlessUnplayed, MayStart
<1>9. RestartsBound /\ PlaysAreCurrent
  BY <1>7 DEF RestartsBound, PlaysAreCurrent, RestartQueued, Restarting, NoRequest
<1>10. ImportsCover /\ VerifiesFenced
  BY <1>7 DEF ImportsCover, VerifiesFenced, NoRequest
<1> QED
  BY <1>5, <1>6, <1>8, <1>9, <1>10 DEF ConfigInv

\* Requests that only read, or end: the rows and the runtime stay, no task is queued.
LEMMA RequestMoves ==
  ASSUME ConfigInv, NEW s \in Slot,
         request' \in [Slot -> CamRequest], \A t \in Slot \ {s} : request'[t] = request[t],
         request[s].pc # "queue", request'[s].pc # "queue",
         dev' \in CamDevice, UNCHANGED <<dbVars, runtimeVars, historyVars>>,
         LET r == request'[s] IN
           /\ r.kind = "import" => row.kind # "manual"
           /\ r.kind = "refresh" => row.kind = "onvif"
           /\ r.kind = "import" /\ r.pc \in {"listed", "probed"} =>
                /\ r.need # {}
                /\ IF r.confirm THEN row.kind = "onvif" /\ Rows \subseteq r.need \cup late
                   ELSE r.need = Usable(r.seen)
           /\ r.kind = "verify" =>
                /\ r.p \in Rows /\ r.revision <= row.revision
                /\ r.revision = row.revision /\ r.p \in Bound(bind) => r.play = ResolveStreamUri(r.p)
  PROVE  ConfigInv'
<1> USE DEF ConfigInv, dbVars, runtimeVars, historyVars
<1>1. ConfigTypeOK'
  BY DEF ConfigTypeOK
<1>2. TasksRead' /\ BoundHaveRows' /\ OneAtATime'
  BY DEF TasksRead, BoundHaveRows, OneAtATime, Rows, Bound
<1>3. Rows' = Rows /\ Bound(bind)' = Bound(bind) /\ \A p : ResolveStreamUri(p)' = ResolveStreamUri(p)
  BY DEF Rows, Bound, ResolveStreamUri
<1>4. \A p \in Profile : RestartQueued(p)' = RestartQueued(p) /\ Restarting(p)' = Restarting(p)
                         /\ MayStart(p)' = MayStart(p)
  BY DEF RestartQueued, Restarting, MayStart
<1>5. RowlessUnplayed'
  BY <1>3, <1>4 DEF RowlessUnplayed
<1>6. RestartsBound'
  BY <1>3, <1>4 DEF RestartsBound, Bound
<1>7. PlaysAreCurrent'
  BY <1>3, <1>4 DEF PlaysAreCurrent, Awaited
<1>8. ImportsCover'
  BY <1>3 DEF ImportsCover, Usable
<1>9. VerifiesFenced'
  BY <1>3 DEF VerifiesFenced
<1> QED
  BY <1>1, <1>2, <1>5, <1>6, <1>7, <1>8, <1>9

LEMMA RequestReads ==
  ASSUME ConfigInv, NEW s \in Slot,
         \/ ResolveImport(s) \/ ProbeListed(s) \/ ListForRefresh(s) \/ ProbeStream(s)
         \/ InspectForRefresh(s) \/ \E c \in BOOLEAN : InspectForImport(s, c)
         \/ \E p \in Profile : BeginVerify(s, p) \/ BeginProbe(s, p)
  PROVE  ConfigInv'
<1> USE DEF ConfigInv
<1>1. request[s] \in CamRequest /\ NoRequest \in CamRequest /\ DOMAIN request = Slot
  BY DEF ConfigTypeOK, CamRequest
<1>2. ASSUME NEW r \in CamRequest, r.pc # "queue", request[s].pc # "queue",
             request' = [request EXCEPT ![s] = r],
             dev' = dev, UNCHANGED <<dbVars, runtimeVars, historyVars>>,
             /\ r.kind = "import" => row.kind # "manual"
             /\ r.kind = "refresh" => row.kind = "onvif"
             /\ r.kind = "import" /\ r.pc \in {"listed", "probed"} =>
                  /\ r.need # {}
                  /\ IF r.confirm THEN row.kind = "onvif" /\ Rows \subseteq r.need \cup late
                     ELSE r.need = Usable(r.seen)
             /\ r.kind = "verify" =>
                  /\ r.p \in Rows /\ r.revision <= row.revision
                  /\ r.revision = row.revision /\ r.p \in Bound(bind) => r.play = ResolveStreamUri(r.p)
      PROVE  ConfigInv'
  <2>1. request' \in [Slot -> CamRequest] /\ request'[s] = r /\ \A t \in Slot \ {s} : request'[t] = request[t]
    BY <1>2 DEF ConfigTypeOK
  <2> QED
    BY <1>2, <2>1, RequestMoves DEF ConfigTypeOK
<1>3. ASSUME request' = [request EXCEPT ![s] = NoRequest], request[s].pc # "queue",
             dev' = dev, UNCHANGED <<dbVars, runtimeVars, historyVars>>
      PROVE  ConfigInv'
  BY <1>1, <1>2, <1>3 DEF NoRequest
<1>4. CASE ResolveImport(s)
  <2> DEFINE need == ImportVerificationProfiles(request[s].seen)
             r == [request[s] EXCEPT !.pc = "listed", !.need = need, !.confirm = row.kind = "onvif"]
  <2>1. request[s] \in DeviceRequests /\ request[s].kind = "import"
    BY <1>1, <1>4, RequestKinds DEF ResolveImport
  <2>2. need \in SUBSET Profile
    BY <2>1 DEF ImportVerificationProfiles, Usable, Rows
  <2>3. r \in DeviceRequests
    BY <2>1, <2>2 DEF DeviceRequests
  <2>4. r.kind = "import" /\ r.pc = "listed" /\ r.need = need /\ r.confirm = (row.kind = "onvif")
        /\ r.seen = request[s].seen
    BY <2>1 DEF DeviceRequests
  <2>5. CASE request' = [request EXCEPT ![s] = r]
    <3>1. IF r.confirm THEN row.kind = "onvif" /\ Rows \subseteq r.need \cup late ELSE r.need = Usable(r.seen)
      BY <2>4 DEF ImportVerificationProfiles
    <3>4. r.need # {}
      <4>1. request' # [request EXCEPT ![s] = NoRequest] \/ r = NoRequest
        BY <1>1, <2>5
      <4>2. r # NoRequest
        BY <2>4 DEF NoRequest
      <4> QED
        BY <1>4, <2>4, <4>1, <4>2 DEF ResolveImport, Goto, End
    <3>2. row.kind # "manual"
      BY <2>1 DEF ImportsCover
    <3>3. r \in CamRequest /\ request[s].pc # "queue"
      BY <1>4, <2>3 DEF CamRequest, ResolveImport
    <3> HIDE DEF r
    <3> QED
      BY <1>2, <1>4, <2>4, <2>5, <3>1, <3>2, <3>3, <3>4 DEF ResolveImport
  <2> HIDE DEF r
  <2>6. CASE request' = [request EXCEPT ![s] = NoRequest]
    BY <1>3, <1>4, <2>6 DEF ResolveImport
  <2> QED
    BY <1>4, <2>5, <2>6 DEF ResolveImport, Goto, End, r
<1>5. CASE ProbeListed(s)
  <2> DEFINE r == [request[s] EXCEPT !.pc = "probed"]
  <2>1. request[s] \in DeviceRequests
    BY <1>1, <1>5, RequestKinds DEF ProbeListed
  <2>2. r \in CamRequest
    BY <2>1 DEF DeviceRequests, CamRequest
  <2>3. r.kind = request[s].kind /\ r.pc = "probed" /\ r.need = request[s].need /\ r.confirm = request[s].confirm
        /\ r.seen = request[s].seen /\ request[s].pc = "listed" /\ request[s].kind \in {"import", "refresh"}
    BY <1>5, <2>1 DEF DeviceRequests, ProbeListed
  <2> HIDE DEF r
  <2>4. CASE request' = [request EXCEPT ![s] = r]
    BY <1>2, <1>5, <2>2, <2>3, <2>4 DEF ProbeListed, ImportsCover
  <2>5. CASE request' = [request EXCEPT ![s] = NoRequest]
    BY <1>3, <1>5, <2>5 DEF ProbeListed
  <2> QED
    BY <1>5, <2>4, <2>5 DEF ProbeListed, Goto, End, r
<1>6. CASE ListForRefresh(s)
  <2> DEFINE r == [request[s] EXCEPT !.pc = "listed", !.need = Unproven(request[s].seen)]
  <2>1. request[s] \in DeviceRequests
    BY <1>1, <1>6, RequestKinds DEF ListForRefresh
  <2>2. r \in CamRequest
    BY <2>1 DEF DeviceRequests, CamRequest, Unproven, Usable
  <2>3. r.kind = "refresh" /\ r.pc = "listed"
    BY <1>6, <2>1 DEF DeviceRequests, ListForRefresh
  <2>4. request' = [request EXCEPT ![s] = r]
    BY <1>6 DEF ListForRefresh, Goto
  <2> HIDE DEF r
  <2> QED
    BY <1>2, <1>6, <2>2, <2>3, <2>4 DEF ListForRefresh, ImportsCover
<1>7. CASE ProbeStream(s)
  <2> PICK v \in {"ok", "bad"} : request' = [request EXCEPT ![s] = [request[s] EXCEPT !.pc = v]]
    BY <1>7 DEF ProbeStream, Goto
  <2> DEFINE r == [request[s] EXCEPT !.pc = v]
  <2>1. request[s] \in StreamRequests
    BY <1>1, <1>7, RequestKinds DEF ProbeStream
  <2>2. r \in CamRequest
    BY <2>1 DEF StreamRequests, CamRequest
  <2>3. r.kind = request[s].kind /\ r.pc = v /\ r.p = request[s].p /\ r.play = request[s].play
        /\ r.revision = request[s].revision /\ request[s].pc = "read" /\ request[s].kind \in {"verify", "probe"}
    BY <1>7, <2>1 DEF StreamRequests, ProbeStream
  <2>4. request' = [request EXCEPT ![s] = r]
    OBVIOUS
  <2> HIDE DEF r
  <2> QED
    BY <1>2, <1>7, <2>2, <2>3, <2>4 DEF ProbeStream, VerifiesFenced
<1>8. ASSUME NEW c \in BOOLEAN, InspectForImport(s, c)
      PROVE  ConfigInv'
  <2> DEFINE r == [kind |-> "import", pc |-> "inspected", seen |-> dev, cred |-> dev.cred,
                   need |-> {}, confirm |-> c]
  <2>1. r \in CamRequest
    BY DEF ConfigTypeOK, CamDevice, CamRequest, DeviceRequests
  <2>2. request' = [request EXCEPT ![s] = r] /\ request[s].pc # "queue"
    BY <1>8 DEF InspectForImport, Begin, OpenSlot, NoRequest
  <2>3. r.kind = "import" /\ r.pc = "inspected"
    OBVIOUS
  <2> HIDE DEF r
  <2> QED
    BY <1>2, <1>8, <2>1, <2>2, <2>3 DEF InspectForImport
<1>9. CASE InspectForRefresh(s)
  <2> DEFINE r == [kind |-> "refresh", pc |-> "inspected", seen |-> dev, cred |-> row.cred,
                   need |-> {}, confirm |-> FALSE]
  <2>1. r \in CamRequest
    BY DEF ConfigTypeOK, CamDevice, CamRequest, DeviceRequests
  <2>2. request' = [request EXCEPT ![s] = r] /\ request[s].pc # "queue"
    BY <1>9 DEF InspectForRefresh, Begin, OpenSlot, NoRequest
  <2>3. r.kind = "refresh" /\ r.pc = "inspected"
    OBVIOUS
  <2> HIDE DEF r
  <2> QED
    BY <1>2, <1>9, <2>1, <2>2, <2>3 DEF InspectForRefresh
<1>10. ASSUME NEW p \in Profile, BeginVerify(s, p) \/ BeginProbe(s, p)
       PROVE  ConfigInv'
  <2> PICK k \in {"verify", "probe"} :
        request' = [request EXCEPT ![s] = [kind |-> k, pc |-> "read", p |-> p, play |-> ResolveStreamUri(p),
                                           revision |-> row.revision]]
    BY <1>10 DEF BeginVerify, BeginProbe, Begin
  <2> DEFINE r == [kind |-> k, pc |-> "read", p |-> p, play |-> ResolveStreamUri(p), revision |-> row.revision]
  <2>1. r \in CamRequest
    BY DEF ConfigTypeOK, CamPlay, CamRequest, StreamRequests, ResolveStreamUri
  <2>2. request' = [request EXCEPT ![s] = r] /\ request[s].pc # "queue"
    BY <1>10 DEF BeginVerify, BeginProbe, Begin, OpenSlot, NoRequest
  <2>3. r.kind = k /\ r.pc = "read" /\ r.p = p /\ r.play = ResolveStreamUri(p) /\ r.revision = row.revision
        /\ row.revision \in Nat /\ p \in Rows
    BY <1>10 DEF ConfigTypeOK, BeginVerify, BeginProbe
  <2>4. dev' = dev /\ UNCHANGED <<dbVars, runtimeVars, historyVars>>
    BY <1>10 DEF BeginVerify, BeginProbe
  <2> HIDE DEF r
  <2>5. r.revision <= row.revision /\ r.kind \notin {"import", "refresh"} /\ r.pc # "queue"
    BY <2>3
  <2> QED
    BY <1>2, <2>1, <2>2, <2>3, <2>4, <2>5
<1> QED
  BY <1>4, <1>5, <1>6, <1>7, <1>8, <1>9, <1>10

LEMMA DeviceKeeps ==
  ASSUME ConfigInv, NEW d \in CamDevice, DeviceChanges(d)
  PROVE  ConfigInv'
<1>1. request' \in [Slot -> CamRequest]
  BY DEF ConfigInv, ConfigTypeOK, DeviceChanges
<1> USE DEF ConfigInv, DeviceChanges, dbVars, runtimeVars, historyVars
<1>2. ConfigTypeOK'
  BY DEF ConfigTypeOK
<1>3. TasksRead' /\ BoundHaveRows' /\ OneAtATime'
  BY DEF TasksRead, BoundHaveRows, OneAtATime, Rows, Bound
<1>4. RowlessUnplayed' /\ RestartsBound'
  BY DEF RowlessUnplayed, RestartsBound, Rows, Bound, RestartQueued, Restarting, MayStart
<1>5. PlaysAreCurrent'
  BY DEF PlaysAreCurrent, Awaited, RestartQueued, Restarting, ResolveStreamUri
<1>6. ImportsCover' /\ VerifiesFenced'
  BY DEF ImportsCover, VerifiesFenced, Usable, Rows, Bound, ResolveStreamUri
<1> QED
  BY <1>2, <1>3, <1>4, <1>5, <1>6

\* The proxies change alone: each goes on, is closed, or plays what a viewer had
\* read, and the profile is loose if that is old and no restart awaits it.
LEMMA ProxyMoves ==
  ASSUME ConfigInv, proxy' \in [Profile -> CamPlay], viewing' \in [Profile -> CamPlay],
         loose' \subseteq Profile, loose \subseteq loose',
         \A p \in Profile :
           \/ proxy'[p] \in {proxy[p], NoPlay}
           \/ p \in Rows /\ (proxy'[p] = ResolveStreamUri(p) \/ Awaited(p) \/ p \in loose'),
         \A p \in Profile : viewing'[p] \in {viewing[p], NoPlay} \/ p \in Rows,
         UNCHANGED <<dev, dbVars, request, tasks, running, lost, overtaken, late>>
  PROVE  ConfigInv'
<1> USE DEF ConfigInv, dbVars
<1>1. ConfigTypeOK'
  BY DEF ConfigTypeOK
<1>2. TasksRead' /\ BoundHaveRows' /\ OneAtATime'
  BY DEF TasksRead, BoundHaveRows, OneAtATime, Rows, Bound
<1>3. Rows' = Rows /\ Bound(bind)' = Bound(bind) /\ \A p : ResolveStreamUri(p)' = ResolveStreamUri(p)
  BY DEF Rows, Bound, ResolveStreamUri
<1>4. \A p \in Profile : RestartQueued(p)' = RestartQueued(p) /\ Restarting(p)' = Restarting(p)
                         /\ MayStart(p)' = MayStart(p)
  BY DEF RestartQueued, Restarting, MayStart
<1>5. RowlessUnplayed'
  BY <1>3, <1>4 DEF RowlessUnplayed
<1>6. RestartsBound'
  BY <1>3, <1>4 DEF RestartsBound, Bound
<1>7. PlaysAreCurrent'
  BY <1>3, <1>4 DEF PlaysAreCurrent, Awaited
<1>8. ImportsCover'
  BY <1>3 DEF ImportsCover, Usable
<1>9. VerifiesFenced'
  BY <1>3 DEF VerifiesFenced
<1> QED
  BY <1>1, <1>2, <1>5, <1>6, <1>7, <1>8, <1>9

LEMMA ViewersKeep ==
  ASSUME ConfigInv, NEW p \in Profile, ViewLive(p) \/ AddViewed(p) \/ AutoClose(p)
  PROVE  ConfigInv'
<1>1. NoPlay \in CamPlay /\ \A q \in Profile : ResolveStreamUri(q) \in CamPlay
  BY DEF ConfigInv, ConfigTypeOK, NoPlay, NoSource, CamPlay, CamSource, ResolveStreamUri
<1>2. proxy \in [Profile -> CamPlay] /\ viewing \in [Profile -> CamPlay] /\ loose \subseteq Profile
  BY DEF ConfigInv, ConfigTypeOK
<1>3. CASE ViewLive(p)
  <2>1. viewing' \in [Profile -> CamPlay] /\ \A q \in Profile : viewing'[q] = viewing[q] \/ q \in Rows
    BY <1>1, <1>2, <1>3 DEF ViewLive
  <2> QED
    BY <1>2, <1>3, <2>1, ProxyMoves DEF ViewLive, historyVars
<1>4. CASE AddViewed(p)
  <2>1. viewing' \in [Profile -> CamPlay] /\ \A q \in Profile : viewing'[q] \in {viewing[q], NoPlay}
    BY <1>1, <1>2, <1>4 DEF AddViewed
  <2>2. p \in Rows
    BY <1>4 DEF AddViewed, ConfigInv, RowlessUnplayed
  <2>3. proxy' \in [Profile -> CamPlay] /\ (\A q \in Profile \ {p} : proxy'[q] = proxy[q])
        /\ (proxy'[p] = proxy[p] \/ proxy'[p] = viewing[p])
    BY <1>2, <1>4 DEF AddViewed
  <2>4. loose' \subseteq Profile /\ loose \subseteq loose'
    BY <1>2, <1>4 DEF AddViewed
  <2>5. proxy'[p] = proxy[p] \/ proxy'[p] = ResolveStreamUri(p) \/ Awaited(p) \/ p \in loose'
    BY <1>4, <2>3 DEF AddViewed, Awaited
  <2>6. UNCHANGED <<dev, dbVars, request, tasks, running, lost, overtaken, late>>
    BY <1>4 DEF AddViewed
  <2> QED
    BY <2>1, <2>2, <2>3, <2>4, <2>5, <2>6, ProxyMoves
<1>5. CASE AutoClose(p)
  <2>1. proxy' \in [Profile -> CamPlay] /\ \A q \in Profile : proxy'[q] \in {proxy[q], NoPlay}
    BY <1>1, <1>2, <1>5 DEF AutoClose
  <2> QED
    BY <1>2, <1>5, <2>1, ProxyMoves DEF AutoClose, historyVars
<1> QED
  BY <1>3, <1>4, <1>5

\* Whoever waits for its restart goes on waiting.
LEMMA QueueKeeps ==
  ASSUME ConfigInv, NEW s \in Slot, QueueTask(s) \/ QueueUnavailable(s)
  PROVE  ConfigInv'
<1> USE DEF ConfigInv, dbVars
<1>1. request[s] \in CamRequest /\ request[s].pc = "queue"
  BY DEF QueueTask, QueueUnavailable, ConfigTypeOK
<1>2. request[s].task \in CamTask
  BY <1>1, RequestKinds DEF QueueRequests
<1>3. /\ request' \in [Slot -> CamRequest] /\ request'[s] = NoRequest
      /\ \A t \in Slot \ {s} : request'[t] = request[t]
  BY DEF ConfigTypeOK, QueueTask, QueueUnavailable, End, Goto, CamRequest
<1>4. /\ UNCHANGED <<dev, row, prof, bind, running, proxy, viewing, overtaken, late, loose>>
      /\ \/ tasks' = Append(tasks, request[s].task) /\ lost' = lost
         \/ tasks' = tasks /\ lost' = TRUE
  BY DEF QueueTask, QueueUnavailable, dbVars, runtimeVars, historyVars
<1>5. ConfigTypeOK'
  <2>1. tasks' \in Seq(CamTask)
    BY <1>2, <1>4 DEF ConfigTypeOK
  <2>2. lost' \in BOOLEAN
    BY <1>4, Zenon DEF ConfigTypeOK
  <2> QED
    BY <1>3, <1>4, <2>1, <2>2 DEF ConfigTypeOK
<1>6. TasksRead' /\ BoundHaveRows' /\ OneAtATime' /\ RowlessUnplayed'
  BY <1>4 DEF TasksRead, BoundHaveRows, OneAtATime, Rows, Bound, RowlessUnplayed, MayStart
<1>7. ASSUME NEW p \in Profile
      PROVE  /\ RestartQueued(p)' => RestartQueued(p)
             /\ ~lost' /\ RestartQueued(p) => RestartQueued(p)'
  <2>1. tasks \in Seq(CamTask)
    BY DEF ConfigTypeOK
  <2>2. CASE tasks' = Append(tasks, request[s].task)
    <3>1. /\ DOMAIN tasks' = DOMAIN tasks \cup {Len(tasks) + 1}
          /\ \A i \in DOMAIN tasks : tasks'[i] = tasks[i]
          /\ tasks'[Len(tasks) + 1] = request[s].task
      BY <1>2, <2>1, <2>2
    <3> QED
      BY <1>1, <1>3, <3>1 DEF RestartQueued, NoRequest
  <2>3. CASE tasks' = tasks /\ lost' = TRUE
    BY <1>3, <2>3 DEF RestartQueued, NoRequest
  <2> QED
    BY <1>4, <2>2, <2>3
<1>8. \A p \in Profile : Restarting(p)' = Restarting(p) /\ ResolveStreamUri(p)' = ResolveStreamUri(p)
  BY <1>4 DEF Restarting, ResolveStreamUri
<1>9. RestartsBound'
  BY <1>4, <1>7, <1>8 DEF RestartsBound, Bound
<1>10. PlaysAreCurrent'
  BY <1>4, <1>7, <1>8 DEF PlaysAreCurrent, Awaited
<1>11. ImportsCover'
  BY <1>3, <1>4 DEF ImportsCover, Usable, Rows, NoRequest
<1>12. VerifiesFenced'
  BY <1>3, <1>4 DEF VerifiesFenced, Rows, Bound, ResolveStreamUri, NoRequest
<1> QED
  BY <1>5, <1>6, <1>9, <1>10, <1>11, <1>12

LEMMA TakenTask ==
  ASSUME NEW ts \in Seq(CamTask), ts # << >>, NEW p
  PROVE  /\ Head(ts) \in CamTask /\ Tail(ts) \in Seq(CamTask)
         /\ (\E i \in DOMAIN ts : p \in ts[i].targets)
              <=> (p \in Head(ts).targets \/ \E i \in DOMAIN Tail(ts) : p \in Tail(ts)[i].targets)
<1>1. /\ Head(ts) = ts[1] /\ DOMAIN ts = 1..Len(ts) /\ Len(ts) \in Nat \ {0}
      /\ DOMAIN Tail(ts) = 1..(Len(ts) - 1) /\ \A i \in 1..(Len(ts) - 1) : Tail(ts)[i] = ts[i + 1]
  OBVIOUS
<1>2. \A i \in DOMAIN ts : i = 1 \/ (i - 1 \in DOMAIN Tail(ts) /\ Tail(ts)[i - 1] = ts[i])
  BY <1>1
<1>3. \A i \in DOMAIN Tail(ts) : i + 1 \in DOMAIN ts /\ Tail(ts)[i] = ts[i + 1]
  BY <1>1
<1>4. Head(ts) \in CamTask /\ Tail(ts) \in Seq(CamTask) /\ 1 \in DOMAIN ts
  BY <1>1
<1> QED
  BY <1>1, <1>2, <1>3, <1>4

LEMMA ReadKeeps ==
  ASSUME ConfigInv, NEW w \in Worker, ReadForReconcile(w)
  PROVE  ConfigInv'
<1> USE DEF ConfigInv, dbVars
<1> DEFINE j == running'[w]
<1>1. /\ UNCHANGED <<dev, row, prof, bind, request, proxy, viewing, lost, late, loose>>
      /\ overtaken' = (overtaken \/ \E v \in Worker : running[v].pc # "idle")
      /\ tasks # << >> /\ tasks' = Tail(tasks) /\ running[w].pc = "idle"
  BY DEF ReadForReconcile
<1>2. /\ DOMAIN running' = Worker /\ \A v \in Worker \ {w} : running'[v] = running[v]
      /\ j.pc = "read" /\ j.task = Head(tasks) /\ j.enabled = row.enabled /\ j.bind = bind
      /\ j.desired = DesiredStreams
  BY DEF ReadForReconcile, ConfigTypeOK
<1> HIDE DEF j
<1>3. tasks \in Seq(CamTask) /\ j.task \in CamTask /\ tasks' \in Seq(CamTask)
  BY <1>1, <1>2, TakenTask DEF ConfigTypeOK
<1>4. \A p \in Profile : ResolveStreamUri(p)' = ResolveStreamUri(p) /\ ResolveStreamUri(p) \in CamPlay
  BY <1>1 DEF ResolveStreamUri, ConfigTypeOK, CamPlay
<1>5. Bound(bind) \subseteq Profile /\ Bound(bind)' = Bound(bind) /\ Rows' = Rows
  BY <1>1 DEF Bound, ConfigTypeOK, CamBindings, Rows
<1>6. /\ row.enabled => j.desired = [p \in Bound(bind) |-> ResolveStreamUri(p)]
      /\ ~row.enabled => DOMAIN j.desired = {}
  BY <1>2 DEF DesiredStreams
<1>7. ASSUME NEW p \in DOMAIN j.desired
      PROVE  p \in Bound(bind) /\ j.desired[p] = ResolveStreamUri(p)
  BY <1>6, <1>7
<1>8. ConfigTypeOK'
  <2>1. overtaken' \in BOOLEAN
    BY <1>1
  <2>2. \A v \in Worker : running'[v].pc \in {"idle", "read"}
    BY <1>2 DEF ConfigTypeOK, j
  <2> QED
    BY <1>1, <1>2, <1>3, <2>1, <2>2 DEF ConfigTypeOK
<1>9. TasksRead'
  <2>1. /\ j.task \in CamTask /\ j.bind \in CamBindings /\ j.enabled \in BOOLEAN
        /\ j.enabled => j.desired \in [Bound(j.bind) -> CamPlay]
        /\ ~j.enabled => DOMAIN j.desired = {}
    BY <1>2, <1>3, <1>4, <1>5, <1>6 DEF ConfigTypeOK
  <2> QED
    BY <1>2, <2>1 DEF TasksRead, j, Bound
<1>10. BoundHaveRows'
  BY <1>1, <1>5 DEF BoundHaveRows
<1>11. OneAtATime'
  BY <1>1, <1>2 DEF OneAtATime, ConfigTypeOK
<1>12. RowlessUnplayed'
  <2>1. \A p \in Profile : MayStart(p)' => MayStart(p) \/ p \in Bound(bind)
    BY <1>2, <1>7 DEF MayStart, j
  <2> QED
    BY <1>1, <1>5, <2>1 DEF RowlessUnplayed, BoundHaveRows
<1>13. ASSUME NEW p \in Profile
       PROVE  /\ RestartQueued(p)' => RestartQueued(p)
              /\ RestartQueued(p) => RestartQueued(p)' \/ p \in j.task.targets
              /\ p \in j.task.targets => RestartQueued(p)
  BY <1>1, <1>2, <1>3, TakenTask DEF RestartQueued
<1>14. \A p \in Profile : Restarting(p)' <=> (Restarting(p) \/ p \in j.task.targets)
  BY <1>1, <1>2 DEF Restarting, j
<1>15. RestartsBound'
  <2>1. \A p \in Profile \ loose' : RestartQueued(p)' \/ Restarting(p)' => p \in Bound(bind)'
    BY <1>1, <1>5, <1>13, <1>14 DEF RestartsBound
  <2>2. \A p \in Profile \ loose : p \in j.task.targets => p \in Bound(j.bind)
    BY <1>2, <1>13 DEF RestartsBound
  <2> QED
    BY <1>1, <1>2, <2>1, <2>2 DEF RestartsBound, j, Bound
<1>16. PlaysAreCurrent'
  <2> SUFFICES ASSUME ~lost', ~overtaken', NEW p \in Profile \ loose'
               PROVE  /\ (proxy[p] \in {NoPlay, ResolveStreamUri(p)} \/ Awaited(p))'
                      /\ \A v \in Worker : running'[v].pc = "read" /\ p \in DOMAIN running'[v].desired =>
                           running'[v].desired[p] = ResolveStreamUri(p)' \/ RestartQueued(p)'
    BY DEF PlaysAreCurrent
  <2>1. ~lost /\ ~overtaken /\ \A v \in Worker : running[v].pc = "idle"
    BY <1>1
  <2>2. proxy[p] \in {NoPlay, ResolveStreamUri(p)} \/ Awaited(p)
    BY <1>1, <2>1 DEF PlaysAreCurrent
  <2>3. Awaited(p) => Awaited(p)'
    BY <1>13, <1>14 DEF Awaited
  <2>4. \A v \in Worker : running'[v].pc = "read" => v = w
    BY <1>2, <2>1
  <2> QED
    BY <1>1, <1>4, <1>7, <2>2, <2>3, <2>4 DEF j
<1>17. ImportsCover' /\ VerifiesFenced'
  BY <1>1 DEF ImportsCover, VerifiesFenced, Usable, Rows, Bound, ResolveStreamUri
<1> QED
  BY <1>8, <1>9, <1>10, <1>11, <1>12, <1>15, <1>16, <1>17

LEMMA FailsKeeps ==
  ASSUME ConfigInv, NEW w \in Worker, ReconcileFails(w)
  PROVE  ConfigInv'
<1> USE DEF ConfigInv, dbVars, historyVars
<1>1. /\ UNCHANGED <<dev, row, prof, bind, request, proxy, viewing, lost, overtaken, late, loose>>
      /\ tasks' = Append(tasks, running[w].task) /\ running[w].pc = "read"
      /\ DOMAIN running' = Worker /\ \A v \in Worker \ {w} : running'[v] = running[v]
      /\ running'[w].pc = "idle"
  BY DEF ReconcileFails, ConfigTypeOK, Idle
<1>2. tasks \in Seq(CamTask) /\ running[w].task \in CamTask
  BY <1>1 DEF ConfigTypeOK, TasksRead
<1>3. ConfigTypeOK'
  <2>1. tasks' \in Seq(CamTask)
    BY <1>1, <1>2
  <2>2. \A v \in Worker : running'[v].pc \in {"idle", "read"}
    BY <1>1 DEF ConfigTypeOK
  <2> QED
    BY <1>1, <2>1, <2>2 DEF ConfigTypeOK
<1>4. TasksRead' /\ BoundHaveRows' /\ OneAtATime' /\ RowlessUnplayed'
  BY <1>1 DEF TasksRead, BoundHaveRows, OneAtATime, Rows, Bound, RowlessUnplayed, MayStart
<1>5. ASSUME NEW p \in Profile
      PROVE  RestartQueued(p)' <=> (RestartQueued(p) \/ p \in running[w].task.targets)
  <2>1. /\ DOMAIN tasks' = DOMAIN tasks \cup {Len(tasks) + 1}
        /\ \A i \in DOMAIN tasks : tasks'[i] = tasks[i]
        /\ tasks'[Len(tasks) + 1] = running[w].task
    BY <1>1, <1>2
  <2> QED
    BY <1>1, <2>1 DEF RestartQueued
<1>6. ASSUME NEW p \in Profile
      PROVE  /\ Restarting(p)' => Restarting(p) /\ (p \in running[w].task.targets => Restarting(p))
             /\ Restarting(p) => Restarting(p)' \/ p \in running[w].task.targets
  BY <1>1 DEF Restarting
<1>7. RestartsBound'
  <2>1. \A p \in Profile : p \in running[w].task.targets => Restarting(p)
    BY <1>1 DEF Restarting
  <2>2. \A p \in Profile \ loose' : RestartQueued(p)' \/ Restarting(p)' => p \in Bound(bind)'
    BY <1>1, <1>5, <1>6, <2>1 DEF RestartsBound, Bound
  <2> QED
    BY <1>1, <2>2 DEF RestartsBound, Bound
<1>8. PlaysAreCurrent'
  BY <1>1, <1>5, <1>6 DEF PlaysAreCurrent, Awaited, ResolveStreamUri
<1>9. ImportsCover' /\ VerifiesFenced'
  BY <1>1 DEF ImportsCover, VerifiesFenced, Usable, Rows, Bound, ResolveStreamUri
<1> QED
  BY <1>3, <1>4, <1>7, <1>8, <1>9

\* What a task does to one proxy.
LEMMA StreamMoves ==
  ASSUME ConfigInv, NEW w \in Worker, ReconcileCameraRuntime(w), NEW p \in Profile
  PROVE  /\ proxy'[p] \in {proxy[p], NoPlay}
              \/ (running[w].enabled /\ p \in DOMAIN running[w].desired /\ proxy'[p] = running[w].desired[p])
         /\ p \in running[w].task.targets /\ p \in Bound(running[w].bind) =>
              \/ proxy'[p] = NoPlay
              \/ running[w].enabled /\ p \in DOMAIN running[w].desired /\ proxy'[p] = running[w].desired[p]
<1> USE ProfilesAssumption
<1> DEFINE j == running[w]
<1>1. /\ j.pc = "read" /\ j.task \in CamTask /\ j.bind \in CamBindings /\ j.enabled \in BOOLEAN
      /\ j.enabled => DOMAIN j.desired = Bound(j.bind)
      /\ ~j.enabled => DOMAIN j.desired = {}
  BY DEF ReconcileCameraRuntime, ConfigInv, TasksRead
<1>2. proxy' = StopStreams(IF j.enabled THEN StartStreams(proxy, j) ELSE StopStreams(proxy, Bound(j.bind)), Abandoned(j))
  BY DEF ReconcileCameraRuntime
<1>3. p = j.bind.record => p \in Bound(j.bind)
  BY DEF Bound, Profile, NoProfile
<1> HIDE DEF j
<1>4. CASE ~j.enabled
  BY <1>1, <1>2, <1>4 DEF StopStreams, j
<1>5. CASE j.enabled
  <2> DEFINE targeted == j.task.targets \cap DOMAIN j.desired
             st == StartStreams(proxy, j)
  <2>1. proxy'[p] \in {st[p], NoPlay}
    BY <1>2, <1>5 DEF StopStreams
  <2>2. /\ st[p] = proxy[p] \/ (p \in DOMAIN j.desired /\ st[p] = j.desired[p])
        /\ p \in targeted => st[p] = NoPlay \/ st[p] = j.desired[p]
    <3>1. CASE targeted \cap {j.bind.record} # {}
      <4>1. st = ReplaceOnlineStreams(ReplaceStreams(proxy, j, {j.bind.record}), j, targeted \ {j.bind.record})
        BY <3>1 DEF StartStreams
      <4> QED
        BY <1>1, <1>3, <1>5, <4>1 DEF ReplaceOnlineStreams, ReplaceStreams
    <3>2. CASE targeted \cap {j.bind.record} = {}
      <4>1. st = EnsureStreams(ReplaceOnlineStreams(proxy, j, targeted), j, {j.bind.record})
        BY <3>2 DEF StartStreams
      <4> QED
        BY <1>1, <1>3, <1>5, <4>1 DEF ReplaceOnlineStreams, ReplaceStreams, EnsureStreams
    <3> QED
      BY <3>1, <3>2
  <2> HIDE DEF st
  <2> QED
    BY <1>1, <1>5, <2>1, <2>2 DEF j
<1> QED
  BY <1>1, <1>4, <1>5

LEMMA ReconcileRuntimeKeeps ==
  ASSUME ConfigInv, NEW w \in Worker, ReconcileCameraRuntime(w)
  PROVE  ConfigInv'
<1> USE DEF ConfigInv, dbVars, historyVars
<1> DEFINE j == running[w]
<1>1. /\ UNCHANGED <<dev, row, prof, bind, request, tasks, viewing, lost, overtaken, late, loose>>
      /\ DOMAIN running' = Worker /\ \A v \in Worker \ {w} : running'[v] = running[v]
      /\ running'[w].pc = "idle" /\ j.pc = "read"
  BY DEF ReconcileCameraRuntime, ConfigTypeOK, Idle
<1>2. \A p \in Profile : p \in DOMAIN j.desired => j.desired[p] \in CamPlay
  BY <1>1 DEF TasksRead
<1>3. ConfigTypeOK'
  <2>1. \A p \in Profile : proxy'[p] \in CamPlay
    <3>1. NoPlay \in CamPlay
      BY DEF NoPlay, NoSource, CamPlay, CamSource
    <3> QED
      BY <1>2, <3>1, StreamMoves DEF ConfigTypeOK
  <2>2. proxy' \in [Profile -> CamPlay]
    <3>1. \E f : proxy' = [p \in Profile |-> f[p]]
      BY DEF ReconcileCameraRuntime, StopStreams
    <3> QED
      BY <2>1, <3>1
  <2>3. \A v \in Worker : running'[v].pc \in {"idle", "read"}
    BY <1>1 DEF ConfigTypeOK
  <2> QED
    BY <1>1, <2>2, <2>3 DEF ConfigTypeOK
<1>4. TasksRead' /\ BoundHaveRows' /\ OneAtATime'
  BY <1>1 DEF TasksRead, BoundHaveRows, OneAtATime, Rows, Bound
<1>5. RowlessUnplayed'
  <2>1. \A p \in Profile : MayStart(p)' => MayStart(p)
    BY <1>1 DEF MayStart
  <2>2. \A p \in Profile : p \in DOMAIN j.desired => MayStart(p)
    BY <1>1 DEF MayStart
  <2>3. Rows' = Rows
    BY <1>1 DEF Rows
  <2>4. SUFFICES ASSUME NEW p \in Profile \ Rows
                 PROVE  proxy'[p] = NoPlay /\ viewing'[p] = NoPlay /\ ~MayStart(p)'
    BY <2>3 DEF RowlessUnplayed
  <2>5. proxy[p] = NoPlay /\ viewing[p] = NoPlay /\ ~MayStart(p)
    BY DEF RowlessUnplayed
  <2>6. proxy'[p] \in {proxy[p], NoPlay}
    BY <2>2, <2>5, StreamMoves
  <2> QED
    BY <1>1, <2>1, <2>5, <2>6
<1>6. ASSUME NEW p \in Profile
      PROVE  /\ RestartQueued(p)' = RestartQueued(p)
             /\ Restarting(p)' => Restarting(p)
             /\ Restarting(p) => Restarting(p)' \/ p \in j.task.targets
             /\ ResolveStreamUri(p)' = ResolveStreamUri(p)
  BY <1>1 DEF RestartQueued, Restarting, ResolveStreamUri
<1>7. RestartsBound'
  BY <1>1, <1>6 DEF RestartsBound, Bound
<1>8. PlaysAreCurrent'
  <2> SUFFICES ASSUME ~lost, ~overtaken, NEW p \in Profile \ loose
               PROVE  /\ (proxy[p] \in {NoPlay, ResolveStreamUri(p)} \/ Awaited(p))'
                      /\ \A v \in Worker : running'[v].pc = "read" /\ p \in DOMAIN running'[v].desired =>
                           running'[v].desired[p] = ResolveStreamUri(p)' \/ RestartQueued(p)'
    BY <1>1 DEF PlaysAreCurrent
  <2>1. p \in DOMAIN j.desired => j.desired[p] = ResolveStreamUri(p) \/ RestartQueued(p)
    BY <1>1 DEF PlaysAreCurrent
  <2>2. p \in j.task.targets => p \in Bound(j.bind)
    BY <1>1 DEF RestartsBound
  <2>3. proxy[p] \in {NoPlay, ResolveStreamUri(p)} \/ RestartQueued(p) \/ Restarting(p)
    BY DEF PlaysAreCurrent, Awaited
  <2>4. Restarting(p) => p \in j.task.targets
    BY <1>1 DEF OneAtATime, Restarting
  <2>5. (proxy[p] \in {NoPlay, ResolveStreamUri(p)} \/ Awaited(p))'
    BY <1>6, <2>1, <2>2, <2>3, <2>4, StreamMoves DEF Awaited
  <2>6. \A v \in Worker : running'[v].pc # "read"
    BY <1>1 DEF OneAtATime
  <2> QED
    BY <2>5, <2>6
<1>9. ImportsCover' /\ VerifiesFenced'
  BY <1>1 DEF ImportsCover, VerifiesFenced, Usable, Rows, Bound, ResolveStreamUri
<1> QED
  BY <1>3, <1>4, <1>5, <1>7, <1>8, <1>9

\* A commit: what it must leave in the rows, the bindings and the history for
\* everything else to stay true.
LEMMA CommitMoves ==
  ASSUME ConfigInv, NEW s \in Slot,
         ConfigTypeOK', \A t \in Slot \ {s} : request'[t] = request[t],
         request[s].pc # "queue", request'[s].kind \in {"none", "queue"},
         UNCHANGED <<runtimeVars, lost, overtaken>>,
         loose \subseteq loose', late \subseteq late',
         Rows \subseteq Rows', Bound(bind)' \subseteq Rows',
         row'.kind = "none" => row.kind = "none" /\ Rows' = {},
         row.kind = "none" => row'.kind \in {"none", "onvif"} \/ \A t \in Slot : request[t] = NoRequest,
         row.kind # "none" =>
           /\ row'.kind = row.kind
           /\ \/ Rows' \subseteq Rows \cup late'
              \/ \A t \in Slot : request[t].kind = "import" => request[t].pc \notin {"listed", "probed"},
         request'[s].pc = "queue" => request'[s].task.targets \subseteq Bound(bind)',
         \A p \in Profile \ loose' : Awaited(p) /\ p \in Bound(bind) => p \in Bound(bind)',
         \A p \in Profile \ loose' :
           \/ ResolveStreamUri(p)' = ResolveStreamUri(p)
           \/ request'[s].pc = "queue" /\ p \in request'[s].task.targets
           \/ proxy[p] = NoPlay /\ ~MayStart(p),
         row.revision <= row'.revision,
         \/ row'.revision # row.revision \/ Rows = {}
         \/ bind' = bind /\ \A p \in Bound(bind) : ResolveStreamUri(p)' = ResolveStreamUri(p)
  PROVE  ConfigInv'
<1> USE DEF ConfigInv, runtimeVars
<1>1. request[s] \in CamRequest /\ request'[s] \in CamRequest
  BY DEF ConfigTypeOK
<1>2. TasksRead' /\ OneAtATime' /\ BoundHaveRows'
  BY DEF TasksRead, OneAtATime, BoundHaveRows, Bound
<1>3. RowlessUnplayed'
  BY DEF RowlessUnplayed, MayStart
<1>4. ASSUME NEW p \in Profile
      PROVE  /\ RestartQueued(p) => RestartQueued(p)'
             /\ request'[s].pc = "queue" /\ p \in request'[s].task.targets => RestartQueued(p)'
             /\ RestartQueued(p)' => RestartQueued(p) \/ (request'[s].pc = "queue" /\ p \in request'[s].task.targets)
             /\ Restarting(p)' = Restarting(p) /\ MayStart(p)' = MayStart(p)
  BY DEF RestartQueued, Restarting, MayStart
<1>5. RestartsBound'
  <2>1. \A p \in Profile \ loose' : RestartQueued(p)' \/ Restarting(p)' => p \in Bound(bind)'
    BY <1>4 DEF RestartsBound, Awaited
  <2> QED
    BY <2>1 DEF RestartsBound, Bound
<1>6. PlaysAreCurrent'
  <2> SUFFICES ASSUME ~lost', ~overtaken', NEW p \in Profile \ loose'
               PROVE  /\ (proxy[p] \in {NoPlay, ResolveStreamUri(p)} \/ Awaited(p))'
                      /\ \A v \in Worker : running'[v].pc = "read" /\ p \in DOMAIN running'[v].desired =>
                           running'[v].desired[p] = ResolveStreamUri(p)' \/ RestartQueued(p)'
    BY DEF PlaysAreCurrent
  <2>1. /\ proxy[p] \in {NoPlay, ResolveStreamUri(p)} \/ Awaited(p)
        /\ \A v \in Worker : running[v].pc = "read" /\ p \in DOMAIN running[v].desired =>
              running[v].desired[p] = ResolveStreamUri(p) \/ RestartQueued(p)
    BY DEF PlaysAreCurrent
  <2>2. Awaited(p) => Awaited(p)'
    BY <1>4 DEF Awaited
  <2>3. CASE ResolveStreamUri(p)' = ResolveStreamUri(p)
    BY <1>4, <2>1, <2>2, <2>3
  <2>4. CASE request'[s].pc = "queue" /\ p \in request'[s].task.targets
    BY <1>4, <2>4 DEF Awaited
  <2>5. CASE proxy[p] = NoPlay /\ ~MayStart(p)
    BY <2>5 DEF MayStart
  <2> QED
    BY <2>3, <2>4, <2>5
<1>7. ImportsCover'
  <2> SUFFICES ASSUME NEW t \in Slot \ {s}
               PROVE  LET r == request[t] IN
                      /\ r.kind = "import" => row'.kind # "manual"
                      /\ r.kind = "refresh" => row'.kind = "onvif"
                      /\ r.kind = "import" /\ r.pc \in {"listed", "probed"} =>
                           /\ r.need # {}
                           /\ IF r.confirm THEN row'.kind = "onvif" /\ Rows' \subseteq r.need \cup late'
                              ELSE r.need = Usable(r.seen)
    BY DEF ImportsCover, Usable
  <2> QED
    BY DEF ImportsCover, NoRequest
<1>8. VerifiesFenced'
  <2> SUFFICES ASSUME NEW t \in Slot \ {s}, request[t].kind = "verify"
               PROVE  LET r == request[t] IN
                      /\ r.p \in Rows' /\ r.revision <= row'.revision
                      /\ r.revision = row'.revision /\ r.p \in Bound(bind)' => r.play = ResolveStreamUri(r.p)'
    BY DEF VerifiesFenced
  <2>1. request[t].revision \in Nat /\ row.revision \in Nat /\ row'.revision \in Nat
    BY RequestKinds DEF ConfigTypeOK, StreamRequests
  <2>2. /\ request[t].p \in Rows /\ request[t].revision <= row.revision
        /\ request[t].revision = row.revision /\ request[t].p \in Bound(bind)
             => request[t].play = ResolveStreamUri(request[t].p)
    BY DEF VerifiesFenced
  <2>3. CASE row'.revision # row.revision
    BY <2>1, <2>2, <2>3
  <2>4. CASE row'.revision = row.revision
    BY <2>1, <2>2, <2>4 DEF Bound
  <2> QED
    BY <2>3, <2>4
<1> QED
  BY <1>2, <1>3, <1>5, <1>6, <1>7, <1>8

LEMMA VerdictKeeps ==
  ASSUME ConfigInv, NEW s \in Slot, WriteVerdict(s)
  PROVE  ConfigInv'
<1> USE DEF ConfigInv
<1>1. request[s] \in StreamRequests /\ NoRequest \in CamRequest
  BY RequestKinds DEF WriteVerdict, ConfigTypeOK, CamRequest
<1>2. /\ request' \in [Slot -> CamRequest] /\ request'[s] = NoRequest
      /\ \A t \in Slot \ {s} : request'[t] = request[t]
  BY <1>1 DEF ConfigTypeOK, WriteVerdict, End, Goto
<1>3. /\ prof' \in [Profile -> [src : CamSource, drift : BOOLEAN,
                                status : {"none", "configured", "available", "unavailable"}]]
      /\ \A p \in Profile : prof'[p].src = prof[p].src
  <2>1. CASE prof' = prof
    BY <2>1 DEF ConfigTypeOK
  <2>2. ASSUME NEW v \in {"available", "unavailable"}, prof' = [prof EXCEPT ![request[s].p].status = v]
        PROVE  /\ prof' \in [Profile -> [src : CamSource, drift : BOOLEAN,
                                       status : {"none", "configured", "available", "unavailable"}]]
               /\ \A p \in Profile : prof'[p].src = prof[p].src
    BY <1>1, <2>2 DEF ConfigTypeOK, StreamRequests
  <2> QED
    BY <2>1, <2>2 DEF WriteVerdict
<1>4. UNCHANGED <<dev, row, bind, runtimeVars, lost, overtaken, late, loose>>
  BY DEF WriteVerdict
<1>5. ConfigTypeOK'
  BY <1>2, <1>3, <1>4 DEF ConfigTypeOK, runtimeVars
<1>6. Rows' = Rows /\ Bound(bind)' = Bound(bind) /\ \A p \in Profile : ResolveStreamUri(p)' = ResolveStreamUri(p)
  BY <1>3, <1>4 DEF Rows, Bound, ResolveStreamUri
<1>7. request[s].pc # "queue" /\ NoRequest.kind = "none" /\ NoRequest.pc # "queue" /\ Bound(bind) \subseteq Profile
      /\ row.revision <= row'.revision
  BY <1>1, <1>4 DEF StreamRequests, NoRequest, Bound, ConfigTypeOK, CamBindings
<1>8. row'.kind = row.kind /\ bind' = bind /\ loose' = loose /\ late' = late
      /\ Bound(bind) \subseteq Rows /\ (row.kind = "none" => Rows = {})
      /\ row.kind \in {"none", "manual", "onvif"} /\ UNCHANGED <<runtimeVars, lost, overtaken>>
  BY <1>4 DEF BoundHaveRows, ConfigTypeOK
<1>9. request'[s].kind \in {"none", "queue"} /\ request'[s].pc # "queue"
  BY <1>2, <1>7
<1> QED
  BY <1>2, <1>5, <1>6, <1>7, <1>8, <1>9, CommitMoves

\* A request that changes the row or the bindings and at once has its task queued.
LEMMA EditMoves ==
  ASSUME ConfigInv, NEW s \in Slot, OpenSlot(s), NEW t \in CamTask, t.targets = {},
         NEW needed \in BOOLEAN, CommitAndQueue(s, t, needed), 
         row' \in [kind : {"none", "manual", "onvif"}, hw : Nat, cred : Nat, enabled : BOOLEAN,
                   retired : BOOLEAN, revision : Nat],
         row'.kind = row.kind, row'.cred = row.cred, row'.revision = row.revision + 1, row.kind # "none",
         bind' \in CamBindings, Bound(bind)' \subseteq Rows,
         loose' \subseteq Profile, loose \subseteq loose',
         \A p \in Profile \ loose' : Awaited(p) /\ p \in Bound(bind) => p \in Bound(bind)',
         UNCHANGED <<dev, prof, runtimeVars, lost, overtaken, late>>
  PROVE  ConfigInv'
<1>1. request[s] = NoRequest /\ request'[s] \in {NoRequest, Queueing(t)}
      /\ \A u \in Slot \ {s} : request'[u] = request[u]
  BY DEF OpenSlot, CommitAndQueue, ConfigInv, ConfigTypeOK
<1>2. Queueing(t) \in CamRequest /\ NoRequest \in CamRequest
  BY DEF Queueing, CamRequest, QueueRequests
<1>3. request' \in [Slot -> CamRequest]
  BY <1>1, <1>2 DEF ConfigInv, ConfigTypeOK, CommitAndQueue
<1>4. ConfigTypeOK'
  BY <1>3 DEF ConfigInv, ConfigTypeOK, runtimeVars
<1>5. Rows' = Rows /\ \A p \in Profile : ResolveStreamUri(p)' = ResolveStreamUri(p)
  BY DEF Rows, ResolveStreamUri
<1>6. /\ request[s].pc # "queue" /\ request'[s].kind \in {"none", "queue"}
      /\ request'[s].pc = "queue" => request'[s].task.targets = {}
  BY <1>1 DEF NoRequest, Queueing
<1>7. row.revision <= row'.revision /\ row'.revision # row.revision
  BY DEF ConfigInv, ConfigTypeOK
<1> QED
  BY <1>1, <1>4, <1>5, <1>6, <1>7, CommitMoves

LEMMA EditsKeep ==
  ASSUME ConfigInv, NEW s \in Slot,
         \/ \E c \in BOOLEAN : SetEnabled(s, c) \/ SetRetired(s, c)
         \/ \E r, l \in Profile : ReplaceBindings(s, r, l)
  PROVE  ConfigInv'
<1> USE DEF ConfigInv
<1>1. bind \in CamBindings /\ Bound(bind) \subseteq Rows
      /\ row \in [kind : {"none", "manual", "onvif"}, hw : Nat, cred : Nat, enabled : BOOLEAN,
                  retired : BOOLEAN, revision : Nat]
  BY DEF ConfigTypeOK, BoundHaveRows
<1>2. Task({}, NoProfile) \in CamTask /\ Task({}, NoProfile).targets = {}
      /\ Task({}, bind.record) \in CamTask /\ Task({}, bind.record).targets = {}
  BY <1>1 DEF Task, CamTask, CamBindings
<1>3. ASSUME NEW c \in BOOLEAN, SetEnabled(s, c) PROVE ConfigInv'
  <2>1. row' \in [kind : {"none", "manual", "onvif"}, hw : Nat, cred : Nat, enabled : BOOLEAN,
                  retired : BOOLEAN, revision : Nat]
        /\ row'.kind = row.kind /\ row'.cred = row.cred /\ row'.revision = row.revision + 1
    <3> DEFINE q == [row EXCEPT !.enabled = c]
    <3>1. q \in [kind : {"none", "manual", "onvif"}, hw : Nat, cred : Nat, enabled : BOOLEAN,
                 retired : BOOLEAN, revision : Nat]
          /\ q.kind = row.kind /\ q.cred = row.cred /\ q.revision = row.revision
      BY <1>1
    <3>2. row' = [q EXCEPT !.revision = @ + 1]
      BY <1>3 DEF SetEnabled, BumpConfigRevision
    <3> HIDE DEF q
    <3> QED
      BY <3>1, <3>2
  <2>2. bind' \in CamBindings /\ Bound(bind)' = Bound(bind) /\ loose' = loose /\ loose \subseteq Profile
    BY <1>3 DEF SetEnabled, historyVars, Bound, ConfigTypeOK
  <2> QED
    BY <1>1, <1>2, <1>3, <2>1, <2>2, EditMoves DEF SetEnabled, historyVars
<1>4. ASSUME NEW c \in BOOLEAN, SetRetired(s, c) PROVE ConfigInv'
  <2>1. row' \in [kind : {"none", "manual", "onvif"}, hw : Nat, cred : Nat, enabled : BOOLEAN,
                  retired : BOOLEAN, revision : Nat]
        /\ row'.kind = row.kind /\ row'.cred = row.cred /\ row'.revision = row.revision + 1
    <3> DEFINE q == [row EXCEPT !.retired = c, !.enabled = FALSE]
    <3>1. q \in [kind : {"none", "manual", "onvif"}, hw : Nat, cred : Nat, enabled : BOOLEAN,
                 retired : BOOLEAN, revision : Nat]
          /\ q.kind = row.kind /\ q.cred = row.cred /\ q.revision = row.revision
      BY <1>1
    <3>2. row' = [q EXCEPT !.revision = @ + 1]
      BY <1>4 DEF SetRetired, BumpConfigRevision
    <3> HIDE DEF q
    <3> QED
      BY <3>1, <3>2
  <2>2. bind' \in CamBindings /\ Bound(bind)' = Bound(bind) /\ loose' = loose /\ loose \subseteq Profile
    BY <1>4 DEF SetRetired, historyVars, Bound, ConfigTypeOK
  <2> QED
    <3>1. /\ OpenSlot(s) /\ CommitAndQueue(s, Task({}, NoProfile), c) /\ row.kind # "none"
          /\ UNCHANGED <<dev, prof, runtimeVars, lost, overtaken, late>>
      BY <1>4 DEF SetRetired, historyVars
    <3>2. /\ Bound(bind)' \subseteq Rows /\ loose' \subseteq Profile /\ loose \subseteq loose'
          /\ \A p \in Profile \ loose' : Awaited(p) /\ p \in Bound(bind) => p \in Bound(bind)'
      BY <1>1, <2>2
    <3> QED
      BY <1>2, <2>1, <2>2, <3>1, <3>2, EditMoves
<1>5. ASSUME NEW r \in Profile, NEW l \in Profile, ReplaceBindings(s, r, l) PROVE ConfigInv'
  <2>1. row' \in [kind : {"none", "manual", "onvif"}, hw : Nat, cred : Nat, enabled : BOOLEAN,
                  retired : BOOLEAN, revision : Nat]
        /\ row'.kind = row.kind /\ row'.cred = row.cred /\ row'.revision = row.revision + 1
    BY <1>1, <1>5 DEF ReplaceBindings, BumpConfigRevision
  <2>2. bind' \in CamBindings /\ Bound(bind)' = {r, l} \ {NoProfile} /\ {r, l} \subseteq Rows
    BY <1>5 DEF ReplaceBindings, Bound, CamBindings
  <2>3. NoProfile \notin Profile
    BY ProfilesAssumption DEF Profile, NoProfile
  <2>4. loose' = loose \cup {p \in Bound(bind) \ {r, l} : Awaited(p)} /\ Bound(bind) \subseteq Profile
        /\ loose \subseteq Profile
    BY <1>1, <1>5 DEF ReplaceBindings, Awaited, Rows, ConfigTypeOK
  <2>5. \A p \in Profile \ loose' : Awaited(p) /\ p \in Bound(bind) => p \in Bound(bind)'
    BY <2>2, <2>3, <2>4
  <2>6. row.kind # "none"
    BY <2>2 DEF BoundHaveRows
  <2>7. PICK needed \in BOOLEAN : CommitAndQueue(s, Task({}, bind.record), needed)
    BY <1>5 DEF ReplaceBindings
  <2> QED
    BY <1>1, <1>2, <1>5, <2>1, <2>2, <2>4, <2>5, <2>6, <2>7, EditMoves DEF ReplaceBindings
<1> QED
  BY <1>3, <1>4, <1>5

LEMMA DefaultsBound ==
  ASSUME NEW ps \in SUBSET Profile, ps # {}
  PROVE  DefaultBindings(ps) \in CamBindings /\ Bound(DefaultBindings(ps)) \subseteq ps
BY DEF DefaultBindings, CamBindings, Bound, Profile

\* The first rows of the camera.  Nothing is played, and nothing waits.
LEMMA FirstRows ==
  ASSUME ConfigInv, NEW s \in Slot, NEW ps \in SUBSET Profile, ps # {}, row.kind = "none",
         ConfigTypeOK', \A t \in Slot \ {s} : request'[t] = request[t],
         request[s].pc # "queue", request'[s] = NoRequest,
         UNCHANGED <<runtimeVars, historyVars>>,
         Rows' = ps, bind' = DefaultBindings(ps), row'.kind # "none", row'.revision = row.revision,
         row'.kind = "onvif" \/ \A t \in Slot : request[t] = NoRequest
  PROVE  ConfigInv'
<1>1. Rows = {} /\ Bound(bind) = {} /\ \A p \in Profile : proxy[p] = NoPlay /\ ~MayStart(p)
  BY DEF ConfigInv, BoundHaveRows, RowlessUnplayed
<1>2. Bound(bind)' \subseteq ps
  <2>1. Bound(bind)' = Bound(DefaultBindings(ps))
    BY DEF Bound
  <2> QED
    BY <2>1, DefaultsBound
<1>3. row.revision <= row'.revision
  BY DEF ConfigInv, ConfigTypeOK
<1>4. loose' = loose /\ late' = late /\ UNCHANGED <<runtimeVars, lost, overtaken>>
  BY DEF historyVars
<1>5. request'[s].kind = "none" /\ request'[s].pc # "queue"
  BY DEF NoRequest
<1> QED
  BY <1>1, <1>2, <1>3, <1>4, <1>5, CommitMoves

LEMMA CreateManualKeeps ==
  ASSUME ConfigInv, NEW ps \in {{High}, Profile}, CreateManualRtspCamera(ps)
  PROVE  ConfigInv'
<1> USE DEF CreateManualRtspCamera
<1>1. 1 \in Slot /\ ps \in SUBSET Profile /\ ps # {} /\ ps \subseteq Profile
  BY DEF Slot, Profile
<1>2. prof' \in [Profile -> [src : CamSource, status : {"none", "configured", "available", "unavailable"},
                             drift : BOOLEAN]]
  BY DEF CreateStreamProfile, NoRow, NoSource, CamSource
<1>3. row' \in [kind : {"none", "manual", "onvif"}, hw : Nat, cred : Nat, enabled : BOOLEAN,
                retired : BOOLEAN, revision : Nat]
      /\ row'.kind = "manual" /\ row'.revision = row.revision
  BY DEF ConfigInv, ConfigTypeOK
<1>4. bind' = DefaultBindings(ps) /\ bind' \in CamBindings
  BY <1>1, DefaultsBound
<1>5. ConfigTypeOK'
  BY <1>2, <1>3, <1>4 DEF ConfigInv, ConfigTypeOK, runtimeVars, historyVars
<1>6. Rows' = ps
  <2>1. \A p \in ps : prof'[p].src = 1
    BY <1>1 DEF CreateStreamProfile
  <2>2. \A p \in Profile \ ps : prof'[p].src = NoSource
    BY DEF NoRow
  <2>3. 1 # NoSource
    BY DEF NoSource
  <2> QED
    BY <1>1, <2>1, <2>2, <2>3 DEF Rows
<1>7. (\A t \in Slot : request[t] = NoRequest /\ request'[t] = request[t]) /\ NoRequest.pc # "queue"
  BY DEF NoRequest
<1> QED
  BY <1>1, <1>3, <1>4, <1>5, <1>6, <1>7, FirstRows

\* A request that ends without storing anything.
LEMMA RequestEnds ==
  ASSUME ConfigInv, NEW s \in Slot, request[s].pc # "queue",
         request' = [request EXCEPT ![s] = NoRequest],
         dev' = dev, UNCHANGED <<dbVars, runtimeVars, historyVars>>
  PROVE  ConfigInv'
<1>1. request' \in [Slot -> CamRequest] /\ request'[s] = NoRequest /\ \A t \in Slot \ {s} : request'[t] = request[t]
  BY DEF ConfigInv, ConfigTypeOK, CamRequest
<1>2. dev' \in CamDevice
  BY DEF ConfigInv, ConfigTypeOK
<1> QED
  BY <1>1, <1>2, RequestMoves DEF NoRequest

\* Sources a request has seen are sources.
LEMMA SeenSources ==
  ASSUME NEW d \in CamDevice, NEW p \in Profile
  PROVE  /\ SourceOn(d, p) \in CamSource
         /\ p \in Usable(d) => SourceOn(d, p) # NoSource
BY DEF CamDevice, SourceOn, CamSource, Usable, NoSource

LEMMA CreateKeeps ==
  ASSUME ConfigInv, NEW s \in Slot, request[s].kind = "import", request[s].pc = "probed",
         row.kind = "none", CreateDevice(request[s]), End(s),
         UNCHANGED <<dev, runtimeVars, lost, overtaken, late>>
  PROVE  ConfigInv'
<1> DEFINE r == request[s]
           ps == Usable(r.seen)
<1>1. r \in DeviceRequests /\ r.seen \in CamDevice /\ r.cred \in Nat /\ r.seen.hw \in Nat
  BY RequestKinds DEF ConfigInv, ConfigTypeOK, DeviceRequests, CamDevice
<1>2. ps # {} /\ ps \in SUBSET Profile
  <2>1. r.need # {} /\ (r.confirm => row.kind = "onvif") /\ (~r.confirm => r.need = ps)
    BY DEF ConfigInv, ImportsCover
  <2> QED
    BY <2>1 DEF Usable
<1>3. \A p \in Profile : SourceOn(r.seen, p) \in CamSource /\ (p \in ps => SourceOn(r.seen, p) # NoSource)
  BY <1>1, SeenSources
<1>4. /\ \A p \in ps : prof'[p] = [src |-> SourceOn(r.seen, p), status |-> "available", drift |-> FALSE]
      /\ \A p \in Profile \ ps : prof'[p] = NoRow
  BY <1>2 DEF CreateDevice
<1>5. prof' \in [Profile -> [src : CamSource, status : {"none", "configured", "available", "unavailable"},
                             drift : BOOLEAN]]
  <2>1. NoRow \in [src : CamSource, status : {"none", "configured", "available", "unavailable"},
                   drift : BOOLEAN]
    BY DEF NoRow, NoSource, CamSource
  <2>2. \A p \in Profile : [src |-> SourceOn(r.seen, p), status |-> "available", drift |-> FALSE]
          \in [src : CamSource, status : {"none", "configured", "available", "unavailable"}, drift : BOOLEAN]
    BY <1>3
  <2> QED
    BY <2>1, <2>2 DEF CreateDevice
<1>6. row' \in [kind : {"none", "manual", "onvif"}, hw : Nat, cred : Nat, enabled : BOOLEAN,
                retired : BOOLEAN, revision : Nat]
      /\ row'.kind = "onvif" /\ row'.revision = row.revision
  BY <1>1 DEF ConfigInv, ConfigTypeOK, CreateDevice
<1>7. bind' = DefaultBindings(ps) /\ bind' \in CamBindings
  BY <1>2, DefaultsBound DEF CreateDevice
<1>8. request' \in [Slot -> CamRequest] /\ request'[s] = NoRequest /\ \A t \in Slot \ {s} : request'[t] = request[t]
  BY DEF ConfigInv, ConfigTypeOK, CamRequest, End, Goto
<1>9. UNCHANGED <<runtimeVars, historyVars>> /\ dev' = dev
  BY DEF CreateDevice, historyVars
<1>10. ConfigTypeOK'
  BY <1>5, <1>6, <1>7, <1>8, <1>9 DEF ConfigInv, ConfigTypeOK, runtimeVars, historyVars
<1>11. Rows' = ps
  <2> HIDE DEF ps, r
  <2>1. \A p \in ps : prof'[p].src = SourceOn(r.seen, p)
    <3> SUFFICES ASSUME NEW p \in ps PROVE prof'[p].src = SourceOn(r.seen, p)
      OBVIOUS
    <3> prof'[p] = [src |-> SourceOn(r.seen, p), status |-> "available", drift |-> FALSE]
      BY <1>4
    <3> QED
      BY DEF SourceOn
  <2>2. \A p \in Profile \ ps : prof'[p].src = NoSource
    BY <1>4 DEF NoRow
  <2> QED
    BY <1>2, <1>3, <2>1, <2>2 DEF Rows
<1> HIDE DEF r, ps
<1> QED
  BY <1>2, <1>6, <1>7, <1>8, <1>9, <1>10, <1>11, FirstRows DEF r

\* The request stores its task, or ends.
LEMMA CommittedRequest ==
  ASSUME ConfigInv, NEW s \in Slot, NEW targets \in SUBSET Profile,
         Committed(s, Task(targets, NoProfile), targets # {})
  PROVE  /\ request' \in [Slot -> CamRequest] /\ \A t \in Slot \ {s} : request'[t] = request[t]
         /\ request'[s].kind \in {"none", "queue"}
         /\ request'[s].pc = "queue" => request'[s].task.targets = targets
         /\ targets # {} => request'[s].pc = "queue"
<1> DEFINE t0 == Task(targets, NoProfile)
<1>1. t0 \in CamTask /\ t0.targets = targets
  BY DEF Task, CamTask
<1> HIDE DEF t0
<1>2. Queueing(t0) \in CamRequest /\ NoRequest \in CamRequest /\ Queueing(t0).pc = "queue"
      /\ Queueing(t0).kind = "queue" /\ Queueing(t0).task = t0 /\ NoRequest.kind = "none" /\ NoRequest.pc = "none"
  BY <1>1 DEF Queueing, CamRequest, QueueRequests, NoRequest
<1>3. request' = [request EXCEPT ![s] = IF targets # {} THEN Queueing(t0) ELSE NoRequest]
  BY DEF Committed, Goto, t0
<1>4. request'[s] = (IF targets # {} THEN Queueing(t0) ELSE NoRequest) /\ DOMAIN request = Slot
  BY <1>3 DEF ConfigInv, ConfigTypeOK
<1> QED
  BY <1>1, <1>2, <1>3, <1>4 DEF ConfigInv, ConfigTypeOK

LEMMA ReconfigureKeeps ==
  ASSUME ConfigInv, NEW s \in Slot, request[s].kind = "import", request[s].pc = "probed",
         row.kind = "onvif", Rows \subseteq Usable(request[s].seen),
         ReconfigureExisting(request[s], RestartProfiles(request[s], ChangedBy(request[s]))),
         Committed(s, Task(RestartProfiles(request[s], ChangedBy(request[s])), NoProfile),
                   RestartProfiles(request[s], ChangedBy(request[s])) # {}),
         UNCHANGED <<dev, runtimeVars, lost, overtaken, late>>
  PROVE  ConfigInv'
<1> DEFINE r == request[s]
           changed == ChangedBy(r) \cup (IF r.cred # row.cred THEN Rows ELSE {})
           restart == RestartProfiles(r, ChangedBy(r))
<1>1. r \in DeviceRequests /\ r.seen \in CamDevice /\ r.cred \in Nat /\ KeptHardware(r) \in Nat
  BY RequestKinds DEF ConfigInv, ConfigTypeOK, DeviceRequests, CamDevice, KeptHardware
<1>2. \A p \in Profile : SourceOn(r.seen, p) \in CamSource /\ (p \in Rows => SourceOn(r.seen, p) # NoSource)
  BY <1>1, SeenSources
<1>3. restart = changed \cap Bound(bind) /\ Rows \subseteq Profile /\ restart \in SUBSET Profile
  BY DEF RestartProfiles, ChangedBy, Rows
<1>4. ReconfigureExisting(r, restart) /\ Committed(s, Task(restart, NoProfile), restart # {})
  OBVIOUS
<1>5. changed = {p \in Rows : prof[p].src # SourceOn(r.seen, p) \/ r.cred # row.cred}
  BY DEF ChangedBy
<1> HIDE DEF restart, changed
<1>6. /\ request' \in [Slot -> CamRequest] /\ \A t \in Slot \ {s} : request'[t] = request[t]
      /\ request'[s].kind \in {"none", "queue"}
      /\ request'[s].pc = "queue" => request'[s].task.targets = restart
      /\ restart # {} => request'[s].pc = "queue"
  BY <1>3, <1>4, CommittedRequest
<1>7. /\ row' \in [kind : {"none", "manual", "onvif"}, hw : Nat, cred : Nat, enabled : BOOLEAN,
                   retired : BOOLEAN, revision : Nat]
      /\ row'.kind = "onvif" /\ row'.cred = r.cred /\ row.revision <= row'.revision
      /\ restart # {} => row'.revision # row.revision
  <2> DEFINE v == IF restart # {} THEN row.revision + 1 ELSE row.revision
  <2>1. row' = [row EXCEPT !.hw = KeptHardware(r), !.cred = r.cred, !.revision = v]
    BY <1>4 DEF ReconfigureExisting
  <2>2. row \in [kind : {"none", "manual", "onvif"}, hw : Nat, cred : Nat, enabled : BOOLEAN,
                 retired : BOOLEAN, revision : Nat]
    BY DEF ConfigInv, ConfigTypeOK
  <2>3. v \in Nat /\ row.revision <= v /\ (restart # {} => v # row.revision)
    BY <2>2
  <2> HIDE DEF v, r
  <2> QED
    BY <1>1, <2>1, <2>2, <2>3
<1>8. /\ prof' \in [Profile -> [src : CamSource, status : {"none", "configured", "available", "unavailable"},
                                drift : BOOLEAN]]
      /\ \A p \in Rows : prof'[p].src = SourceOn(r.seen, p)
      /\ \A p \in Profile \ Rows : prof'[p].src = prof[p].src
  <2>1. prof' = [p \in Profile |-> IF p \in Rows
                                   THEN [prof[p] EXCEPT !.src = SourceOn(r.seen, p), !.status = "available"]
                                   ELSE prof[p]]
    BY <1>4 DEF ReconfigureExisting
  <2>2. \A p \in Profile : prof[p] \in [src : CamSource, drift : BOOLEAN,
                                        status : {"none", "configured", "available", "unavailable"}]
    BY DEF ConfigInv, ConfigTypeOK
  <2>3. \A p \in Profile :
          LET q == [prof[p] EXCEPT !.src = SourceOn(r.seen, p), !.status = "available"] IN
          /\ q \in [src : CamSource, drift : BOOLEAN, status : {"none", "configured", "available", "unavailable"}]
          /\ q.src = SourceOn(r.seen, p)
    BY <1>2, <2>2
  <2> HIDE DEF r
  <2> QED
    BY <1>3, <2>1, <2>2, <2>3
<1>9. Rows' = Rows
  BY <1>2, <1>8 DEF Rows
<1>10. /\ bind' = bind /\ Bound(bind)' = Bound(bind) /\ Bound(bind) \subseteq Rows
       /\ loose' = loose \cup {p \in changed \ Bound(bind) : proxy[p] # NoPlay \/ MayStart(p)}
  BY <1>4 DEF ReconfigureExisting, NoteLoose, Bound, changed, ConfigInv, BoundHaveRows
<1>11. ConfigTypeOK'
  <2>1. loose' \subseteq Profile
    BY <1>3, <1>5, <1>10 DEF ConfigInv, ConfigTypeOK
  <2> QED
    BY <1>6, <1>7, <1>8, <1>10, <2>1 DEF ConfigInv, ConfigTypeOK, runtimeVars
<1>12. \A p \in Rows \ changed : ResolveStreamUri(p)' = ResolveStreamUri(p)
  BY <1>3, <1>5, <1>7, <1>8 DEF ResolveStreamUri
<1>13. ASSUME NEW p \in Profile \ loose'
       PROVE  \/ ResolveStreamUri(p)' = ResolveStreamUri(p)
              \/ request'[s].pc = "queue" /\ p \in request'[s].task.targets
              \/ proxy[p] = NoPlay /\ ~MayStart(p)
  <2>1. CASE p \notin Rows
    BY <2>1 DEF ConfigInv, RowlessUnplayed
  <2>2. CASE p \in Rows \ changed
    BY <1>12, <2>2
  <2>3. CASE p \in changed \cap Bound(bind)
    BY <1>3, <1>6, <2>3
  <2>4. CASE p \in changed \ Bound(bind)
    BY <1>10, <1>13, <2>4
  <2> QED
    BY <2>1, <2>2, <2>3, <2>4
<1>14. restart = {} => \A p \in Bound(bind) : ResolveStreamUri(p)' = ResolveStreamUri(p)
  BY <1>3, <1>10, <1>12
<1>15. request[s].pc # "queue" /\ row.kind # "none" /\ row'.kind = row.kind /\ late' = late
  BY <1>7
<1>16. request'[s].pc = "queue" => request'[s].task.targets \subseteq Bound(bind)'
  BY <1>3, <1>6, <1>10
<1>17. loose \subseteq loose'
  BY <1>10
<1> HIDE DEF r
<1> QED
  BY <1>6, <1>7, <1>9, <1>10, <1>11, <1>13, <1>14, <1>15, <1>16, <1>17, CommitMoves

LEMMA ImportKeeps ==
  ASSUME ConfigInv, NEW s \in Slot, ImportDevice(s)
  PROVE  ConfigInv'
<1>1. CASE row.kind = "none" /\ CreateDevice(request[s]) /\ End(s)
  BY <1>1, CreateKeeps DEF ImportDevice
<1>2. CASE /\ row.kind = "onvif" /\ Rows \subseteq Usable(request[s].seen)
           /\ ReconfigureExisting(request[s], RestartProfiles(request[s], ChangedBy(request[s])))
           /\ Committed(s, Task(RestartProfiles(request[s], ChangedBy(request[s])), NoProfile),
                        RestartProfiles(request[s], ChangedBy(request[s])) # {})
  BY <1>2, ReconfigureKeeps DEF ImportDevice
<1>3. CASE End(s) /\ UNCHANGED <<dbVars, loose>>
  BY <1>3, RequestEnds DEF ImportDevice, End, Goto, historyVars
<1> QED
  BY <1>1, <1>2, <1>3 DEF ImportDevice

LEMMA RefreshKeeps ==
  ASSUME ConfigInv, NEW s \in Slot, ApplyRefresh(s)
  PROVE  ConfigInv'
<1> DEFINE r == request[s]
           changed == ChangedBy(r)
           restart == changed \cap Bound(bind)
<1>1. CASE ~(SameHardware(r) /\ NotVerified(r) = {})
  BY <1>1, RequestEnds DEF ApplyRefresh, End, Goto, historyVars, dbVars
<1>2. CASE SameHardware(r) /\ NotVerified(r) = {}
  <2>1. r \in DeviceRequests /\ r.seen \in CamDevice /\ r.kind = "refresh" /\ r.pc = "probed" /\ row.kind = "onvif"
    BY RequestKinds DEF ApplyRefresh, ConfigInv, ConfigTypeOK, DeviceRequests, ImportsCover
  <2>2. \A p \in Profile : SourceOn(r.seen, p) \in CamSource /\ (p \in Usable(r.seen) => SourceOn(r.seen, p) # NoSource)
    BY <2>1, SeenSources
  <2>3. /\ prof' = [p \in Profile |-> RefreshProfile(r, p)]
        /\ row' = [row EXCEPT !.hw = KeptHardware(r), !.revision = IF restart # {} THEN @ + 1 ELSE @]
        /\ NoteLoose(changed) /\ NoteLate(Usable(r.seen) \ Rows)
        /\ Committed(s, Task(restart, NoProfile), restart # {})
        /\ UNCHANGED <<dev, bind, runtimeVars, lost, overtaken>>
    BY <1>2 DEF ApplyRefresh
  <2>4. restart \in SUBSET Profile /\ changed \subseteq Rows /\ Usable(r.seen) \subseteq Profile /\ Rows \subseteq Profile
        /\ changed = {p \in Rows \cap Usable(r.seen) : prof[p].src # SourceOn(r.seen, p)}
        /\ restart = changed \cap Bound(bind)
    BY DEF ChangedBy, Rows, Usable
  <2> HIDE DEF changed, restart
  <2>5. /\ request' \in [Slot -> CamRequest] /\ \A t \in Slot \ {s} : request'[t] = request[t]
        /\ request'[s].kind \in {"none", "queue"}
        /\ request'[s].pc = "queue" => request'[s].task.targets = restart
        /\ restart # {} => request'[s].pc = "queue"
    BY <2>3, <2>4, CommittedRequest
  <2>6. /\ row' \in [kind : {"none", "manual", "onvif"}, hw : Nat, cred : Nat, enabled : BOOLEAN,
                     retired : BOOLEAN, revision : Nat]
        /\ row'.kind = "onvif" /\ row'.cred = row.cred /\ row.revision <= row'.revision
        /\ restart # {} => row'.revision # row.revision
    <3> DEFINE v == IF restart # {} THEN row.revision + 1 ELSE row.revision
    <3>1. row' = [row EXCEPT !.hw = KeptHardware(r), !.revision = v]
      BY <2>3
    <3>2. row \in [kind : {"none", "manual", "onvif"}, hw : Nat, cred : Nat, enabled : BOOLEAN,
                   retired : BOOLEAN, revision : Nat]
      BY DEF ConfigInv, ConfigTypeOK
    <3>3. v \in Nat /\ row.revision <= v /\ (restart # {} => v # row.revision)
      BY <3>2
    <3>4. KeptHardware(r) \in Nat
      BY <2>1, <3>2 DEF KeptHardware, CamDevice
    <3> HIDE DEF v, r
    <3> QED
      BY <2>1, <3>1, <3>2, <3>3, <3>4
  <2>7. ASSUME NEW p \in Profile
        PROVE  /\ prof'[p] \in [src : CamSource, status : {"none", "configured", "available", "unavailable"},
                                drift : BOOLEAN]
               /\ prof'[p].src = IF p \in Usable(r.seen) THEN SourceOn(r.seen, p) ELSE prof[p].src
    <3>1. prof[p] \in [src : CamSource, status : {"none", "configured", "available", "unavailable"},
                       drift : BOOLEAN]
      BY DEF ConfigInv, ConfigTypeOK
    <3>2. prof'[p] = RefreshProfile(r, p)
      BY <2>3
    <3>3. CASE p \notin Usable(r.seen)
      BY <3>1, <3>2, <3>3 DEF RefreshProfile, DriftMetadata
    <3>4. CASE p \in Usable(r.seen)
      <4> DEFINE q == [prof[p] EXCEPT !.src = SourceOn(r.seen, p)]
      <4>1. q \in [src : CamSource, status : {"none", "configured", "available", "unavailable"},
                   drift : BOOLEAN] /\ q.src = SourceOn(r.seen, p)
        BY <2>2, <3>1
      <4>2. prof'[p] = [q EXCEPT !.drift = FALSE, !.status = IF p \in r.need THEN "available" ELSE @]
        BY <3>2, <3>4 DEF RefreshProfile, ReplaceStreamUri
      <4> HIDE DEF q
      <4> QED
        BY <3>4, <4>1, <4>2
    <3> QED
      BY <3>3, <3>4
  <2>8. prof' \in [Profile -> [src : CamSource, status : {"none", "configured", "available", "unavailable"},
                               drift : BOOLEAN]]
    <3>1. \E f : prof' = [p \in Profile |-> f[p]]
      <4>1. prof' = [p \in Profile |-> prof'[p]]
        BY <2>3
      <4> QED
        BY <4>1
    <3> QED
      BY <2>7, <3>1
  <2>9. Rows' = Rows \cup Usable(r.seen)
    BY <2>2, <2>4, <2>7 DEF Rows
  <2>10. /\ bind' = bind /\ Bound(bind)' = Bound(bind) /\ Bound(bind) \subseteq Rows
         /\ loose' = loose \cup {p \in changed \ Bound(bind) : proxy[p] # NoPlay \/ MayStart(p)}
    BY <2>3 DEF NoteLoose, Bound, ConfigInv, BoundHaveRows
  <2>11. /\ late' \subseteq late \cup (Usable(r.seen) \ Rows) /\ late \subseteq late'
         /\ \/ Rows' \subseteq Rows \cup late'
            \/ \A t \in Slot : request[t].kind = "import" => request[t].pc \notin {"listed", "probed"}
    BY <2>3, <2>9 DEF NoteLate
  <2>12. ConfigTypeOK'
    <3>1. loose' \subseteq Profile /\ late' \subseteq Profile
      BY <2>4, <2>10, <2>11 DEF ConfigInv, ConfigTypeOK
    <3> QED
      BY <2>3, <2>5, <2>6, <2>8, <2>10, <3>1 DEF ConfigInv, ConfigTypeOK, runtimeVars
  <2>13. \A p \in Rows \ changed : ResolveStreamUri(p)' = ResolveStreamUri(p)
    BY <2>4, <2>6, <2>7 DEF ResolveStreamUri
  <2>14. ASSUME NEW p \in Profile \ loose'
         PROVE  \/ ResolveStreamUri(p)' = ResolveStreamUri(p)
                \/ request'[s].pc = "queue" /\ p \in request'[s].task.targets
                \/ proxy[p] = NoPlay /\ ~MayStart(p)
    <3>1. CASE p \notin Rows
      BY <3>1 DEF ConfigInv, RowlessUnplayed
    <3>2. CASE p \in Rows \ changed
      BY <2>13, <3>2
    <3>3. CASE p \in changed \cap Bound(bind)
      BY <2>4, <2>5, <3>3
    <3>4. CASE p \in changed \ Bound(bind)
      BY <2>10, <2>14, <3>4
    <3> QED
      BY <3>1, <3>2, <3>3, <3>4
  <2>15. restart = {} => \A p \in Bound(bind) : ResolveStreamUri(p)' = ResolveStreamUri(p)
    BY <2>4, <2>10, <2>13
  <2>16. request[s].pc # "queue" /\ row.kind # "none" /\ row'.kind = row.kind
    BY <2>1, <2>6
  <2>17. request'[s].pc = "queue" => request'[s].task.targets \subseteq Bound(bind)'
    BY <2>4, <2>5, <2>10
  <2>18. loose \subseteq loose' /\ Rows \subseteq Rows' /\ Bound(bind)' \subseteq Rows'
    BY <2>9, <2>10
  <2> HIDE DEF r
  <2> QED
    BY <2>3, <2>5, <2>6, <2>10, <2>11, <2>12, <2>14, <2>15, <2>16, <2>17, <2>18, CommitMoves
<1> QED
  BY <1>1, <1>2

LEMMA ConfigStep == ConfigInv /\ [ConfigNext]_configVars => ConfigInv'
<1> SUFFICES ASSUME ConfigInv, [ConfigNext]_configVars PROVE ConfigInv'
  OBVIOUS
<1>1. CASE UNCHANGED configVars
  <2>1. /\ proxy' \in [Profile -> CamPlay] /\ viewing' \in [Profile -> CamPlay]
        /\ loose' \subseteq Profile /\ loose \subseteq loose'
        /\ \A p \in Profile : proxy'[p] = proxy[p] /\ viewing'[p] = viewing[p]
    BY <1>1 DEF configVars, runtimeVars, historyVars, ConfigInv, ConfigTypeOK
  <2> QED
    BY <1>1, <2>1, ProxyMoves DEF configVars, runtimeVars, historyVars
<1>2. ASSUME NEW d \in CamDevice, DeviceChanges(d) PROVE ConfigInv'
  BY <1>2, DeviceKeeps
<1>3. ASSUME NEW p \in Profile, NEW a \in 0..MaxAddress, AddressChanges(p, a) PROVE ConfigInv'
  <2>1. [dev EXCEPT !.at[p] = a] \in CamDevice
    <3>1. a \in Nat /\ dev.at \in [Profile -> Nat]
      BY AddressAssumption DEF ConfigInv, ConfigTypeOK, CamDevice
    <3>2. [dev.at EXCEPT ![p] = a] \in [Profile -> Nat]
      BY <3>1
    <3>3. [dev EXCEPT !.at[p] = a] = [dev EXCEPT !.at = [dev.at EXCEPT ![p] = a]]
      OBVIOUS
    <3> QED
      BY <3>2, <3>3 DEF ConfigInv, ConfigTypeOK, CamDevice
  <2> QED
    BY <1>2, <1>3, <2>1 DEF AddressChanges
<1>4. ASSUME PasswordChanges \/ \E h \in {0, 2}, a \in 1..MaxAddress : DeviceReplaced(h, a)
      PROVE  ConfigInv'
  <2>1. CASE PasswordChanges
    <3>1. [dev EXCEPT !.cred = 2] \in CamDevice
      BY DEF ConfigInv, ConfigTypeOK, CamDevice
    <3> QED
      BY <1>2, <2>1, <3>1 DEF PasswordChanges
  <2>2. ASSUME NEW h \in {0, 2}, NEW a \in 1..MaxAddress, DeviceReplaced(h, a) PROVE ConfigInv'
    <3> DEFINE at == [p \in Profile |-> IF dev.at[p] = 0 THEN 0 ELSE a]
    <3>1. at \in [Profile -> Nat]
      BY AddressAssumption
    <3> HIDE DEF at
    <3>2. dev \in [hw : Nat, cred : Nat, at : [Profile -> Nat]] /\ h \in Nat
      BY DEF ConfigInv, ConfigTypeOK, CamDevice
    <3>3. [dev EXCEPT !.hw = h, !.at = at] \in CamDevice
      BY <3>1, <3>2 DEF CamDevice
    <3> QED
      BY <1>2, <2>2, <3>3 DEF DeviceReplaced, at
  <2> QED
    BY <1>4, <2>1, <2>2
<1>5. CASE CreateManualRtspCamera({High}) \/ CreateManualRtspCamera(Profile)
  BY <1>5, CreateManualKeeps
<1>6. ASSUME NEW s \in Slot, RequestStep(s) \/ QueueUnavailable(s) PROVE ConfigInv'
  BY <1>6, RequestReads, ImportKeeps, RefreshKeeps, VerdictKeeps, QueueKeeps DEF RequestStep
<1>7. ASSUME NEW w \in Worker, WorkerStep(w) \/ ReconcileFails(w) PROVE ConfigInv'
  BY <1>7, ReadKeeps, ReconcileRuntimeKeeps, FailsKeeps DEF WorkerStep
<1>8. CASE ConfigNext
  BY <1>3, <1>4, <1>5, <1>6, <1>7, <1>8, RequestReads, EditsKeep, ViewersKeep DEF ConfigNext
<1> QED
  BY <1>1, <1>8

(* Nothing old keeps playing: once every reconcile task has run, the proxies *)
(* of the bound profiles of an enabled camera play the stored source with    *)
(* the stored credentials or are closed, for any number of imports,          *)
(* refreshes, binding changes, retries and viewers in any order (with the    *)
(* exceptions ProxyFollowsConfig names).                                     *)
THEOREM ProxiesFollow == ConfigSpec => []ProxyFollowsConfig
BY ConfigStart, ConfigStep, ConfigInvFollows, PTL DEF ConfigSpec

\* The requests that write profile rows.
LEMMA RowWriters ==
  ASSUME [ConfigNext]_configVars, prof' # prof
  PROVE  \/ \E ps \in {{High}, Profile} : CreateManualRtspCamera(ps)
         \/ \E s \in Slot : ImportDevice(s) \/ ApplyRefresh(s) \/ WriteVerdict(s)
<1> USE DEF dbVars
<1>1. ~UNCHANGED configVars
  BY DEF configVars
<1>2. ASSUME NEW p, NEW a, AddressChanges(p, a) PROVE FALSE
  BY <1>2 DEF AddressChanges, DeviceChanges
<1>3. ASSUME NEW h, NEW a, PasswordChanges \/ DeviceReplaced(h, a) PROVE FALSE
  BY <1>3 DEF PasswordChanges, DeviceReplaced, DeviceChanges
<1>4. ASSUME NEW s \in Slot,
             \/ ResolveImport(s) \/ ProbeListed(s) \/ ListForRefresh(s) \/ ProbeStream(s)
             \/ QueueTask(s) \/ QueueUnavailable(s) \/ InspectForRefresh(s)
      PROVE  FALSE
  BY <1>4 DEF ResolveImport, ProbeListed, ListForRefresh, ProbeStream, QueueTask, QueueUnavailable,
     InspectForRefresh
<1>5. ASSUME NEW s \in Slot, NEW c \in BOOLEAN, InspectForImport(s, c) \/ SetEnabled(s, c) \/ SetRetired(s, c)
      PROVE  FALSE
  BY <1>5 DEF InspectForImport, SetEnabled, SetRetired
<1>6. ASSUME NEW s \in Slot, NEW p \in Profile, NEW q \in Profile,
             BeginVerify(s, p) \/ BeginProbe(s, p) \/ ReplaceBindings(s, p, q)
      PROVE  FALSE
  BY <1>6 DEF BeginVerify, BeginProbe, ReplaceBindings
<1>7. ASSUME NEW w \in Worker, WorkerStep(w) \/ ReconcileFails(w) PROVE FALSE
  BY <1>7 DEF WorkerStep, ReadForReconcile, ReconcileCameraRuntime, ReconcileFails
<1>8. ASSUME NEW p \in Profile, ViewLive(p) \/ AddViewed(p) \/ AutoClose(p) PROVE FALSE
  BY <1>8 DEF ViewLive, AddViewed, AutoClose
<1>9. High \in Profile
  BY DEF Profile
<1> QED
  BY <1>1, <1>2, <1>3, <1>4, <1>5, <1>6, <1>7, <1>8, <1>9 DEF ConfigNext, RequestStep

LEMMA SourceVerified ==
  ASSUME ConfigInv, [ConfigNext]_configVars, row'.kind = "onvif", NEW p \in Profile, prof'[p].src # prof[p].src
  PROVE  \E s \in Slot : StoredBy(s, p, prof'[p].src)
<1>1. ASSUME NEW ps, CreateManualRtspCamera(ps) PROVE FALSE
  BY <1>1 DEF CreateManualRtspCamera, ConfigInv, ConfigTypeOK
<1>2. ASSUME NEW s \in Slot, WriteVerdict(s) PROVE FALSE
  <2>1. CASE prof' = prof
    BY <2>1
  <2>2. ASSUME NEW v, prof' = [prof EXCEPT ![request[s].p].status = v] PROVE FALSE
    BY <2>2 DEF ConfigInv, ConfigTypeOK
  <2> QED
    BY <1>2, <2>1, <2>2 DEF WriteVerdict
<1>3. ASSUME NEW s \in Slot, ImportDevice(s)
      PROVE  StoredBy(s, p, prof'[p].src)
  <2> DEFINE r == request[s]
  <2>1. /\ r.kind = "import" /\ r.pc = "probed" /\ r.need # {}
        /\ IF r.confirm THEN row.kind = "onvif" /\ Rows \subseteq r.need \cup late ELSE r.need = Usable(r.seen)
    BY <1>3 DEF ImportDevice, ConfigInv, ImportsCover
  <2>2. row \in [kind : {"none", "manual", "onvif"}, hw : Nat, cred : Nat, enabled : BOOLEAN,
                 retired : BOOLEAN, revision : Nat]
        /\ prof[p] \in [src : CamSource, status : {"none", "configured", "available", "unavailable"}, drift : BOOLEAN]
    BY DEF ConfigInv, ConfigTypeOK
  <2>4. CASE row.kind = "none" /\ CreateDevice(r)
    <3>1. prof[p].src = NoSource
      BY <2>4 DEF ConfigInv, BoundHaveRows, Rows
    <3>2. p \in Usable(r.seen) /\ prof'[p].src = SourceOn(r.seen, p)
      <4>1. CASE p \notin Usable(r.seen)
        BY <2>4, <3>1, <4>1 DEF CreateDevice, NoRow
      <4>2. CASE p \in Usable(r.seen)
        <5>1. prof'[p] = [src |-> SourceOn(r.seen, p), status |-> "available", drift |-> FALSE]
          BY <2>4, <4>2 DEF CreateDevice
        <5> QED
          BY <4>2, <5>1 DEF SourceOn
      <4> QED
        BY <4>1, <4>2
    <3>3. row'.hw = r.seen.hw
      BY <2>2, <2>4 DEF CreateDevice
    <3> QED
      BY <2>1, <2>4, <3>2, <3>3 DEF StoredBy
  <2>5. ASSUME NEW restart, Rows \subseteq Usable(r.seen), ReconfigureExisting(r, restart)
        PROVE  StoredBy(s, p, prof'[p].src)
    <3>1. p \in Rows
      BY <2>5 DEF ReconfigureExisting
    <3>2. prof'[p].src = SourceOn(r.seen, p)
      <4>1. prof'[p] = [prof[p] EXCEPT !.src = SourceOn(r.seen, p), !.status = "available"]
        BY <2>5, <3>1 DEF ReconfigureExisting
      <4> HIDE DEF r
      <4> QED
        BY <2>2, <4>1
    <3>3. row'.hw = KeptHardware(r)
      <4> DEFINE v == IF restart # {} THEN row.revision + 1 ELSE row.revision
      <4>1. row' = [row EXCEPT !.hw = KeptHardware(r), !.cred = r.cred, !.revision = v]
        BY <2>5 DEF ReconfigureExisting
      <4> HIDE DEF v, r
      <4> QED
        BY <2>2, <4>1
    <3> QED
      BY <2>1, <2>5, <3>1, <3>2, <3>3 DEF StoredBy, KeptHardware
  <2>6. CASE UNCHANGED <<dbVars, loose>>
    BY <2>6 DEF dbVars
  <2> QED
    BY <1>3, <2>4, <2>5, <2>6 DEF ImportDevice
<1>4. ASSUME NEW s \in Slot, ApplyRefresh(s)
      PROVE  StoredBy(s, p, prof'[p].src)
  <2> DEFINE r == request[s]
  <2>1. SameHardware(r) /\ NotVerified(r) = {} /\ prof' = [q \in Profile |-> RefreshProfile(r, q)]
    BY <1>4 DEF ApplyRefresh
  <2>2. prof[p] \in [src : CamSource, status : {"none", "configured", "available", "unavailable"}, drift : BOOLEAN]
    BY DEF ConfigInv, ConfigTypeOK
  <2>3. prof'[p] = RefreshProfile(r, p) /\ r.pc = "probed"
    BY <1>4, <2>1 DEF ApplyRefresh
  <2>4. p \in Usable(r.seen)
    BY <2>2, <2>3 DEF RefreshProfile, DriftMetadata
  <2>5. prof'[p].src = SourceOn(r.seen, p)
    <3> DEFINE q == [prof[p] EXCEPT !.src = SourceOn(r.seen, p)]
    <3> HIDE DEF r
    <3>1. q.src = SourceOn(r.seen, p) /\ DOMAIN q = {"src", "status", "drift"}
      BY <2>2
    <3>2. prof'[p] = [q EXCEPT !.drift = FALSE, !.status = IF p \in r.need THEN "available" ELSE @]
      BY <2>3, <2>4 DEF RefreshProfile, ReplaceStreamUri
    <3> HIDE DEF q
    <3> QED
      BY <3>1, <3>2
  <2>6. p \in r.need
    BY <2>1, <2>4, <2>5 DEF NotVerified, Unproven
  <2>7. row'.hw = KeptHardware(r)
    <3> DEFINE v == IF ChangedBy(r) \cap Bound(bind) # {} THEN row.revision + 1 ELSE row.revision
    <3>1. row' = [row EXCEPT !.hw = KeptHardware(r), !.revision = v]
      BY <1>4, <2>1 DEF ApplyRefresh
    <3> HIDE DEF v, r
    <3> QED
      BY <3>1 DEF ConfigInv, ConfigTypeOK
  <2> QED
    BY <2>3, <2>5, <2>6, <2>7 DEF StoredBy, KeptHardware
<1>5. prof' # prof
  OBVIOUS
<1> QED
  BY <1>1, <1>2, <1>3, <1>4, <1>5, RowWriters

LEMMA VerdictCurrent ==
  ASSUME ConfigInv, [ConfigNext]_configVars, NEW s \in Slot,
         request[s].kind = "verify", request[s].pc \in {"ok", "bad"}, request'[s] = NoRequest, prof' # prof,
         request[s].p \in Bound(bind)
  PROVE  request[s].play = ResolveStreamUri(request[s].p)
<1>1. request[s] # NoRequest
  BY DEF NoRequest
<1>2. ASSUME NEW ps, CreateManualRtspCamera(ps) PROVE FALSE
  BY <1>1, <1>2 DEF CreateManualRtspCamera
<1>3. ASSUME NEW t \in Slot, ImportDevice(t) \/ ApplyRefresh(t) PROVE FALSE
  <2>1. t # s
    BY <1>3 DEF ImportDevice, ApplyRefresh
  <2>2. \E v : request' = [request EXCEPT ![t] = v]
    BY <1>3 DEF ImportDevice, ApplyRefresh, End, Goto, Committed
  <2> QED
    BY <1>1, <2>1, <2>2 DEF ConfigInv, ConfigTypeOK
<1>4. ASSUME NEW t \in Slot, WriteVerdict(t) PROVE request[s].play = ResolveStreamUri(request[s].p)
  <2>1. request' = [request EXCEPT ![t] = NoRequest]
    BY <1>4 DEF WriteVerdict, End, Goto
  <2>2. t = s
    BY <1>1, <2>1 DEF ConfigInv, ConfigTypeOK
  <2>3. FenceConfigRevision(request[s])
    BY <1>4, <2>2 DEF WriteVerdict
  <2> QED
    BY <2>3 DEF FenceConfigRevision, ConfigInv, VerifiesFenced
<1> QED
  BY <1>2, <1>3, <1>4, RowWriters

(* What a request stores it has played itself, and a verdict is about the    *)
(* source and the credentials the rows hold, whatever other requests have    *)
(* committed while it let go of the database.                                *)
THEOREM ProbesHold == ConfigSpec => ProbesStayTrue
<1>1. ConfigInv /\ [ConfigNext]_configVars =>
        [row'.kind = "onvif" =>
           \A p \in Profile :
             prof'[p].src # prof[p].src => \E s \in Slot : StoredBy(s, p, prof'[p].src)]_configVars
  BY SourceVerified
<1>2. ConfigInv /\ [ConfigNext]_configVars =>
        [\A s \in Slot :
           LET r == request[s] IN
           (r.kind = "verify" /\ r.pc \in {"ok", "bad"} /\ request'[s] = NoRequest /\ prof' # prof
              /\ r.p \in Bound(bind)) => r.play = ResolveStreamUri(r.p)]_configVars
  BY VerdictCurrent
<1> QED
  BY <1>1, <1>2, ConfigStart, ConfigStep, PTL DEF ConfigSpec, ProbesStayTrue, StoredSourcesVerified, VerdictsAreCurrent
=============================================================================
