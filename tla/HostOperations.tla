--------------------------- MODULE HostOperations ---------------------------
(***************************************************************************)
(* The commands of deploy.sh that replace the program, its database or its *)
(* encryption keys: update, rollback, restore, database migrate, migrate,  *)
(* secret rotate.  Each is a shell script that runs app.cli step by step.  *)
(* The script may die at any step (an error under set -e, a reboot of the  *)
(* host); what it leaves behind is the checkout, the image tag, the        *)
(* databases, .env and deployment/state.env, and the operator's next       *)
(* command has to cope with it.  One command runs at a time.               *)
(***************************************************************************)
EXTENDS Naturals, FiniteSets

CONSTANTS
  Revisions,      \* releases, in the order of their Git history
  SchemaOf,       \* the schema head each release expects
  Keys,           \* master keys the operator may configure
  MaxCommands,    \* bound: commands the operator runs
  MaxAborts       \* bound: scripts that die half way

Backends == {"sqlite", "postgresql"}

ASSUME HostAssumption ==
  /\ Revisions \subseteq Nat \ {0} /\ Keys \subseteq Nat \ {0}
  /\ \A r \in Revisions : SchemaOf[r] \in Nat \ {0}
  /\ \A r, q \in Revisions : r < q => SchemaOf[r] <= SchemaOf[q]
  /\ \E r \in Revisions : \A q \in Revisions : r <= q
  /\ \E k \in Keys : \A l \in Keys : k <= l
  /\ MaxAborts \in Nat /\ MaxCommands \in Nat

VARIABLES
  source,     \* the revision checked out in ROOT_DIR
  image,      \* the revision the configured image tag was built from
  serving,    \* the revision of the running services, 0 when stopped
  loaded,     \* the keyring the running services started with
  active,     \* the backend ZERO_NVR_DATABASE_URL names
  databases,  \* per backend: the schema and the keys of its secret records
  env,        \* the keyring of .env: [primary, previous]
  state,      \* deployment/state.env
  job,        \* the command in progress and what it remembers
  kept,       \* the newest verified backup in the restic repository
  rewound,    \* history: a rollback brought back records of a removed key
  blurred,    \* history: an unfit snapshot was recorded as rollback point
  commands,   \* commands begun so far
  aborts      \* scripts that died so far

hostVars == <<source, image, serving, loaded, active, databases, env, state,
              job, kept, rewound, blurred, commands, aborts>>

Nothing == [schema |-> 0, keys |-> {}, backend |-> "sqlite"]
NoJob == [op |-> "idle", step |-> "done", target |-> 0, from |-> 0,
         fallback |-> 0, mode |-> "normal", snap |-> Nothing, pre |-> Nothing]

KeysOf(ring) == {ring.primary} \cup ring.previous

Db == databases[active]

(* assert_database_schema_current: the schema is the head of the release.  *)
SchemaCurrent(rev) == Db.schema = SchemaOf[rev]

(* SecretStore.inspect_records: no record needs a key that is not here.    *)
Readable(data, ring) == data.keys \subseteq KeysOf(ring)

(* Fault: stale records do not count as long as they can be read.          *)
NoneUnreadable(data, ring) == data.keys \subseteq KeysOf(ring)

(* Its status OK: every record is on the primary key.                      *)
AllCurrent(data, ring) == data.keys \subseteq {ring.primary}

At(op, step) == job.op = op /\ job.step = step
BeginCommand == job = NoJob /\ commands < MaxCommands /\ commands' = commands + 1
Proceed(step) == job' = [job EXCEPT !.step = step]

(* DatabaseSnapshotService.snapshot under safety-backups: the whole active *)
(* database, in the format of its backend.                                 *)
SafetySnapshot == [schema |-> Db.schema, keys |-> Db.keys, backend |-> active]

Replaced(snap) ==
  [databases EXCEPT ![active] = [schema |-> snap.schema, keys |-> snap.keys,
                                 backend |-> active]]

(* A command that died between the services' start and its last line has  *)
(* not recorded the release it deployed.  The next one then records a      *)
(* rollback point whose database is not of the release it names.           *)
Unfit(snap, rev) == snap.schema # SchemaOf[rev]

Stopped == serving' = 0 /\ UNCHANGED loaded

(* The lifespan of the API refuses to start on another schema; a start     *)
(* that is refused leaves the services down.                               *)
Started(rev) ==
  IF SchemaCurrent(rev) THEN serving' = rev /\ loaded' = env
                        ELSE serving' = 0 /\ UNCHANGED loaded

(***************************************************************************)
(* deploy.sh update                                                        *)
(***************************************************************************)
(* app.cli update-preflight: schema current, every secret readable, the    *)
(* services healthy.                                                       *)
UpdatePreflight == serving = image /\ SchemaCurrent(image) /\ Readable(Db, env)

(* Without a version the operator has moved the checkout to the release    *)
(* before; with one the script moves it later.  Nobody updates to a        *)
(* release older than the checkout.                                        *)
UpdateStart(target, pinned) ==
  /\ BeginCommand
  /\ state.pending = 0
  /\ target >= state.deployed
  /\ UpdatePreflight
  /\ target >= source
  /\ source' = IF pinned THEN source ELSE target
  /\ job' = [NoJob EXCEPT !.op = "update", !.step = "snapshot",
                         !.target = target, !.from = state.deployed]
  /\ UNCHANGED <<image, serving, loaded, active, databases, env, state, kept,
                 rewound, blurred, aborts>>

(* app.cli safety-snapshot and, in production, the verified restic backup. *)
(* The services still run and write.                                       *)
UpdateSnapshot ==
  /\ At("update", "snapshot")
  /\ job' = [job EXCEPT !.step = "record", !.snap = SafetySnapshot]
  /\ kept' = SafetySnapshot
  /\ UNCHANGED <<source, image, serving, loaded, active, databases, env,
                 state, rewound, blurred, commands, aborts>>

UpdateRecord ==
  /\ At("update", "record")
  /\ state' = [state EXCEPT !.pending = job.target, !.previous = job.from,
                            !.pendingSnap = job.snap]
  /\ blurred' = (blurred \/ Unfit(job.snap, job.from))
  /\ Proceed("checkout")
  /\ UNCHANGED <<source, image, serving, loaded, active, databases, env, kept,
                 rewound, commands, aborts>>

UpdateCheckout ==
  /\ At("update", "checkout")
  /\ source' = job.target /\ image' = job.target
  /\ Proceed("stop")
  /\ UNCHANGED <<serving, loaded, active, databases, env, state, kept,
                 rewound, blurred, commands, aborts>>

UpdateStop ==
  /\ At("update", "stop")
  /\ Stopped /\ Proceed("migrate")
  /\ UNCHANGED <<source, image, active, databases, env, state, kept, rewound,
                 blurred, commands, aborts>>

(* alembic upgrade head.  PostgreSQL commits one migration at a time, so a *)
(* migration that fails leaves some revision in between.                   *)
Upgraded(schema) == databases' = [databases EXCEPT ![active].schema = schema]

(* build_migration_plan knows only the revisions of this release.          *)
MigrationPlanned(rev) == Db.schema <= SchemaOf[rev]

(* _verify_migration_result: the revision reached is the head.             *)
MigrationVerified(schema, rev) == schema = SchemaOf[rev]

UpdateMigrate ==
  /\ At("update", "migrate")
  /\ MigrationPlanned(image)
  /\ \E schema \in Db.schema..SchemaOf[image] :
       /\ Upgraded(schema)
       /\ IF MigrationVerified(schema, image) THEN Proceed("start") ELSE job' = NoJob
  /\ UNCHANGED <<source, image, serving, loaded, active, env, state, kept,
                 rewound, blurred, commands, aborts>>

UpdateUp ==
  /\ At("update", "start")
  /\ Started(image)
  /\ IF SchemaCurrent(image) THEN Proceed("finish") ELSE job' = NoJob
  /\ UNCHANGED <<source, image, active, databases, env, state, kept, rewound,
                 blurred, commands, aborts>>

UpdateFinish ==
  /\ At("update", "finish")
  /\ state' = IF job.from # job.target
              THEN [deployed |-> job.target, rollback |-> job.from,
                    rollbackSnap |-> job.snap, pending |-> 0, previous |-> 0,
                    pendingSnap |-> Nothing]
              ELSE [state EXCEPT !.pending = 0, !.previous = 0,
                                 !.pendingSnap = Nothing]
  /\ job' = NoJob
  /\ UNCHANGED <<source, image, serving, loaded, active, databases, env, kept,
                 rewound, blurred, commands, aborts>>

(***************************************************************************)
(* deploy.sh rollback                                                      *)
(***************************************************************************)
FailedUpdate ==
  state.pending # 0 /\ state.previous = state.deployed
    /\ source \in {state.pending, state.previous}

RollbackTarget == IF FailedUpdate THEN state.previous ELSE state.rollback
RollbackSnap == IF FailedUpdate THEN state.pendingSnap ELSE state.rollbackSnap

(* _validated_safety_snapshot wants a snapshot of the active backend.      *)
ValidSafetySnapshot(snap) == snap # Nothing /\ snap.backend = active

(* Which rollback the recorded state and the checkout allow.               *)
RollbackAllowed ==
  /\ FailedUpdate \/ source = state.deployed
  /\ RollbackTarget # 0
  /\ ValidSafetySnapshot(RollbackSnap)

RollbackStart ==
  /\ BeginCommand
  /\ RollbackAllowed
  /\ job' = [op |-> "rollback", step |-> "stop", target |-> RollbackTarget,
             from |-> source, fallback |-> image,
             mode |-> IF FailedUpdate THEN "failed-update" ELSE "normal",
             snap |-> RollbackSnap, pre |-> SafetySnapshot]
  /\ UNCHANGED <<source, image, serving, loaded, active, databases, env,
                 state, kept, rewound, blurred, aborts>>

(* Fault: the release is switched before its database is back.             *)
RollbackSwitches ==
  /\ At("rollback", "stop")
  /\ Stopped /\ Proceed("restore")
  /\ source' = job.target /\ image' = job.target
  /\ UNCHANGED <<active, databases, env, state, kept, rewound, blurred,
                 commands, aborts>>

RollbackStop ==
  /\ At("rollback", "stop")
  /\ Stopped /\ Proceed("restore")
  /\ UNCHANGED <<source, image, active, databases, env, state, kept, rewound,
                 blurred, commands, aborts>>

(* _restore_safety_snapshot does not look at the keyring.                  *)
RollbackRestore ==
  /\ At("rollback", "restore")
  /\ databases' = Replaced(job.snap)
  /\ rewound' = (rewound \/ ~Readable(job.snap, env))
  /\ Proceed("checkout")
  /\ UNCHANGED <<source, image, serving, loaded, active, env, state, kept,
                 blurred, commands, aborts>>

RollbackCheckout ==
  /\ At("rollback", "checkout")
  /\ source' = job.target /\ image' = job.target
  /\ Proceed("start")
  /\ UNCHANGED <<serving, loaded, active, databases, env, state, kept,
                 rewound, blurred, commands, aborts>>

RollbackUp ==
  /\ At("rollback", "start")
  /\ Started(image)
  /\ Proceed(IF SchemaCurrent(image) THEN "finish" ELSE "recover source")
  /\ UNCHANGED <<source, image, active, databases, env, state, kept, rewound,
                 blurred, commands, aborts>>

RollbackFinish ==
  /\ At("rollback", "finish")
  /\ state' = [deployed |-> job.target,
               rollback |-> IF job.mode = "normal" THEN state.deployed
                                                   ELSE state.rollback,
               rollbackSnap |-> IF job.mode = "normal" THEN job.pre
                                                       ELSE state.rollbackSnap,
               pending |-> 0, previous |-> 0, pendingSnap |-> Nothing]
  /\ blurred' = (blurred \/ (job.mode = "normal"
                              /\ Unfit(job.pre, state.deployed)))
  /\ job' = NoJob
  /\ UNCHANGED <<source, image, serving, loaded, active, databases, env, kept,
                 rewound, commands, aborts>>

(* A step of apply_rollback fails: the script puts the checkout and the    *)
(* image back, then the database, then starts what it has.                 *)
RollbackFails ==
  /\ job.op = "rollback" /\ job.step \in {"restore", "checkout", "start"}
  /\ aborts < MaxAborts /\ aborts' = aborts + 1
  /\ Proceed("recover source")
  /\ UNCHANGED <<source, image, serving, loaded, active, databases, env,
                 state, kept, rewound, blurred, commands>>

RecoverSource ==
  /\ At("rollback", "recover source")
  /\ source' = job.from /\ image' = job.fallback
  /\ Proceed("recover data")
  /\ UNCHANGED <<serving, loaded, active, databases, env, state, kept,
                 rewound, blurred, commands, aborts>>

RecoverData ==
  /\ At("rollback", "recover data")
  /\ databases' = Replaced(job.pre)
  /\ rewound' = (rewound \/ ~Readable(job.pre, env))
  /\ Proceed("recover services")
  /\ UNCHANGED <<source, image, serving, loaded, active, env, state, kept,
                 blurred, commands, aborts>>

RecoverServices ==
  /\ At("rollback", "recover services")
  /\ Started(image) /\ job' = NoJob
  /\ UNCHANGED <<source, image, active, databases, env, state, kept, rewound,
                 blurred, commands, aborts>>

(***************************************************************************)
(* deploy.sh restore: build the checkout, fetch the newest backup, check   *)
(* it, stop, replace the database, start.                                  *)
(***************************************************************************)
(* _validate_restore_manifest: the backend, and a schema this release      *)
(* knows.                                                                  *)
ValidManifest(rev) == kept.backend = active /\ kept.schema <= SchemaOf[rev]

(* _validate_restore_keyring: every key the backup's records name is here. *)
ValidRestoreKeyring == Readable(kept, env)

RestorePreflight(rev) == ValidManifest(rev) /\ ValidRestoreKeyring

(* The operator restores with the deployed release checked out, or with    *)
(* the one an unfinished update left.                                      *)
RestoreStart ==
  /\ BeginCommand /\ kept # Nothing
  /\ source \in {state.deployed, state.pending}
  /\ image' = source
  /\ job' = IF RestorePreflight(source)
            THEN [NoJob EXCEPT !.op = "restore", !.step = "stop"] ELSE NoJob
  /\ UNCHANGED <<source, serving, loaded, active, databases, env, state, kept,
                 rewound, blurred, aborts>>

RestoreStop ==
  /\ At("restore", "stop")
  /\ Stopped /\ Proceed("replace")
  /\ UNCHANGED <<source, image, active, databases, env, state, kept, rewound,
                 blurred, commands, aborts>>

RestoreStaged ==
  /\ At("restore", "replace")
  /\ IF RestorePreflight(image)
     THEN databases' = Replaced(kept) /\ Proceed("start")
     ELSE UNCHANGED databases /\ job' = NoJob
  /\ UNCHANGED <<source, image, serving, loaded, active, env, state, kept,
                 rewound, blurred, commands, aborts>>

RestoreUp ==
  /\ At("restore", "start")
  /\ Started(image) /\ job' = NoJob
  /\ UNCHANGED <<source, image, active, databases, env, state, kept, rewound,
                 blurred, commands, aborts>>

(***************************************************************************)
(* deploy.sh database migrate: transfer every row to the other backend.    *)
(***************************************************************************)
Other == CHOOSE b \in Backends : b # active

TransferStart ==
  /\ BeginCommand /\ serving # 0
  /\ kept' = SafetySnapshot
  /\ Stopped
  /\ job' = [NoJob EXCEPT !.op = "transfer", !.step = "copy"]
  /\ UNCHANGED <<source, image, active, databases, env, state, rewound,
                 blurred, aborts>>

(* _assert_target_empty.  A new SQLite file is made for each attempt.      *)
TargetEmpty(b) == b = "sqlite" \/ databases[b] = Nothing

TransferPossible == SchemaCurrent(image) /\ TargetEmpty(Other)

(* transfer: every row, in one transaction.                                *)
Transferred(data, b) == [databases EXCEPT ![b] =
  [schema |-> data.schema, keys |-> data.keys, backend |-> b]]

TransferCopy ==
  /\ At("transfer", "copy")
  /\ IF TransferPossible
     THEN /\ databases' = Transferred(Db, Other)
          /\ Proceed("switch") /\ UNCHANGED <<serving, loaded>>
     ELSE UNCHANGED databases /\ Started(image) /\ job' = NoJob
  /\ UNCHANGED <<source, image, active, env, state, kept, rewound, blurred,
                 commands, aborts>>

TransferSwitch ==
  /\ At("transfer", "switch")
  /\ active' = Other
  /\ Proceed("start")
  /\ UNCHANGED <<source, image, serving, loaded, databases, env, state, kept,
                 rewound, blurred, commands, aborts>>

TransferUp ==
  /\ At("transfer", "start")
  /\ Started(image) /\ job' = NoJob
  /\ UNCHANGED <<source, image, active, databases, env, state, kept, rewound,
                 blurred, commands, aborts>>

(* recover_source: the target did not come up; .env names the source again. *)
TransferRecover ==
  /\ At("transfer", "start")
  /\ aborts < MaxAborts /\ aborts' = aborts + 1
  /\ active' = Other
  /\ serving' = (IF databases[Other].schema = SchemaOf[image]
                 THEN image ELSE 0)
  /\ loaded' = env /\ job' = NoJob
  /\ UNCHANGED <<source, image, databases, env, state, kept, rewound, blurred,
                 commands>>

(***************************************************************************)
(* Keys: .env gets a new primary, deploy.sh secret rotate, removal of the  *)
(* keys nothing refers to.                                                 *)
(***************************************************************************)
ConfigureKey(k) ==
  /\ job = NoJob /\ k \notin KeysOf(env)
  /\ env' = [primary |-> k, previous |-> KeysOf(env)]
  /\ UNCHANGED <<source, image, serving, loaded, active, databases, state,
                 job, kept, rewound, blurred, commands, aborts>>

RotateStart ==
  /\ BeginCommand /\ serving # 0 /\ env.previous # {}
  /\ Stopped
  /\ job' = [NoJob EXCEPT !.op = "rotate", !.step = "rewrite"]
  /\ UNCHANGED <<source, image, active, databases, env, state, kept, rewound,
                 blurred, aborts>>

(* rotate_records: all records or none.                                    *)
Rotated(data, ring) ==
  [data EXCEPT !.keys = IF @ = {} THEN {} ELSE {ring.primary}]

RotateRecords ==
  /\ At("rotate", "rewrite")
  /\ databases' = IF SchemaCurrent(image) /\ Readable(Db, env)
                  THEN [databases EXCEPT ![active] = Rotated(Db, env)]
                  ELSE databases
  /\ Proceed("start")
  /\ UNCHANGED <<source, image, serving, loaded, active, env, state, kept,
                 rewound, blurred, commands, aborts>>

RotateUp ==
  /\ At("rotate", "start")
  /\ Started(image) /\ job' = NoJob
  /\ UNCHANGED <<source, image, active, databases, env, state, kept, rewound,
                 blurred, commands, aborts>>

(* POST /system/secret-store/rotate: the same, in the running API, with    *)
(* the keyring it was started with.                                        *)
RotateOnline ==
  /\ serving # 0 /\ Readable(Db, loaded)
  /\ Rotated(Db, loaded) # Db
  /\ databases' = [databases EXCEPT ![active] = Rotated(Db, loaded)]
  /\ UNCHANGED <<source, image, serving, loaded, active, env, state, job,
                 kept, rewound, blurred, commands, aborts>>

(* The documented last step: a rotation and a verified backup after it,    *)
(* then the keys no record refers to are removed and the services started. *)
DropKeys ==
  /\ job = NoJob /\ env.previous # {}
  /\ serving = image /\ loaded = env /\ SchemaCurrent(image)
  /\ AllCurrent(Db, env) /\ AllCurrent(kept, env)
  /\ env' = [env EXCEPT !.previous = {}]
  /\ loaded' = env'
  /\ UNCHANGED <<source, image, serving, active, databases, state, job, kept,
                 rewound, blurred, commands, aborts>>

(***************************************************************************)
(* What runs beside the commands, and the operator's plain ones.           *)
(***************************************************************************)
(* SecretStore.create and replace in a running service.                    *)
WriteSecret ==
  /\ serving # 0
  /\ loaded.primary \notin Db.keys
  /\ databases' = [databases EXCEPT ![active].keys = @ \cup {loaded.primary}]
  /\ UNCHANGED <<source, image, serving, loaded, active, env, state, job,
                 kept, rewound, blurred, commands, aborts>>

(* app.cli backup, and the scheduled one: taken and verified.              *)
TakeBackup ==
  /\ job = NoJob /\ serving # 0 /\ SchemaCurrent(serving)
  /\ kept # SafetySnapshot /\ kept' = SafetySnapshot
  /\ UNCHANGED <<source, image, serving, loaded, active, databases, env,
                 state, job, rewound, blurred, commands, aborts>>

(* deploy.sh migrate: the schema only, with whatever image is configured.  *)
MigrateOnly ==
  /\ job = NoJob /\ serving = 0
  /\ Db.schema < SchemaOf[image]
  /\ Upgraded(SchemaOf[image])
  /\ UNCHANGED <<source, image, serving, loaded, active, env, state, job,
                 kept, rewound, blurred, commands, aborts>>

StartServices ==
  /\ job = NoJob /\ serving = 0 /\ SchemaCurrent(image)
  /\ Started(image)
  /\ UNCHANGED <<source, image, active, databases, env, state, job, kept,
                 rewound, blurred, commands, aborts>>

(* The script dies where it stands.                                        *)
Abort ==
  /\ job # NoJob
  /\ aborts < MaxAborts /\ aborts' = aborts + 1
  /\ job' = NoJob
  /\ UNCHANGED <<source, image, serving, loaded, active, databases, env,
                 state, kept, rewound, blurred, commands>>

HostInit ==
  LET first == CHOOSE r \in Revisions : \A q \in Revisions : r <= q
      key == CHOOSE k \in Keys : \A l \in Keys : k <= l
  IN /\ source = first /\ image = first /\ serving = first
     /\ env = [primary |-> key, previous |-> {}]
     /\ loaded = env
     /\ active \in Backends
     /\ databases = [b \in Backends |-> IF b = active
          THEN [schema |-> SchemaOf[first], keys |-> {key}, backend |-> b]
          ELSE Nothing]
     /\ state = [deployed |-> first, rollback |-> 0, rollbackSnap |-> Nothing,
                 pending |-> 0, previous |-> 0, pendingSnap |-> Nothing]
     /\ job = NoJob /\ kept = Nothing /\ rewound = FALSE
     /\ blurred = FALSE /\ commands = 0 /\ aborts = 0

HostNext ==
  \/ \E r \in Revisions, pinned \in BOOLEAN : UpdateStart(r, pinned)
  \/ UpdateSnapshot \/ UpdateRecord \/ UpdateCheckout \/ UpdateStop
  \/ UpdateMigrate \/ UpdateUp \/ UpdateFinish
  \/ RollbackStart \/ RollbackStop \/ RollbackRestore \/ RollbackCheckout
  \/ RollbackUp \/ RollbackFinish \/ RollbackFails
  \/ RecoverSource \/ RecoverData \/ RecoverServices
  \/ RestoreStart \/ RestoreStop \/ RestoreStaged \/ RestoreUp
  \/ TransferStart \/ TransferCopy \/ TransferSwitch \/ TransferUp
  \/ TransferRecover
  \/ \E k \in Keys : ConfigureKey(k)
  \/ RotateStart \/ RotateRecords \/ RotateUp \/ RotateOnline \/ DropKeys
  \/ WriteSecret \/ TakeBackup \/ MigrateOnly \/ StartServices \/ Abort

HostSpec == HostInit /\ [][HostNext]_hostVars

-----------------------------------------------------------------------------
(* Whatever died, and however often, the operator has a way out: the       *)
(* database is never newer than the configured image unless a rollback the *)
(* scripts still accept will put a matching database and image back.       *)
NeverStranded ==
  job = NoJob /\ Db.schema > SchemaOf[image] /\ ~blurred
    => RollbackAllowed /\ RollbackSnap.schema = SchemaOf[RollbackTarget]

(* As long as the operator removes keys only as documented, every secret   *)
(* record of the active database can be decrypted with the keyring of      *)
(* .env, through rotations, updates, restores and transfers that die half  *)
(* way.  A rollback to a snapshot older than the removal is the exception. *)
SecretsReadable == rewound \/ Readable(Db, env)

=============================================================================
