# zero-nvr: TLA+ verification project

This directory holds TLA+ modules that model the backend of zero-nvr (recording,
live view, jobs, events, configuration, accounts, host commands), TLC configurations
that model-check them on small instances, and theorems about them whose proofs TLAPS
checks. The modules are translated from the Python
source under `src/backend/app`; `PROJECT.json` maps every definition to the
lines it stands for, lists the runs, the mutants, the hazards, the findings and
the theorems.

Contents: [1 The system](#1-the-system) · [2 The models](#2-the-models) ·
[3 Runs](#3-runs) · [4 Bounds](#4-bounds) · [5 Fairness](#5-fairness) ·
[6 Proofs](#6-proofs) · [7 Where code and documents differ](#7-where-code-and-documents-differ) ·
[8 Assumptions and abstractions](#8-assumptions-and-abstractions) ·
[9 Not modelled](#9-not-modelled) · [10 Plan](#10-plan)

## 1 The system

zero-nvr is a network video recorder. Its processes:

| process | what it runs | state it keeps |
| --- | --- | --- |
| API | FastAPI; sync handlers in a thread pool; ZLM hook endpoints (`internal/zlm_hooks.py`) | the continuity tracker, recorder modes, runtime health, transcode leases, media sessions and the login limiter in memory |
| worker | a Huey consumer with two threads (`docker-compose.yml`) and a queue in SQLite | tasks queued and scheduled; a task that is running is no longer in the queue; its own table of recorder modes |
| database | SQLite or PostgreSQL through SQLAlchemy | the catalogue, policies, triggers, jobs |
| ZLMediaKit (ZLM) | external: pulls camera streams, writes MP4 files, calls back by HTTP hooks | files on the recording filesystem and on a tmpfs |
| rclone, restic, ffmpeg, ffprobe | external programs started by the worker | archive remotes, backup repositories |
| Frigate, ONVIF devices | external sources of events | |

They interact by HTTP hooks (ZLM to API), queued tasks (API to worker, worker to
itself), and shared state: the database, the file systems and the queue. No
component takes a lock across two of them. Sessions do not lock rows: a session
that reads and then writes may write what is out of date.

### Components

For each component: the state it keeps, its operations, what is hard about it and
what makes it correct. The same list, with source files and status, is in
`PROJECT.json`.

**Recording copies** (`modules/storage/archive.py`, `retention.py`,
`recordings/protection.py`, tasks of `worker/tasks.py`). State: one
`RecordingLocation` row per copy of a segment, the file, the archived object,
`RecordingProtection` rows, policies. Operations: archive, delete, the hourly
retention plan, protect and release, mark missing and relink. Hard: two threads
with tasks of the same segment, a check in one session and the write in another,
a crash between two commits, retries. Correct when footage under
archive-before-delete is never lost, no row claims a copy or a deletion that is
not real, and protected footage stays.

**Recording catalogue and continuity** (`integrations/zlm/continuity.py`,
`recordings/catalog.py`, `reconciliation.py`, `internal/zlm_hooks.py`). State: the
tracker's active and closed generation per stream, `RecordingSegment` rows with
provisional or final times. Operations: the hooks stream-changed, server-started
and record-mp4; recovery of files without rows; rebuild after an API restart. Hard:
lost, repeated, reordered and late hooks, handlers in a thread pool, source
reconnects, crashes of ZLM and restarts of the API. Correct when a final span is
the time the media covers, spans do not overlap and a reconnect splits the timeline.

**Event recording** (`recordings/prebuffer.py`, `triggers.py`, `dispatcher.py`,
three tasks of `worker/tasks.py`). State: fragments on a tmpfs, triggers with their
windows, `.partial` and published files, rows. Operations: promote, collect, scan,
create and end a trigger. Hard: three kinds of task on one fragment without a lock,
triggers that arrive late, full storage, crashes between publish and commit.
Correct when what an event needs is promoted before it is collected, and an
AVAILABLE row is a complete file.

**Recorder runtime** (`recordings/runtime.py`, `arbiter.py`, `policy.py`, the policy
request, five tasks of `worker/tasks.py`). State: the policy, triggers and the disk in
the database; one table of recorder modes in the API and one in the worker; the
recorders in ZLM. Operations: put a policy, trigger and end, reconcile, switch the
profile, the five-minute guard, the boundary tasks of a schedule. Hard: executors that
overlap, calls that are refused after the commit, two tables that do not know of each
other, restarts. Correct when the recorder ends where the policy wants it.

**Scan windows** (`recordings/reconciliation.py`). State: the time of the last completed
scan, a lock. Hard: files at the edge of a window or not yet settled. Correct when a
file whose hook was lost is in the window of a coming scan.

**Playback and its cache** (`recordings/playback.py`, `playback_cache.py`). State:
marker, lock, partial and cached file. Hard: a lock that is taken over from a slow
restore, a retry of one that somebody else repeats. Correct when no viewer gets a file
in the making and one who keeps asking is served.

**Storage targets** (`storage/service.py`, `recording_resolver.py`). State: targets, the
default, the route of each camera, credentials. Hard: implicit routes change with every
edit. Correct when recorders write where their camera resolves to, and one target is
the default.

**Exports and shares** (`modules/exports`). State: the job, its file, the share token.
Hard: cancel against completion, crashes, expiry, simultaneous downloads. Correct when
the plan shows every covered instant once, limits hold, and files go away.

**Backups and recovery kit** (`modules/backups`). State: sets, restic repositories, the
kit's status. Hard: lost answers and retries, policies that change under a run. Correct
when a set is one snapshot and the kit opens the repository in use.

**Events and alerts, notifications** (`modules/events`, `alerts`, `notifications`,
`integrations/frigate`, `integrations/onvif`). State: event rows, triggers, alerts,
deliveries, subscriptions. Hard: two ways by which the same event arrives, late pages,
failed ingests that are acknowledged, acknowledgement against recovery, sends whose
answer is lost. Correct when rows agree with the provider after the last fault, alerts
follow events, and a message is not sent twice without need.

**Live view** (`cameras/media_sessions.py`, `live_transcode.py`, `live_preview_wall.py`).
State: sessions with cleanups and generations, transcodes with leases and timers, feeds
of a preview wall. Hard: timers that have fired and wait for a lock, sessions that end
while a transport opens, tasks that are awaited while others run. Correct when nothing
runs that nobody owns, late timers do no harm, and what may not be watched ends.

**Cameras and onboarding** (`cameras/service.py`, `onvif_onboarding.py`,
`onvif_capability_refresh.py`, `media_runtime.py`). State: device, profiles, bindings,
a configuration revision; the proxies in ZLM. Hard: requests that probe for seconds
without the database, two workers that reconcile one camera. Correct when what is stored
was probed and what plays is what is stored.

**Camera groups and scopes** (`cameras/groups.py`, `auth/camera_scope.py`). Hard: moves and
deletions validated before another commit. Correct when the tree stays a tree and a
deletion widens nobody's access.

**Accounts** (`modules/auth`). State: users, roles, sessions, tokens, resets; the limiter's
tables. Hard: a hash takes a tenth of a second between read and commit. Correct when an
administrator remains, sessions end with their password, guesses are bounded.

**Secrets** (`core/security/secret_store.py`) and **host commands** (`deploy.sh`,
`scripts/*.sh`, `cli.py`, `core/db`). State: records and the key each needs, `.env`,
checkout, image, databases, `deployment/state.env`. Hard: a command that dies at any step.
Correct when references resolve, records can be read, and the operator has a way out.

**Worker and queue, HTTP API, ZLM adapter** appear in the module of each task or handler.
**Audit, system settings, frontend, proof of concept**: section 9.

## 2 The models

| module | models | composed with |
| --- | --- | --- |
| `StorageLifecycle` | copies of finalized segments: archive, retention deletion, protection, missing and relinked files | implements `FootageCopies` |
| `FootageCopies` | abstract: where the media of a segment is | |
| `RecordingCatalog` | hooks, continuity tracker, catalogue rows of one stream, with ZLM as its environment | |
| `PrebufferPromotion` | EVENT_ONLY recording of one camera: tmpfs, triggers, three kinds of task | |
| `RecorderRuntime`, `WeeklySchedule`, `ScanWindows` | the recorder of one camera, the boundaries of a schedule, the windows of scans | `MCRecorder` |
| `LiveSessions`, `TranscodeLeases`, `PreviewWall` | live viewing | `MCLiveView` |
| `ExportJobs`, `ExportPlan`, `PlaybackRestore`, `BackupRuns` | background jobs and the plan of an export | `MCJobs` |
| `AlertRules` | when an event raises an alert | used by `ProviderEvents`, `AlertDelivery` |
| `ProviderEvents`, `OnvifEvents`, `AlertDelivery` | events of Frigate and of ONVIF devices; health events, alerts and notifications | `MCEvents` |
| `CameraConfig`, `StorageTargets`, `CredentialRows`, `Accounts`, `LoginLimiter`, `CameraGroups` | configuration requests and what follows them | `MCSettings` |
| `HostOperations` | update, rollback, restore, migrations, key rotation on the host | `MCSettings` |
| `StorageLifecycleProofs`, `CatalogProofs`, `PrebufferPromotionProofs` | theorems about recording | `StorageLifecycle`, `RecorderRuntime`; `RecordingCatalog`; `PrebufferPromotion` |
| `WorkerProofs` | theorems about the worker's own work | `ScanWindows`, `WeeklySchedule`, `MCEvents` |
| `JobsProofs`, `LiveViewProofs` | theorems about the compositions | `MCJobs`, `MCLiveView` |
| `SettingsProofs`, `AccountsProofs` | theorems about the components of `MCSettings` | `CameraConfig`, `StorageTargets`, `CredentialRows`; `Accounts`, `CameraGroups`, `HostOperations`, `LoginLimiter` |
| `MC...` | constants, scenarios and symmetry for TLC | extend their components |

`MCLiveView`, `MCRecorder`, `MCJobs`, `MCEvents` and `MCSettings` put components that share no
variable side by side. The variable `focus` is chosen at the start and names the component whose
steps a behaviour consists of: interleaving components that share nothing would multiply states
and show nothing more. Fairness is assumed of the focused component only. In
`RecordingCatalog` and `PrebufferPromotion` the variable `faults` is a member of the constant
`Scenarios`, chosen at the start in the same way: the combination of faults (and of threads)
that a behaviour may meet. The theorems about these modules hold for every set of scenarios.

A definition that starts with "Fault:" in its comment is not part of a
specification: it is a plausible mistake in the definition after it, and the
mutants of `PROJECT.json` show that the properties notice it.

### StorageLifecycle

State: `loc` and `file` are the local row and the file; `arch`, `verified`, `recent`
the remote row (`state`, `verified_at`, whether `last_attempt_at` is less than an hour
old) and `object` the truth on the remote; `guarded` and `claiming` the protections
and the requests that have passed their check; `due`, `required`, `pressure`,
`enabled`, `mounted` what the retention planner asks about; `archiveQ` and `deleteQ`
the Huey queue; `pc`, `seg`, `rem`, `hurry`, `seen` the worker threads.

* *The planner* (`EnqueueArchive`, `EnqueueDelete`): `RetentionPlanner.evaluate` and
  `_run_retention_reconciliation` for one segment. The pressure that was measured
  travels with the delete task, as in the code.
* *Archive task*: `ArchiveBegin` (the reads of `prepare`), `ArchivePrepare` (its
  write; a row read as ARCHIVING is not written, since the ORM updates changed columns
  only), `ArchiveUpload`, `ArchiveUploadFails`, `ArchiveSourceMissing` (the transfer,
  outside any session), `ArchiveMarkAvailable`, `ArchiveMarkFailed`. Early returns are
  `ArchiveImpossible`, `ArchiveAlreadyAvailable`, `ArchiveRowConflict`.
* *Delete task*: `DeleteRefused` or `DeleteApprove` (the whole eligibility check is
  repeated), `DeleteMark` (DELETING), the unlink with its three outcomes,
  `DeleteMarkDeleted`, `DeleteMarkFailed`.
* *Reconciliation*: `ReconcileSuspect`, `ReconcileMarkMissing`, `ReconcileRelink`.
* *Protection*: `ProtectionCheck`, `ProtectionCreate`, `ProtectionEnd`.
* *Around them*: deadlines, policy edits, pressure, targets, lost files, mounts, a
  crash of the worker, chosen by the constant `Environment`.

### FootageCopies

`kept[s]` is the set of places that hold the media of `s`. The local copy may be given
up only when another place holds the media, or after the operator's policy waived that.
`StorageLifecycle` maps `object` and `file` to `kept` and its `waived` to `waived`;
rows, queues and threads do not appear.

### RecordingCatalog

State: ZLM (`source`, `recording`, files with their creation `from`, the time `lead`
to the first keyframe and their close `upto`), hooks under way, the tracker (`active`,
`closed`), the rows (`status`, `timing`, `startedAt`, `endedAt`, `completion`) and the
record-mp4 handlers. The media time of a file, `from + lead` to `upto`, is known to the
model and not to the code: the code sees the start time of the hook and the muxed
duration, catalogues a PROVISIONAL row and corrects it from the next boundary
(ADR 0011). Properties compare the two.

* *ZLM, external*: `RegisterSource`, `StartRecording`, `RollOver`, `StopRecording`,
  `LoseSource`, `Crash`, `LoseHook`.
* *Tracker*: `Registered`, `Unregistered`, `Reset`, `ResolveRecord`, `Remember`, each
  one locked call of `ZlmContinuityTracker`.
* *record-mp4*: `Resolve`, `ReadCatalog`, `Write` (or `Conflict`), `Commit`. Between the
  first write and the commit no other session writes (SQLite's write lock); commit, the
  tail mark and `remember_segment` come last, as in the handler.
* *Recovery*: `RecoverFile`, `RecoverPartialFile`; `Restart` of the API with the rebuild
  of the tracker.

### PrebufferPromotion

State: the tmpfs (`src`, `bad`, `expired`), hooks, the windows of triggers (`first` to
`last`, as fragments), in storage the names `partial` and `dest` with their contents, the
row, the queue with retries, and the worker threads. A copy has no lock, so two threads may
hold the same file open: `at[w]` follows the file a thread writes through renames, and
`owns[w]` says whether somebody has truncated it since; `Written` gives what is left.

* *Hook, time and triggers*: `Finalize`, `HandleHook`, `LoseHook`, `Expire`,
  `CreateTrigger`, `EndTrigger`, `QueueRecovery`.
* *Queue*: `Dequeue`, `Return`, `Raise` (put back while retries last), `Crash`.
* *Scan* (`reconcile_camera_prebuffer`): `ScanList`, `ScanNext`, `Probe`, `ScanEnd`.
* *Promotion*: `Select`, `Prepare`, `OpenPartial`, `CopyDone`, `CopyFails`, `Verify`,
  `Publish`, `FindRow`, `InsertRow`.
* *Collection* (`gc_prebuffer_fragment`): `GcBegin`, `GcRow`, `GcUnlink`.

### RecorderRuntime, WeeklySchedule, ScanWindows

`RecorderRuntime`: the facts (`policy`, `manual`, an event trigger, the bound profile `rec`, the
disk) and what `Desired` makes of them; `recorder` and `online` in ZLM; `tracker["api"]` and
`tracker["worker"]`; the queue and the executors. An executor (`Observe`, `Stop`, `Start` and so
on) reads the database in one step and makes one call to ZLM in each of the next. `calm` marks
behaviours in which executions do not overlap and no call fails, `hasty` those in which a profile
or a camera was taken back before its recorder was stopped. `WeeklySchedule` is
`baseline_should_record` and `next_baseline_transition` over short days and weeks, with the chain
of boundary tasks. `ScanWindows` is `_recent_since` with the lock and the completion time.

### LiveSessions, TranscodeLeases, PreviewWall

What happens under a lock (or between two awaits of the event loop) is one action. Expiry
callbacks that have fired and wait are state (`fired`), and so is what a request has opened and
not yet registered. Of transports the kinds WHEP, preview and compatibility are kept apart, since
their cleanups differ; codecs, URLs and signatures are left out.

### ExportJobs, ExportPlan, PlaybackRestore, BackupRuns

Transactions read in one step and commit in a later one, writing the columns they changed.
`ExportPlan` runs the loop of `build` one recording per step, in the order of the query, with both
gap policies, and is compared with the set of covered instants. `PlaybackRestore` has the four files of
a restore and two workers. Making a lock, looking at its age, unlinking it and making another are
steps of their own (`CreateLock`, `LookAtLock`, `UnlinkLock`), as in `_acquire_lock`; so are the
comparison of the cached file (`GetMedia`) and the opening of its path by the response (`ServeMedia`).
`BackupRuns` counts the snapshots restic holds for a set and keeps what the kit was made from.

### AlertRules, ProviderEvents, OnvifEvents, AlertDelivery

`AlertRules` has operators only. `ProviderEvents` counts time in backfill periods; a page is read
in one step and persisted in another. `OnvifEvents` has one device, the runtime's thread with its
tasks, and requests that commit and then wake it; the handler takes what a pull returned (`batch`) one
notification at a time into the rows its transaction sees (`draft`), and commits or fails. Both have
the camera's recording policy (`recording`, `policy`): without event recording no trigger is written,
not even the end of an active one, and the event filter keeps one from being made
(`recordings/triggers.py:136-172`; `Swallowed`, `Refused`).
`AlertDelivery` has one subject, a stream or a
storage target, with the alert and the delivery of each of its events. A run of the delivery task is
`Prepare`, `Send` and `MarkSent` or `MarkFailed`; each of them may raise and be tried again (`RunRaises`,
`Send`), a run that finds the row SENDING raises while the attempt is younger than five minutes
(`Busy`, `FiveMinutesPass`) and sends again when it is not.

### CameraConfig, StorageTargets, CredentialRows, Accounts, LoginLimiter, CameraGroups

Each request of `CameraConfig` is a record with its place in the handler, what it saw of the
device and of the rows; tasks carry the profiles to restart; a viewer's request reads the source of a
profile (`ViewLive`) and has the proxy added later (`AddViewed`). `StorageTargets` compares `writes`,
where each recorder writes, with the resolver. Whoever reconciles a recorder has an `errand`: what is
wanted is read in one step, by a policy request before its commit (`PutPolicy`), by a task or by the
guard, and each call to ZLM is another (`Look`, `StopRecord`, `StartRecord`), at any of which the errand
may fail (`JobFails`). `CredentialRows` has one owner of each kind and the
secret store as a set. `Accounts` counts an `era` per account, which a new password or a
deactivation begins, and compares it with that of each session. `LoginLimiter` is `rate_limit.py`
with request threads around it; its deques are sets, since they are pruned by age and counted, and a
failure is its instant and its number in it. `CameraGroups` has the tree, the members and the scopes.
History variables (`straddled`, `miscounted`, `raced`, `crossed`, `loose`, `late`, `overtaken`, `astray`)
mark that two requests overlapped, or a call was lost, in the one way a property does not survive;
section 8 lists them.

### HostOperations

`source` (the checkout), `image`, the databases with their schema revision and the key each record needs,
`env`, and the recorded state of the deployment. Each command is a sequence of actions named after
the step of its script; `Abort` may come between any two, and the operator's next command finds
what was left.

## 3 Runs

Each run asks one question; run it with `tlc -workers 2 -config <cfg> <module>`. States are
distinct states.

| run | question and answer | states |
| --- | --- | --- |
| `storage` | Two threads archive and delete an expendable segment; deadlines move, the archive rule is edited, the disk fills and recovers, users protect and release, the worker crashes. Media is never lost under the rule (`FootageSurvives`), DELETED is true (`DeletedMeansGone`), and the tasks implement `FootageCopies` (`CopiesSpec`). | 1.17M |
| `storage_faults` | Files vanish, the filesystem is unmounted, targets are disabled, the worker crashes: an AVAILABLE remote row has a verified object (`RemoteAvailableIsReal`), and a row whose archive task died does not stay ARCHIVING while retention waits for it (`ArchivingResolves`, under fairness). | 181k |
| `catalog` | Four scenarios. *calm*: hooks in order but repeated, ZLM crashes, reconnects, API restarts: a normalized row shows the true time of its media and FINAL rows do not overlap (`CalmTimingIsTrue`). *rough* and *again*: hooks lost, reordered, repeated and slower than recovery, recorders stopped: a lost source has one tail (`SerialOneTail`), a FINAL span never changes (`SerialFinalIsStable`). *crossed*: two handler threads. In all of them no row is normalized across a reconnect (`GenerationsStaySplit`). | 1.63M |
| `prebuffer` | *shared*: two threads promote, scan and collect one fragment with crashes and extra scans; *alone*: one task at a time, two fragments, full storage, unreadable fragments, lost hooks, crashes. A needed fragment is removed only once it is AVAILABLE (`GcKeepsRequired`), the complete file behind an AVAILABLE row is never truncated, removed or replaced by less (`PublishedCopyStays`), and with one task at a time needed media exists and an AVAILABLE row is a complete file (`AloneNothingIsLost`). | 1.50M |
| `prebuffer_promoted` | Liveness without faults: a needed fragment becomes a recording, also when its trigger came after the promote task had skipped it (`RequiredPromoted`). | 55k |
| `live_view` | Every open transport, running transcode and preview is in somebody's hands and capacity holds (`LiveResourcesHeld`); late timers take nothing from who renewed (`UsedStreamsStay`); the wall shows what was asked for (`WallShowsDesired`); disabled cameras go dark, idle transcodes and stale previews stop, frames are not starved (`LiveViewProgress`). | 158k |
| `recorder` | The recorder ends off when it is not wanted and on when it is and in the right mode and profile when nothing overlaps or fails (`RecorderSettles`); until then a recorder in a wrong mode or on a wrong profile is known to a task that is queued or under way (`WrongRecorderHasTask`); the boundary tasks miss no change of the schedule unless one is computed in a window carried over from the day before (`ScheduleFollowedUnlessCarried`); no gap between scans (`NoGapBetweenScans`). | 337k |
| `jobs` | Plans are exact (`PlanIsExact`), share limits and revocations hold (`ShareHonoured`), nothing torn is served, however late a response opens the file, unless two restores were at work at once (`NothingTornServed`), one snapshot per backup set and a truthful kit status (`BackupRecordsTrue`), exports, restores and backups end (`JobsEnd`). | 301k |
| `events` | Alerts follow the events (`AlertsFollowHealth`), a message is sent once plus once per attempt whose outcome no row says (`SentOnceUnlessUnsure`), a task that has stored what its subscription delivered has an open ONVIF event exactly when the device's property is active, and what is stored of Frigate's events is what Frigate said, triggers included unless the recording policy swallowed a report (`EventRowsTrue`), and after the last fault Frigate's events are closed, the ONVIF event is what the device says and every delivery has ended that a fault did not leave behind (`EventsSettle`). | 620k |
| `settings` | Stored sources and verdicts are of what was probed (`ProbesStayTrue`), proxies follow the configuration though viewers and tasks act on what they read earlier (`ProxyFollowsConfig`), recorders the route though jobs read it before a commit or long ago (`RecordersFollowRoute`), references resolve (`ReferencesResolve`), an administrator remains (`AdministratorRemains`), sessions end with their password (`SessionsFollowAccount`), guesses are bounded (`GuessesBounded`), groups stay a tree and deletions widen nothing (`GroupsStaySound`), and host commands that die leave a way out (`NeverStranded`) and readable secrets (`SecretsReadable`). | 1.58M |

Two more runs (`storage_protect_race`, `catalog_schedule_gap`) find a violation of a sentence of the
repository's documents; section 7 describes them.

Every property of a passing run has a mutant: a mistake in one definition (a dropped
guard, a stale value, a swapped order) that the property catches under the run's own
configuration. The type invariants are the base of the proofs; no run spends time on them.

## 4 Bounds

* *Storage.* One segment, one archive target, two threads. Segments share nothing but the
  policy, the pressure and the threads, and the interesting cases are two tasks of the
  *same* segment: two threads and a queue of one further copy of each task
  (`MaxPending = 1`) give two archive tasks, two delete tasks or one of each in every
  interleaving, with retries. One crash suffices for a crash between any two commits. The
  theorems drop these bounds.
* *Catalogue.* Three files, two registrations, six instants. Three files are a predecessor,
  a file in the middle and a successor (what a lost or reordered hook needs), or two of one
  registration and one of the next. `MaxIds = 3` is two registrations and one restart. All faults
  together with two handlers are beyond TLC: the scenarios group those that interact.
* *Prebuffer.* One fragment with two threads (a race is about one fragment) or two fragments
  with one task at a time (a scan must pass from one to the other; the scenario kind "many" lifts
  the one fragment, "threads" the one task). One trigger, which may end; one retry of a promotion
  and of a collection where the code has 3, since a second repeats the first; a scan is retried
  in `prebuffer_promoted` and asked for again by crashes and sources in `prebuffer`.
* *Live view.* One session with two transports (one may close while the other opens), three leases
  on two profiles with room for one transcode (a lease waits, one is late, one holds), two slots
  and two feeds, where one subscription moves from slot to slot.
* *Recorder.* One camera, two profiles, one worker thread and the API: two executors overlap. Two
  changes of facts, or three in a calm behaviour, whose executions do not interleave; one fault,
  one retry. Two days of three hours with up to two windows cover
  windows that touch, nest and cross midnight or the week (`SmallSchedules`); two lost files, eight
  units of time.
* *Jobs.* Two viewers and one download, one retry of each task, one cancellation, two workers that
  restore with three faults (a lock that gets old under two restores and a copy that fails, say), two backup sets in two repositories, one change of the policy, up to three recordings on
  five instants.
* *Events.* One Frigate event, three backfill periods with a lookback of two, two ingest faults, two
  edits of settings or recording policy; three changes of the ONVIF property with two edits of
  configuration or policy and one lost subscription; two health events, three transitions, one fault,
  one retry. Behaviours begin with event recording on: the theorems are about any beginning.
* *Settings.* Two overlapping requests and two workers on one camera with two profiles and two
  addresses, one change of the device (a replacement may change its addresses too) and one viewer's
  request at a time; a device without hardware identity only where nothing was imported. Two disks
  and two cameras, two jobs at a time, two edits and one fault, which is what it takes to overlap an edit
  with a job that read before it; which disks are full stays as it is at the start, where one disk with
  room is there and may be the default, and the other is full or comes later. Two users, six requests; two threads with two identifiers
  and a limit of two; three groups; two releases, two keys, four commands of which two may die.
  Larger instances were checked once: `Accounts` with `MaxServed = 7` (487k states),
  `HostOperations` with two aborts and any number of commands (11.8M), `LoginLimiter` with three
  threads.

`CHECK_DEADLOCK FALSE` is set in every configuration because the system may stop: when every
file is made, catalogued and collected, or the bounds are used up, nothing is left to do.

Symmetry is used for the handler threads in `catalog` and the worker threads in `storage` and
`prebuffer`, which do not check liveness.

## 5 Fairness

* `StorageLifecycle!FairSpec`: weak fairness of each thread's steps within a task (rclone and
  unlink return; rclone runs with a timeout), of the retention reconciliation of each segment
  (a periodic task) and of the ageing of an attempt
  (time passes). Nothing is assumed of users, of the environment or of crashes.
* `PrebufferPromotion!Fairness`: weak fairness of the handling of hooks, of the passing of the
  buffer window, and of each thread going on with its task or taking another one. Which task is
  left open, so the result does not depend on the order of the queue.
* `LiveFairness`, `LeaseFairness`, `WallFairness`: timers fire, callbacks that have fired get the
  lock, requests and cleanups go on, processes end when they are told to, the event loop runs what
  is ready. Viewers need not do anything.
* `RecorderFairness`: executors go on, the guard is periodic and post-roll ends; strong fairness of
  `StartTask`, for a worker thread is again and again busy with other tasks and Huey is first in,
  first out.
* `ExportFairness`, `RestoreFairness`, `BackupFairness`: the queue delivers, tasks go on, time
  passes, the expiry task is periodic, and a viewer who wants to play keeps asking. No task is
  assumed to survive a crash.
* The specifications of `MCLiveView`, `MCRecorder`, `MCJobs` and `MCEvents` conjoin a disjunction over
  `focus`: each behaviour is fair to the component it consists of, and to nothing else.
* `FrigateFairness`, `OnvifFairness`, `DeliveryFairness`: messages the broker keeps are delivered,
  backfill is periodic, the runtime's loop goes on, events of the provider end, delivery tasks go on.
* `RecordingCatalog`, `WeeklySchedule`, `ScanWindows`, `ExportPlan` and the components of `settings`
  have safety properties only.

## 6 Proofs

TLC checks small instances; the theorems hold for every value of the constants. The assumptions
are the named ASSUMEs of the component modules, which TLC evaluates in every run: bounds are
natural numbers, sets that must have a member have one, the values that stand for nothing are not
members (`SetsAssumption`, `PrebufferAssumption`, `ProfilesAssumption`, `WallConstants`,
`RestorerAssumption` and so on), and four that say something about the system. `LimiterAssumption`: a
lockout is at least as long as the window (both are 300 seconds by default). `ScanConstants`:
a scan and the settling time fit into the overlap of two scans. `ScheduleConstants`: a schedule
has a window, as `validate_schedule` demands. `HostAssumption`: a later release knows every schema
of an earlier one.

In most proofs the property is not inductive alone. Each module states the stronger invariant as
named conjuncts, shows that it holds initially and that every action keeps it (a lemma for each
action or group of actions), and concludes. A theorem with a hypothesis beside the specification
names it; the others have none.

| module | theorem | says |
| --- | --- | --- |
| `StorageLifecycleProofs` | `TypeCorrect` | `Spec => []TypeOK` |
| | `FootageSurvival` | `Spec => []FootageSurvives` |
| | `TruthfulDeletion` | `Spec => []DeletedMeansGone` |
| | `TruthfulArchive` | `Spec => []RemoteAvailableIsReal` |
| | `BlockedFootage` | `Spec => BlockedFootageStays` |
| | `Refinement` | `Spec => CopiesSpec`, when files do not vanish by themselves |
| | `RecorderTypes` | `RecorderSpec => []RecorderTypeOK` |
| | `WrongRecorderIsTold` | `RecorderSpec => []WrongRecorderHasTask` |
| `CatalogProofs` | `FinalSpansStayFinal` | `Spec => SerialFinalIsStable` |
| | `RegistrationsSplit` | `Steady /\ Spec => []GenerationsStaySplit` |
| | `SourceEndsOnce` | `Steady /\ Spec => []SerialOneTail` |
| | `CalmCatalogueIsTrue` | `Spec => []CalmTimingIsTrue` |
| `PrebufferPromotionProofs` | `TypeCorrect` | `Spec => []TypeOK` |
| | `GcSafe` | `Spec => GcKeepsRequired`, when `Timely` |
| | `NothingIsLost` | `Spec => []AloneNothingIsLost`, when `Timely` |
| | `PublishedStays` | `Spec => PublishedCopyStays`, when `AtMostTwo` threads work |
| `WorkerProofs` | `NoFileMissed` | `ScanSpec => []NoGapBetweenScans` |
| | `ScheduleFollows` | `ScheduleSpec => []ScheduleFollowedUnlessCarried` |
| | `AlertsStayTrue` | `DeliverySpec => []AlertsFollowHealth` |
| | `NotificationsSentOnce` | `DeliverySpec => []SentOnceUnlessUnsure` |
| | `EventsTrackDevice` | `OnvifSpec => []EventsFollowDevice` |
| | `FrigateIsStoredTruly` | `FrigateSpec => []FrigateStoredTruly` |
| | `EventRowsStayTrue` | `EventsSpec => []EventRowsTrue` |
| `JobsProofs` | `SharesHonoured` | `ExportSpec => ShareHonoured` |
| | `CacheStaysWhole` | `RestoreSpec => []CacheIsWhole` |
| | `ViewersGetWholeFiles` | `RestoreSpec => []NothingTornServed` |
| | `BackupRecordsStayTrue` | `BackupSpec => []BackupRecordsTrue` |
| | `PlansAreExact` | `PlanSpec => []PlanIsExact` |
| `LiveViewProofs` | `ResourcesStayHeld` | `ViewSpec => []LiveResourcesHeld` |
| | `WallStaysDesired` | `ViewSpec => []WallShowsDesired` |
| | `UsedStreamsKept` | `ViewSpec => UsedStreamsStay` |
| `SettingsProofs` | `SecretsBelong` | `CredentialsSpec => []ReferencesResolve` |
| | `RecordersFollow` | `TargetsSpec => []RecordersFollowRoute` |
| | `ProxiesFollow` | `ConfigSpec => []ProxyFollowsConfig` |
| | `ProbesHold` | `ConfigSpec => ProbesStayTrue` |
| `AccountsProofs` | `AdministratorStays` | `AccountsSpec => []AdministratorRemains` |
| | `SessionsEnd` | `AccountsSpec => []SessionsFollowAccount` |
| | `SecretsStayReadable` | `HostSpec => []SecretsReadable` |
| | `DeploymentNeverStranded` | `HostSpec => []NeverStranded` |
| | `GroupsRemainSound` | `GroupsSpec => GroupsStaySound` |
| | `GuessesStayBounded` | `LimiterSpec => []GuessesBounded` |

**Copies.** `SafetyInv` adds what is true in the middle of a task: `ObjectInv` (`verified_at`, the
state AVAILABLE, and a thread that has uploaded but not yet written all stand for an object on the
remote), `CopyInv` (from its approval to its unlink a delete task has another copy or a waiver
behind it, and neither is ever taken back: this is why the stale reads of the delete task do no
harm) and `GoneInv` (past the unlink there is no file while the filesystem is mounted).
`BlockedFootage` follows from `TypeOK` alone: only `DeleteApprove` begins a deletion and it repeats
the check. `Refinement` shows that each action is a step of `FootageCopies` or leaves `kept`,
`waived` and `rule` alone.

**Catalogue.** `RowsInv` is true whatever fails: files are made one after the other, and what a
handler has read of rows and files is as it says, with one handler also still current. That is
`FinalSpansStayFinal`: what would finalize a row again has read that it is PROVISIONAL. `SplitInv`
adds what the tracker knows: the generation that is active or closed stands for the last
registration or the one before (`GensKnown`), registrations follow each other in time
(`GensInTime`), and what a handler was told by `resolve_record` is of its own file's registration
(`HandlerKnows`). `TailInv` adds which row may carry the mark of a lost source; `CalmInv` that
without lost, late or reordered hooks the predecessor is the file before, so that the boundary is
the end of its media. `Steady` excludes the two faults with which
`GenerationsStaySplit` is false (section 7); `CalmTimingIsTrue` names its own.

**Event recording.** `TypeOK` contains that a thread at a step about a fragment has one; `TypeInv`
adds `TasksProper`, that queued and running tasks are about a fragment unless they are scans.
`GcInv` says that a collecting thread works on an expired fragment, and that one about to unlink
has one that is not needed or has a row: under `Timely` no trigger begins to need an expired
fragment, and rows are not withdrawn. `NothingIsLost` is about any scenario without "threads"; its
invariant says that one thread at most is at work, that what is published or verified is complete
(`AloneInv`) and that what has left the tmpfs was collected properly (`GoneInv`). `PublishedStays`
is about two threads: once a fragment has a published file, one thread at most still writes it
(`LastWriter`), and that one has either lost the file it wrote to the one who published or writes
a file of its own from the start (`LastCopyWhole`). With three threads it is false (section 7).

**Recorder.** `SideTypes` and `WorkTypes` hold under every fault and interleaving; a recorder runs
on a stream that ZLM has. `OneRun` is about a calm behaviour: what the one execution has read still
holds (`SoundRun`), except that a post-roll may end meanwhile, whose task is then queued; no call of
it fails, since it waited for the stream. `BoundaryHeld` says that a policy with a schedule has a
boundary task of its own version, scheduled, queued or in execution, and that no task with another
version counts as one: without it a window could begin with nobody told. `ModeTold` and
`ProfileTold` are the property with the tasks named more exactly: which ones force, and how far a
forced execution may have come. A step of an execution keeps them by one of three lemmas
(`ProceedTold`, `EndTold`, `TakeTold`), a change of the facts by the task it pushes (`StillTold`) or
because `hasty` excludes it.

**The worker.** For scans, `ScanInTime` bounds when the next window begins. For the schedule,
`ScheduleInv` remembers a time at which the next boundary was computed with no window of the day
before; from there to the boundary no window starts or ends, which takes the arithmetic of days
and weeks (`TimeIs`, `NextHour`, `Yesterday`, `WithinWeek`), that the first edge in the future is
found among the next days (`NextIs`, `EdgeIsFound`) and that what a window covers changes at its
edges only (`ChangeIsEdge`). For alerts, `AlertInv` says that one event is open at a time, that an
acknowledgement under way has read the alert of an open event or is `raced`, and counts sends by
the step of the delivery task: before an attempt is made the messages sent do not exceed the attempts
whose outcome was not stored, and who has been answered is one ahead. For ONVIF, `OnvifInv` is about the rows as the
transaction sees them: they hold nothing the device has not been through (`RowsPlausible`) and are not
ahead of any notification still to come (`RowsBefore`), and while a subscription is open the state the
device is in is on its way or ingested, which is where the synchronization point is needed; a trigger differs
from its event only while the event is `swallowed`, and the next report the policy lets through puts it
right. For Frigate's events, every message on its way and every entry of a page that was read holds
(`ReportHolds`): it was true when it was made, and an event only ever gets an end.
`EventRowsStayTrue` puts both side by side: every step of the composition is a step or a stutter of
each component (`EachComponentSteps`).

**Jobs.** `served` counts the downloads that were started, and only the conditional UPDATE adds to
it. For restores, `HolderLocks` says that until two were at work (`overtaken`) whoever is past the
lock owns the lock file, so that there is one of them; `StaleIsOld` that a worker which judged the lock
old looks at one nobody at work owns; `CheckedStaysWhole` that what a worker has compared is still the
whole partial file when it renames it. The cache then holds whole files only (`CacheIsWhole`), which is
why a response that opens the path late cannot find a torn one: the comparison of sizes plays no part in
it. A backup run that is about to make a snapshot works on a repository without one of its
set; the fingerprint of a kit vouches for what was read with it. For the plan, `LoopExact` is the
invariant of the loop: before the cursor, an instant that is not shown is covered by no recording
and those left begin after it (`JumpIsGap`: the order of the query), and nothing that the loop has
seen covers an instant after the cursor.

**Live view.** A registered cleanup belongs to a served transport of a live session, one about to
run to a session that is over, and what nobody serves is not open unless ZLM kept it. The table of
transcodes has no lease twice, an unwatched entry is timed, and `Cardinality` stays within
`MaxDerivatives`. The wall's table holds working feeds for their slots, each working feed is there
or cancelled, and what `apply_sync` does not mean to stop shows what is asked for.

**Settings.** For secrets: every reference was created, belongs to one row, and is what a request has
read unless two were at it (`raced`). For routes: at most one default; unless a camera is `astray`, the jobs at work on it want the same
(`SameWants`), which is what the resolver says now unless a forced task waits to read again
(`WantsAreCurrent`), and who is about to start the recorder finds it off or started for that
(`StartsSafely`); so whichever calls last leaves it there (`WritesFollow`). For proxies: what plays, what a task is about to play and
what a viewer is about to have played is the stored source, or a restart that will see it is still to
come (`PlaysAreCurrent`, `RestartsBound`), except for the profiles in `loose`; for probes: what an import verifies covers what it stores, and a
verification of the current revision has read what the rows hold.

**Accounts and host.** A removal under way leaves somebody unless another one overlapped; a request
that ends sessions has seen each of them or noted it as opened since. For the host, the invariants
follow each command step by step: a rollback point is a database of the release it names, an update
moves to a release that knows the schema, and while the database is ahead of the image the way out
is kept; and each record's key is in the ring it will be read with. For groups, the groups above one
are the least closed set, and a move that was validated and not `crossed` stays valid. For the
limiter, `OpenKeyCounted` says that without a block the bucket is below its limit and that at most
the other threads judged what it has forgotten of the window; `BlockedKeyCounted` that while there
is a block every further guess was under judgement when it was set, for none is checked until it is
over; what the next check then forgets is as much (`ExpiryKeeps`, where the lockout is as long as
the window).

*Only model-checked.*
* Liveness: `ArchivingResolves`, `RequiredPromoted`, `LiveViewProgress`, `RecorderSettles`,
  `JobsEnd`, `EventsSettle`. Fairness and ENABLED are out of the prover's
  reach.
* The exceptions named by the history variables (section 8) are hypotheses of the properties, in the
  runs and in the proofs alike.

## 7 Where code and documents differ

While the models were written, TLC found behaviours of the code that contradict a sentence of the
repository's documents. Two of them are kept as runs that expect the violation:

* `ProtectedFootageKept`, run `storage_protect_race` (`modules/recordings/protection.py:123`). create looks for DELETING locations and then inserts, execute evaluates protections and then writes DELETING, each without a lock or a transaction around read and write; interleaved, both succeed and protected footage is unlinked. docs/specs/0005-recording-retention-and-purge.md:254 says "RecordingProtection blocks automatic deletion."
* `NormalizedTimingIsTrue`, run `catalog_schedule_gap` (`modules/recordings/catalog.py:132`). When zero-nvr stops a recorder (mode off at the end of a schedule) and starts it again while the source stays registered, the generation goes on: the first file after the pause normalizes the last row before it to end at its own start, so footage from before the pause is shown hours later. finalize_explicit_stop_tail (src/backend/app/modules/recordings/runtime.py:505), which would settle the tail at the stop, is called by nobody. docs/adr/0011-zlm-recording-time-normalization.md:83 says "Do not invent continuity merely to remove a visual gap."

The others are found the same way when the configuration named is changed as stated and checks the
property named; no run expects them to hold or to fail.

* `RequiredCopyStaysAvailable`, `StorageProtectRace.cfg` with `Environment = {}` (`modules/storage/archive.py:267`). ArchiveLifecycleService._mark_failed sets the remote row FAILED whatever state another archive task of the same segment has given it, also AVAILABLE after the local copy was deleted because of it; the catalogue then has no AVAILABLE copy and nothing archives the segment again, since prepare needs an AVAILABLE local source. docs/specs/0005-recording-retention-and-purge.md:261 says "A required last valid copy is not silently removed."
* `DeletionCompletes`, `StorageProtectRace.cfg` with `FairSpec`, `Environment = {}`, `MaxCrashes = 1` (`modules/storage/retention.py:1050`). LocalRetentionDeletionService.execute commits DELETING, unlinks, then commits DELETED; after a crash in between no code looks at DELETING rows again (execute returns not_available, reconciliation treats the row as known). docs/specs/0005-recording-retention-and-purge.md:130-137 gives the deletion lifecycle as "AVAILABLE -> DELETING -> physical delete -> DELETED".
* `FailedDeletionRetried`, `StorageProtectRace.cfg` with `FairSpec`, `Environment = {}` (`modules/storage/retention.py:967`). After an OSError the row is FAILED and the task raises; its retries (worker/tasks.py:1108, retries=2) call execute again, which returns not_available for every state but AVAILABLE, so the unlink is never retried. docs/specs/0005-recording-retention-and-purge.md:143 says "retry only through the background-task policy".
* `EarlyDeletionNeedsPressure`, `StorageProtectRace.cfg` with `Environment = {"pressure"}`, `Expendable = {s1}` (`worker/tasks.py:1213`). The pressure seen when the plan was made travels with the delete task and replaces a new look at the disk: up to 500 queued tasks delete unexpired BEST_EFFORT footage after the pressure is gone. docs/specs/0005-recording-retention-and-purge.md:191 says "Under severe disk pressure, old ordinary unprotected footage may be deleted earlier" and :179 "schedule cleanup until configured recovery headroom is restored".
* `DeletedFileIsGone`, `StorageProtectRace.cfg` with `Environment = {"detach"}` (`modules/storage/retention.py:1064`). unlink(missing_ok=True) reports success when the recording filesystem is not mounted, so the row becomes DELETED while the file still exists and reappears with the mount, where reconciliation leaves it as known. docs/specs/0005-recording-retention-and-purge.md:270 says "Physical-delete failure never becomes false DELETED state."
* `FinalSpansDisjoint`, `CatalogScheduleGap.cfg` with `Scenarios = {{"lost"}}` (`modules/recordings/catalog.py:136`). With the hook of file N+1 lost, the hook of N+2 normalizes N to N+2's start although N+1 lies between them; reconciliation then adds N+1 with its own span, and the rows of N and N+1 overlap. docs/specs/0008-stream-reconnect-and-recording-recovery.md:166 says "A missed `on_record_mp4` hook is therefore recoverable."
* `NormalizedTimingIsTrue`, `CatalogScheduleGap.cfg` with `Scenarios = {{"reorder"}}` (`modules/recordings/catalog.py:330`). When the hook of N+2 is handled before that of N+1, N is normalized to N+2's start and is FINAL; the later hook of N+1 can no longer correct it. docs/IMPLEMENTATION-MAP.md:336 says the two-stage PROVISIONAL/FINAL design exists to handle 「hook 乱序到达」 (hooks that arrive out of order).
* `OneTail`, `CatalogScheduleGap.cfg` with `Handlers = {h1, h2}`, `Scenarios = {{"threads"}}` (`internal/zlm_hooks.py:548`). previous_segment_id was resolved at the start of the request (line 400); a second thread that resolved before the first one remembered its segment clears the mark of an outdated predecessor, and two rows stay source_lost. backend/app/modules/recordings/catalog.py:179 says "Move source-loss completion evidence to the latest known tail."
* `GenerationsStaySplit`, `CatalogScheduleGap.cfg` with `Scenarios = {{"flap"}}` (`integrations/zlm/continuity.py:175`). resolve_record compares a late file with the end of the one closed generation and not with its registered_at; when the source was lost twice, a file of the first registration is resolved to the second and its row can be normalized by a file recorded after the reconnect. docs/adr/0011-zlm-recording-time-normalization.md:53 says "Never use a post-reconnect segment boundary to normalize a pre-disconnect segment."
* `GenerationsStaySplit`, `CatalogScheduleGap.cfg` with `Scenarios = {{"late"}}` (`internal/zlm_hooks.py:242`). The boundary of an unregister or register is the time its hook is handled, not the time it happened; files of the next registration created before the handling fall on the old side of it and normalize the old tail. docs/adr/0011-zlm-recording-time-normalization.md:154 says "Source unregister/reconnect always splits timing sessions."
* `AvailableIsComplete`, module `PrebufferPromotion`, the constants of `PrebufferPromoted.cfg` with `Spec`, `NFrags = 1`, `Workers = {w1, w2}`, `Scenarios = {{"threads", "crash"}}` (`modules/recordings/prebuffer.py:326`). promote_prebuffer_fragment and reconcile_camera_prebuffer write the same ".partial" name. When the second truncates the file after the first has compared its size, the first publishes and commits a short file; if the worker then dies, an AVAILABLE location stands for incomplete media, and every later attempt stops at the size comparison (line 298). docs/adr/0010-event-only-rolling-tmpfs-promotion.md:144 says "Only verified/published persistent fragments become canonical RecordingLocations."
* `GcKeepsRequired`, module `PrebufferPromotion`, the constants of `PrebufferPromoted.cfg` with `Spec`, `Workers = {w1, w2}`, `Scenarios = {{"threads", "late", "many"}}` (`worker/tasks.py:337`). gc_prebuffer_fragment reads the triggers once (line 298), commits, and unlinks later without another look: a trigger committed in between needs a fragment that is deleted. docs/specs/0003-rolling-mp4-prebuffer.md:304 says "Before unlink, re-check eligibility."
* `RequiredPromoted`, module `PrebufferPromotion`, the constants of `PrebufferPromoted.cfg` with `FairSpec`, `Scenarios = {{"many", "bad"}}` (`worker/tasks.py:857`). _probe_duration raises on a fragment that ffprobe cannot read and the exception ends the whole scan, so the readable fragments listed after it are not promoted, in every retry. docs/specs/0003-rolling-mp4-prebuffer.md:282 says "protect/promote any fragment overlapping a still-required window".
* `BufferDrains`, module `PrebufferPromotion`, the constants of `PrebufferPromoted.cfg` with `FairSpec`, `NFrags = 1`, `Scenarios = {{"lost"}}` (`modules/recordings/dispatcher.py:72`). Only the record-mp4 hook schedules the collection of a fragment; the recovery scan promotes fragments but schedules none, so one whose hook was lost stays in the tmpfs. docs/specs/0003-rolling-mp4-prebuffer.md:105 says "oldest finalized ephemeral files are deleted after the buffer window expires" and its recovery procedure at line 283 "resume normal GC".
* `ScheduleFollowed`, `Recorder.cfg` (`modules/recordings/policy.py:425`). The candidates of next_baseline_transition begin with the windows of today's date; computed in the early hours of a window that began the day before, the end of that window is not among them, so the boundary task is scheduled for a later time and the recorder goes on. The guard, which applies the schedule every five minutes, limits the error to that time. The comment of the property is the expectation here; no document states it.
* `CalmRecorderIsRight` without `~hasty`, `Recorder.cfg` (`modules/recordings/runtime.py:455`). A running recorder whose mode the process does not know is left alone unless somebody forces a new one. When RECORD is bound to another profile and back, or a camera is retired and enabled again, before the task of the first change has stopped the recorder, the process that comes to it may not know its mode (it restarted, or the other one set it), and the recorder stays in the old mode. The comment of the property is the expectation here; no document states it.
* `FrigateEventsSettle` without `\/ unheard[e]`, `Events.cfg` (`modules/recordings/triggers.py:141`). When event recording is switched off, or the policy is gone, while a provider's event lasts, upsert_provider_trigger returns before it looks at the trigger: the end is not stored, planned_end_at stays empty, and after event recording is switched on again the ACTIVE trigger counts as an event that lasts, so that the recorder goes on. docs/specs/0002-event-recording-lifecycle.md:140-142 gives the lifecycle as "provider end -> Event completed -> planned_end = ended_at + post_roll". The ONVIF events are in the same position (`OnvifEventsMatchDevice` without `\ swallowed`).
* `DeliveriesEnd` without `\ orphaned`, `Events.cfg` (`modules/notifications/delivery.py:118`). A run whose outcome could not be stored leaves the row SENDING; Huey's three retries, half a minute apart, find it busy for five minutes and are used up, and nothing queues the delivery again, so that it stays SENDING. docs/specs/0014-alerting-notification-and-escalation.md:156 says "Use a small bounded retry policy for transient failures."
* `ProxyFollowsConfig` when `AddViewed` leaves `loose` alone, `Settings.cfg` (`modules/cameras/media_runtime.py:217`). A viewer's request resolves the source of the profile in its session (cameras/api.py:2410) and adds the proxy after it, when ZLM says the stream is offline. A commit of another source and its whole reconcile task fit between, and the proxy is then added with the old source. docs/specs/0019-device-runtime-lifecycle-and-reconfiguration.md:118 says "a changed bound stream URI restarts only that profile's proxy".
* `NothingTornServed` without `overtaken`, `Jobs.cfg` (`modules/recordings/playback_cache.py:388`). A restore that takes longer than the time to live of its lock, or two workers that both judge a lock old of which the second unlinks what the first has made (lines 300-316), work at once on one partial file; one of them may rename the unfinished file of the other into the cache, and a response opens it. The comment of the property is the expectation here; no document states it.
* `PublishedCopyStays`, module `PrebufferPromotion`, the constants of `PrebufferPromoted.cfg` with `Spec`, `NFrags = 1`, three workers, `Scenarios = {{"threads", "again"}}` (`modules/recordings/prebuffer.py:326`). With three attempts at one fragment at a time, the first publishes and commits, the third truncates the partial file the second has compared, and the second renames it over the published file. The default of two threads (`docker-compose.yml:73`, `ZERO_NVR_HUEY_WORKERS:-2`) excludes it, which is the hypothesis `AtMostTwo` of `PublishedStays`; a larger value does not, and no document warns of one. docs/adr/0010-event-only-rolling-tmpfs-promotion.md:144 says "Only verified/published persistent fragments become canonical RecordingLocations."

## 8 Assumptions and abstractions

Shared by all modules: database sessions do not lock what they read (pysqlite begins a
transaction at the first write; PostgreSQL runs READ COMMITTED), the ORM writes only the columns
that changed, and Huey takes a task out of its queue before it runs it, so a crash loses the
tasks that are running.

*Storage.*
* An upload is atomic at the remote: the object is there with its size or it is not. Objects do
  not vanish from remotes.
* `ArchiveAlreadyAvailable` stands for both early returns of `prepare`; the branch that verifies
  an existing object again cannot be reached, since no code makes a remote row AVAILABLE without
  `verified_at`.
* Nothing in the repository calls `dispatcher.archive_segment` or the reconciliation with
  `pressure=True`; these entries are left out.
* Deadlines, classes and priorities are abstracted to `due` and `Expendable`; pages and limits of
  a retention pass to the choice of the segment. The local target stays enabled.

*Catalogue.*
* One stream; streams share nothing but threads. Time is counted in instants; the settle time of
  reconciliation is one of them.
* A handler holds SQLite's write lock from its first write to its commit. Failing commits are not
  modelled, only the conflict on the unique path.
* `FinalSpansKept` is checked for one handler (`SerialFinalIsStable`): with two, a handler may
  finalize a row it read before another one settled it.
* The branch of record-mp4 for fragments of the tmpfs is in `PrebufferPromotion`.

*Prebuffer.*
* One camera; fragments are numbered by time and a window is an interval of fragments.
* No trigger arrives for a fragment whose buffer window is over, unless a scenario has "late": the
  window is configured longer than pre-roll and the delivery of events take. `Timely` is this, as
  a hypothesis of the theorems.
* The delays between retries are not modelled: a retry may run at once or late.
* A policy that is disabled when the hook arrives has the effect of a lost hook. No code sets a
  trigger CANCELLED or FAILED.
* An error of `local_target_for_camera` is among the ways a task raises (`Raise`); a failing
  ffprobe is `bad`.

*Live view.*
* The registry of sessions, the table of transcodes and the wall are checked apart; a lease is a
  transport of `LiveSessions`. Requests that fail the owner or the camera check have no effect.
* A lease timer that has fired releases a lease renewed meanwhile (`live_transcode.py:484`); the
  model has this. The transcode survives as idle, and the viewer acquires it again.
* A peer whose deletion ZLM refused is `leaked`; no property speaks of it.

*Recorder.*
* The guard reconciles cameras with an enabled policy (`worker/tasks.py:631`), so the properties ask
  for one: a recorder left running by a failed call behind a policy that was just disabled is found by
  nobody.
* `hasty` marks the behaviours in which a binding is taken back or a camera enabled again while the
  recorder it had still runs (section 7).
* A policy request that fails after its commit answers 503 and queues nothing; a repeated identical
  request starts a second chain of boundary tasks; an idempotent repetition of a trigger does not
  force the recorder. The guard makes up for all three.
* Time zones are left out of the schedule, which stays as it is once put: a new policy begins a new
  chain. A scan is shorter than the overlap less the settle time
  (`ScanConstants`).

*Jobs.*
* Read and commit of a transaction are shorter than a rendering. One verification of a set is asked
  for at a time, and runs and kit are checked apart, for they share only the policy.
* `MaxCancels = 1`: two cancellations of one export, each overlapping the render's transactions, can
  leave a CANCELLED row with a file.
* A worker that stops leaves an export or a backup set RUNNING (`renderLost`, `backupLost`); a queue
  that is unavailable after the commit leaves it PENDING, and an idempotent repetition queues nothing.
* `overtaken` marks that two restores of a recording were at work at once: a lock got old under the
  worker that made it, or a worker made one while another had just judged the old one. Two such
  restores can move each other's unfinished file and unlink each other's lock and partial file for
  ever, hence `overtaken` in `NothingTornServed` and `RestoreCompletes`.
* That `reserve_restore` takes over an old marker, and that `cached_file` unlinks a file of the wrong
  size, are one step each: both are done by requests of viewers, of which there is one.

*Events.*
* The broker keeps the messages of a persistent session. A page is persisted before the next tick of
  the backfill. A page read before an event's end and persisted after it reopens the row
  (`events/service.py:200`); `reopened` marks the event for which no later page puts it right.
* `unheard` and `swallowed` mark the events of which the recording policy swallowed a report, until a
  later report is stored (section 7). The handler reads the policy once for a transaction.
* A message whose ingest fails is acknowledged; the end of a long event is then lost unless a
  backfill still covers its start.
* ONVIF: an exception of the target loader ends the thread, and a request answered with an error
  after its commit does not wake the runtime (`thread`, `untold`). Disabling a camera leaves its open
  event as it is.
* Alerts: hooks of a stream are handled in order and one at a time, requests on alerts too; an
  acknowledgement that overlaps a recovery is `raced`. A cooldown looks at earlier events only, and
  weekdays without a time zone are ignored (`AlertRules`).
* A stream lost once more while its event is open leaves the event and evaluates the policies again.
* A delivery is one task; when it is not queued, its worker ends, its outcome cannot be stored or the
  adapter raises what nobody expects, it is `orphaned` until another run of it comes to an end. `unsure`
  counts the attempts whose outcome is in no row. Between five minutes and a retry there is no clock: a
  retry may come before or after.

*Configuration.*
* Two requests and two workers. A probe succeeds when the device offers the address, hardware and
  password now. A proxy counts as online when it exists.
* Exceptions the properties name: a profile added while an import verifies the others (`late`), a
  source changed while its profile was unbound and still played, or restarted by a task that
  passed over it while it was unbound, or a viewer whose proxy was added with what was read before the
  change and after the restart (`loose`), tasks that were lost or
  overlapped (`lost`, `overtaken`). `probe_camera` looks at one profile per request and writes its status
  without the fence (`BeginProbe`).
* A viewer reads the source of a bound profile, or of another one that is not unavailable; there is one
  such request at a time. A device without a hardware identity has no serial number either.
* `StorageTargets` makes an edit one step: that two simultaneous requests both set a default is not
  looked at. `PutPolicy` reads the rows and commits in one transaction. Recorders that may be elsewhere
  are `astray`: after an edit of targets, which reconciles nothing, after a failed request, a task not
  queued or used up, a guard that stopped a recorder and could not start it, and after two jobs at once
  that had read different targets, until a forced job alone at work reads again.
* Two requests that change one secret at the same time may leave one that nobody refers to (`raced`).

*Accounts and host.*
* Read committed and no row locks, so what is checked may be old at the commit: two removals of
  administrators (`miscounted`), a login during a change of password (`straddled`), two moves of
  groups (`crossed`). Setup is atomic through its primary key.
* The limiter belongs to one API process, whose threads read the clock before they take the lock
  (`rate_limit.py:103`, `:137`): a thread held up in between acts with an older time, which can shorten a
  block by as long; the model reads the clock in the locked step. One source address; fewer identifiers than `max_keys`, so
  that `_cap` evicts nothing; a lockout at least as long as the window.
* One host command at a time; the operator does not update to a release older than the checkout,
  restores with the deployed or pending source, removes keys only as `DEPLOYMENT.md` says, and runs
  no migration by hand while services run. Stopping the containers succeeds.
* A rollback that died after it had put the database back and is started again records a snapshot
  that does not fit (`blurred`); a snapshot older than the removal of a key may need it (`rewound`).

## 9 Not modelled

* *Presentation and pure I/O*: the frontend, HTTP parsing and permissions, reports and listings of the
  API and the CLI, timeline and query, which only read; the protocols of ZLM, rclone, restic, ONVIF,
  Frigate and of the notification services.
* *CRUD and validation*: retention policies as rows, system settings, configuration export and import
  (one transaction), roles, audit entries (inserts).
* *Single requests to a device*: PTZ, discovery; TURN credentials.
* *Others*: the managed Frigate container, runtime health, soak and benchmark, the limiter of password
  resets, installation and image builds, the proof of concept.
* *Compositions*: catalogue with storage (a tail that stays PROVISIONAL is never deleted by retention,
  `retention.py:504`, so that such segments only accumulate), targets with catalogue.

`PROJECT.json` gives the reason for each component.

## 10 Plan

Done: the modules of section 2 with their runs; a theorem for every safety property the runs check.

Next, where a model pays: the composition of catalogue and storage, the timeline as a pure algorithm
against a reference, two simultaneous edits of storage targets.
