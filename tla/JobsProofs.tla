----------------------------- MODULE JobsProofs -----------------------------
(***************************************************************************)
(* Proofs about the background jobs: share links of exports, the playback  *)
(* cache, backups, and which recordings an export is made of.              *)
(***************************************************************************)
EXTENDS MCJobs, TLAPS

(* Share links.                                                            *)

\* download_count counts the downloads that were started.
DownloadsCounted ==
  /\ downloads \in Nat /\ served = downloads /\ served <= MaxDownloads

\* A share link is good for at most max_downloads downloads, whatever the number of
\* viewers that were authorized at the same time, and for none once it is revoked
\* (consume_download's conditional UPDATE).
THEOREM SharesHonoured == ExportSpec => ShareHonoured
<1> USE ExportConstants
<1>1. ExportInit => DownloadsCounted
  BY DEF ExportInit, DownloadsCounted
<1>2. DownloadsCounted /\ [ExportNext]_exportVars =>
        /\ DownloadsCounted'
        /\ served' <= MaxDownloads /\ (share = "revoked" => served' = served)
  <2> SUFFICES ASSUME DownloadsCounted, [ExportNext]_exportVars
               PROVE  DownloadsCounted' /\ (share = "revoked" => served' = served)
    BY DEF DownloadsCounted
  <2>1. ASSUME UNCHANGED <<downloads, served>>
        PROVE  DownloadsCounted' /\ (share = "revoked" => served' = served)
    BY <2>1 DEF DownloadsCounted
  <2>2. CASE UNCHANGED exportVars
    BY <2>1, <2>2 DEF exportVars
  <2>3. CASE RenderStep
    BY <2>1, <2>3 DEF RenderStep, StartRender, ReadResult, CommitComplete, CommitFailed,
                      CommitPrepare, Render, RenderOnly
  <2>4. CASE CancelStep \/ SweepStep \/ ReadCancel
    BY <2>1, <2>4 DEF CancelStep, SweepStep, CommitCancel, UnlinkCancelled, ReadExpired,
                      CommitExpired, UnlinkExpired, ReadCancel
  <2>5. CASE \/ \E told \in BOOLEAN : CreateExport(told)
             \/ ExpiryPasses \/ CrashRender \/ CreateShare \/ RevokeShare
             \/ \E v \in Viewer : Authorize(v)
    BY <2>1, <2>5 DEF CreateExport, ExpiryPasses, CrashRender, CreateShare, RevokeShare, Authorize
  <2>6. ASSUME NEW v \in Viewer, Consume(v)
        PROVE  DownloadsCounted' /\ (share = "revoked" => served' = served)
    <3>1. CASE share = "open" /\ ~due /\ downloads < MaxDownloads
      BY <2>6, <3>1 DEF Consume, DownloadsCounted
    <3>2. CASE ~(share = "open" /\ ~due /\ downloads < MaxDownloads)
      BY <2>1, <2>6, <3>2 DEF Consume
    <3> QED
      BY <3>1, <3>2
  <2> QED
    BY <2>2, <2>3, <2>4, <2>5, <2>6 DEF ExportNext
<1> QED
  BY <1>1, <1>2, PTL DEF ExportSpec, ShareHonoured

-----------------------------------------------------------------------------
(* The playback cache.                                                     *)

RestorePcs == {"idle", "retry", "leave", "prepared", "looking", "stale", "unlinked", "locked", "ready",
               "copying", "copied", "checked", "cleanup"}

RestoreTypeOK ==
  /\ restore \in [Restorer -> [pc : RestorePcs, tries : Int, fails : BOOLEAN]]
  /\ lock \in [owner : Restorer \cup {NoRestorer}, old : BOOLEAN]
  /\ partial \in [writer : Restorer \cup {NoRestorer}, whole : BOOLEAN]
  /\ overtaken \in BOOLEAN

\* As long as no two restores were at work at once, whoever is at work holds the lock,
\* and it is not old: there is one such restore, and what it has checked stays as it
\* was.  A worker about to unlink the lock it judged old unlinks that one, or nothing.
HolderLocks ==
  ~overtaken => \A r \in Restorer : Holds(r) => lock.owner = r /\ ~lock.old
StaleIsOld ==
  ~overtaken => \A r \in Restorer : At(r, "stale") => lock.owner = NoRestorer \/ lock.old
CheckedStaysWhole ==
  ~overtaken => \A r \in Restorer : At(r, "checked") => partial.whole

\* No unfinished file is moved into the cache, unless two restores were at work at once.
CacheIsWhole == overtaken \/ cached \in {"none", "whole"}

RestoreInv ==
  RestoreTypeOK /\ HolderLocks /\ StaleIsOld /\ CheckedStaysWhole /\ CacheIsWhole /\ NothingTornServed

LEMMA RestoreStart == RestoreInit => RestoreInv
<1> SUFFICES ASSUME RestoreInit PROVE RestoreInv
  OBVIOUS
<1>1. /\ Idle \in [pc : RestorePcs, tries : Int, fails : BOOLEAN] /\ Idle.pc = "idle"
      /\ NoLock \in [owner : Restorer \cup {NoRestorer}, old : BOOLEAN]
      /\ NoPartial \in [writer : Restorer \cup {NoRestorer}, whole : BOOLEAN]
  BY DEF Idle, NoLock, NoPartial, RestorePcs
<1>2. RestoreTypeOK
  BY <1>1 DEF RestoreInit, RestoreTypeOK
<1>3. HolderLocks /\ StaleIsOld /\ CheckedStaysWhole /\ CacheIsWhole /\ NothingTornServed
  BY <1>1 DEF RestoreInit, HolderLocks, StaleIsOld, CheckedStaysWhole, CacheIsWhole, NothingTornServed,
              Holds, At
<1> QED
  BY <1>2, <1>3 DEF RestoreInv

\* A worker goes to another step.
LEMMA GoTyped ==
  ASSUME RestoreTypeOK, NEW r \in Restorer, NEW pc \in RestorePcs, NEW fails \in BOOLEAN,
         Go(r, pc, fails)
  PROVE  /\ restore' \in [Restorer -> [pc : RestorePcs, tries : Int, fails : BOOLEAN]]
         /\ restore'[r].pc = pc /\ \A q \in Restorer \ {r} : restore'[q] = restore[q]
<1> DEFINE Work == [pc : RestorePcs, tries : Int, fails : BOOLEAN]
           mid == [restore[r] EXCEPT !.pc = pc]
           new == [mid EXCEPT !.fails = fails]
<1>1. restore[r] \in Work
  BY DEF RestoreTypeOK
<1>2. mid \in Work /\ mid.pc = pc
  BY <1>1
<1> HIDE DEF mid
<1>3. new \in Work /\ new.pc = pc
  BY <1>2
<1>4. restore' = [restore EXCEPT ![r] = new]
  BY DEF Go, new, mid, RestoreTypeOK
<1> HIDE DEF new
<1> QED
  BY <1>3, <1>4 DEF RestoreTypeOK

\* Nothing of the workers, their files or their lock changes.
LEMMA RestoreSame ==
  ASSUME RestoreInv, UNCHANGED <<restore, lock, partial, overtaken, media>>, cached' \in {cached, "none"}
  PROVE  RestoreInv'
BY DEF RestoreInv, RestoreTypeOK, HolderLocks, StaleIsOld, CheckedStaysWhole, CacheIsWhole, NothingTornServed,
       Holds, At

\* Nobody at work, and a lock that a worker at "stale" may unlink.
Unheld == /\ \A q \in Restorer : ~Holds(q)
          /\ lock.owner = NoRestorer \/ lock.old

LEMMA StaleMeansUnheld ==
  ASSUME RestoreInv, ~overtaken,
         lock.owner = NoRestorer \/ lock.old \/ \E q \in Restorer : At(q, "stale")
  PROVE  Unheld
BY RestorerAssumption DEF RestoreInv, HolderLocks, StaleIsOld, Unheld

\* A worker without the lock goes on without it.
LEMMA OutsiderKeeps ==
  ASSUME RestoreInv, NEW r \in Restorer,
         NEW pc \in {"leave", "prepared", "looking", "stale"}, Go(r, pc, FALSE), ~At(r, "checked"),
         pc = "stale" => LockStale,
         UNCHANGED <<lock, partial, overtaken, media>>, cached' \in {cached, "none"}
  PROVE  RestoreInv'
<1> USE DEF RestoreInv
<1>1. /\ restore' \in [Restorer -> [pc : RestorePcs, tries : Int, fails : BOOLEAN]]
      /\ restore'[r].pc = pc /\ \A q \in Restorer \ {r} : restore'[q] = restore[q]
  BY GoTyped DEF RestorePcs
<1>2. RestoreTypeOK' /\ CacheIsWhole' /\ NothingTornServed'
  BY <1>1 DEF RestoreTypeOK, CacheIsWhole, NothingTornServed
<1>3. HolderLocks' /\ CheckedStaysWhole'
  BY <1>1 DEF HolderLocks, CheckedStaysWhole, Holds, At
<1>4. StaleIsOld'
  BY <1>1 DEF StaleIsOld, LockStale, At
<1> QED
  BY <1>2, <1>3, <1>4

\* _acquire_lock: the creation of the lock file, and the unlinking of an old one.
LEMMA CreateKeeps ==
  ASSUME RestoreInv, NEW r \in Restorer, CreateLock(r)
  PROVE  RestoreInv'
<1> USE DEF RestoreInv
<1>1. CASE lock.owner # NoRestorer
  <2>1. \E pc \in {"looking", "leave"} : Go(r, pc, FALSE) /\ ~At(r, "checked")
    BY <1>1 DEF CreateLock, At
  <2>2. UNCHANGED <<lock, partial, cached, overtaken, media>>
    BY <1>1 DEF CreateLock, viewerVars
  <2> QED
    BY <2>1, <2>2, OutsiderKeeps
<1>2. CASE lock.owner = NoRestorer
  <2>1. /\ lock' = [owner |-> r, old |-> FALSE] /\ Go(r, "locked", FALSE)
        /\ overtaken' = (overtaken \/ \E q \in Restorer \ {r} : At(q, "stale"))
        /\ UNCHANGED <<partial, cached, media>>
    BY <1>2 DEF CreateLock, viewerVars
  <2>2. /\ restore' \in [Restorer -> [pc : RestorePcs, tries : Int, fails : BOOLEAN]]
        /\ restore'[r].pc = "locked" /\ \A q \in Restorer \ {r} : restore'[q] = restore[q]
    BY <2>1, GoTyped DEF RestorePcs
  <2>3. RestoreTypeOK' /\ CacheIsWhole' /\ NothingTornServed'
    BY <2>1, <2>2 DEF RestoreTypeOK, CacheIsWhole, NothingTornServed
  <2>4. ~overtaken' => ~overtaken /\ Unheld /\ \A q \in Restorer \ {r} : ~At(q, "stale")
    BY <1>2, <2>1, StaleMeansUnheld
  <2>5. HolderLocks' /\ StaleIsOld' /\ CheckedStaysWhole'
    BY <2>1, <2>2, <2>4 DEF HolderLocks, StaleIsOld, CheckedStaysWhole, Unheld, Holds, At
  <2> QED
    BY <2>3, <2>5
<1> QED
  BY <1>1, <1>2

LEMMA UnlinkKeeps ==
  ASSUME RestoreInv, NEW r \in Restorer, UnlinkLock(r)
  PROVE  RestoreInv'
<1> USE DEF RestoreInv
<1>1. /\ At(r, "stale") /\ lock' = NoLock /\ Go(r, "unlinked", FALSE)
      /\ UNCHANGED <<partial, cached, overtaken, media>>
  BY DEF UnlinkLock, viewerVars
<1>2. /\ restore' \in [Restorer -> [pc : RestorePcs, tries : Int, fails : BOOLEAN]]
      /\ restore'[r].pc = "unlinked" /\ \A q \in Restorer \ {r} : restore'[q] = restore[q]
  BY <1>1, GoTyped DEF RestorePcs
<1>3. RestoreTypeOK' /\ CacheIsWhole' /\ NothingTornServed'
  BY <1>1, <1>2 DEF RestoreTypeOK, CacheIsWhole, NothingTornServed, NoLock
<1>4. ~overtaken => Unheld
  BY <1>1, StaleMeansUnheld
<1>5. HolderLocks' /\ StaleIsOld' /\ CheckedStaysWhole'
  BY <1>1, <1>2, <1>4 DEF HolderLocks, StaleIsOld, CheckedStaysWhole, Unheld, Holds, At, NoLock
<1> QED
  BY <1>3, <1>5

\* A step of a worker that holds the lock: no other one does.
LEMMA HolderKeeps ==
  ASSUME RestoreInv, NEW r \in Restorer, Holds(r), NEW pc \in RestorePcs \ {"stale"}, NEW fails \in BOOLEAN,
         Go(r, pc, fails), UNCHANGED <<lock, overtaken, media>>, pc # "checked" \/ partial'.whole,
         partial' \in [writer : Restorer \cup {NoRestorer}, whole : BOOLEAN],
         CacheIsWhole'
  PROVE  RestoreInv'
<1> USE DEF RestoreInv
<1>1. /\ restore' \in [Restorer -> [pc : RestorePcs, tries : Int, fails : BOOLEAN]]
      /\ restore'[r].pc = pc /\ \A q \in Restorer \ {r} : restore'[q] = restore[q]
  BY GoTyped
<1>2. RestoreTypeOK' /\ NothingTornServed'
  BY <1>1 DEF RestoreTypeOK, NothingTornServed
<1>3. HolderLocks' /\ StaleIsOld'
  BY <1>1 DEF HolderLocks, StaleIsOld, Holds, At
<1>4. ~overtaken => \A q \in Restorer \ {r} : ~Holds(q)
  BY DEF HolderLocks
<1>5. CheckedStaysWhole'
  BY <1>1, <1>4 DEF CheckedStaysWhole, At, Holds
<1> QED
  BY <1>2, <1>3, <1>5

LEMMA RestoreSteps == RestoreInv /\ [RestoreNext]_restoreVars => RestoreInv'
<1> SUFFICES ASSUME RestoreInv, [RestoreNext]_restoreVars PROVE RestoreInv'
  OBVIOUS
<1>0. /\ {"ready", "copying", "copied", "checked", "cleanup"} \subseteq RestorePcs \ {"stale"}
      /\ partial \in [writer : Restorer \cup {NoRestorer}, whole : BOOLEAN]
      /\ NoPartial \in [writer : Restorer \cup {NoRestorer}, whole : BOOLEAN] /\ CacheIsWhole
  BY DEF RestorePcs, RestoreInv, RestoreTypeOK, NoPartial
<1>1. CASE UNCHANGED restoreVars
  BY <1>1, RestoreSame DEF restoreVars, viewerVars
<1>2. CASE Resolve \/ LocalGone \/ MarkerAges \/ Prune
  <2>1. cached' \in {cached, "none"} /\ UNCHANGED <<restore, lock, partial, overtaken, media>>
    BY <1>2 DEF Resolve, Candidate, CachedFile, LocalGone, MarkerAges, Prune, viewerVars
  <2> QED
    BY <2>1, RestoreSame
<1>3. CASE GetMedia \/ ServeMedia
  <2>1. cached' \in {cached, "none"} /\ UNCHANGED <<restore, lock, partial, overtaken>>
    BY <1>3 DEF GetMedia, ServeMedia, Candidate, CachedFile
  <2>2. NothingTornServed'
    BY <1>0, <1>3, <2>1 DEF GetMedia, ServeMedia, NothingTornServed, CacheIsWhole
  <2> QED
    BY <2>1, <2>2 DEF RestoreInv, RestoreTypeOK, HolderLocks, StaleIsOld, CheckedStaysWhole, CacheIsWhole,
                      Holds, At
<1>4. CASE LockAges
  <2>1. lock' = [lock EXCEPT !.old = TRUE] /\ UNCHANGED <<restore, partial, cached, media>>
    BY <1>4 DEF LockAges, viewerVars
  <2>2. /\ lock' \in [owner : Restorer \cup {NoRestorer}, old : BOOLEAN]
        /\ lock'.owner = lock.owner /\ lock'.old
    BY <2>1 DEF RestoreInv, RestoreTypeOK
  <2>3. overtaken' \in BOOLEAN /\ (overtaken => overtaken') /\ (~overtaken' => ~Holds(lock.owner))
    BY <1>4 DEF LockAges, RestoreInv, RestoreTypeOK
  <2>4. RestoreTypeOK' /\ CacheIsWhole' /\ NothingTornServed'
    BY <2>1, <2>2, <2>3 DEF RestoreInv, RestoreTypeOK, CacheIsWhole, NothingTornServed
  <2>5. HolderLocks' /\ StaleIsOld' /\ CheckedStaysWhole'
    BY <2>1, <2>2, <2>3 DEF RestoreInv, HolderLocks, StaleIsOld, CheckedStaysWhole, Holds, At
  <2> QED
    BY <2>4, <2>5 DEF RestoreInv
<1>5. ASSUME NEW r \in Restorer, StartRestore(r) \/ RetryRestore(r) \/ LookAtLock(r) PROVE RestoreInv'
  <2>1. \E pc \in {"leave", "prepared", "looking", "stale"} : Go(r, pc, FALSE) /\ (pc = "stale" => LockStale)
    BY <1>5 DEF StartRestore, RetryRestore, LookAtLock, Prepare
  <2>2. /\ ~At(r, "checked") /\ UNCHANGED <<lock, partial, overtaken, media>>
        /\ cached' \in {cached, "none"}
    BY <1>5 DEF StartRestore, RetryRestore, LookAtLock, Prepare, CachedFile, At, viewerVars
  <2> QED
    BY <2>1, <2>2, OutsiderKeeps
<1>6. ASSUME NEW r \in Restorer, SecondLook(r) PROVE RestoreInv'
  <2>1. Holds(r) /\ CacheIsWhole'
    BY <1>0, <1>6 DEF SecondLook, CachedFile, Holds, At, CacheIsWhole
  <2> QED
    BY <1>0, <1>6, <2>1, HolderKeeps DEF SecondLook, viewerVars
<1>7. ASSUME NEW r \in Restorer, StartCopy(r) PROVE RestoreInv'
  <2>1. Holds(r) /\ CacheIsWhole'
    BY <1>0, <1>7 DEF StartCopy, Holds, At, CacheIsWhole
  <2> QED
    BY <1>0, <1>7, <2>1, HolderKeeps DEF StartCopy, viewerVars
<1>8. ASSUME NEW r \in Restorer, EndCopy(r) PROVE RestoreInv'
  <2>1. Holds(r) /\ CacheIsWhole'
    BY <1>0, <1>8 DEF EndCopy, Holds, At, CacheIsWhole
  <2>2. partial' \in [writer : Restorer \cup {NoRestorer}, whole : BOOLEAN]
    BY <1>0, <1>8 DEF EndCopy
  <2> QED
    BY <1>0, <1>8, <2>1, <2>2, HolderKeeps DEF EndCopy, viewerVars
<1>9. ASSUME NEW r \in Restorer, CopyFails(r) PROVE RestoreInv'
  <2>1. Holds(r) /\ CacheIsWhole'
    BY <1>0, <1>9 DEF CopyFails, Holds, At, CacheIsWhole
  <2> QED
    BY <1>0, <1>9, <2>1, HolderKeeps DEF CopyFails, viewerVars
<1>10. ASSUME NEW r \in Restorer, CheckSize(r) PROVE RestoreInv'
  <2>1. Holds(r) /\ CacheIsWhole'
    BY <1>0, <1>10 DEF CheckSize, Holds, At, CacheIsWhole
  <2> QED
    BY <1>0, <1>10, <2>1, HolderKeeps DEF CheckSize, viewerVars
<1>11. ASSUME NEW r \in Restorer, Replace(r) PROVE RestoreInv'
  <2>1. Holds(r) /\ (overtaken \/ partial.whole)
    BY <1>11 DEF Replace, Holds, At, RestoreInv, CheckedStaysWhole
  <2>2. CacheIsWhole'
    BY <1>0, <1>11, <2>1 DEF Replace, CacheIsWhole
  <2> QED
    BY <1>0, <1>11, <2>1, <2>2, HolderKeeps DEF Replace, viewerVars
<1>12. ASSUME NEW r \in Restorer, Cleanup(r) \/ CrashRestore(r) PROVE RestoreInv'
  <2> DEFINE Work == [pc : RestorePcs, tries : Int, fails : BOOLEAN]
  <2>1. restore \in [Restorer -> Work] /\ Idle \in Work
    BY DEF RestoreInv, RestoreTypeOK, Idle, RestorePcs
  <2>2. PICK new \in Work : restore' = [restore EXCEPT ![r] = new] /\ new.pc \in {"retry", "idle"}
    <3>1. restore[r].tries \in Int
      BY <2>1
    <3>2. [pc |-> "retry", tries |-> restore[r].tries + 1, fails |-> FALSE] \in Work
      BY <3>1 DEF RestorePcs
    <3> QED
      BY <1>12, <2>1, <3>2 DEF Cleanup, CrashRestore, Idle
  <2>3. restore'[r] = new /\ \A q \in Restorer \ {r} : restore'[q] = restore[q]
    BY <2>1, <2>2
  <2>4. UNCHANGED <<partial, overtaken, cached, media>> /\ (lock' = lock \/ (Holds(r) /\ lock' = NoLock))
    BY <1>12 DEF Cleanup, CrashRestore, At, Holds, viewerVars
  <2>5. RestoreTypeOK'
    <3>1. restore' \in [Restorer -> Work]
      BY <2>1, <2>2
    <3>2. NoLock \in [owner : Restorer \cup {NoRestorer}, old : BOOLEAN]
      BY DEF NoLock
    <3> QED
      BY <2>4, <3>1, <3>2 DEF RestoreInv, RestoreTypeOK
  <2>6. HolderLocks' /\ StaleIsOld'
    BY <2>2, <2>3, <2>4 DEF RestoreInv, HolderLocks, StaleIsOld, Holds, At, NoLock
  <2>7. CheckedStaysWhole' /\ CacheIsWhole' /\ NothingTornServed'
    BY <2>2, <2>3, <2>4 DEF RestoreInv, CheckedStaysWhole, CacheIsWhole, NothingTornServed, At
  <2> QED
    BY <2>5, <2>6, <2>7 DEF RestoreInv
<1> QED
  BY <1>1, <1>2, <1>3, <1>4, <1>5, <1>6, <1>7, <1>8, <1>9, <1>10, <1>11, <1>12, CreateKeeps, UnlinkKeeps, Zenon
     DEF RestoreNext, RestoreStep

\* The cache holds whole files only, as long as no two restores were at work at once
\* (_acquire_lock's time to live and its takeover): the lock makes the writer of the
\* partial file the only one between the comparison of its size and os.replace.
THEOREM CacheStaysWhole == RestoreSpec => []CacheIsWhole
<1>1. RestoreInv => CacheIsWhole
  BY DEF RestoreInv
<1> QED
  BY <1>1, RestoreStart, RestoreSteps, PTL DEF RestoreSpec

\* Nor does a viewer get an unfinished file, although the response opens the path later
\* than cached_file compared the size: what is moved there meanwhile is whole, by the
\* lock and not by the comparison.
THEOREM ViewersGetWholeFiles == RestoreSpec => []NothingTornServed
<1>1. RestoreInv => NothingTornServed
  BY DEF RestoreInv
<1> QED
  BY <1>1, RestoreStart, RestoreSteps, PTL DEF RestoreSpec

-----------------------------------------------------------------------------
(* Backups.                                                                *)

BackupPcs == {"none", "queued", "snapshot", "lookup", "backup", "verify", "check"}
RunTask == [pc : BackupPcs, tries : Int, repo : Repository]
PolicyRow == [enabled : BOOLEAN, repo : Repository, cred : Credential \union {NoCredential}, version : Nat]

LEMMA PolicyUpdated ==
  ASSUME policy \in PolicyRow, NEW enabled \in BOOLEAN, NEW repo \in Repository,
         NEW cred \in Credential \union {NoCredential}, UpdatePolicy(enabled, repo, cred)
  PROVE  policy' \in PolicyRow /\ policy'.version = policy.version + 1 /\ policy.version \in Nat
<1>1. policy.version \in Nat /\ policy.version + 1 \in Nat
  BY DEF PolicyRow
<1> DEFINE n == policy.version + 1
<1>2. policy' = [policy EXCEPT !.enabled = enabled, !.version = n, !.repo = repo, !.cred = cred]
  BY DEF UpdatePolicy, ReplaceSecrets, PolicyRow
<1> QED
  BY <1>1, <1>2 DEF PolicyRow

RunsTypeOK ==
  /\ run \in [Set -> RunTask]
  /\ snapshots \in [Repository -> [Set -> Nat]]
  /\ policy \in PolicyRow

\* A run that is about to make a snapshot works on a repository that has none of its set.
LookedUp == \A s \in Set : run[s].pc = "backup" => snapshots[run[s].repo][s] = 0

RunsInv == RunsTypeOK /\ LookedUp /\ OneSnapshotPerSet

LEMMA RunsStart == BackupInit => RunsInv
<1> SUFFICES ASSUME BackupInit PROVE RunsInv
  OBVIOUS
<1>1. NoTask \in RunTask /\ NoTask.pc = "none" /\ NoTask.repo \in Repository
  <2>1. (CHOOSE r \in Repository : TRUE) \in Repository
    BY BackupAssumption
  <2> QED
    BY <2>1 DEF NoTask, RunTask, BackupPcs
<1>2. (CHOOSE c \in Credential : TRUE) \in Credential
  BY BackupAssumption
<1>3. policy \in PolicyRow
  BY <1>1, <1>2 DEF BackupInit, PolicyRow
<1> HIDE DEF NoTask
<1> QED
  BY <1>1, <1>3 DEF BackupInit, RunsInv, RunsTypeOK, LookedUp, OneSnapshotPerSet

\* The task of a set goes on without touching a repository.
LEMMA TaskMoves ==
  ASSUME RunsInv, NEW s \in Set, NEW task \in RunTask, task.pc # "backup",
         run' = [run EXCEPT ![s] = task], snapshots' = snapshots, policy' = policy
  PROVE  RunsInv'
<1>1. run' \in [Set -> RunTask] /\ run'[s] = task /\ \A t \in Set \ {s} : run'[t] = run[t]
  BY DEF RunsInv, RunsTypeOK
<1> QED
  BY <1>1 DEF RunsInv, RunsTypeOK, LookedUp, OneSnapshotPerSet

LEMMA MovedTask ==
  ASSUME NEW task \in RunTask, NEW pc \in BackupPcs, NEW repo \in Repository
  PROVE  /\ [task EXCEPT !.pc = pc] \in RunTask /\ [task EXCEPT !.pc = pc].pc = pc
         /\ [task EXCEPT !.pc = pc].repo = task.repo
         /\ [task EXCEPT !.pc = pc, !.repo = repo] \in RunTask
         /\ [task EXCEPT !.pc = pc, !.repo = repo].pc = pc
         /\ Again(task) \in RunTask /\ Again(task).pc \in {"none", "queued"}
<1>1. "queued" \in BackupPcs /\ "none" \in BackupPcs /\ task.tries + 1 \in Int
  BY DEF BackupPcs, RunTask
<1>2. Again(task) \in RunTask /\ Again(task).pc \in {"none", "queued"}
  BY <1>1 DEF Again, RunTask
<1> QED
  BY <1>2 DEF RunTask

LEMMA RunTyped ==
  ASSUME RunsTypeOK, NEW s \in Set, NEW pc \in BackupPcs, RunTo(s, pc)
  PROVE  /\ run' = [run EXCEPT ![s] = [run[s] EXCEPT !.pc = pc]] /\ run[s] \in RunTask
         /\ [run[s] EXCEPT !.pc = pc] \in RunTask /\ [run[s] EXCEPT !.pc = pc].pc = pc
         /\ [run[s] EXCEPT !.pc = pc].repo = run[s].repo
<1>1. run[s] \in RunTask
  BY DEF RunsTypeOK
<1> QED
  BY <1>1, MovedTask DEF RunTo, RunsTypeOK, RunTask

\* A run made the snapshot of its set, or the retention removed snapshots of
\* other sets.
LEMMA SnapshotsChange ==
  ASSUME RunsInv, NEW s \in Set, NEW task \in RunTask, task.pc # "backup",
         run' = [run EXCEPT ![s] = task], policy' = policy,
         snapshots' \in [Repository -> [Set -> Nat]],
         \A r \in Repository, t \in Set \ {s} : snapshots'[r][t] <= snapshots[r][t],
         \A r \in Repository : snapshots'[r][s] <= 1
  PROVE  RunsInv'
<1>1. run' \in [Set -> RunTask] /\ run'[s] = task /\ \A t \in Set \ {s} : run'[t] = run[t]
  BY DEF RunsInv, RunsTypeOK
<1>2. RunsTypeOK'
  BY <1>1 DEF RunsInv, RunsTypeOK
<1>3. \A r \in Repository, t \in Set : snapshots[r][t] \in Nat /\ snapshots'[r][t] \in Nat
  BY DEF RunsInv, RunsTypeOK
<1>4. OneSnapshotPerSet'
  <2> SUFFICES ASSUME NEW r \in Repository, NEW t \in Set PROVE snapshots'[r][t] <= 1
    BY DEF OneSnapshotPerSet
  <2>1. snapshots[r][t] <= 1
    BY DEF RunsInv, OneSnapshotPerSet
  <2> QED
    BY <2>1, <1>3
<1>5. LookedUp'
  <2> SUFFICES ASSUME NEW t \in Set, run'[t].pc = "backup" PROVE snapshots'[run'[t].repo][t] = 0
    BY DEF LookedUp
  <2>1. t # s /\ run'[t] = run[t]
    BY <1>1
  <2>2. run[t].repo \in Repository /\ snapshots[run[t].repo][t] = 0
    BY <2>1 DEF RunsInv, RunsTypeOK, LookedUp, RunTask
  <2> QED
    BY <2>1, <2>2, <1>3
<1> QED
  BY <1>2, <1>4, <1>5 DEF RunsInv

\* The steps of a run that touch no repository.
LEMMA RunGoesOn ==
  ASSUME RunsInv, NEW s \in Set
  PROVE  /\ PrepareBackup(s) => RunsInv'
         /\ SnapshotDatabase(s) => RunsInv'
         /\ Lookup(s) => RunsInv'
         /\ BackupFails(s) => RunsInv'
         /\ CrashBackup(s) => RunsInv'
<1>0. run[s] \in RunTask /\ policy.repo \in Repository /\ RunsTypeOK
  BY DEF RunsInv, RunsTypeOK, PolicyRow
<1>1. /\ Again(run[s]) \in RunTask /\ Again(run[s]).pc # "backup"
      /\ {"none", "queued", "snapshot", "lookup", "backup", "verify"} \subseteq BackupPcs
  BY <1>0, MovedTask DEF BackupPcs
<1>2. ASSUME NEW pc \in {"none", "lookup", "verify"}, RunTo(s, pc), UNCHANGED <<snapshots, policy>>
      PROVE  RunsInv'
  <2> DEFINE task == [run[s] EXCEPT !.pc = pc]
  <2>1. run' = [run EXCEPT ![s] = task] /\ task \in RunTask /\ task.pc # "backup"
    BY <1>0, <1>1, <1>2, RunTyped
  <2> HIDE DEF task
  <2> QED
    BY <2>1, <1>2, TaskMoves
<1>3. ASSUME run' = [run EXCEPT ![s] = Again(@)], UNCHANGED <<snapshots, policy>>
      PROVE  RunsInv'
  <2>1. run' = [run EXCEPT ![s] = Again(run[s])]
    BY <1>3
  <2> QED
    BY <2>1, <1>1, <1>3, TaskMoves
<1>4. ASSUME PrepareBackup(s) PROVE RunsInv'
  <2>1. CASE run' = [run EXCEPT ![s].pc = "snapshot", ![s].repo = policy.repo]
    <3> DEFINE task == [run[s] EXCEPT !.pc = "snapshot", !.repo = policy.repo]
    <3>1. run' = [run EXCEPT ![s] = task]
      BY <2>1, <1>0 DEF RunsTypeOK, RunTask
    <3>2. task \in RunTask /\ task.pc # "backup"
      BY <1>0, <1>1, MovedTask
    <3> HIDE DEF task
    <3> QED
      BY <3>1, <3>2, <1>4, TaskMoves DEF PrepareBackup
  <2> QED
    BY <2>1, <1>4, <1>2, <1>3 DEF PrepareBackup
<1>5. ASSUME Lookup(s) PROVE RunsInv'
  <2>1. CASE SnapshotFound(run[s].repo, s)
    BY <2>1, <1>5, <1>2 DEF Lookup, RunOnly
  <2>2. CASE ~SnapshotFound(run[s].repo, s)
    <3> DEFINE task == [run[s] EXCEPT !.pc = "backup"]
    <3>1. /\ run' = [run EXCEPT ![s] = task] /\ task \in RunTask /\ task.repo = run[s].repo
          /\ UNCHANGED <<snapshots, policy>>
      BY <2>2, <1>5, <1>0, <1>1, RunTyped DEF Lookup, RunOnly
    <3>2. snapshots[run[s].repo][s] = 0
      BY <2>2, <1>0 DEF SnapshotFound, RunsTypeOK, RunTask
    <3> HIDE DEF task
    <3>3. run' \in [Set -> RunTask] /\ run'[s] = task /\ \A t \in Set \ {s} : run'[t] = run[t]
      BY <3>1, <1>0 DEF RunsTypeOK
    <3> QED
      BY <3>1, <3>2, <3>3 DEF RunsInv, RunsTypeOK, LookedUp, OneSnapshotPerSet
  <2> QED
    BY <2>1, <2>2
<1>6. SnapshotDatabase(s) => RunsInv'
  BY <1>2 DEF SnapshotDatabase, RunOnly
<1>7. BackupFails(s) => RunsInv'
  BY <1>3 DEF BackupFails, RunOnly
<1>8. CrashBackup(s) => RunsInv'
  BY <1>2 DEF CrashBackup
<1> QED
  BY <1>4, <1>5, <1>6, <1>7, <1>8

\* restic makes one snapshot, and the answer may be lost.
LEMMA SnapshotMade ==
  ASSUME RunsInv, NEW s \in Set, NEW answered \in BOOLEAN, Backup(s, answered)
  PROVE  RunsInv'
<1>0. run[s] \in RunTask /\ run[s].repo \in Repository /\ RunsTypeOK
  BY DEF RunsInv, RunsTypeOK, RunTask
<1>1. snapshots[run[s].repo][s] = 0
  BY DEF Backup, RunsInv, LookedUp
<1>2. /\ snapshots' \in [Repository -> [Set -> Nat]]
      /\ \A r \in Repository, t \in Set :
           snapshots'[r][t] = IF r = run[s].repo /\ t = s THEN 1 ELSE snapshots[r][t]
  <2>1. snapshots' = [snapshots EXCEPT ![run[s].repo] = [snapshots[run[s].repo] EXCEPT ![s] = snapshots[run[s].repo][s] + 1]]
    BY <1>0 DEF Backup, RunsTypeOK
  <2> QED
    BY <2>1, <1>0, <1>1 DEF RunsTypeOK
<1>3. \A r \in Repository, t \in Set \ {s} : snapshots'[r][t] <= snapshots[r][t]
  BY <1>2, <1>0 DEF RunsTypeOK
<1>4. \A r \in Repository : snapshots'[r][s] <= 1
  BY <1>2 DEF RunsInv, OneSnapshotPerSet
<1>5. Again(run[s]) \in RunTask /\ Again(run[s]).pc # "backup" /\ "verify" \in BackupPcs
  BY <1>0, MovedTask DEF BackupPcs
<1>6. CASE answered
  <2> DEFINE task == [run[s] EXCEPT !.pc = "verify"]
  <2>1. run' = [run EXCEPT ![s] = task] /\ task \in RunTask /\ task.pc # "backup" /\ policy' = policy
    BY <1>6, <1>0, <1>5, RunTyped DEF Backup, RunOnly
  <2> HIDE DEF task
  <2> QED
    BY <2>1, <1>2, <1>3, <1>4, SnapshotsChange
<1>7. CASE ~answered
  <2>1. run' = [run EXCEPT ![s] = Again(run[s])] /\ policy' = policy
    BY <1>7 DEF Backup, RunOnly
  <2> QED
    BY <2>1, <1>5, <1>2, <1>3, <1>4, SnapshotsChange
<1> QED
  BY <1>6, <1>7

\* The retention only removes snapshots.
LEMMA RunCompletes ==
  ASSUME RunsInv, NEW s \in Set, NEW verdict \in {"PASSED", "FAILED"},
         NEW forgotten \in SUBSET (Set \ {s}), CompleteBackup(s, verdict, forgotten)
  PROVE  RunsInv'
<1>0. run[s] \in RunTask /\ run[s].repo \in Repository /\ RunsTypeOK /\ "none" \in BackupPcs
  BY DEF RunsInv, RunsTypeOK, RunTask, BackupPcs
<1>1. /\ snapshots' \in [Repository -> [Set -> Nat]]
      /\ \A r \in Repository, t \in Set : snapshots'[r][t] <= snapshots[r][t]
  BY <1>0 DEF CompleteBackup, Forget, RunsTypeOK
<1>2. \A r \in Repository : snapshots'[r][s] <= 1
  BY <1>0, <1>1 DEF RunsInv, OneSnapshotPerSet, RunsTypeOK
<1> DEFINE task == [run[s] EXCEPT !.pc = "none"]
<1>3. run' = [run EXCEPT ![s] = task] /\ task \in RunTask /\ task.pc # "backup" /\ policy' = policy
  BY <1>0, RunTyped DEF CompleteBackup, RunOnly
<1> HIDE DEF task
<1> QED
  BY <1>1, <1>2, <1>3, SnapshotsChange

\* No step makes a second snapshot of a set, or lets a run believe that a
\* repository holds none when it does.
LEMMA RunsStep ==
  ASSUME RunsInv, [RunStep \/ PolicyStep \/ KitStep]_backupVars
  PROVE  RunsInv'
<1>1. ASSUME UNCHANGED <<run, snapshots, policy>> PROVE RunsInv'
  BY <1>1 DEF RunsInv, RunsTypeOK, LookedUp, OneSnapshotPerSet
<1>2. ASSUME NEW s \in Set, NEW manual \in BOOLEAN, NEW told \in BOOLEAN, StartBackup(s, manual, told)
      PROVE  RunsInv'
  <2> DEFINE pc == IF told THEN "queued" ELSE "none"
             task == [run[s] EXCEPT !.pc = pc]
  <2>1. pc \in BackupPcs /\ pc # "backup"
    BY DEF BackupPcs
  <2>2. RunTo(s, pc) /\ UNCHANGED <<snapshots, policy>>
    BY <1>2 DEF StartBackup, RunTo
  <2> HIDE DEF pc
  <2>3. run' = [run EXCEPT ![s] = task] /\ task \in RunTask /\ task.pc # "backup"
    BY <2>1, <2>2, RunTyped DEF RunsInv
  <2> HIDE DEF task
  <2> QED
    BY <2>2, <2>3, TaskMoves
<1>3. ASSUME NEW s \in Set, BackupStep(s) PROVE RunsInv'
  <2>1. StartVerify(s) => RunsInv'
    BY <1>1 DEF StartVerify
  <2>2. ASSUME NEW sound \in BOOLEAN, EndVerify(s, sound) PROVE RunsInv'
    BY <2>2, <1>1 DEF EndVerify
  <2> QED
    BY <1>3, <2>1, <2>2, RunGoesOn, SnapshotMade, RunCompletes DEF BackupStep
<1>4. ASSUME RunStep PROVE RunsInv'
  <2> PICK s \in Set :
        \/ BackupStep(s) \/ CrashBackup(s) \/ RequestVerify(s)
        \/ \E told \in BOOLEAN : ScheduleBackup(s, told) \/ RunBackupNow(s, told)
    BY <1>4 DEF RunStep
  <2>1. RequestVerify(s) => RunsInv'
    BY <1>1 DEF RequestVerify
  <2> QED
    BY <2>1, <1>2, <1>3, RunGoesOn DEF ScheduleBackup, RunBackupNow
<1>5. ASSUME PolicyStep PROVE RunsInv'
  <2> PICK enabled \in BOOLEAN, repo \in Repository, cred \in Credential \union {NoCredential} :
        UpdatePolicy(enabled, repo, cred)
    BY <1>5 DEF PolicyStep
  <2>1. policy' \in PolicyRow
    BY PolicyUpdated DEF RunsInv, RunsTypeOK
  <2> QED
    BY <2>1 DEF UpdatePolicy, PolicyOnly, RunsInv, RunsTypeOK, LookedUp, OneSnapshotPerSet
<1>6. KitStep => RunsInv'
  BY <1>1 DEF KitStep, ReadKit, WriteKit, RotateKey
<1>7. UNCHANGED backupVars => RunsInv'
  BY <1>1 DEF backupVars
<1> QED
  BY <1>4, <1>5, <1>6, <1>7

\* What was read with a fingerprint is what the policy and the key held when
\* the fingerprint was taken: while the version is the same, it still is.
KitContents == [repo : Repository, cred : Credential \union {NoCredential}, key : MasterKey]
Vouches(print, contents) ==
  \/ print = NoFingerprint
  \/ /\ print \in Nat \X MasterKey /\ contents \in KitContents
     /\ print[1] <= policy.version /\ contents.key = print[2]
     /\ print[1] = policy.version => contents.repo = policy.repo /\ contents.cred = policy.cred

KitInv ==
  /\ policy \in PolicyRow /\ masterKey \in MasterKey
  /\ kit \in [pc : {"idle", "read"}, read : KitContents, print : (Nat \X MasterKey) \union {NoFingerprint},
              made : KitContents, status : (Nat \X MasterKey) \union {NoFingerprint}]
  /\ Vouches(kit.print, kit.read) /\ Vouches(kit.status, kit.made)

LEMMA NoContentsTyped == NoContents \in KitContents /\ NoContents.key \in MasterKey
<1>1. (CHOOSE r \in Repository : TRUE) \in Repository /\ (CHOOSE k \in MasterKey : TRUE) \in MasterKey
  BY BackupAssumption
<1> QED
  BY <1>1 DEF NoContents, NoTask, KitContents

LEMMA KitStarts == BackupInit => KitInv
<1> SUFFICES ASSUME BackupInit PROVE KitInv
  OBVIOUS
<1>1. policy \in PolicyRow
  BY RunsStart DEF RunsInv, RunsTypeOK
<1> QED
  BY <1>1, NoContentsTyped DEF BackupInit, KitInv, Vouches

LEMMA KitStays ==
  ASSUME KitInv, [RunStep \/ PolicyStep \/ KitStep]_backupVars
  PROVE  KitInv'
<1>1. ASSUME UNCHANGED <<policy, masterKey, kit>> PROVE KitInv'
  BY <1>1 DEF KitInv, Vouches
<1>2. ASSUME RunStep PROVE KitInv'
  BY <1>1, <1>2 DEF RunStep, BackupStep, PrepareBackup, SnapshotDatabase, Lookup, BackupFails, Backup,
    CompleteBackup, StartVerify, EndVerify, CrashBackup, RequestVerify, ScheduleBackup, RunBackupNow,
    StartBackup, RunOnly
<1>3. ASSUME PolicyStep PROVE KitInv'
  <2> PICK enabled \in BOOLEAN, repo \in Repository, cred \in Credential \union {NoCredential} :
        UpdatePolicy(enabled, repo, cred)
    BY <1>3 DEF PolicyStep
  <2>1. policy' \in PolicyRow /\ policy'.version = policy.version + 1 /\ policy.version \in Nat
    BY PolicyUpdated DEF KitInv
  <2>2. UNCHANGED <<masterKey, kit>>
    BY DEF UpdatePolicy, PolicyOnly
  <2>3. ASSUME NEW print, NEW contents, Vouches(print, contents)
        PROVE  \/ print = NoFingerprint
               \/ /\ print \in Nat \X MasterKey /\ contents \in KitContents
                  /\ print[1] < policy'.version /\ contents.key = print[2]
    BY <2>1, <2>3 DEF Vouches
  <2>4. Vouches(kit.print, kit.read)' /\ Vouches(kit.status, kit.made)'
    BY <2>1, <2>2, <2>3 DEF Vouches, KitInv
  <2> QED
    BY <2>1, <2>2, <2>4 DEF KitInv
<1>4. ASSUME KitStep PROVE KitInv'
  <2>1. ASSUME ReadKit PROVE KitInv'
    <3>1. Contents \in KitContents /\ Fingerprint \in Nat \X MasterKey
      BY DEF KitInv, Contents, Fingerprint, KitContents, PolicyRow
    <3>2. Vouches(Fingerprint, Contents)
      BY <3>1 DEF Vouches, Contents, Fingerprint, KitInv, PolicyRow
    <3>3. /\ UNCHANGED <<policy, masterKey>> /\ kit'.print = Fingerprint /\ kit'.read = Contents
          /\ kit'.status = kit.status /\ kit'.made = kit.made /\ kit'.pc = "read"
          /\ kit' \in [pc : {"idle", "read"}, read : KitContents, print : (Nat \X MasterKey) \union {NoFingerprint},
              made : KitContents, status : (Nat \X MasterKey) \union {NoFingerprint}]
      BY <2>1, <3>1 DEF ReadKit, KitInv
    <3> QED
      BY <3>2, <3>3 DEF KitInv, Vouches
  <2>2. ASSUME WriteKit PROVE KitInv'
    <3>1. /\ UNCHANGED <<policy, masterKey>> /\ kit'.print = NoFingerprint /\ kit'.read = NoContents
          /\ kit'.status = kit.print /\ kit'.made = kit.read /\ kit'.pc = "idle"
          /\ kit' \in [pc : {"idle", "read"}, read : KitContents, print : (Nat \X MasterKey) \union {NoFingerprint},
              made : KitContents, status : (Nat \X MasterKey) \union {NoFingerprint}]
      BY <2>2, NoContentsTyped DEF WriteKit, KitInv
    <3> QED
      BY <3>1 DEF KitInv, Vouches
  <2>3. ASSUME NEW k \in MasterKey, RotateKey(k) PROVE KitInv'
    BY <2>3 DEF RotateKey, KitInv, Vouches
  <2> QED
    BY <1>4, <2>1, <2>2, <2>3 DEF KitStep
<1>5. UNCHANGED backupVars => KitInv'
  BY <1>1 DEF backupVars
<1> QED
  BY <1>2, <1>3, <1>4, <1>5

LEMMA KitVouched == KitInv => KitIsCurrent
<1> SUFFICES ASSUME KitInv, KitStatus = "current" PROVE kit.made = Contents
  BY DEF KitIsCurrent
<1>1. kit.status = Fingerprint /\ kit.status # NoFingerprint
  BY DEF KitStatus
<1>2. /\ kit.made \in KitContents /\ kit.made.key = masterKey
      /\ kit.made.repo = policy.repo /\ kit.made.cred = policy.cred
  BY <1>1 DEF KitInv, Vouches, Fingerprint
<1> QED
  BY <1>2 DEF KitContents, Contents

\* What the records of backups claim is so, whatever is retried, crashes or
\* changes meanwhile (BackupExecutionService.execute, RecoveryKitService.generate):
\* a repository never holds two snapshots of one backup set, because every
\* attempt looks for the tag of its set first and one task at a time runs it;
\* and a recovery kit reported as current opens the repository with the
\* credentials and the key in use, because its fingerprint is taken together
\* with what it contains.
THEOREM BackupRecordsStayTrue == BackupSpec => []BackupRecordsTrue
<1>1. BackupInit => RunsInv /\ KitInv
  BY RunsStart, KitStarts
<1>2. RunsInv /\ KitInv /\ [RunStep \/ PolicyStep \/ KitStep]_backupVars => (RunsInv /\ KitInv)'
  BY RunsStep, KitStays
<1>3. RunsInv /\ KitInv => BackupRecordsTrue
  BY KitVouched DEF BackupRecordsTrue, RunsInv
<1> QED
  BY <1>1, <1>2, <1>3, PTL DEF BackupSpec

-----------------------------------------------------------------------------
(* The plan of an export.                                                  *)

Clips == [from : Instant, to : Instant, of : Segment]

PlanTypeOK ==
  /\ segments \subseteq Segment /\ left \subseteq Segment /\ range \in Request
  /\ clips \in Seq(Clips)
  /\ cursor \in Instant /\ gaps \in BOOLEAN
  /\ outcome \in {"none", "loop", "built", "refused"}

\* Each clip is a part of a readable recording before the cursor, and they follow each
\* other.
ClipsProper ==
  \A i \in DOMAIN clips :
    /\ clips[i].of \in segments /\ clips[i].of.readable
    /\ clips[i].of.from <= clips[i].from /\ clips[i].to <= clips[i].of.to
    /\ range.from <= clips[i].from /\ clips[i].from < clips[i].to /\ clips[i].to <= cursor
    /\ i > 1 => clips[i - 1].to <= clips[i].from

CursorProper ==
  /\ outcome = "none" => clips = <<>> /\ ~gaps
  /\ outcome # "none" => range.from <= cursor /\ cursor <= range.to

\* Before the cursor, what is not shown is covered by no recording, those left begin
\* after it, and it is a gap; after it, nothing that the loop has seen covers.
LoopExact ==
  outcome = "loop" =>
    /\ left \subseteq segments
    /\ \A s \in segments \ left :
         s.readable => s.to <= cursor \/ s.from >= range.to \/ cursor = range.to
    /\ \A t \in range.from .. cursor - 1 :
         t \notin Shown => \A o \in segments : ~Covers(o, t) /\ (o \in left => o.from > t)
    /\ gaps <=> \E t \in range.from .. cursor - 1 : t \notin Shown
    /\ range.policy = "fail" => ~gaps

PlanInv == PlanTypeOK /\ ClipsProper /\ CursorProper /\ LoopExact /\ PlanIsExact

LEMMA InstantsAre == /\ Instant \subseteq Nat /\ PlanEnd \in Nat
                     /\ \A t : t \in Instant <=> t \in Int /\ 0 <= t /\ t <= PlanEnd
BY PlanConstants DEF Instant

LEMMA SegmentsAre ==
  ASSUME NEW s \in Segment
  PROVE  s.from \in Instant /\ s.to \in Instant /\ s.readable \in BOOLEAN /\ s.from < s.to
         /\ s.from \in Int /\ s.to \in Int
BY InstantsAre DEF Segment

LEMMA RequestsAre ==
  ASSUME NEW r \in Request
  PROVE  r.from \in Instant /\ r.to \in Instant /\ r.from < r.to /\ r.policy \in {"skip", "fail"}
         /\ r.from \in Int /\ r.to \in Int
BY InstantsAre DEF Request

LEMMA ClipsAre ==
  ASSUME PlanTypeOK, NEW i \in DOMAIN clips
  PROVE  /\ clips[i].from \in Instant /\ clips[i].to \in Instant /\ clips[i].of \in Segment
         /\ clips[i].from \in Int /\ clips[i].to \in Int
<1>1. clips[i] \in Clips
  BY DEF PlanTypeOK
<1> QED
  BY <1>1, InstantsAre DEF Clips

\* The clips show instants of the range before the cursor, each of them covered.
LEMMA ShownIsCovered ==
  ASSUME PlanTypeOK, ClipsProper, CursorProper, outcome # "none"
  PROVE  /\ Shown \subseteq range.from .. cursor - 1 /\ Shown \subseteq Covered
         /\ clips = <<>> <=> Shown = {}
<1>1. /\ range.from \in Int /\ range.to \in Int /\ cursor \in Int /\ cursor <= range.to
  BY InstantsAre, RequestsAre DEF PlanTypeOK, CursorProper
<1>2. ASSUME NEW t \in Shown
      PROVE  t \in range.from .. cursor - 1 /\ t \in Covered
  <2>1. PICK i \in DOMAIN clips : clips[i].from <= t /\ t < clips[i].to
    BY DEF Shown
  <2>2. t \in Int
    BY InstantsAre DEF Shown
  <2>3. /\ clips[i].from \in Int /\ clips[i].to \in Int /\ clips[i].of \in Segment
    BY ClipsAre
  <2>4. clips[i].of.from \in Int /\ clips[i].of.to \in Int
    BY <2>3, SegmentsAre
  <2>5. /\ clips[i].of \in segments /\ clips[i].of.readable
        /\ clips[i].of.from <= clips[i].from /\ clips[i].to <= clips[i].of.to
        /\ range.from <= clips[i].from /\ clips[i].to <= cursor
    BY DEF ClipsProper
  <2>6. Covers(clips[i].of, t)
    BY <2>1, <2>2, <2>3, <2>4, <2>5 DEF Covers
  <2>7. t \in range.from .. range.to - 1 /\ t \in range.from .. cursor - 1
    BY <1>1, <2>1, <2>2, <2>3, <2>5
  <2> QED
    BY <2>5, <2>6, <2>7 DEF Covered, Requested
<1>3. clips = <<>> => Shown = {}
  BY DEF Shown
<1>4. ASSUME clips # <<>> PROVE Shown # {}
  <2>1. 1 \in DOMAIN clips
    BY <1>4 DEF PlanTypeOK
  <2>2. clips[1].from \in Instant /\ clips[1].to \in Instant /\ clips[1].from < clips[1].to
    BY <2>1, ClipsAre DEF ClipsProper
  <2>3. clips[1].from \in Shown
    BY <2>1, <2>2, InstantsAre DEF Shown
  <2> QED
    BY <2>3
<1> QED
  BY <1>2, <1>3, <1>4

LEMMA PlanTypeStep == PlanTypeOK /\ [PlanNext]_planVars => PlanTypeOK'
<1> SUFFICES ASSUME PlanTypeOK, [PlanNext]_planVars PROVE PlanTypeOK'
  OBVIOUS
<1>1. ASSUME NEW s \in Segment, AddSegment(s) PROVE PlanTypeOK'
  BY <1>1 DEF PlanTypeOK, AddSegment
<1>2. ASSUME NEW s \in Segment, TakeNext(s) PROVE PlanTypeOK'
  <2>1. Clip(s) \in Clips /\ Clip(s).to \in Instant
    BY SegmentsAre, RequestsAre DEF Clip, Clips, Later, Earlier, PlanTypeOK
  <2>2. Later(cursor, Clip(s).to) \in Instant
    BY <2>1 DEF Later, PlanTypeOK
  <2>3. Append(clips, Clip(s)) \in Seq(Clips)
    BY <2>1 DEF PlanTypeOK
  <2>4. clips' \in Seq(Clips) /\ cursor' \in Instant /\ gaps' \in BOOLEAN
        /\ outcome' \in {"none", "loop", "built", "refused"}
    BY <1>2, <2>2, <2>3 DEF PlanTypeOK, TakeNext
  <2> QED
    BY <1>2, <2>4 DEF PlanTypeOK, TakeNext
<1>3. ASSUME NEW r \in Request, StartPlan(r) PROVE PlanTypeOK'
  BY <1>3, RequestsAre DEF PlanTypeOK, StartPlan
<1>4. CASE FinishPlan
  BY <1>4 DEF PlanTypeOK, FinishPlan
<1>5. CASE UNCHANGED planVars
  BY <1>5 DEF PlanTypeOK, planVars
<1> QED
  BY <1>1, <1>2, <1>3, <1>4, <1>5 DEF PlanNext

\* What the loop does with a recording that adds nothing.
LEMMA SkipKeeps ==
  ASSUME PlanInv, NEW s \in Segment, TakeNext(s), ~Adds(s)
  PROVE  LoopExact'
<1>1. /\ s \in left /\ left' = left \ {s} /\ cursor < range.to /\ outcome = "loop"
      /\ UNCHANGED <<clips, cursor, gaps, outcome, segments, range>>
  BY DEF TakeNext
<1>2. /\ cursor \in Int /\ range.from \in Int /\ range.to \in Int /\ range.from <= cursor
  BY <1>1, RequestsAre, InstantsAre DEF PlanInv, PlanTypeOK, CursorProper
<1>3. s.from \in Int /\ s.to \in Int /\ s.from < s.to
  BY SegmentsAre
<1>4. s.readable => s.to <= cursor \/ s.from >= range.to
  BY <1>1, <1>2, <1>3 DEF Adds, Clip, Later, Earlier
<1>5. Shown' = Shown
  BY <1>1 DEF Shown
<1>6. /\ left \subseteq segments
      /\ \A o \in segments \ left :
           o.readable => o.to <= cursor \/ o.from >= range.to \/ cursor = range.to
      /\ \A t \in range.from .. cursor - 1 :
           t \notin Shown => \A o \in segments : ~Covers(o, t) /\ (o \in left => o.from > t)
      /\ gaps <=> \E t \in range.from .. cursor - 1 : t \notin Shown
      /\ range.policy = "fail" => ~gaps
  BY <1>1 DEF PlanInv, LoopExact
<1>7. /\ left' \subseteq segments'
      /\ \A o \in segments' \ left' :
           o.readable => o.to <= cursor' \/ o.from >= range'.to \/ cursor' = range'.to
  BY <1>1, <1>4, <1>6
<1>8. /\ \A t \in range'.from .. cursor' - 1 :
           t \notin Shown' => \A o \in segments' : ~Covers(o, t) /\ (o \in left' => o.from > t)
      /\ gaps' <=> \E t \in range'.from .. cursor' - 1 : t \notin Shown'
      /\ range'.policy = "fail" => ~gaps'
  BY <1>1, <1>5, <1>6
<1> QED
  BY <1>7, <1>8 DEF LoopExact, Covers

\* The instants between the cursor and a clip that begins later are covered by no
\* recording: those seen end before, those left begin with this one or after.
LEMMA JumpIsGap ==
  ASSUME PlanInv, NEW s \in Segment, TakeNext(s), Adds(s),
         NEW t \in cursor .. Clip(s).from - 1, NEW o \in segments
  PROVE  ~Covers(o, t) /\ (o \in left => o.from > t) /\ t \in Requested
<1>1. /\ s \in left /\ cursor < range.to /\ outcome = "loop" /\ \A q \in left : Before(s, q)
  BY DEF TakeNext
<1>2. /\ cursor \in Int /\ range.from \in Int /\ range.to \in Int /\ range.from <= cursor
  BY <1>1, RequestsAre, InstantsAre DEF PlanInv, PlanTypeOK, CursorProper
<1>3. /\ s.from \in Int /\ s.to \in Int /\ s.from < s.to
      /\ o.from \in Int /\ o.to \in Int /\ o.from < o.to
  BY SegmentsAre DEF PlanInv, PlanTypeOK
<1>4. t \in Int /\ cursor <= t /\ t < s.from /\ t < range.to
  BY <1>1, <1>2, <1>3 DEF Adds, Clip, Later, Earlier
<1>5. o \in left => o.from > t
  BY <1>1, <1>3, <1>4 DEF Before
<1>6. o \notin left => ~Covers(o, t)
  <2>1. o \notin left /\ o.readable => o.to <= cursor \/ o.from >= range.to
    BY <1>1, <1>2 DEF PlanInv, LoopExact
  <2> QED
    BY <2>1, <1>2, <1>3, <1>4 DEF Covers
<1> QED
  BY <1>2, <1>3, <1>4, <1>5, <1>6 DEF Covers, Requested

\* What the loop does with a recording that adds a clip.
LEMMA ClipKeeps ==
  ASSUME PlanInv, PlanTypeOK', NEW s \in Segment, TakeNext(s), Adds(s), outcome' = "loop"
  PROVE  ClipsProper' /\ CursorProper' /\ LoopExact'
<1> DEFINE from == Clip(s).from
           to == Clip(s).to
           n == Len(clips)
<1>1. /\ s \in left /\ left' = left \ {s} /\ cursor < range.to /\ outcome = "loop"
      /\ segments' = segments /\ range' = range
      /\ clips' = Append(clips, Clip(s)) /\ cursor' = Later(cursor, to)
      /\ gaps' = (gaps \/ from > cursor)
  BY DEF TakeNext
<1>2. /\ cursor \in Int /\ range.from \in Int /\ range.to \in Int /\ range.from <= cursor
      /\ range.to \in Instant /\ cursor \in Instant /\ range.from \in Instant
  BY <1>1, RequestsAre, InstantsAre DEF PlanInv, PlanTypeOK, CursorProper
<1>3. /\ s.from \in Int /\ s.to \in Int /\ s.from < s.to /\ s \in segments
      /\ s.readable /\ s.from \in Instant /\ s.to \in Instant
  BY <1>1, SegmentsAre DEF PlanInv, LoopExact, Adds
<1>4. /\ from \in Int /\ to \in Int /\ cursor <= from /\ from < to /\ to <= range.to
      /\ s.from <= from /\ to <= s.to /\ range.from <= from /\ Clip(s).of = s
      /\ from \in Instant /\ to \in Instant
      /\ to = range.to \/ to = s.to
  BY <1>2, <1>3 DEF Adds, Clip, Later, Earlier
<1>5. cursor' = to
  BY <1>1, <1>2, <1>4 DEF Later
<1>6. /\ n \in Nat /\ DOMAIN clips = 1 .. n /\ DOMAIN clips' = 1 .. (n + 1)
      /\ \A i \in 1 .. n : clips'[i] = clips[i]
      /\ clips'[n + 1] = Clip(s)
      /\ \A i \in 1 .. n : clips[i].to \in Int
  <2>1. clips \in Seq(Clips)
    BY DEF PlanInv, PlanTypeOK
  <2>2. n \in Nat /\ DOMAIN clips = 1 .. n
    BY <2>1
  <2>3. \A i \in 1 .. n : clips[i].to \in Int
    BY <2>2, ClipsAre DEF PlanInv
  <2> QED
    BY <1>1, <2>1, <2>2, <2>3
<1>7. ClipsProper'
  <2> SUFFICES ASSUME NEW i \in 1 .. (n + 1)
               PROVE  /\ clips'[i].of \in segments' /\ clips'[i].of.readable
                      /\ clips'[i].of.from <= clips'[i].from /\ clips'[i].to <= clips'[i].of.to
                      /\ range'.from <= clips'[i].from /\ clips'[i].from < clips'[i].to
                      /\ clips'[i].to <= cursor'
                      /\ i > 1 => clips'[i - 1].to <= clips'[i].from
    BY <1>6 DEF ClipsProper
  <2>1. CASE i \in 1 .. n
    <3>1. /\ clips[i].of \in segments /\ clips[i].of.readable
          /\ clips[i].of.from <= clips[i].from /\ clips[i].to <= clips[i].of.to
          /\ range.from <= clips[i].from /\ clips[i].from < clips[i].to /\ clips[i].to <= cursor
          /\ i > 1 => clips[i - 1].to <= clips[i].from
      BY <2>1, <1>6 DEF PlanInv, ClipsProper
    <3>2. clips'[i] = clips[i] /\ (i > 1 => clips'[i - 1] = clips[i - 1])
      BY <2>1, <1>6
    <3>3. clips[i].to <= to
      BY <3>1, <2>1, <1>2, <1>4, <1>6
    <3> QED
      BY <3>1, <3>2, <3>3, <1>1, <1>5
  <2>2. CASE i = n + 1
    <3>1. i > 1 => clips'[i - 1] = clips[n] /\ n \in DOMAIN clips
      BY <2>2, <1>6
    <3>2. i > 1 => clips[n].to <= cursor /\ clips[n].to \in Int
      BY <3>1, <1>6 DEF PlanInv, ClipsProper
    <3>3. i > 1 => clips[n].to <= from
      BY <3>2, <1>2, <1>4
    <3>4. clips'[i] = Clip(s)
      BY <2>2, <1>6
    <3> QED
      BY <3>1, <3>3, <3>4, <1>1, <1>3, <1>4, <1>5
  <2> QED
    BY <2>1, <2>2, <1>6
<1>8. CursorProper'
  BY <1>1, <1>2, <1>4, <1>5 DEF CursorProper
<1>9. \A t \in Instant : t \in Shown' <=> t \in Shown \/ (from <= t /\ t < to)
  <2>1. Shown' = {t \in Instant : \E i \in 1 .. (n + 1) : clips'[i].from <= t /\ t < clips'[i].to}
    BY <1>6 DEF Shown
  <2>2. \A t \in Instant : (\E i \in 1 .. (n + 1) : clips'[i].from <= t /\ t < clips'[i].to)
          <=> (\E i \in 1 .. n : clips[i].from <= t /\ t < clips[i].to) \/ (from <= t /\ t < to)
    BY <1>6
  <2> QED
    BY <2>1, <2>2, <1>6 DEF Shown
<1>10. /\ left \subseteq segments
       /\ \A o \in segments \ left :
            o.readable => o.to <= cursor \/ o.from >= range.to
       /\ \A t \in range.from .. cursor - 1 :
            t \notin Shown => \A o \in segments : ~Covers(o, t) /\ (o \in left => o.from > t)
       /\ gaps <=> \E t \in range.from .. cursor - 1 : t \notin Shown
  BY <1>1, <1>2 DEF PlanInv, LoopExact
<1>11. Shown \subseteq range.from .. cursor - 1
  BY <1>1, ShownIsCovered DEF PlanInv
<1>12. \A t \in range.from .. to - 1 :
         t \notin Shown' => (t \in range.from .. cursor - 1 /\ t \notin Shown) \/ t \in cursor .. from - 1
  <2>1. \A t \in range.from .. to - 1 : t \in Instant
    BY <1>2, <1>4, InstantsAre
  <2> QED
    BY <1>2, <1>4, <1>9, <2>1
<1>13. \A t \in range.from .. to - 1 :
         t \notin Shown' => \A o \in segments : ~Covers(o, t) /\ (o \in left' => o.from > t)
  BY <1>1, <1>10, <1>12, JumpIsGap
<1>14. gaps' <=> \E t \in range.from .. to - 1 : t \notin Shown'
  <2>1. ASSUME gaps PROVE \E t \in range.from .. to - 1 : t \notin Shown'
    <3>1. PICK t \in range.from .. cursor - 1 : t \notin Shown
      BY <2>1, <1>10
    <3>2. t \in range.from .. to - 1 /\ ~(from <= t /\ t < to) /\ t \in Instant
      BY <1>2, <1>4, InstantsAre
    <3> QED
      BY <3>1, <3>2, <1>9
  <2>2. ASSUME from > cursor PROVE \E t \in range.from .. to - 1 : t \notin Shown'
    <3>1. cursor \in range.from .. to - 1 /\ cursor \notin Shown /\ ~(from <= cursor)
      BY <2>2, <1>2, <1>4, <1>11
    <3> QED
      BY <3>1, <1>2, <1>9
  <2>3. ASSUME NEW t \in range.from .. to - 1, t \notin Shown' PROVE gaps \/ from > cursor
    <3>1. CASE t \in range.from .. cursor - 1 /\ t \notin Shown
      BY <3>1, <1>10
    <3>2. CASE t \in cursor .. from - 1
      BY <3>2, <1>2, <1>4
    <3> QED
      BY <2>3, <3>1, <3>2, <1>12
  <2> QED
    BY <2>1, <2>2, <2>3, <1>1
<1>15. \A o \in segments \ left' : o.readable => o.to <= to \/ o.from >= range.to \/ to = range.to
  <2> SUFFICES ASSUME NEW o \in segments \ left', o.readable
               PROVE  o.to <= to \/ o.from >= range.to \/ to = range.to
    OBVIOUS
  <2>1. o.to \in Int
    BY SegmentsAre DEF PlanInv, PlanTypeOK
  <2>2. CASE o = s
    BY <2>1, <2>2, <1>2, <1>3, <1>4
  <2>3. CASE o # s
    BY <2>1, <2>3, <1>1, <1>2, <1>4, <1>10
  <2> QED
    BY <2>2, <2>3
<1>16. range.policy = "fail" => ~gaps /\ ~(from > cursor)
  BY <1>1, <1>2, <1>4 DEF TakeNext, PlanInv, LoopExact
<1> HIDE DEF from, to, n
<1>17. LoopExact'
  <2>1. left' \subseteq segments'
    BY <1>1, <1>10
  <2>2. range'.policy = "fail" => ~gaps'
    BY <1>1, <1>16
  <2> QED
    BY <2>1, <2>2, <1>1, <1>5, <1>13, <1>14, <1>15 DEF LoopExact, Covers
<1> QED
  BY <1>7, <1>8, <1>17

\* With gap_policy "fail" the first gap ends the loop: the instant at the cursor is
\* missing.
LEMMA GapRefuses ==
  ASSUME PlanInv, NEW s \in Segment, TakeNext(s), Adds(s), outcome' # "loop"
  PROVE  ClipsProper' /\ CursorProper' /\ LoopExact' /\ PlanIsExact'
<1>1. /\ range.policy = "fail" /\ Clip(s).from > cursor /\ outcome' = "refused" /\ outcome = "loop"
      /\ UNCHANGED <<clips, cursor, segments, range>> /\ cursor < range.to
  BY DEF TakeNext
<1>2. cursor \in Int /\ Clip(s).from \in Int
  BY InstantsAre, RequestsAre, SegmentsAre DEF PlanInv, PlanTypeOK, Clip, Later
<1>3. cursor \in cursor .. Clip(s).from - 1
  BY <1>1, <1>2
<1>4. \A o \in segments : ~Covers(o, cursor) /\ cursor \in Requested
  BY <1>3, JumpIsGap
<1>5. s \in segments
  BY <1>1 DEF PlanInv, LoopExact, TakeNext
<1>6. cursor \in Requested /\ cursor \notin Covered
  BY <1>4, <1>5 DEF Covered
<1>7. Covered' = Covered /\ Requested' = Requested
  BY <1>1 DEF Covered, Requested, Covers
<1> QED
  BY <1>1, <1>6, <1>7 DEF PlanInv, ClipsProper, CursorProper, LoopExact, PlanIsExact

\* After the loop nothing after the cursor is covered: no recording is left, or the
\* range is at its end.
LEMMA FinishIsExact ==
  ASSUME PlanInv, PlanTypeOK', FinishPlan
  PROVE  PlanIsExact'
<1>1. /\ outcome = "loop" /\ (left = {} \/ cursor >= range.to)
      /\ UNCHANGED <<segments, range, left, clips, cursor>>
      /\ gaps' = (gaps \/ cursor < range.to)
      /\ outcome' = IF clips = <<>> \/ (range.policy = "fail" /\ cursor < range.to)
                    THEN "refused" ELSE "built"
  BY DEF FinishPlan
<1>2. /\ cursor \in Int /\ range.from \in Int /\ range.to \in Int /\ range.from <= cursor
      /\ cursor <= range.to /\ range.policy \in {"skip", "fail"}
  BY <1>1, RequestsAre, InstantsAre DEF PlanInv, PlanTypeOK, CursorProper
<1>3. /\ left \subseteq segments
      /\ \A o \in segments \ left :
           o.readable => o.to <= cursor \/ o.from >= range.to \/ cursor = range.to
      /\ \A t \in range.from .. cursor - 1 :
           t \notin Shown => \A o \in segments : ~Covers(o, t)
      /\ gaps <=> \E t \in range.from .. cursor - 1 : t \notin Shown
  BY <1>1 DEF PlanInv, LoopExact
<1>4. Shown \subseteq range.from .. cursor - 1 /\ Shown \subseteq Covered /\ (clips = <<>> <=> Shown = {})
  BY <1>1, ShownIsCovered DEF PlanInv
<1>5. \A t \in cursor .. range.to - 1 : t \notin Covered
  <2> SUFFICES ASSUME NEW t \in cursor .. range.to - 1, NEW o \in segments PROVE ~Covers(o, t)
    BY DEF Covered
  <2>1. t \in Int /\ cursor <= t /\ t < range.to /\ cursor < range.to /\ left = {}
    BY <1>1, <1>2
  <2>2. o.from \in Int /\ o.to \in Int
    BY SegmentsAre DEF PlanInv, PlanTypeOK
  <2>3. o.readable => o.to <= cursor \/ o.from >= range.to
    BY <1>2, <1>3, <2>1
  <2> QED
    BY <1>2, <2>1, <2>2, <2>3 DEF Covers
<1>6. Shown = Covered
  <2>1. \A t \in Covered : t \in range.from .. cursor - 1
    BY <1>2, <1>5 DEF Covered, Requested
  <2>2. \A t \in Covered : t \in Shown
    BY <1>3, <2>1 DEF Covered
  <2> QED
    BY <1>4, <2>2
<1>7. gaps' <=> Covered # Requested
  <2>1. CASE cursor < range.to
    <3>1. cursor \in Requested /\ cursor \notin Covered
      BY <1>2, <1>5, <2>1 DEF Requested
    <3> QED
      BY <1>1, <2>1, <3>1
  <2>2. CASE cursor = range.to
    <3>1. gaps' = gaps
      <4>1. ~(cursor < range.to) /\ gaps \in BOOLEAN
        BY <1>2, <2>2 DEF PlanInv, PlanTypeOK
      <4> QED
        BY <1>1, <4>1
    <3>2. Requested = range.from .. cursor - 1
      BY <2>2 DEF Requested
    <3> QED
      BY <3>1, <3>2, <1>3, <1>4, <1>6
  <2> QED
    BY <1>2, <2>1, <2>2
<1>8. /\ Shown' = Shown /\ Covered' = Covered /\ Requested' = Requested
  BY <1>1 DEF Shown, Covered, Requested, Covers
<1>9. CASE outcome' = "built"
  <2>1. Covered # {} /\ (range.policy = "fail" => ~(cursor < range.to))
    BY <1>1, <1>4, <1>6, <1>9
  <2>2. range.policy = "fail" => ~gaps'
    BY <1>1, <2>1, <1>9 DEF PlanInv, LoopExact
  <2> QED
    BY <1>1, <1>6, <1>7, <1>8, <1>9, <2>1, <2>2 DEF PlanIsExact, PlanInv, ClipsProper
<1>10. CASE outcome' = "refused"
  <2>1. clips = <<>> \/ (range.policy = "fail" /\ cursor < range.to)
    BY <1>1, <1>10
  <2>2. Covered = {} \/ (range.policy = "fail" /\ gaps')
    BY <1>1, <1>4, <1>6, <2>1
  <2> QED
    BY <1>1, <1>7, <1>8, <1>10, <2>2 DEF PlanIsExact
<1> QED
  BY <1>1, <1>9, <1>10

LEMMA PlanStart == PlanInit => PlanInv
<1> SUFFICES ASSUME PlanInit PROVE PlanInv
  OBVIOUS
<1>1. PlanTypeOK
  <2>1. 0 \in Instant /\ PlanEnd \in Instant /\ 0 < PlanEnd
    BY PlanConstants DEF Instant
  <2>2. [from |-> 0, to |-> PlanEnd, policy |-> "skip"] \in Request
    BY <2>1 DEF Request
  <2>3. <<>> \in Seq(Clips)
    OBVIOUS
  <2> QED
    BY <2>1, <2>2, <2>3 DEF PlanInit, PlanTypeOK
<1>2. DOMAIN clips = {} /\ clips = <<>> /\ ~gaps /\ outcome = "none"
  BY DEF PlanInit
<1> QED
  BY <1>1, <1>2 DEF PlanInv, ClipsProper, CursorProper, LoopExact, PlanIsExact

LEMMA PlanStep == PlanInv /\ [PlanNext]_planVars => PlanInv'
<1> SUFFICES ASSUME PlanInv, [PlanNext]_planVars PROVE PlanInv'
  OBVIOUS
<1>0. PlanTypeOK' /\ PlanTypeOK
  BY PlanTypeStep DEF PlanInv
<1>1. ASSUME NEW s \in Segment, AddSegment(s) PROVE PlanInv'
  <2>1. outcome = "none" /\ outcome' = "none" /\ clips = <<>> /\ clips' = <<>> /\ gaps' = gaps /\ ~gaps
    BY <1>1 DEF AddSegment, PlanInv, CursorProper
  <2>2. DOMAIN clips' = {}
    BY <2>1
  <2> QED
    BY <1>0, <2>1, <2>2 DEF PlanInv, ClipsProper, CursorProper, LoopExact, PlanIsExact
<1>2. ASSUME NEW s \in Segment, TakeNext(s) PROVE PlanInv'
  <2>1. CASE ~Adds(s)
    <3>1. LoopExact'
      BY <1>2, <2>1, SkipKeeps
    <3>2. /\ UNCHANGED <<clips, cursor, gaps, outcome, segments, range>> /\ outcome = "loop"
      BY <1>2, <2>1 DEF TakeNext
    <3> QED
      BY <1>0, <3>1, <3>2 DEF PlanInv, ClipsProper, CursorProper, PlanIsExact
  <2>2. CASE Adds(s) /\ outcome' = "loop"
    <3>1. ClipsProper' /\ CursorProper' /\ LoopExact'
      BY <1>0, <1>2, <2>2, ClipKeeps
    <3> QED
      BY <1>0, <2>2, <3>1 DEF PlanInv, PlanIsExact
  <2>3. CASE Adds(s) /\ outcome' # "loop"
    BY <1>0, <1>2, <2>3, GapRefuses DEF PlanInv
  <2> QED
    BY <2>1, <2>2, <2>3
<1>3. ASSUME NEW r \in Request, StartPlan(r) PROVE PlanInv'
  <2>1. /\ outcome' = "loop" /\ range' = r /\ cursor' = r.from /\ segments' = segments
        /\ clips' = <<>> /\ gaps' = FALSE
        /\ left' = {s \in segments : s.from < r.to /\ s.to > r.from}
    BY <1>0, <1>3 DEF StartPlan, PlanInv, CursorProper, PlanTypeOK
  <2>2. r.from \in Int /\ r.to \in Int /\ r.from < r.to
    BY RequestsAre
  <2>3. DOMAIN clips' = {} /\ r.from .. r.from - 1 = {}
    BY <2>1, <2>2
  <2>4. \A s \in segments \ left' : s.to <= r.from \/ s.from >= r.to
    BY <1>0, <2>1, <2>2, SegmentsAre DEF PlanTypeOK
  <2>5. LoopExact'
    BY <2>1, <2>2, <2>3, <2>4 DEF LoopExact
  <2> QED
    BY <1>0, <2>1, <2>2, <2>3, <2>5 DEF PlanInv, ClipsProper, CursorProper, PlanIsExact
<1>4. CASE FinishPlan
  <2>1. PlanIsExact'
    BY <1>0, <1>4, FinishIsExact
  <2>2. /\ UNCHANGED <<segments, range, clips, cursor>> /\ outcome = "loop"
        /\ outcome' \in {"built", "refused"}
    BY <1>4 DEF FinishPlan
  <2> QED
    BY <1>0, <2>1, <2>2 DEF PlanInv, ClipsProper, CursorProper, LoopExact
<1>5. CASE UNCHANGED planVars
  BY <1>0, <1>5 DEF PlanInv, ClipsProper, CursorProper, LoopExact, PlanIsExact, planVars, Shown,
    Covered, Requested, Covers
<1> QED
  BY <1>1, <1>2, <1>3, <1>4, <1>5 DEF PlanNext

\* Whatever recordings a camera has, overlapping, nested, apart or unreadable, and
\* whatever the range: the plan shows every covered instant once and reports a gap
\* exactly when one is missing (ExportPlanResolver.build).
THEOREM PlansAreExact == PlanSpec => []PlanIsExact
<1>1. PlanInv => PlanIsExact
  BY DEF PlanInv
<1> QED
  BY <1>1, PlanStart, PlanStep, PTL DEF PlanSpec

=============================================================================
