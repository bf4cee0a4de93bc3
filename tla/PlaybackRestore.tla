-------------------------- MODULE PlaybackRestore --------------------------
(***************************************************************************)
(* Playback of a recording whose copy is remote: the API resolves the      *)
(* recording and asks for a restore (recordings/api.py, playback.py), the  *)
(* task copies it into the playback cache (playback_cache.py, the rclone   *)
(* adapter), the cache forgets files.                                      *)
(*                                                                         *)
(* The request marker, the lock, the partial file and the cached file are  *)
(* files; both marker and lock are taken over when they are old.  The      *)
(* partial file has one name for all restores of the recording, and a      *)
(* viewer's file is opened later than its size is compared.                *)
(***************************************************************************)
EXTENDS Integers

CONSTANTS Restorer,        \* workers that run a restore of the recording
          NoRestorer,
          RestoreRetries,  \* retries of restore_playback_segment
          MaxRestores,     \* bound: restores of the recording in the queue
          MaxRestoreFaults \* bound: crashes, failed copies, slow restores, prunes

ASSUME RestorerAssumption == NoRestorer \notin Restorer

VARIABLES local,           \* a copy on a mounted filesystem is AVAILABLE
          marker,          \* the .request file: "none", "new", "old"
          queued,          \* restore tasks in the queue
          restore,         \* what each worker is doing
          lock,            \* who made the .lock file, and whether it is old
          partial,         \* the .partial file: its writer, and whether all is there
          cached,          \* the cached file: "none", "whole", or the writer of a torn one
          overtaken,       \* history: a restore at work had an old lock, or one that a
                           \* worker made which another had just judged old
          answer,          \* what the viewer was told: "playable", "pending"
          media,           \* the viewer's request for the file, and what it got
          restoreFaults

viewerVars == <<answer, media>>
restoreVars == <<local, marker, queued, restore, lock, partial, cached, overtaken, viewerVars, restoreFaults>>

NoLock == [owner |-> NoRestorer, old |-> FALSE]
NoPartial == [writer |-> NoRestorer, whole |-> FALSE]
Idle == [pc |-> "idle", tries |-> 0, fails |-> FALSE]

RestoreInit ==
  /\ local \in BOOLEAN
  /\ marker = "none" /\ queued = 0
  /\ restore = [r \in Restorer |-> Idle]
  /\ lock = NoLock /\ partial = NoPartial /\ cached = "none"
  /\ answer = "none" /\ media = "none" /\ overtaken = FALSE /\ restoreFaults = 0

RestoreFault == restoreFaults < MaxRestoreFaults /\ restoreFaults' = restoreFaults + 1

-----------------------------------------------------------------------------
(* The viewer *)

\* cached_file: a file of the wrong size is unlinked and counts as none.
CachedFile(missing) ==
  IF cached = "whole" THEN ~missing /\ cached' = cached ELSE missing /\ cached' = "none"

\* reserve_restore makes the marker or takes over an old one, and the task is
\* queued; when it cannot be queued the marker is removed again.
Reserve ==
  \/ marker = "new" /\ UNCHANGED <<marker, queued, restoreFaults>>
  \/ /\ marker # "new" /\ queued < MaxRestores
     /\ marker' = "new" /\ queued' = queued + 1 /\ UNCHANGED restoreFaults
  \/ /\ marker # "new" /\ RestoreFault /\ marker' = "none" /\ UNCHANGED queued

\* _candidate_plan: a mounted copy first, then the cache; without either the
\* recording is pending.
Candidate(from) ==
  \/ local /\ from = "local" /\ UNCHANGED cached
  \/ ~local /\ from = "cache" /\ CachedFile(FALSE)
  \/ ~local /\ from = "nowhere" /\ CachedFile(TRUE)

\* _resolve_playback_plan: the viewer gets an address, or is told to wait and a
\* restore is asked for.
Resolve ==
  /\ \/ \E from \in {"local", "cache"} : Candidate(from)
        /\ answer' = "playable" /\ UNCHANGED <<marker, queued, restoreFaults>>
     \/ Candidate("nowhere") /\ answer' = "pending" /\ Reserve
  /\ UNCHANGED <<local, restore, lock, partial, overtaken, media>>

\* get_recording_media plans again: the file may be gone by now.
GetMedia ==
  /\ answer = "playable" /\ media \notin {"local", "cache"}
  /\ \/ \E from \in {"local", "cache"} : Candidate(from) /\ media' = from
     \/ Candidate("nowhere") /\ media' = "missing"
  /\ UNCHANGED <<local, marker, queued, restore, lock, partial, overtaken, answer, restoreFaults>>

\* The response opens the path it was given, whatever is there by now.
ServeMedia ==
  /\ \/ media = "local" /\ media' = IF local THEN "whole" ELSE "missing"
     \/ media = "cache" /\ media' = CASE cached = "whole" -> "whole" [] cached = "none" -> "missing"
                                       [] OTHER -> "torn"
  /\ UNCHANGED <<local, marker, queued, restore, lock, partial, cached, overtaken, answer, restoreFaults>>

\* Retention deletes the mounted copy.
LocalGone ==
  /\ local /\ local' = FALSE
  /\ UNCHANGED <<marker, queued, restore, lock, partial, cached, overtaken, viewerVars, restoreFaults>>

-----------------------------------------------------------------------------
(* restore_playback_segment *)

At(r, pc) == restore[r].pc = pc
Go(r, pc, fails) == restore' = [restore EXCEPT ![r].pc = pc, ![r].fails = fails]

\* Fault: nobody takes over the lock of a worker that stopped.
NeverStale == FALSE
\* Fault: the age of the lock is not looked at.
StaleAtOnce == lock.owner # NoRestorer
\* _acquire_lock: the lock is older than its time to live.
LockStale == lock.owner # NoRestorer /\ lock.old

\* execute begins with prepare: who finds the file in the cache is done.
Prepare(r) ==
  \/ CachedFile(FALSE) /\ Go(r, "leave", FALSE)
  \/ CachedFile(TRUE) /\ Go(r, "prepared", FALSE)

StartRestore(r) ==
  /\ At(r, "idle") /\ queued > 0 /\ queued' = queued - 1 /\ Prepare(r)
  /\ UNCHANGED <<local, marker, lock, partial, overtaken, viewerVars, restoreFaults>>

\* The retry of a restore that raised.
RetryRestore(r) ==
  /\ At(r, "retry") /\ Prepare(r)
  /\ UNCHANGED <<local, marker, queued, lock, partial, overtaken, viewerVars, restoreFaults>>

\* The lock file is created unless there is one: then its age is looked at, and
\* after it was unlinked for its age the worker gives up.
CreateLock(r) ==
  /\ restore[r].pc \in {"prepared", "unlinked"}
  /\ \/ /\ lock.owner = NoRestorer /\ lock' = [owner |-> r, old |-> FALSE] /\ Go(r, "locked", FALSE)
        /\ overtaken' = (overtaken \/ \E q \in Restorer \ {r} : At(q, "stale"))
     \/ /\ lock.owner # NoRestorer /\ Go(r, IF At(r, "prepared") THEN "looking" ELSE "leave", FALSE)
        /\ UNCHANGED <<lock, overtaken>>
  /\ UNCHANGED <<local, marker, queued, partial, cached, viewerVars, restoreFaults>>

\* A lock that is young, or gone by now, ends the restore.
LookAtLock(r) ==
  /\ At(r, "looking") /\ Go(r, IF LockStale THEN "stale" ELSE "leave", FALSE)
  /\ UNCHANGED <<local, marker, queued, lock, partial, cached, overtaken, viewerVars, restoreFaults>>

\* The lock file of the name is unlinked, also one made since.
UnlinkLock(r) ==
  /\ At(r, "stale") /\ lock' = NoLock /\ Go(r, "unlinked", FALSE)
  /\ UNCHANGED <<local, marker, queued, partial, cached, overtaken, viewerVars, restoreFaults>>

\* With the lock, the cache is looked at once more.
SecondLook(r) ==
  /\ At(r, "locked")
  /\ \/ CachedFile(FALSE) /\ Go(r, "cleanup", FALSE)
     \/ CachedFile(TRUE) /\ Go(r, "ready", FALSE)
  /\ UNCHANGED <<local, marker, queued, lock, partial, overtaken, viewerVars, restoreFaults>>

\* copy_to_local unlinks the partial file and starts the copy.
StartCopy(r) ==
  /\ At(r, "ready") /\ partial' = [writer |-> r, whole |-> FALSE] /\ Go(r, "copying", FALSE)
  /\ UNCHANGED <<local, marker, queued, lock, cached, overtaken, viewerVars, restoreFaults>>

\* The copy ends: all bytes are where this copy was writing to, which may no
\* longer be the partial file but the cached one, or no file at all.
EndCopy(r) ==
  /\ At(r, "copying") /\ Go(r, "copied", FALSE)
  /\ partial' = IF partial.writer = r THEN [partial EXCEPT !.whole = TRUE] ELSE partial
  /\ cached' = IF cached = r THEN "whole" ELSE cached
  /\ UNCHANGED <<local, marker, queued, lock, overtaken, viewerVars, restoreFaults>>

CopyFails(r) ==
  /\ At(r, "copying") /\ RestoreFault
  /\ partial' = NoPartial /\ Go(r, "cleanup", TRUE)
  /\ UNCHANGED <<local, marker, queued, lock, cached, overtaken, viewerVars>>

\* The size of the partial file is compared; when it differs, or there is no
\* such file, the partial file is unlinked and the restore raises.
CheckSize(r) ==
  /\ At(r, "copied")
  /\ \/ partial.whole /\ Go(r, "checked", FALSE) /\ UNCHANGED partial
     \/ ~partial.whole /\ partial' = NoPartial /\ Go(r, "cleanup", TRUE)
  /\ UNCHANGED <<local, marker, queued, lock, cached, overtaken, viewerVars, restoreFaults>>

\* os.replace, whatever the partial file is by now; execute prunes the cache
\* but never its own file.
Replace(r) ==
  /\ At(r, "checked")
  /\ \/ /\ partial.writer # NoRestorer
        /\ cached' = IF partial.whole THEN "whole" ELSE partial.writer
        /\ partial' = NoPartial /\ Go(r, "cleanup", FALSE)
     \/ /\ partial.writer = NoRestorer /\ Go(r, "cleanup", TRUE) /\ UNCHANGED <<partial, cached>>
  /\ UNCHANGED <<local, marker, queued, lock, overtaken, viewerVars, restoreFaults>>

\* The finally clauses: whoever had the lock unlinks it, even when another
\* one has taken it over; the request marker is removed; a restore that raised
\* is tried again.
Cleanup(r) ==
  /\ restore[r].pc \in {"cleanup", "leave"} /\ marker' = "none"
  /\ lock' = IF At(r, "cleanup") THEN NoLock ELSE lock
  /\ restore' = [restore EXCEPT ![r] =
       IF @.fails /\ @.tries < RestoreRetries
       THEN [pc |-> "retry", tries |-> @.tries + 1, fails |-> FALSE] ELSE Idle]
  /\ UNCHANGED <<local, queued, partial, cached, overtaken, viewerVars, restoreFaults>>

\* The worker stops; marker, lock and partial file stay behind.
CrashRestore(r) ==
  /\ restore[r].pc \notin {"idle", "retry"} /\ RestoreFault
  /\ restore' = [restore EXCEPT ![r] = Idle]
  /\ UNCHANGED <<local, marker, queued, lock, partial, cached, overtaken, viewerVars>>

-----------------------------------------------------------------------------
(* Time *)

Holds(r) == restore[r].pc \in {"locked", "ready", "copying", "copied", "checked", "cleanup"}

\* The lock gets old: that of a worker that stopped does, that of one at work
\* does when it is slow.
LockAges ==
  /\ lock.owner # NoRestorer /\ ~lock.old /\ lock' = [lock EXCEPT !.old = TRUE]
  /\ IF Holds(lock.owner) THEN RestoreFault /\ overtaken' = TRUE
     ELSE UNCHANGED <<restoreFaults, overtaken>>
  /\ UNCHANGED <<local, marker, queued, restore, partial, cached, viewerVars>>

MarkerAges ==
  /\ marker = "new" /\ marker' = "old"
  /\ IF queued > 0 \/ \E r \in Restorer : ~At(r, "idle") THEN RestoreFault ELSE UNCHANGED restoreFaults
  /\ UNCHANGED <<local, queued, restore, lock, partial, cached, overtaken, viewerVars>>

\* _prune of another recording's restore: the file is older than its time to
\* live, or the least recently used one of a cache that is too large.
Prune ==
  /\ cached # "none" /\ RestoreFault /\ cached' = "none"
  /\ UNCHANGED <<local, marker, queued, restore, lock, partial, overtaken, viewerVars>>

-----------------------------------------------------------------------------
RestoreStep(r) ==
  \/ StartRestore(r) \/ RetryRestore(r)
  \/ CreateLock(r) \/ LookAtLock(r) \/ UnlinkLock(r) \/ SecondLook(r)
  \/ StartCopy(r) \/ EndCopy(r) \/ CheckSize(r) \/ Replace(r) \/ Cleanup(r)

RestoreNext ==
  \/ Resolve \/ GetMedia \/ ServeMedia \/ LocalGone \/ LockAges \/ MarkerAges \/ Prune
  \/ \E r \in Restorer : RestoreStep(r) \/ CopyFails(r) \/ CrashRestore(r)

RestoreSpec == RestoreInit /\ [][RestoreNext]_restoreVars

\* Workers go on, time passes, and the viewer keeps asking.
RestoreFairness ==
  /\ \A r \in Restorer : WF_restoreVars(RestoreStep(r))
  /\ WF_restoreVars(LockAges) /\ WF_restoreVars(MarkerAges) /\ WF_restoreVars(Resolve)

\* A viewer never gets a file that is still being written, however late the
\* response opens it (recordings/playback.py:158, playback_cache.py:145), unless
\* two restores were at work at once: one had outlived its lock's time to live,
\* or two workers had judged the same lock old and the second unlinked what the
\* first had made (playback_cache.py:300-316).  They share the partial file, and
\* one may move the unfinished file of the other into the cache.
NothingTornServed == media = "torn" => overtaken

\* A viewer that keeps asking gets to play the recording: no marker, lock or
\* partial file left behind by a worker that stopped is in the way for good.
\* Once two restores were at work the workers may unlink each other's partial
\* file and lock for ever.
RestoreCompletes == <>[](answer \in {"none", "playable"} \/ overtaken)
=============================================================================
