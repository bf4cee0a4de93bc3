---------------------------- MODULE ScanWindows ----------------------------
(***************************************************************************)
(* Which files a reconciliation of the recording catalogue looks at        *)
(* (reconciliation.py, reconcile and _recent_since).  The recent scan      *)
(* starts a fixed overlap before the completion of the previous one and    *)
(* skips files that may still be written; the daily scan looks at all.     *)
(* What is done with a file is module RecordingCatalog.                    *)
(*                                                                         *)
(* The files here are those whose hook was lost.  Time is counted in       *)
(* units; a scan takes up to MaxScan of them.                              *)
(***************************************************************************)
EXTENDS Integers

CONSTANTS File,
          Overlap,    \* recent_overlap
          Lookback,   \* initial_lookback
          Settle,     \* settle_seconds
          MaxScan,    \* how long a scan takes at most
          Never,      \* no scan has completed
          MaxTime

VARIABLES now,
          mtime,      \* when each file was closed; Never: not yet
          catalogued, \* files the catalogue knows
          scan,       \* the scan that holds the lock
          completed   \* last_completed_at

scanVars == <<now, mtime, catalogued, scan, completed>>

\* What a scan did not see because it was not settled, or not there yet, is
\* younger than the overlap when the scan completes.
ASSUME ScanConstants ==
  /\ {Overlap, Lookback, Settle, MaxScan, MaxTime} \subseteq Nat
  /\ MaxScan + Settle <= Overlap
  /\ Never \notin Int

NoScan == [pc |-> "idle", started |-> 0, since |-> 0]

ScanInit ==
  /\ now = 0 /\ mtime = [f \in File |-> Never] /\ catalogued = {}
  /\ scan = NoScan /\ completed = Never

Closed == {f \in File : mtime[f] # Never}

\* A scan ends in time; the first one, queued when the API starts, completes
\* within the initial look-back.
Tick ==
  /\ now < MaxTime /\ (completed = Never => now < Lookback)
  /\ scan.pc = "busy" => now < scan.started + MaxScan
  /\ now' = now + 1
  /\ UNCHANGED <<mtime, catalogued, scan, completed>>

\* A recorder closes a file and its hook is lost.
CloseFile(f) ==
  /\ f \notin Closed
  /\ mtime' = [mtime EXCEPT ![f] = now]
  /\ UNCHANGED <<now, catalogued, scan, completed>>

\* Fault: the overlap is forgotten.
SinceCompletion == IF completed = Never THEN now - Lookback ELSE completed

\* _recent_since
RecentSince == IF completed = Never THEN now - Lookback ELSE completed - Overlap

\* reconcile takes the lock and fixes its window; a full scan has no lower
\* end.  A second scan finds the lock taken and does nothing.
StartScan(full) ==
  /\ scan.pc = "idle"
  /\ scan' = [pc |-> "busy", started |-> now, since |-> IF full THEN -Lookback ELSE RecentSince]
  /\ UNCHANGED <<now, mtime, catalogued, completed>>

\* reconcile, _record_state: settled files of the window are recovered, the
\* time of completion is stored.
EndScan ==
  /\ scan.pc = "busy"
  /\ catalogued' = catalogued \union
       {f \in Closed : mtime[f] >= scan.since /\ mtime[f] <= scan.started - Settle}
  /\ completed' = now /\ scan' = NoScan
  /\ UNCHANGED <<now, mtime>>

\* The worker stops in the middle of a scan.
CrashScan ==
  /\ scan.pc = "busy" /\ scan' = NoScan
  /\ UNCHANGED <<now, mtime, catalogued, completed>>

ScanNext ==
  \/ Tick \/ EndScan \/ CrashScan
  \/ \E f \in File : CloseFile(f)
  \/ \E full \in BOOLEAN : StartScan(full)

ScanSpec == ScanInit /\ [][ScanNext]_scanVars

\* No gap between the windows: a file that is not catalogued lies in the
\* window of the scan under way or of the next recent scan.
NoGapBetweenScans ==
  \A f \in Closed \ catalogued :
    /\ mtime[f] >= RecentSince
    /\ scan.pc = "busy" => mtime[f] >= scan.since
=============================================================================
