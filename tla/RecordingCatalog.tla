-------------------------- MODULE RecordingCatalog --------------------------
(***************************************************************************)
(* How finalized MP4 files of one camera stream become catalogue rows with *)
(* a time span.  ZLMediaKit records and reports by HTTP hooks; the API     *)
(* keeps continuity generations in memory (ZlmContinuityTracker) and the   *)
(* RecordingSegment rows in the database:                                  *)
(*   - /stream-changed and /server-started open, close and forget the      *)
(*     generations of the tracker                                          *)
(*   - /record-mp4 resolves its file to a generation, catalogues it with   *)
(*     the raw times of the hook, and moves the row before it so that it   *)
(*     ends where the new file starts (ADR 0011)                           *)
(*   - the catalogue reconciliation recovers files whose hook was lost     *)
(*                                                                         *)
(* Hook handlers run in a thread pool.  The tracker is locked call by      *)
(* call, the database from a handler's first write to its commit (SQLite); *)
(* between these a handler's steps interleave with everything else.        *)
(***************************************************************************)
EXTENDS Naturals, Sequences

CONSTANTS
  NFiles,     \* bound: MP4 files, numbered in the order ZLM creates them
  MaxTime,    \* bound: the last instant
  MaxGens,    \* bound: registrations of the source in ZLM
  MaxIds,     \* bound: generations of the tracker an API restart may open
  Handlers,   \* threads that handle record-mp4 hooks
  Scenarios   \* the combinations of faults an instance explores

\* "lost": record-mp4 hooks are lost; "reorder": they overtake each other;
\* "repeat": they are delivered again; "stop": zero-nvr stops and restarts the
\* recorder; "crash": ZLM crashes; "restart": the API restarts; "late":
\* stream-changed hooks are handled later than they are sent; "flap": the source
\* is lost again while a file of an earlier registration is not yet catalogued;
\* "slow": a hook is under way for longer than the settle time of reconciliation;
\* "threads": record-mp4 hooks are handled by several threads at the same time.
FaultKinds ==
  {"lost", "reorder", "repeat", "stop", "crash", "restart", "late", "flap", "slow",
   "threads"}

ASSUME CatalogAssumption ==
  /\ NFiles \in Nat /\ MaxTime \in Nat /\ MaxGens \in Nat /\ MaxIds \in Nat
  /\ Scenarios \subseteq SUBSET FaultKinds

Files == 1..NFiles

VARIABLES
  faults,     \* the scenario of this behaviour, chosen once
  now,
  source,     \* registration of the source in ZLM, 0 while it is lost
  sourceAt,   \* when that registration began (createStamp) or the last one ended
  gens,       \* registrations so far
  recording,  \* the file ZLM is writing, 0 for none
  made,       \* files created so far
  disk,       \* disk[f]: "none", "open", "hidden" (interrupted) or "final"
  gen,        \* gen[f]: the registration f was recorded from
  from,       \* from[f]: creation time of f, start_time of its hook
  lead,       \* lead[f]: time from there to the first muxed keyframe
  upto,       \* upto[f]: when f was closed
  mp4Hooks,   \* files whose record-mp4 hook is under way
  hooks,      \* stream-changed and server-started hooks under way, in order
  active,     \* the tracker's active and recently closed generation
  closed,
  ids,        \* generations the tracker has opened
  status,     \* status[f]: timing_status of f's row, "NONE" without a row
  timing,     \* timing[f]: timing_source of f's row
  startedAt, endedAt,
  completion, \* completion[f]: completion_reason of f's row
  pc, job,    \* pc[h], job[h]: a record-mp4 handler's step and file
  found,      \* found[h]: what the tracker resolved f to
  fresh,      \* fresh[h]: the handler found no row for its file
  adjusts,    \* adjusts[h]: it found a row before it to finalize
  tail        \* tail[h]: it is to mark its file as the tail of a lost source

zlm == <<source, sourceAt, gens, recording, made>>
media == <<disk, gen, from, lead, upto>>
net == <<mp4Hooks, hooks>>
tracker == <<active, closed, ids>>
rows == <<status, timing, startedAt, endedAt, completion>>
threads == <<pc, job, found, fresh, adjusts, tail>>
vars == <<faults, now, zlm, media, net, tracker, rows, threads>>

\* A _ContinuityState; id 0 stands for None, as last = 0 and lastAt = 0 do.
NoGeneration == [id |-> 0, at |-> 0, last |-> 0, lastAt |-> 0, closedAt |-> 0]
NoResolution == [id |-> 0, previous |-> 0, closed |-> FALSE]

\* The muxed duration, time_len of the hook.
Duration(f) == upto[f] - from[f] - lead[f]

-----------------------------------------------------------------------------
(* ZLMediaKit (external) *)

\* Hooks about the stream are handled at once unless "late" is explored.
Prompt == "late" \in faults \/ hooks = <<>>

Tick ==
  /\ Prompt
  /\ now < MaxTime
  /\ now' = now + 1
  /\ UNCHANGED <<zlm, media, net, tracker, rows, threads>>

RegisterSource ==
  /\ Prompt
  /\ source = 0 /\ sourceAt < now /\ gens < MaxGens
  /\ gens' = gens + 1
  /\ source' = gens + 1
  /\ sourceAt' = now
  /\ hooks' = Append(hooks, "register")
  /\ UNCHANGED <<now, recording, made, media, mp4Hooks, tracker, rows, threads>>

\* A new file; keyframe is how long it waits for its first keyframe.
Create(f, keyframe) ==
  /\ gen' = [gen EXCEPT ![f] = source]
  /\ from' = [from EXCEPT ![f] = now]
  /\ lead' = [lead EXCEPT ![f] = keyframe]
  /\ made' = f
  /\ recording' = f

\* The open file has something to finalize.
Closable == recording # 0 => now > from[recording] + lead[recording]

\* The open file gets its final name and a record-mp4 hook.
Close(f) ==
  /\ upto' = [upto EXCEPT ![f] = now]
  /\ mp4Hooks' = mp4Hooks \cup {f}

\* startRecord, as the recorder reconcilers call it; the recorder waits for a
\* keyframe.
StartRecording(keyframe) ==
  /\ source # 0 /\ recording = 0 /\ made < NFiles
  /\ Create(made + 1, keyframe)
  /\ disk' = [disk EXCEPT ![made + 1] = "open"]
  /\ UNCHANGED <<now, source, sourceAt, gens, upto, net, tracker, rows, threads>>

\* The next file starts at the keyframe that ends the one before.
RollOver ==
  /\ recording # 0 /\ Closable /\ made < NFiles
  /\ Close(recording)
  /\ Create(made + 1, 0)
  /\ disk' = [disk EXCEPT ![recording] = "final", ![made + 1] = "open"]
  /\ UNCHANGED <<now, source, sourceAt, gens, hooks, tracker, rows, threads>>

\* stopRecord, as RecordingRuntimeService.reconcile calls it for mode off and
\* for a reconfiguration: the source stays registered.
StopRecording ==
  /\ "stop" \in faults
  /\ recording # 0 /\ Closable
  /\ Close(recording)
  /\ disk' = [disk EXCEPT ![recording] = "final"]
  /\ recording' = 0
  /\ UNCHANGED <<now, source, sourceAt, gens, made, gen, from, lead, hooks,
                 tracker, rows, threads>>

\* The record-mp4 hook of f is under way or being handled.
Outstanding(f) == f \in mp4Hooks \/ \E h \in Handlers : job[h] = f

CaughtUp == \A f \in Files : 0 < gen[f] /\ gen[f] < source => ~Outstanding(f)

LoseSource ==
  /\ Prompt
  /\ "flap" \in faults \/ CaughtUp
  /\ source # 0 /\ Closable
  /\ source' = 0 /\ sourceAt' = now
  /\ hooks' = Append(hooks, "unregister")
  /\ IF recording = 0
     THEN UNCHANGED <<upto, mp4Hooks, disk>>
     ELSE /\ Close(recording)
          /\ disk' = [disk EXCEPT ![recording] = "final"]
  /\ recording' = 0
  /\ UNCHANGED <<now, gens, made, gen, from, lead, tracker, rows, threads>>

\* ZLM dies with its hooks; the open file keeps its hidden name.  It reports
\* when it is back.
Crash ==
  /\ "crash" \in faults
  /\ source # 0 /\ Closable
  /\ source' = 0 /\ sourceAt' = now
  /\ hooks' = <<"server-started">>
  /\ mp4Hooks' = {}
  /\ IF recording = 0
     THEN UNCHANGED <<upto, disk>>
     ELSE /\ upto' = [upto EXCEPT ![recording] = now]
          /\ disk' = [disk EXCEPT ![recording] = "hidden"]
  /\ recording' = 0
  /\ UNCHANGED <<now, gens, made, gen, from, lead, tracker, rows, threads>>

LoseHook(f) ==
  /\ "lost" \in faults
  /\ f \in mp4Hooks
  /\ mp4Hooks' = mp4Hooks \ {f}
  /\ UNCHANGED <<now, zlm, media, hooks, tracker, rows, threads>>

-----------------------------------------------------------------------------
(* ZlmContinuityTracker *)

\* registered: a repeated registration keeps the generation.
Registered(at) ==
  IF active.id # 0
  THEN UNCHANGED <<active, ids>>
  ELSE /\ active' = [NoGeneration EXCEPT !.id = ids + 1, !.at = at]
       /\ ids' = ids + 1

\* Fault: the generation is closed but stays active.
UnregisteredKeeping(at) ==
  /\ closed' = IF active.id # 0 THEN [active EXCEPT !.closedAt = at] ELSE closed
  /\ UNCHANGED active

\* unregistered: one closed generation is kept for late hooks.
Unregistered(at) ==
  /\ closed' = IF active.id # 0 THEN [active EXCEPT !.closedAt = at] ELSE closed
  /\ active' = NoGeneration

\* reset
Reset ==
  /\ active' = NoGeneration
  /\ closed' = NoGeneration

\* Fault: the file goes to the active generation whenever there is one.
ResolveToActive(start) ==
  IF active.id # 0
  THEN [id |-> active.id, previous |-> active.last, closed |-> FALSE]
  ELSE IF closed.id # 0 /\ start <= closed.closedAt
  THEN [id |-> closed.id, previous |-> closed.last, closed |-> TRUE]
  ELSE NoResolution

\* resolve_record: the closed generation takes files from before its end, the
\* active one files from after its start.
ResolveRecord(start) ==
  IF closed.id # 0 /\ start <= closed.closedAt /\ (active.id = 0 \/ start < active.at)
  THEN [id |-> closed.id, previous |-> closed.last, closed |-> TRUE]
  ELSE IF active.id # 0 /\ start >= active.at
  THEN [id |-> active.id, previous |-> active.last, closed |-> FALSE]
  ELSE NoResolution

\* The test remember_segment makes before it moves a generation's last segment.
Accepts(g, id, start) == g.id = id /\ id # 0 /\ start >= g.lastAt

\* remember_segment, when one of the generations accepts the segment.
Remember(id, f, start) ==
  /\ active' = IF Accepts(active, id, start)
               THEN [active EXCEPT !.last = f, !.lastAt = start] ELSE active
  /\ closed' = IF Accepts(closed, id, start) /\ active.id # id
               THEN [closed EXCEPT !.last = f, !.lastAt = start] ELSE closed

-----------------------------------------------------------------------------
(* /stream-changed and /server-started *)

HandleRegister ==
  /\ hooks # <<>> /\ Head(hooks) = "register"
  /\ hooks' = Tail(hooks)
  /\ Registered(now)
  /\ UNCHANGED <<now, zlm, media, mp4Hooks, closed, rows, threads>>

HandleUnregister ==
  /\ hooks # <<>> /\ Head(hooks) = "unregister"
  /\ hooks' = Tail(hooks)
  /\ Unregistered(now)
  /\ UNCHANGED <<now, zlm, media, mp4Hooks, ids, rows, threads>>

HandleServerStarted ==
  /\ hooks # <<>> /\ Head(hooks) = "server-started"
  /\ hooks' = Tail(hooks)
  /\ Reset
  /\ UNCHANGED <<now, zlm, media, mp4Hooks, ids, rows, threads>>

-----------------------------------------------------------------------------
(* /record-mp4 *)

\* zlm_record_mp4 begins: the generation of the file is resolved.
Resolve(h, f) ==
  /\ pc[h] = "idle"
  /\ f \in mp4Hooks
  /\ "threads" \in faults \/ \A i \in Handlers : pc[i] = "idle"
  /\ "reorder" \in faults \/ \A e \in mp4Hooks : f <= e
  /\ \/ mp4Hooks' = mp4Hooks \ {f}
     \/ "repeat" \in faults /\ UNCHANGED mp4Hooks
  /\ pc' = [pc EXCEPT ![h] = "resolved"]
  /\ job' = [job EXCEPT ![h] = f]
  /\ found' = [found EXCEPT ![h] = ResolveRecord(from[f])]
  /\ UNCHANGED <<now, zlm, media, hooks, tracker, rows, fresh, adjusts, tail>>

\* Fault: a row is moved whether or not its time is settled.
AdjustsAnyRow(p, boundary) ==
  p # 0 /\ status[p] # "NONE" /\ boundary > startedAt[p]

\* _finalize_previous_from_boundary, its conditions.
AdjustsPrevious(p, boundary) ==
  p # 0 /\ status[p] = "PROVISIONAL" /\ boundary > startedAt[p]

\* ingest_finalized reads: a row for the file, and the row before it.
ReadCatalog(h) ==
  /\ pc[h] = "resolved"
  /\ pc' = [pc EXCEPT ![h] = "read"]
  /\ fresh' = [fresh EXCEPT ![h] = status[job[h]] = "NONE"]
  /\ adjusts' = [adjusts EXCEPT ![h] =
       status[job[h]] = "NONE" /\ AdjustsPrevious(found[h].previous, from[job[h]])]
  /\ UNCHANGED <<now, zlm, media, net, tracker, rows, job, found, tail>>

\* A handler has written and not committed: the other writers wait.
Writing(h) == pc[h] = "written"

\* The request is answered; what its handler knew is gone.
Done(h) ==
  /\ pc' = [pc EXCEPT ![h] = "idle"]
  /\ job' = [job EXCEPT ![h] = 0]
  /\ found' = [found EXCEPT ![h] = NoResolution]
  /\ fresh' = [fresh EXCEPT ![h] = FALSE]
  /\ adjusts' = [adjusts EXCEPT ![h] = FALSE]
  /\ tail' = [tail EXCEPT ![h] = FALSE]

\* The row was inserted by somebody else since it was looked up: the unique
\* (storage_target_id, object_path) makes the INSERT fail, and the handler rolls back.
Conflict(h) ==
  /\ pc[h] = "read" /\ \A i \in Handlers : ~Writing(i)
  /\ fresh[h] /\ status[job[h]] # "NONE"
  /\ Done(h)
  /\ UNCHANGED <<now, zlm, media, net, tracker, rows>>

\* The rows are written, not yet committed, and the tracker is told.
Write(h) ==
  LET f == job[h]
      id == found[h].id
      start == IF fresh[h] THEN from[f] ELSE startedAt[f]
      accepted == Accepts(IF active.id = id THEN active ELSE closed, id, start)
  IN /\ pc[h] = "read" /\ \A i \in Handlers : ~Writing(i)
     /\ fresh[h] => status[f] = "NONE"
     /\ Remember(id, f, start)
     /\ tail' = [tail EXCEPT ![h] = accepted /\ found[h].closed]
     /\ pc' = [pc EXCEPT ![h] = "written"]
     /\ UNCHANGED <<now, zlm, media, net, ids, rows, job, found, fresh, adjusts>>

\* Fault: the mark is set on the new tail and left on the old one.
TailMarkedTwice(c, p, f) == [c EXCEPT ![f] = "source_lost"]

\* mark_source_loss_tail: the mark moves from the previous segment to f.
TailMarked(c, p, f) ==
  [e \in Files |-> IF e = f THEN "source_lost"
                   ELSE IF e = p /\ c[e] = "source_lost" THEN "NORMAL" ELSE c[e]]

\* The row before ends where f starts, and keeps its duration.
Adjusted(h, e) == adjusts[h] /\ e = found[h].previous

Inserted(h, e) == fresh[h] /\ e = job[h]

\* session.commit
Commit(h) ==
  LET f == job[h]
      inserted == [e \in Files |-> IF Inserted(h, e) THEN "NORMAL" ELSE completion[e]]
  IN /\ Writing(h)
     /\ status' = [e \in Files |-> IF Adjusted(h, e) THEN "FINAL"
                                   ELSE IF Inserted(h, e) THEN "PROVISIONAL"
                                   ELSE status[e]]
     /\ timing' = [e \in Files |-> IF Adjusted(h, e) THEN "NEXT_SEGMENT_BOUNDARY"
                                   ELSE IF Inserted(h, e) THEN "HOOK_RAW"
                                   ELSE timing[e]]
     /\ startedAt' = [e \in Files |-> IF Adjusted(h, e) THEN from[f] - Duration(e)
                                      ELSE IF Inserted(h, e) THEN from[f]
                                      ELSE startedAt[e]]
     /\ endedAt' = [e \in Files |-> IF Adjusted(h, e) THEN from[f]
                                    ELSE IF Inserted(h, e) THEN from[f] + Duration(f)
                                    ELSE endedAt[e]]
     /\ completion' = IF tail[h] THEN TailMarked(inserted, found[h].previous, f)
                      ELSE inserted
     /\ Done(h)
     /\ UNCHANGED <<now, zlm, media, net, tracker>>

-----------------------------------------------------------------------------
(* RecordingCatalogReconciliationService *)

\* The row _recover_file creates, timed by the file's name and ffprobe.
RecoveredRow(f, reason) ==
  /\ status' = [status EXCEPT ![f] = "FINAL"]
  /\ timing' = [timing EXCEPT ![f] = "RECOVERY"]
  /\ startedAt' = [startedAt EXCEPT ![f] = from[f]]
  /\ endedAt' = [endedAt EXCEPT ![f] = from[f] + Duration(f)]
  /\ completion' = [completion EXCEPT ![f] = reason]

\* _recover_file: a settled file without a row.
RecoverFile(f) ==
  /\ disk[f] = "final" /\ upto[f] < now
  /\ "slow" \in faults \/ ~Outstanding(f)
  /\ status[f] = "NONE"
  /\ \A h \in Handlers : ~Writing(h)
  /\ RecoveredRow(f, "RECOVERY")
  /\ UNCHANGED <<now, zlm, media, net, tracker, threads>>

\* _recover_partial_file: the hidden file gets its final name, then its row.
RecoverPartialFile(f) ==
  /\ disk[f] = "hidden" /\ upto[f] < now
  /\ \A h \in Handlers : ~Writing(h)
  /\ disk' = [disk EXCEPT ![f] = "final"]
  /\ RecoveredRow(f, "RECOVERY_INTERRUPTED")
  /\ UNCHANGED <<now, zlm, gen, from, lead, upto, net, tracker, threads>>

-----------------------------------------------------------------------------
(* API restart *)

\* The process dies with its handlers, its tracker and the hooks sent to it.
\* ZlmRuntimeObservationService.rebuild opens a generation for a registered
\* source, back-dated to its registration; it may fail when ZLM does not answer.
Restart ==
  /\ "restart" \in faults
  /\ closed' = NoGeneration
  /\ \/ /\ source # 0 /\ ids < MaxIds
        /\ active' = [NoGeneration EXCEPT !.id = ids + 1, !.at = sourceAt]
        /\ ids' = ids + 1
     \/ /\ active' = NoGeneration
        /\ UNCHANGED ids
  /\ hooks' = <<>>
  /\ mp4Hooks' = {}
  /\ pc' = [h \in Handlers |-> "idle"]
  /\ job' = [h \in Handlers |-> 0]
  /\ found' = [h \in Handlers |-> NoResolution]
  /\ fresh' = [h \in Handlers |-> FALSE]
  /\ adjusts' = [h \in Handlers |-> FALSE]
  /\ tail' = [h \in Handlers |-> FALSE]
  /\ UNCHANGED <<now, zlm, media, rows>>

-----------------------------------------------------------------------------
Init ==
  /\ faults \in Scenarios
  /\ now = 1
  /\ source = 0 /\ sourceAt = 0 /\ gens = 0 /\ recording = 0 /\ made = 0
  /\ disk = [f \in Files |-> "none"]
  /\ gen = [f \in Files |-> 0] /\ from = gen /\ lead = gen /\ upto = gen
  /\ mp4Hooks = {} /\ hooks = <<>>
  /\ active = NoGeneration /\ closed = NoGeneration /\ ids = 0
  /\ status = [f \in Files |-> "NONE"]
  /\ timing = [f \in Files |-> "HOOK_RAW"]
  /\ startedAt = gen /\ endedAt = gen
  /\ completion = [f \in Files |-> "NORMAL"]
  /\ pc = [h \in Handlers |-> "idle"]
  /\ job = [h \in Handlers |-> 0]
  /\ found = [h \in Handlers |-> NoResolution]
  /\ fresh = [h \in Handlers |-> FALSE]
  /\ adjusts = [h \in Handlers |-> FALSE]
  /\ tail = [h \in Handlers |-> FALSE]

ZlmStep ==
  \/ Tick \/ RegisterSource \/ LoseSource \/ Crash
  \/ \E keyframe \in {0, 1} : StartRecording(keyframe)
  \/ RollOver \/ StopRecording
  \/ \E f \in Files : LoseHook(f)

HookStep ==
  \/ HandleRegister \/ HandleUnregister \/ HandleServerStarted
  \/ \E h \in Handlers :
       \/ \E f \in Files : Resolve(h, f)
       \/ ReadCatalog(h) \/ Conflict(h) \/ Write(h) \/ Commit(h)

RecoveryStep ==
  \/ \E f \in Files : RecoverFile(f) \/ RecoverPartialFile(f)
  \/ Restart

Next == (ZlmStep \/ HookStep \/ RecoveryStep) /\ UNCHANGED faults

Spec == Init /\ [][Next]_vars

-----------------------------------------------------------------------------
Generation == [id : Nat, at : Nat, last : 0..NFiles, lastAt : Nat, closedAt : Nat]
Resolution == [id : Nat, previous : 0..NFiles, closed : BOOLEAN]

\* Every variable keeps its type.
TypeOK ==
  /\ faults \in Scenarios
  /\ now \in Nat
  /\ source \in Nat /\ sourceAt \in Nat /\ gens \in Nat
  /\ recording \in 0..NFiles /\ made \in 0..NFiles
  /\ disk \in [Files -> {"none", "open", "hidden", "final"}]
  /\ gen \in [Files -> Nat] /\ from \in [Files -> Nat]
  /\ lead \in [Files -> {0, 1}] /\ upto \in [Files -> Nat]
  /\ mp4Hooks \subseteq Files
  /\ hooks \in Seq({"register", "unregister", "server-started"})
  /\ active \in Generation /\ closed \in Generation /\ ids \in Nat
  /\ status \in [Files -> {"NONE", "PROVISIONAL", "FINAL"}]
  /\ timing \in [Files -> {"HOOK_RAW", "NEXT_SEGMENT_BOUNDARY", "RECOVERY"}]
  /\ startedAt \in [Files -> Nat] /\ endedAt \in [Files -> Nat]
  /\ completion \in [Files -> {"NORMAL", "source_lost", "RECOVERY",
                               "RECOVERY_INTERRUPTED"}]
  /\ pc \in [Handlers -> {"idle", "resolved", "read", "written"}]
  /\ job \in [Handlers -> 0..NFiles]
  /\ found \in [Handlers -> Resolution]
  /\ fresh \in [Handlers -> BOOLEAN]
  /\ adjusts \in [Handlers -> BOOLEAN]
  /\ tail \in [Handlers -> BOOLEAN]

Normalized(f) == status[f] = "FINAL" /\ timing[f] = "NEXT_SEGMENT_BOUNDARY"

\* A row normalized from the next boundary shows the time its media really
\* covers: from the first muxed keyframe to the close of the file.
\* (catalog._finalize_previous_from_boundary; ADR 0011, "ended_at(N) = B".)
NormalizedTimingIsTrue ==
  \A f \in Files : Normalized(f) =>
    startedAt[f] = from[f] + lead[f] /\ endedAt[f] = upto[f]

\* Registrations split the timeline: the boundary a row was normalized from is
\* the start of a later file of the same registration of the source, whatever
\* happens to record-mp4 hooks, to ZLM and to the API.
\* (ADR 0011, invariants 4 and 5.)
GenerationsStaySplit ==
  \A f \in Files : Normalized(f) =>
    \E g \in Files : f < g /\ gen[g] = gen[f] /\ from[g] = endedAt[f]

\* One registration ends at one file: the source_lost mark moves to a newer
\* tail, it is never on two.  (catalog.mark_source_loss_tail: "Move source-loss
\* completion evidence to the latest known tail.")
OneTail ==
  \A f, g \in Files :
    /\ completion[f] = "source_lost" /\ completion[g] = "source_lost"
    /\ gen[f] = gen[g]
    => f = g

FinalSpansKept ==
  \A f \in Files : status[f] = "FINAL" =>
    status'[f] = "FINAL" /\ UNCHANGED <<startedAt[f], endedAt[f]>>

\* Two files that were recorded one after the other do not both claim the same
\* time once both rows are FINAL.
FinalSpansDisjoint ==
  \A f, g \in Files :
    f < g /\ status[f] = "FINAL" /\ status[g] = "FINAL" => endedAt[f] <= startedAt[g]
\* When nothing is lost, overtaken or stopped, every normalized row shows the
\* time its media covers and FINAL rows do not claim the same time twice, also
\* through repeated hooks and restarts of ZLM and the API.
\* (catalog._finalize_previous_from_boundary; ADR 0011.)
CalmTimingIsTrue ==
  faults \subseteq {"repeat", "crash", "restart"} =>
    NormalizedTimingIsTrue /\ FinalSpansDisjoint

\* As long as one hook is handled at a time, whatever order the hooks come in:
\* one registration of the source ends at one file.
\* (catalog.mark_source_loss_tail: "Move source-loss completion evidence to the
\* latest known tail.")
SerialOneTail == "threads" \notin faults => OneTail

\* As long as one hook is handled at a time, a FINAL span is never changed again
\* by a later, repeated or late hook.  (catalog._finalize_previous_from_boundary)
SerialFinalIsStable ==
  []["threads" \notin faults => FinalSpansKept]_vars
=============================================================================
