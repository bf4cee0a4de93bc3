----------------------------- MODULE ExportJobs -----------------------------
(***************************************************************************)
(* A clip export and its share link: the API that creates, cancels and     *)
(* shares it (exports/api.py, service.py, shares.py), the task that        *)
(* renders it (execution.py, worker/tasks.py) and the hourly expiry.       *)
(*                                                                         *)
(* A transaction reads in one step and commits in a later one, and writes  *)
(* only the columns it changes: others may commit in between.              *)
(***************************************************************************)
EXTENDS Integers

CONSTANTS Viewer,          \* those who hold the share link
          MaxDownloads,    \* max_downloads of the share
          RenderRetries,   \* retries of render_export
          MaxCancels       \* bound: cancellations of the export

ASSUME ExportConstants ==
  {MaxDownloads, RenderRetries, MaxCancels} \subseteq Nat

VARIABLES job,        \* state of the ExportJob row
          output,     \* its output_path is set
          file,       \* the rendered file exists
          due,        \* expires_at has passed
          render,     \* the task: its step, what it read, its retries
          cancel,     \* the DELETE request, and how many there were
          sweep,      \* the expiry task
          share,      \* the share token: "none", "open", "revoked"
          downloads,  \* download_count
          viewer,     \* what each viewer's request has done
          served,     \* downloads that were started
          renderLost  \* the worker stopped in the middle of the task

exportVars == <<job, output, file, due, render, cancel, sweep, share,
                downloads, viewer, served, renderLost>>

Blank == [state |-> "none", output |-> FALSE, due |-> FALSE]
Row == [state |-> job, output |-> output, due |-> due]

ExportInit ==
  /\ job = "none" /\ output = FALSE /\ file = FALSE /\ due = FALSE
  /\ render = [pc |-> "none", saw |-> Blank, tries |-> 0]
  /\ cancel = [pc |-> "none", saw |-> Blank, count |-> 0]
  /\ sweep = [pc |-> "none", saw |-> Blank]
  /\ share = "none" /\ downloads = 0 /\ served = 0
  /\ viewer = [v \in Viewer |-> "idle"]
  /\ renderLost = FALSE

\* ExportService.create; a repetition with the same idempotency key finds the
\* row and creates nothing.
InsertJob == job = "none" /\ job' = "PENDING"

\* create_export: the row is committed, then the task is queued.  When the
\* queue is not there the caller gets an error and the row stays PENDING, and
\* a repetition does not queue it.
CreateExport(queued) ==
  /\ InsertJob
  /\ render' = [render EXCEPT !.pc = IF queued THEN "queued" ELSE "done"]
  /\ UNCHANGED <<output, file, due, cancel, sweep, share, downloads, viewer, served, renderLost>>

ExpiryPasses ==
  /\ job # "none" /\ ~due /\ due' = TRUE
  /\ UNCHANGED <<job, output, file, render, cancel, sweep, share, downloads, viewer, served, renderLost>>

-----------------------------------------------------------------------------
(* render_export *)

RenderTo(pc) == render' = [render EXCEPT !.pc = pc, !.saw = Blank]
RenderRead(pc) == render' = [render EXCEPT !.pc = pc, !.saw = Row]
RenderOnly == UNCHANGED <<due, cancel, sweep, share, downloads, viewer, served, renderLost>>

\* prepare reads the job, and the recordings of its range.
StartRender ==
  /\ render.pc = "queued" /\ RenderRead("prepare")
  /\ UNCHANGED <<job, output, file>> /\ RenderOnly

\* prepare commits: an ended or completed job is left alone, an overdue one
\* expires, one without media fails for good, the others run.
CommitPrepare(planned) ==
  /\ render.pc = "prepare"
  /\ \/ /\ render.saw.state \in {"COMPLETED", "CANCELLED", "EXPIRED"}
        /\ RenderTo("done") /\ UNCHANGED <<job, output>>
     \/ /\ render.saw.state \notin {"COMPLETED", "CANCELLED", "EXPIRED"} /\ render.saw.due
        /\ job' = "EXPIRED" /\ RenderTo("done") /\ UNCHANGED output
     \/ /\ render.saw.state \notin {"COMPLETED", "CANCELLED", "EXPIRED"} /\ ~render.saw.due
        /\ job' = IF planned THEN "RUNNING" ELSE "FAILED"
        /\ output' = (output \/ (planned /\ ~render.saw.output))
        /\ RenderTo(IF planned THEN "render" ELSE "done")
  /\ UNCHANGED file /\ RenderOnly

\* FfmpegExportAdapter.render writes a partial file and replaces the output
\* with it, or removes the partial file and raises.  Rendering takes longer
\* than the transaction of a request: what was read before it starts has been
\* committed when it ends.
Render(ok) ==
  /\ render.pc = "render" /\ cancel.pc # "commit"
  /\ file' = (file \/ ok)
  /\ RenderTo(IF ok THEN "rendered" ELSE "broken")
  /\ UNCHANGED <<job, output>> /\ RenderOnly

\* _complete and _mark_failed read the job.
ReadResult ==
  /\ render.pc \in {"rendered", "broken"}
  /\ RenderRead(IF render.pc = "rendered" THEN "complete" ELSE "fail")
  /\ UNCHANGED <<job, output, file>> /\ RenderOnly

\* _complete commits: the file of a job that ended meanwhile is unlinked.
CommitComplete ==
  /\ render.pc = "complete"
  /\ \/ /\ render.saw.state \in {"CANCELLED", "EXPIRED"}
        /\ file' = FALSE /\ UNCHANGED <<job, output>>
     \/ /\ render.saw.state \notin {"CANCELLED", "EXPIRED"} /\ due
        /\ job' = "EXPIRED" /\ file' = FALSE /\ output' = (output /\ ~render.saw.output)
     \/ /\ render.saw.state \notin {"CANCELLED", "EXPIRED"} /\ ~due
        /\ job' = "COMPLETED" /\ output' = (output \/ ~render.saw.output) /\ UNCHANGED file
  /\ RenderTo("done") /\ RenderOnly

\* _mark_failed commits, the error is raised again and the queue retries.
CommitFailed ==
  /\ render.pc = "fail"
  /\ job' = IF render.saw.state \in {"CANCELLED", "EXPIRED"} THEN job ELSE "FAILED"
  /\ render' = IF render.tries < RenderRetries
               THEN [pc |-> "queued", saw |-> Blank, tries |-> render.tries + 1]
               ELSE [render EXCEPT !.pc = "done", !.saw = Blank]
  /\ UNCHANGED <<output, file>> /\ RenderOnly

\* The worker stops; nothing delivers the task again.
CrashRender ==
  /\ render.pc \in {"prepare", "render", "rendered", "complete", "fail"}
  /\ renderLost' = TRUE /\ RenderTo("done")
  /\ UNCHANGED <<job, output, file, due, cancel, sweep, share, downloads, viewer, served>>

-----------------------------------------------------------------------------
(* delete_export and expire_exports *)

ReadCancel ==
  /\ job # "none" /\ cancel.pc = "none" /\ cancel.count < MaxCancels
  /\ cancel' = [pc |-> "commit", saw |-> Row, count |-> cancel.count + 1]
  /\ UNCHANGED <<job, output, file, due, render, sweep, share, downloads, viewer, served, renderLost>>

\* cancel: a job that ended keeps its state.
CommitCancel ==
  /\ cancel.pc = "commit" /\ cancel' = [cancel EXCEPT !.pc = "unlink"]
  /\ \/ cancel.saw.state \in {"CANCELLED", "EXPIRED"} /\ UNCHANGED <<job, output>>
     \/ /\ cancel.saw.state \notin {"CANCELLED", "EXPIRED"}
        /\ job' = "CANCELLED" /\ output' = (output /\ ~cancel.saw.output)
  /\ UNCHANGED <<file, due, render, sweep, share, downloads, viewer, served, renderLost>>

UnlinkCancelled ==
  /\ cancel.pc = "unlink" /\ cancel' = [cancel EXCEPT !.pc = "none", !.saw = Blank]
  /\ file' = (file /\ ~cancel.saw.output)
  /\ UNCHANGED <<job, output, due, render, sweep, share, downloads, viewer, served, renderLost>>

\* expire takes the overdue jobs that did not end and do not run.
ReadExpired ==
  /\ sweep.pc = "none" /\ due
  /\ job \notin {"none", "EXPIRED", "CANCELLED", "RUNNING"}
  /\ sweep' = [pc |-> "commit", saw |-> Row]
  /\ UNCHANGED <<job, output, file, due, render, cancel, share, downloads, viewer, served, renderLost>>

CommitExpired ==
  /\ sweep.pc = "commit" /\ sweep' = [sweep EXCEPT !.pc = "unlink"]
  /\ job' = "EXPIRED" /\ output' = (output /\ ~sweep.saw.output)
  /\ UNCHANGED <<file, due, render, cancel, share, downloads, viewer, served, renderLost>>

UnlinkExpired ==
  /\ sweep.pc = "unlink" /\ sweep' = [pc |-> "none", saw |-> Blank]
  /\ file' = (file /\ ~sweep.saw.output)
  /\ UNCHANGED <<job, output, due, render, cancel, share, downloads, viewer, served, renderLost>>

-----------------------------------------------------------------------------
(* Share links *)

ShareOnly == UNCHANGED <<job, output, file, due, render, cancel, sweep, renderLost>>

\* ExportShareService.create: only what is rendered can be shared.
Shareable == job = "COMPLETED"

CreateShare ==
  /\ Shareable /\ share = "none"
  /\ share' = "open" /\ UNCHANGED <<downloads, viewer, served>> /\ ShareOnly

RevokeShare ==
  /\ share = "open" /\ share' = "revoked"
  /\ UNCHANGED <<downloads, viewer, served>> /\ ShareOnly

\* download_shared_export looks for the file before it counts the download.
OutputThere == output /\ file

\* authorize_download reads the token and the export.  A share never outlives
\* its export.
Authorize(v) ==
  /\ viewer[v] = "idle" /\ share = "open" /\ ~due /\ downloads < MaxDownloads
  /\ job = "COMPLETED" /\ OutputThere
  /\ viewer' = [viewer EXCEPT ![v] = "authorized"]
  /\ UNCHANGED <<share, downloads, served>> /\ ShareOnly

\* Fault: the update relies on the check that was made before.
ConsumeUnchecked(v) ==
  /\ viewer[v] = "authorized"
  /\ downloads' = downloads + 1 /\ served' = served + 1
  /\ viewer' = [viewer EXCEPT ![v] = "idle"]
  /\ UNCHANGED share /\ ShareOnly
\* consume_download: one conditional UPDATE; the file is sent only when it
\* counted the download.
Consume(v) ==
  /\ viewer[v] = "authorized"
  /\ LET counted == share = "open" /\ ~due /\ downloads < MaxDownloads
     IN  /\ downloads' = IF counted THEN downloads + 1 ELSE downloads
         /\ served' = IF counted THEN served + 1 ELSE served
  /\ viewer' = [viewer EXCEPT ![v] = "idle"]
  /\ UNCHANGED share /\ ShareOnly

-----------------------------------------------------------------------------
RenderStep ==
  \/ StartRender \/ ReadResult \/ CommitComplete \/ CommitFailed
  \/ \E ok \in BOOLEAN : CommitPrepare(ok) \/ Render(ok)

CancelStep == CommitCancel \/ UnlinkCancelled
SweepStep == ReadExpired \/ CommitExpired \/ UnlinkExpired

ExportNext ==
  \/ RenderStep \/ CancelStep \/ SweepStep
  \/ \E queued \in BOOLEAN : CreateExport(queued)
  \/ ExpiryPasses \/ CrashRender \/ ReadCancel
  \/ CreateShare \/ RevokeShare
  \/ \E v \in Viewer : Authorize(v) \/ Consume(v)

ExportSpec == ExportInit /\ [][ExportNext]_exportVars

\* The queue delivers, a task goes on, the expiry task is periodic, a request
\* that was accepted is worked off, and time passes.
ExportFairness ==
  /\ WF_exportVars(RenderStep) /\ WF_exportVars(CancelStep)
  /\ WF_exportVars(SweepStep) /\ WF_exportVars(ExpiryPasses)

\* Every share link is good for at most max_downloads downloads, whatever
\* the number of viewers that were let in at the same time, and for none once
\* it has been revoked (authorize_download and consume_download are two steps).
ShareHonoured ==
  [][/\ served' <= MaxDownloads
     /\ share = "revoked" => served' = served]_exportVars

\* Whatever is cancelled while it is rendered, whatever fails, and even when
\* the task was never queued: in the end the export has ended and its file is
\* gone.  Only a worker that stops in the middle leaves a job RUNNING for good.
ExportsGoAway ==
  <>[](job \in {"none", "CANCELLED", "EXPIRED"} /\ ~file)
    \/ <>[](renderLost /\ job \notin {"PENDING", "COMPLETED", "FAILED"})
=============================================================================
