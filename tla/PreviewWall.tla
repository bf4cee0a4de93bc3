---------------------------- MODULE PreviewWall -----------------------------
(***************************************************************************)
(* The multiplexed preview wall of one browser (live_preview_wall.py and   *)
(* the websocket of live_preview_wall_api.py): the client names the        *)
(* subscription each slot shall show, every slot is fed by a task that     *)
(* runs one ffmpeg preview, and one sender interleaves control events with *)
(* the latest frame of each slot.                                          *)
(*                                                                         *)
(* Everything runs on one event loop: an action is what happens between    *)
(* two awaits.  A task that is cancelled still runs its finally block, and *)
(* apply_sync waits for each task it stops before it looks at the next, so *)
(* frames, revocations and ends of previews come in between.  Revocations  *)
(* of media sessions arrive from other threads as scheduled callbacks.     *)
(***************************************************************************)
EXTENDS Integers, Sequences, FiniteSets, Functions

CONSTANTS Slot,      \* slots of the wall
          Sub,       \* subscriptions: an id, a camera and its media session
          Wishes,    \* what a sync message may ask for: slots to subscriptions
          Feed,      \* _ActivePreview objects; reused when nothing refers to one
          None

ASSUME WallConstants ==
  /\ Wishes \subseteq [Slot -> Sub \union {None}]
  /\ Slot # {} /\ IsFiniteSet(Slot) /\ IsFiniteSet(Feed) /\ None \notin Sub \union Feed

VARIABLES
  desired,     \* _desired
  entry,       \* _entries: the feed of each slot
  feed,        \* the state of each feed's _run_source task
  previews,    \* feeds with an ffmpeg process
  registered,  \* feeds whose cleanup is registered with their media session
  revoked,     \* subscriptions whose media session has ended
  failing,     \* subscriptions with a fail_subscription task to run
  sync,        \* apply_sync: idle, or the slots of its snapshot still to stop
  latest,      \* _latest_frames: the subscription of the pending frame
  ready,       \* _ready_slots
  control,     \* keys of _control
  lastControl, \* _last_message_was_control
  closed       \* _closed

wallVars == <<desired, entry, feed, previews, registered, revoked, failing,
              sync, latest, ready, control, lastControl, closed>>

NoFeed == [pc |-> "none", slot |-> CHOOSE s \in Slot : TRUE, sub |-> None, cancel |-> FALSE]
SyncIdle == [busy |-> FALSE, todo |-> {}, wait |-> None]
Running(f) == feed[f].pc # "none"

WallTypeOK ==
  /\ desired \in [Slot -> Sub \union {None}] /\ entry \in [Slot -> Feed \union {None}]
  /\ feed \in [Feed -> [pc : {"none", "opening", "streaming", "cleaning"},
                        slot : Slot, sub : Sub \union {None}, cancel : BOOLEAN]]
  /\ previews \subseteq Feed /\ registered \subseteq Feed
  /\ revoked \subseteq Sub /\ failing \subseteq Sub
  /\ sync \in [busy : BOOLEAN, todo : SUBSET Slot, wait : Feed \union {None}]
  /\ latest \in [Slot -> Sub \union {None}] /\ ready \in Seq(Slot)
  /\ control \subseteq Slot \union {"synced"}
  /\ lastControl \in BOOLEAN /\ closed \in BOOLEAN

WallInit ==
  /\ desired = [s \in Slot |-> None] /\ entry = [s \in Slot |-> None]
  /\ feed = [f \in Feed |-> NoFeed]
  /\ previews = {} /\ registered = {} /\ revoked = {} /\ failing = {}
  /\ sync = SyncIdle
  /\ latest = [s \in Slot |-> None] /\ ready = << >>
  /\ control = {} /\ lastControl = FALSE /\ closed = FALSE

Current(f) == feed[f].pc # "none" /\ entry[feed[f].slot] = f

\* _queue_event: an event about a subscription that is no longer desired is
\* dropped; otherwise it replaces the slot's pending event.
Queued(slot, sub) == IF desired[slot] = sub THEN control \union {slot} ELSE control

\* _discard_pending
Discard(slot) ==
  /\ latest' = [latest EXCEPT ![slot] = None]
  /\ ready' = SelectSeq(ready, LAMBDA r : r # slot)

\* _stop_entry up to its await: a task that is not done is cancelled.
Cancelled(fs) == [f \in Feed |-> IF f \in fs /\ Running(f)
                                   THEN [feed[f] EXCEPT !.cancel = TRUE] ELSE feed[f]]

-----------------------------------------------------------------------------
(* apply_sync *)

\* A sync message: the new desired slots; the feeds whose subscription or
\* profile differs are to be stopped, all of them when the layout changes the
\* profile.
SyncBegin(want, relayout) ==
  /\ ~closed /\ ~sync.busy
  /\ desired' = want
  /\ sync' = [busy |-> TRUE, wait |-> None,
              todo |-> {s \in Slot : /\ entry[s] # None
                                     /\ relayout \/ want[s] # feed[entry[s]].sub}]
  /\ UNCHANGED <<entry, feed, previews, registered, revoked, failing, latest,
                 ready, control, lastControl, closed>>

\* Fault: the pending frame of the stopped feed stays.
SyncStopKeepsFrame(s) ==
  /\ sync.busy /\ sync.wait = None /\ s \in sync.todo
  /\ sync' = [sync EXCEPT !.todo = @ \ {s}, !.wait = entry[s]]
  /\ entry' = [entry EXCEPT ![s] = None]
  /\ feed' = Cancelled({entry[s]})
  /\ UNCHANGED <<desired, previews, registered, revoked, failing, latest, ready,
                 control, lastControl, closed>>

\* The next entry of the snapshot is taken out of the table and cancelled (one
\* that ended by itself meanwhile is out of it already; that its cleanup is then
\* cancelled, which only leaves its registration behind, is left out).
SyncStop(s) ==
  /\ sync.busy /\ sync.wait = None /\ s \in sync.todo
  /\ sync' = [sync EXCEPT !.todo = @ \ {s}, !.wait = entry[s]]
  /\ entry' = [entry EXCEPT ![s] = None]
  /\ Discard(s)
  /\ feed' = Cancelled({entry[s]})
  /\ UNCHANGED <<desired, previews, registered, revoked, failing, control,
                 lastControl, closed>>

\* The awaited task has ended.
SyncWaited ==
  /\ sync.wait # None /\ ~Running(sync.wait)
  /\ sync' = [sync EXCEPT !.wait = None]
  /\ UNCHANGED <<desired, entry, feed, previews, registered, revoked, failing,
                 latest, ready, control, lastControl, closed>>

\* Missing feeds are created, their tasks started, and "synced" queued.
FreeFeeds == {f \in Feed : feed[f].pc = "none" /\ \A s \in Slot : entry[s] # f}
SyncCreate ==
  /\ sync.busy /\ sync.wait = None /\ sync.todo = {}
  /\ LET missing == {s \in Slot : desired[s] # None /\ entry[s] = None}
         new == CHOOSE n \in Injection(missing, FreeFeeds) : TRUE
     IN    /\ Cardinality(FreeFeeds) >= Cardinality(missing)
           /\ entry' = [s \in Slot |-> IF s \in missing THEN new[s] ELSE entry[s]]
           /\ feed' = [f \in Feed |->
                IF \E s \in missing : new[s] = f
                  THEN LET s == CHOOSE x \in missing : new[x] = f
                       IN  [pc |-> "opening", slot |-> s, sub |-> desired[s], cancel |-> FALSE]
                  ELSE feed[f]]
  /\ sync' = SyncIdle
  /\ control' = control \union {"synced"}
  /\ UNCHANGED <<desired, previews, registered, revoked, failing, latest, ready,
                 lastControl, closed>>

-----------------------------------------------------------------------------
(* _run_source *)

\* The finally block up to its await: a feed that is still current leaves the
\* table; an error or the end of the preview is reported, a cancellation not.
Unwind(f, report) ==
  /\ feed' = [feed EXCEPT ![f].pc = "cleaning", ![f].cancel = FALSE]
  /\ control' = IF report /\ Current(f) THEN Queued(feed[f].slot, feed[f].sub) ELSE control
  /\ IF Current(f) THEN entry' = [entry EXCEPT ![feed[f].slot] = None] /\ Discard(feed[f].slot)
     ELSE UNCHANGED <<entry, latest, ready>>

\* Fault: the preview is not registered with its session.
OpenUnregistered(f) ==
  /\ feed[f].pc = "opening" /\ ~feed[f].cancel
  /\ feed[f].sub \notin revoked /\ Current(f)
  /\ previews' = previews \union {f}
  /\ feed' = [feed EXCEPT ![f].pc = "streaming"]
  /\ UNCHANGED <<desired, entry, registered, revoked, failing, sync, latest, ready,
                 control, lastControl, closed>>

\* open_source: permission, scope and session are checked again, ffmpeg is
\* started, and its cleanup registered.  A session that ended before the check
\* or before the registration is an error, and the process is closed again.
OpenSource(f) ==
  /\ feed[f].pc = "opening" /\ ~feed[f].cancel
  /\ \/ /\ feed[f].sub \notin revoked
        /\ previews' = previews \union {f} /\ registered' = registered \union {f}
        /\ IF Current(f)
             THEN feed' = [feed EXCEPT ![f].pc = "streaming"] /\ UNCHANGED <<entry, latest, ready, control>>
             ELSE Unwind(f, FALSE)
     \/ /\ Unwind(f, TRUE)
        /\ UNCHANGED <<previews, registered>>
  /\ UNCHANGED <<desired, revoked, failing, sync, lastControl, closed>>

\* A frame replaces the slot's pending one.
Frame(f) ==
  /\ feed[f].pc = "streaming" /\ ~feed[f].cancel
  /\ Current(f)
  /\ LET s == feed[f].slot
     IN  /\ latest' = [latest EXCEPT ![s] = feed[f].sub]
         /\ ready' = IF \E i \in DOMAIN ready : ready[i] = s THEN ready ELSE Append(ready, s)
         /\ control' \in {control, Queued(s, feed[f].sub)}   \* the first one: "ready"
  /\ UNCHANGED <<desired, entry, feed, previews, registered, revoked, failing,
                 sync, lastControl, closed>>

\* ffmpeg ends, or its task sees that it is no longer current, or is cancelled.
StreamEnds(f) ==
  /\ feed[f].pc = "streaming" /\ Unwind(f, ~feed[f].cancel)
  /\ UNCHANGED <<desired, previews, registered, revoked, failing, sync, lastControl, closed>>

OpeningCancelled(f) ==
  /\ feed[f].pc = "opening" /\ feed[f].cancel /\ Unwind(f, FALSE)
  /\ UNCHANGED <<desired, previews, registered, revoked, failing, sync, lastControl, closed>>

\* _cleanup_entry: the process is stopped, then the registration removed.
Cleanup(f) ==
  /\ feed[f].pc = "cleaning"
  /\ previews' = previews \ {f}
  /\ registered' = registered \ {f}
  /\ feed' = [feed EXCEPT ![f] = NoFeed]
  /\ UNCHANGED <<desired, entry, revoked, failing, sync, latest, ready, control,
                 lastControl, closed>>

-----------------------------------------------------------------------------
\* The media session of a subscription ends: every registered cleanup schedules
\* a fail_subscription on the loop.
SessionEnds(x) ==
  /\ x \notin revoked /\ revoked' = revoked \union {x}
  /\ LET hit == {f \in registered : feed[f].sub = x}
     IN  /\ failing' = IF hit = {} THEN failing ELSE failing \union {x}
         /\ registered' = registered \ hit
  /\ UNCHANGED <<desired, entry, feed, previews, sync, latest, ready, control,
                 lastControl, closed>>

\* fail_subscription: nothing when the slot shows something else by now.
FailSubscription(x) ==
  /\ x \in failing /\ failing' = failing \ {x}
  /\ LET hit == {f \in Feed : Current(f) /\ feed[f].sub = x}
         slots == {feed[f].slot : f \in hit}
     IN  /\ entry' = [s \in Slot |-> IF s \in slots THEN None ELSE entry[s]]
         /\ latest' = [s \in Slot |-> IF s \in slots THEN None ELSE latest[s]]
         /\ ready' = SelectSeq(ready, LAMBDA r : r \notin slots)
         /\ feed' = Cancelled(hit)
         /\ control' = control \union {s \in slots : desired[s] = x}
  /\ UNCHANGED <<desired, previews, registered, revoked, sync, lastControl, closed>>

\* next_message: control events and frames alternate when there are both; a
\* frame of a subscription the slot no longer shows is skipped.
SendControl ==
  /\ ~closed /\ control # {} /\ (ready = << >> \/ ~lastControl)
  /\ \E c \in control : control' = control \ {c}
  /\ lastControl' = TRUE
  /\ UNCHANGED <<desired, entry, feed, previews, registered, revoked, failing,
                 sync, latest, ready, closed>>

SendFrame ==
  /\ ~closed /\ ready # << >> /\ (control = {} \/ lastControl)
  /\ LET s == Head(ready)
         shown == entry[s] # None /\ latest[s] # None /\ feed[entry[s]].sub = latest[s]
     IN  /\ ready' = Tail(ready)
         /\ latest' = [latest EXCEPT ![s] = None]
         /\ lastControl' = IF shown THEN FALSE ELSE lastControl
  /\ UNCHANGED <<desired, entry, feed, previews, registered, revoked, failing,
                 sync, control, closed>>

\* The socket is closed: close, once apply_sync has ended.
CloseWall ==
  /\ ~closed /\ ~sync.busy
  /\ closed' = TRUE
  /\ entry' = [s \in Slot |-> None] /\ desired' = [s \in Slot |-> None]
  /\ latest' = [s \in Slot |-> None] /\ ready' = << >>
  /\ feed' = Cancelled({f \in Feed : Current(f)})
  /\ UNCHANGED <<previews, registered, revoked, failing, sync, control, lastControl>>

FeedStep(f) == \/ OpenSource(f) \/ Frame(f) \/ StreamEnds(f)
               \/ OpeningCancelled(f) \/ Cleanup(f)

WallNext ==
  \/ \E want \in Wishes, relayout \in BOOLEAN : SyncBegin(want, relayout)
  \/ \E s \in Slot : SyncStop(s)
  \/ \E f \in Feed : FeedStep(f)
  \/ SyncWaited \/ SyncCreate
  \/ \E x \in Sub : SessionEnds(x) \/ FailSubscription(x)
  \/ SendControl \/ SendFrame \/ CloseWall

\* The event loop runs every coroutine that can go on, and the socket accepts
\* what is sent.  A cancelled or superseded task ends; a preview need not.
WallFairness ==
  /\ \A f \in Feed : WF_wallVars(\/ OpenSource(f) \/ OpeningCancelled(f) \/ Cleanup(f)
                                 \/ StreamEnds(f) /\ feed[f].cancel)
  /\ WF_wallVars((\E s \in Slot : SyncStop(s)) \/ SyncWaited \/ SyncCreate)
  /\ \A x \in Sub : WF_wallVars(FailSubscription(x))
  /\ WF_wallVars(SendControl \/ SendFrame)

-----------------------------------------------------------------------------
\* Between two syncs the wall shows only what was asked for: every feed in the
\* table carries its slot's desired subscription, and a pending frame comes
\* from the feed in the table, whatever was revoked, ended or replaced while
\* apply_sync waited for the tasks it stopped.
WallShowsDesired ==
  /\ \A s \in Slot : (~sync.busy /\ entry[s] # None) => feed[entry[s]].sub = desired[s]
  /\ \A s \in Slot : latest[s] # None => entry[s] # None /\ feed[entry[s]].sub = latest[s]

\* No ffmpeg process outlives the task that cleans it up, and a feed outside
\* the table with a process has been cancelled or is cleaning up.
PreviewHasTask ==
  \A f \in previews : /\ Running(f)
                      /\ Current(f) \/ feed[f].cancel \/ feed[f].pc = "cleaning"

\* When a media session ends, the previews opened under it are stopped; when
\* the socket closes, all of them are.  (Both conditions last.)
StalePreviewsStop ==
  []<>(\A f \in previews : ~closed /\ feed[f].sub \notin revoked)

\* A pending frame is sent or dropped with its feed, although a client that
\* keeps syncing produces control events for ever.
FramesAreNotStarved == \A s \in Slot : []<>(latest[s] = None)
=============================================================================
