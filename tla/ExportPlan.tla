----------------------------- MODULE ExportPlan -----------------------------
(***************************************************************************)
(* Which parts of which recordings make up an export (exports/plan.py,     *)
(* ExportPlanResolver.build), one iteration of its loop per step.          *)
(* Recordings of a camera may overlap, leave gaps and be without a         *)
(* readable copy; two with the same times and equally readable are one.    *)
(***************************************************************************)
EXTENDS Integers, Sequences, FiniteSets

CONSTANTS PlanEnd,      \* instants are 0 .. PlanEnd
          MaxSegments   \* bound: recordings of the camera

ASSUME PlanConstants == PlanEnd \in Nat \ {0}

VARIABLES segments,     \* the camera's recordings
          range,        \* start_at, end_at and gap_policy
          left,         \* those that the query returned and the loop has not seen
          clips,        \* items
          cursor,
          gaps,         \* has_gaps
          outcome       \* "none", "loop", and then "built" or "refused"

planVars == <<segments, range, left, clips, cursor, gaps, outcome>>

Instant == 0 .. PlanEnd
Segment == {s \in [from : Instant, to : Instant, readable : BOOLEAN] : s.from < s.to}
Request == {r \in [from : Instant, to : Instant, policy : {"skip", "fail"}] : r.from < r.to}

PlanInit ==
  /\ segments = {} /\ left = {} /\ clips = <<>> /\ cursor = 0 /\ gaps = FALSE
  /\ range = [from |-> 0, to |-> PlanEnd, policy |-> "skip"] /\ outcome = "none"

\* ORDER BY started_at, ended_at, id: any order of those that agree on both times.
Before(s, o) == s.from < o.from \/ (s.from = o.from /\ s.to <= o.to)

Later(a, b) == IF a >= b THEN a ELSE b
Earlier(a, b) == IF a <= b THEN a ELSE b

\* Fault: a clip starts where its recording starts.
ClipWhole(s) == [from |-> Later(range.from, s.from), to |-> Earlier(range.to, s.to), of |-> s]

\* What a recording adds after the cursor.
Clip(s) == [from |-> Later(cursor, Later(range.from, s.from)),
            to |-> Earlier(range.to, s.to), of |-> s]

Adds(s) == s.to > cursor /\ s.readable /\ Clip(s).from < Clip(s).to

\* A recording of the camera.
AddSegment(s) ==
  /\ outcome = "none" /\ Cardinality(segments) < MaxSegments
  /\ segments' = segments \cup {s}
  /\ UNCHANGED <<range, left, clips, cursor, gaps, outcome>>

\* build asks for the recordings that overlap the range.
StartPlan(r) ==
  /\ outcome = "none" /\ outcome' = "loop" /\ range' = r
  /\ left' = {s \in segments : s.from < r.to /\ s.to > r.from}
  /\ cursor' = r.from
  /\ UNCHANGED <<segments, clips, gaps>>

\* One iteration; the loop ends when the cursor is at the end of the range, and
\* with gap_policy "fail" at the first gap.
TakeNext(s) ==
  /\ outcome = "loop" /\ cursor < range.to
  /\ s \in left /\ \A o \in left : Before(s, o)
  /\ left' = left \ {s}
  /\ \/ /\ ~Adds(s) /\ UNCHANGED <<clips, cursor, gaps, outcome>>
     \/ /\ Adds(s) /\ range.policy = "fail" /\ Clip(s).from > cursor
        /\ outcome' = "refused" /\ gaps' = TRUE /\ UNCHANGED <<clips, cursor>>
     \/ /\ Adds(s) /\ (range.policy = "fail" => Clip(s).from <= cursor)
        /\ clips' = Append(clips, Clip(s)) /\ cursor' = Later(cursor, Clip(s).to)
        /\ gaps' = (gaps \/ Clip(s).from > cursor) /\ UNCHANGED outcome
  /\ UNCHANGED <<segments, range>>

\* After the loop: the rest of the range, and a plan without any clip.
FinishPlan ==
  /\ outcome = "loop" /\ (left = {} \/ cursor >= range.to)
  /\ gaps' = (gaps \/ cursor < range.to)
  /\ outcome' = IF clips = <<>> \/ (range.policy = "fail" /\ cursor < range.to)
                THEN "refused" ELSE "built"
  /\ UNCHANGED <<segments, range, left, clips, cursor>>

PlanNext ==
  \/ \E s \in Segment : AddSegment(s) \/ TakeNext(s)
  \/ \E r \in Request : StartPlan(r)
  \/ FinishPlan

PlanSpec == PlanInit /\ [][PlanNext]_planVars

-----------------------------------------------------------------------------
\* An instant stands for the time up to the next one.
Covers(s, t) == s.readable /\ s.from <= t /\ t < s.to
Requested == range.from .. range.to - 1
Covered == {t \in Requested : \E s \in segments : Covers(s, t)}
Shown == {t \in Instant : \E i \in DOMAIN clips : clips[i].from <= t /\ t < clips[i].to}

\* The clips follow each other without overlap, each lies in a readable recording of
\* its own, together they show every covered instant of the range once, and a gap is
\* reported exactly when an instant is missing.  An export is refused only when there
\* is nothing to show, or when it may not have gaps and has one
\* (ExportPlanResolver.build).
PlanIsExact ==
  /\ outcome = "built" =>
       /\ Shown = Covered /\ Covered # {}
       /\ \A i \in DOMAIN clips :
            /\ clips[i].of \in segments /\ clips[i].of.readable
            /\ clips[i].of.from <= clips[i].from /\ clips[i].to <= clips[i].of.to
            /\ i > 1 => clips[i - 1].to <= clips[i].from
       /\ gaps <=> Covered # Requested
       /\ range.policy = "fail" => ~gaps
  /\ outcome = "refused" =>
       Covered = {} \/ (range.policy = "fail" /\ Covered # Requested)
=============================================================================
