---------------------------- MODULE CpuLkTracker ----------------------------
(***************************************************************************)
(* The cpulktracker element (src/cpulktracker/gstcpulktracker.cpp).        *)
(*                                                                         *)
(* It has no models and installs no start or stop: its Tracker lives as    *)
(* long as the element, and a restart is noticed through the events the    *)
(* new stream begins with.  Optical flow may keep any part of the corners, *)
(* so how many survive a frame is a choice.  One mutex makes each handler  *)
(* one step.                                                               *)
(***************************************************************************)
EXTENDS TrackerPad, Integers

CONSTANTS
    MinimumFeatures,    \* kMinimumFeatures
    MaxCorners,         \* kMaxCorners
    Reach               \* bound of the model: how far the box may drift

ASSUME FeatureAssumption ==
    /\ MinimumFeatures \in Nat \ {0}
    /\ MaxCorners \in Nat
    /\ MinimumFeatures <= MaxCorners
    /\ Reach \in Nat

VARIABLES
    enabled, reset, roi, info,
    template,       \* where the corners in Tracker.points were found
    points,         \* Tracker.points.size()
    initial,        \* Tracker.initial_feature_count
    lost,           \* Tracker.lost
    box,            \* Tracker.box: its displacement from the ROI
    out,            \* history: what the last step did with a buffer, if any
    seen            \* history: the last result published, see Record

trackerVars == <<template, points, initial, lost, box>>
elementVars == <<enabled, reset, roi, info, trackerVars>>
vars == <<padVars, elementVars, out, seen>>

Counts == 0..MaxCorners
Offsets == -Reach..Reach

\* A report of this element: confidence is in units of 1 / initial.
LkReport(r, l, confidence) ==
    [report |-> r, lost |-> l, confidence |-> confidence]

Plain(r) == LkReport(r, FALSE, 0)

\* What a reader of the metadata has seen of a target, and what it has seen
\* when that says nothing of the next result.
Seen == [lost : BOOLEAN, corners : Counts, box : Offsets]
Unseen == [lost |-> FALSE, corners |-> MaxCorners, box |-> 0]

LkReports == [report : Reports, lost : BOOLEAN, confidence : Counts]

TypeOK ==
    /\ PadTypeOK
    /\ enabled \in BOOLEAN
    /\ reset \in BOOLEAN
    /\ roi \in Rois
    /\ info \in Sizes \cup {NoSize}
    /\ template \in Template \cup {NoTemplate}
    /\ points \in Counts
    /\ initial \in Counts
    /\ lost \in BOOLEAN
    /\ box \in Offsets
    /\ out \in LkReports
    /\ seen \in Seen

Init ==
    /\ PadInit
    /\ enabled = FALSE
    /\ reset = TRUE
    /\ roi = NoRoi
    /\ info = NoSize
    /\ template = NoTemplate
    /\ points = 0
    /\ initial = 0
    /\ lost = FALSE
    /\ box = 0
    /\ out = Plain(Nothing)
    /\ seen = Unseen

-----------------------------------------------------------------------------
(* set_property, on an application thread.                                 *)

SetEnabled(b) ==
    /\ enabled' = b
    /\ reset' = (reset \/ b # enabled)
    /\ out' = Plain(Nothing)
    /\ UNCHANGED <<padVars, roi, info, trackerVars, seen>>

SetRoi(r) ==
    /\ roi' = r
    /\ reset' = TRUE
    /\ out' = Plain(Disturbed)
    /\ UNCHANGED <<padVars, enabled, info, trackerVars, seen>>

-----------------------------------------------------------------------------
(* The pad starts and stops around an element that does not notice.        *)

Restart ==
    /\ PadActivate \/ PadDeactivate
    /\ out' = Plain(Disturbed)
    /\ UNCHANGED <<elementVars, seen>>

-----------------------------------------------------------------------------
(* set_caps and sink_event, on the streaming thread.                       *)

SetCaps(s) ==
    /\ PadCaps(TRUE)
    /\ info' = s
    /\ reset' = (reset \/ s # info)
    /\ out' = Plain(Nothing)
    /\ UNCHANGED <<enabled, roi, trackerVars, seen>>

\* Not BGR, or interlaced.
RefuseCaps ==
    /\ PadCaps(FALSE)
    /\ out' = Plain(Nothing)
    /\ UNCHANGED <<elementVars, seen>>

\* Mutant: only a flush resets; a restart goes unnoticed.
SinkEventFlushOnly(event) ==
    /\ PadEvent(event)
    /\ reset' = (reset \/ event = "FLUSH_STOP")
    /\ out' = Plain(Disturbed)
    /\ UNCHANGED <<enabled, roi, info, trackerVars, seen>>

SinkEvent(event) ==
    /\ PadEvent(event)
    /\ reset' = TRUE
    /\ out' = Plain(Disturbed)
    /\ UNCHANGED <<enabled, roi, info, trackerVars, seen>>

-----------------------------------------------------------------------------
(* transform_ip, on the streaming thread.                                  *)

Bypass(discont) ==
    /\ ~enabled
    /\ reset' = (reset \/ discont)
    /\ out' = Plain(Passed(discont))
    /\ UNCHANGED trackerVars

\* goodFeaturesToTrack replaces the corners; any number is found in the ROI.
FindCorners == points' \in Counts

\* Tracker::initialize.
Capture(discont) ==
    /\ enabled
    /\ reset \/ discont
    /\ info \in FitsIn[roi]
    /\ template' = [roi |-> roi, size |-> info]
    /\ FindCorners
    /\ initial' = points'
    /\ lost' = (points' < MinimumFeatures)
    /\ box' = 0
    /\ reset' = FALSE
    /\ out' \in {LkReport(Initialized(template', discont), lost', 0), Plain(Error(discont))}

\* Mutant: a lost target is looked for again with the corners that are left.
FollowAgain(discont) ==
    /\ enabled /\ ~reset /\ ~discont
    /\ points' \in 0..points
    /\ lost' = (points' < MinimumFeatures)
    /\ box' \in {box, box + 1} \cap Offsets
    /\ reset' = FALSE
    /\ out' \in {LkReport(Tracked(template, discont), lost', points'), Plain(Error(discont))}
    /\ UNCHANGED <<template, initial>>

\* Tracker::track of a target already lost: the box stays where it was.
StayLost(discont) ==
    /\ enabled /\ ~reset /\ ~discont
    /\ lost
    /\ reset' = FALSE
    /\ out' \in {LkReport(Tracked(template, discont), TRUE, 0), Plain(Error(discont))}
    /\ UNCHANGED trackerVars

\* Mutant: the survivors are compared with the minimum the wrong way round
\* the boundary, and tracking goes on with one too few.
EnoughForMutant(count) == count + 1 >= MinimumFeatures

Enough(count) == count >= MinimumFeatures

\* Tracker::track: the corners that pass the forward-backward test stay, and
\* the box moves by their median if there are enough of them.
Follow(discont) ==
    /\ enabled /\ ~reset /\ ~discont
    /\ ~lost
    /\ points' \in 0..points
    /\ \/ /\ Enough(points')
          /\ box' \in {box - 1, box, box + 1} \cap Offsets
          /\ out' \in {LkReport(Tracked(template, discont), FALSE, points'), Plain(Error(discont))}
          /\ UNCHANGED lost
       \/ /\ ~Enough(points')
          /\ lost' = TRUE
          /\ out' \in {LkReport(Tracked(template, discont), TRUE, 0), Plain(Error(discont))}
          /\ UNCHANGED box
    /\ reset' = FALSE
    /\ UNCHANGED <<template, initial>>

\* The buffer, its stride, the ROI or OpenCV fails.  An initialize() that
\* throws may have replaced the corners.
FrameFails(discont) ==
    /\ enabled
    /\ reset' = (reset \/ discont)
    /\ out' = Plain(Error(discont))
    /\ \/ UNCHANGED points
       \/ reset' /\ FindCorners
    /\ UNCHANGED <<template, initial, lost, box>>

\* A published result is seen; after a failed frame nothing is known, since a
\* capture may have succeeded and only its metadata failed.
Record ==
    seen' = CASE out'.report.kind \in {"initialized", "tracked"} ->
                   [lost |-> out'.lost, corners |-> points', box |-> box']
              [] out'.report.kind = "error" -> Unseen
              [] OTHER -> seen

TransformIp(discont) ==
    /\ PadBuffer
    /\ \/ Bypass(discont)
       \/ Capture(discont)
       \/ StayLost(discont)
       \/ Follow(discont)
       \/ FrameFails(discont)
    /\ Record
    /\ UNCHANGED <<enabled, roi, info>>

-----------------------------------------------------------------------------
Next ==
    \/ \E b \in BOOLEAN : SetEnabled(b)
    \/ \E r \in Rois : SetRoi(r)
    \/ Restart
    \/ \E s \in Sizes : SetCaps(s)
    \/ RefuseCaps
    \/ \E event \in Events : SinkEvent(event)
    \/ \E discont \in BOOLEAN : TransformIp(discont)

Spec == Init /\ [][Next]_vars

-----------------------------------------------------------------------------
(***************************************************************************)
(* Properties                                                              *)
(***************************************************************************)

\* While reset is down and the target is not lost, at least MinimumFeatures
\* corners are left of those found: optical flow and the median (lines 39-44,
\* 72-85) never run on an empty vector, the confidence of line 86 never
\* divides by zero and never exceeds one.
CornersLeft ==
    ~reset /\ ~lost => /\ points \in MinimumFeatures..initial
                       /\ initial <= MaxCorners

\* Once a result has said that the target is lost, every tracked result says
\* so, at the same place, until one says "initialized": whatever was assigned,
\* disabled, flushed or restarted in between (README: "does not re-identify an
\* object after loss").  Nor does a target ever regain corners it has lost.
LostUntilRecaptured ==
    [][out'.report.kind = "tracked" =>
          /\ seen.lost => out'.lost /\ box' = seen.box
          /\ out'.confidence <= seen.corners]_vars

\* A captured template is one of the current ROI and frame size, whatever
\* restarts lie between.
TemplateFresh ==
    ~reset => /\ template = [roi |-> roi, size |-> info]
              /\ info \in FitsIn[roi]

\* The inductive invariant,
IInv == CornersLeft /\ TemplateFresh

\* and beside it, that what was seen bounds what the Tracker has.
SeenTrue ==
    /\ seen.lost => lost /\ box = seen.box
    /\ ~reset /\ ~lost => points <= seen.corners

\* Buffers flow only in a segment; before it the template is stale.
Stale == reset \/ stage # "segment"

Contract == INSTANCE TrackerContract
    WITH size <- info, stale <- Stale, out <- out.report

\* The element implements the single-ROI contract without start() and stop().
ImplementsContract == Contract!Spec
=============================================================================
