------------------------- MODULE CpuLkTrackerProofs -------------------------
(***************************************************************************)
(* cpulktracker for every number of corners, every minimum, and every set  *)
(* of frame sizes and ROI strings: the corners it computes with, that a    *)
(* lost target stays lost, and that it implements the single-ROI contract. *)
(***************************************************************************)
EXTENDS CpuLkTracker, TLAPS

\* Every report a handler can make is one of Reports.
LEMMA ReportTypes ==
  /\ Nothing \in Reports /\ Disturbed \in Reports
  /\ \A gap \in BOOLEAN : Passed(gap) \in Reports /\ Error(gap) \in Reports
  /\ \A t \in Template \cup {NoTemplate}, gap \in BOOLEAN :
        Initialized(t, gap) \in Reports /\ Tracked(t, gap) \in Reports
BY DEF Reports, Report, Nothing, Disturbed, Passed, Error, Initialized, Tracked

\* And so is every report of this element.
LEMMA LkReportTypes ==
  ASSUME NEW r \in Reports
  PROVE  /\ Plain(r) \in LkReports
         /\ \A l \in BOOLEAN, c \in Counts : LkReport(r, l, c) \in LkReports
<1>1. 0 \in Counts
  BY FeatureAssumption DEF Counts
<1>2. QED
  BY <1>1 DEF Plain, LkReport, LkReports

\* The corners, their first number, the flag and the box after a frame.
LEMMA FrameTypes ==
  ASSUME TypeOK, NEW discont \in BOOLEAN, TransformIp(discont)
  PROVE  /\ points' \in Counts /\ initial' \in Counts
         /\ lost' \in BOOLEAN /\ box' \in Offsets
         /\ reset' \in BOOLEAN
         /\ template' \in Template \cup {NoTemplate}
         /\ out' \in LkReports
<1> USE ReportTypes, LkReportTypes, FeatureAssumption DEF TypeOK
<1>1. CASE Bypass(discont)
  BY <1>1 DEF Bypass, trackerVars
<1>2. CASE Capture(discont)
  <2>1. points' \in Counts /\ initial' \in Counts /\ 0 \in Counts
    BY <1>2 DEF Capture, FindCorners, Counts
  <2>2. lost' \in BOOLEAN /\ reset' \in BOOLEAN
    <3>1. lost' = (points' < MinimumFeatures) /\ reset' = FALSE
      BY <1>2 DEF Capture
    <3>2. points' \in Int /\ MinimumFeatures \in Int
      BY <2>1 DEF Counts
    <3>3. lost' \in BOOLEAN
      BY <3>1, <3>2
    <3>4. QED
      BY <3>1, <3>3
  <2>3. box' \in Offsets
    BY <1>2 DEF Capture, Offsets
  <2>4. template' \in Template
    BY <1>2, PadAssumption DEF Capture, Template
  <2>5. out' \in LkReports
    BY <1>2, <2>1, <2>2, <2>4 DEF Capture
  <2>6. QED
    BY <2>1, <2>2, <2>3, <2>4, <2>5
<1>3. CASE StayLost(discont)
  <2>1. 0 \in Counts
    BY DEF Counts
  <2>2. out' \in LkReports
    BY <1>3, <2>1 DEF StayLost
  <2>3. QED
    BY <1>3, <2>2 DEF StayLost, trackerVars
<1>4. CASE Follow(discont)
  <2>1. points' \in Counts /\ 0 \in Counts
    BY <1>4 DEF Follow, Counts
  <2>2. box' \in Offsets
    BY <1>4 DEF Follow
  <2>3. lost' \in BOOLEAN /\ reset' \in BOOLEAN
    BY <1>4 DEF Follow
  <2>4. out' \in LkReports
    <3>1. \E l \in BOOLEAN, c \in Counts :
             out' \in {LkReport(Tracked(template, discont), l, c), Plain(Error(discont))}
      BY <1>4, <2>1 DEF Follow
    <3>2. template \in Template \cup {NoTemplate}
      OBVIOUS
    <3>3. \A l \in BOOLEAN, c \in Counts :
             LkReport(Tracked(template, discont), l, c) \in LkReports
      BY <3>2
    <3>4. QED
      BY <3>1, <3>3
  <2>5. QED
    BY <1>4, <2>1, <2>2, <2>3, <2>4 DEF Follow
<1>5. CASE FrameFails(discont)
  BY <1>5 DEF FrameFails, FindCorners
<1>6. QED
  BY <1>1, <1>2, <1>3, <1>4, <1>5 DEF TransformIp

\* What a reader has seen after it.
LEMMA SeenTypes ==
  ASSUME TypeOK, NEW discont \in BOOLEAN, TransformIp(discont)
  PROVE  seen' \in Seen
<1>1. Unseen \in Seen
  BY FeatureAssumption DEF Unseen, Seen, Counts, Offsets
<1>2. [lost |-> out'.lost, corners |-> points', box |-> box'] \in Seen
  BY FrameTypes DEF Seen, LkReports
<1>3. QED
  BY <1>1, <1>2 DEF TransformIp, Record, TypeOK

\* The handlers only ever store values of the right kind; in particular the
\* number of corners stays within MaxCorners.
THEOREM TypeCorrect == Spec => []TypeOK
<1> USE PadAssumption, ReportTypes, LkReportTypes
<1>1. Init => TypeOK
  <2> SUFFICES ASSUME Init PROVE TypeOK
    OBVIOUS
  <2>1. 0 \in Counts /\ 0 \in Offsets /\ Unseen \in Seen
    BY FeatureAssumption DEF Counts, Offsets, Unseen, Seen
  <2>2. QED
    BY <2>1 DEF Init, PadInit, TypeOK, PadTypeOK, Stages
<1>2. ASSUME TypeOK, [Next]_vars
      PROVE  TypeOK'
  <2> USE DEF TypeOK, PadTypeOK, Stages, trackerVars
  <2>1. ASSUME NEW b \in BOOLEAN, SetEnabled(b) PROVE TypeOK'
    BY <1>2, <2>1 DEF SetEnabled, padVars
  <2>2. ASSUME NEW r \in Rois, SetRoi(r) PROVE TypeOK'
    BY <1>2, <2>2 DEF SetRoi, padVars
  <2>3. CASE Restart
    BY <1>2, <2>3 DEF Restart, PadActivate, PadDeactivate, elementVars
  <2>4. ASSUME NEW s \in Sizes, SetCaps(s) PROVE TypeOK'
    BY <1>2, <2>4 DEF SetCaps, PadCaps
  <2>5. CASE RefuseCaps
    BY <1>2, <2>5 DEF RefuseCaps, PadCaps, elementVars
  <2>6. ASSUME NEW event \in Events, SinkEvent(event) PROVE TypeOK'
    BY <1>2, <2>6 DEF SinkEvent, PadEvent, Events
  <2>7. ASSUME NEW discont \in BOOLEAN, TransformIp(discont) PROVE TypeOK'
    BY <1>2, <2>7, FrameTypes, SeenTypes DEF TransformIp, PadBuffer, padVars
  <2>8. CASE UNCHANGED vars
    BY <1>2, <2>8 DEF vars, padVars, elementVars
  <2>9. QED
    BY <1>2, <2>1, <2>2, <2>3, <2>4, <2>5, <2>6, <2>7, <2>8 DEF Next
<1>3. QED
  BY <1>1, <1>2, PTL DEF Spec

-----------------------------------------------------------------------------
\* The initial state satisfies the inductive invariant.
LEMMA InitIInv == Init => IInv
BY DEF Init, IInv, CornersLeft, TemplateFresh

\* Every step preserves it: corners only disappear, and a frame that would
\* leave too few of them marks the target lost.
LEMMA StepIInv == TypeOK /\ IInv /\ [Next]_vars => IInv'
<1> SUFFICES ASSUME TypeOK, IInv, [Next]_vars
             PROVE  IInv'
  OBVIOUS
<1> USE FeatureAssumption DEF IInv, CornersLeft, TemplateFresh, trackerVars
<1>1. ASSUME NEW b \in BOOLEAN, SetEnabled(b) PROVE IInv'
  BY <1>1 DEF SetEnabled
<1>2. ASSUME NEW r \in Rois, SetRoi(r) PROVE IInv'
  BY <1>2 DEF SetRoi
<1>3. CASE Restart
  BY <1>3 DEF Restart, elementVars
<1>4. ASSUME NEW s \in Sizes, SetCaps(s) PROVE IInv'
  BY <1>4 DEF SetCaps, TypeOK
<1>5. CASE RefuseCaps
  BY <1>5 DEF RefuseCaps, elementVars
<1>6. ASSUME NEW event \in Events, SinkEvent(event) PROVE IInv'
  BY <1>6 DEF SinkEvent
<1>7. ASSUME NEW discont \in BOOLEAN, TransformIp(discont) PROVE IInv'
  <2> USE <1>7 DEF TransformIp, TypeOK
  <2>1. CASE Bypass(discont)
    BY <2>1 DEF Bypass
  <2>2. CASE Capture(discont)
    <3>1. TemplateFresh'
      BY <2>2 DEF Capture
    <3>2. CornersLeft'
      BY <2>2 DEF Capture, FindCorners, Counts
    <3>3. QED
      BY <3>1, <3>2
  <2>3. CASE StayLost(discont)
    BY <2>3 DEF StayLost
  <2>4. CASE Follow(discont)
    <3>1. TemplateFresh'
      BY <2>4 DEF Follow
    <3>2. CornersLeft'
      <4>1. points' \in 0..points /\ initial' = initial /\ points \in MinimumFeatures..initial
        BY <2>4 DEF Follow
      <4>2. points' >= MinimumFeatures \/ lost'
        BY <2>4 DEF Follow, Enough
      <4>3. initial <= MaxCorners
        BY <4>1 DEF Counts
      <4>4. points' >= MinimumFeatures => points' \in MinimumFeatures..initial'
        BY <4>1, <4>3 DEF Counts
      <4>5. QED
        BY <4>1, <4>2, <4>3, <4>4
    <3>3. QED
      BY <3>1, <3>2
  <2>5. CASE FrameFails(discont)
    BY <2>5 DEF FrameFails
  <2>6. QED
    BY <2>1, <2>2, <2>3, <2>4, <2>5
<1>8. CASE UNCHANGED vars
  BY <1>8 DEF vars, elementVars
<1>9. QED
  BY <1>1, <1>2, <1>3, <1>4, <1>5, <1>6, <1>7, <1>8 DEF Next

\* The inductive invariant holds in every reachable state.
THEOREM Invariance == Spec => []IInv
BY InitIInv, StepIInv, TypeCorrect, PTL DEF Spec

\* Optical flow, the median and the confidence never meet too few corners.
THEOREM EnoughCorners == Spec => []CornersLeft
<1>1. IInv => CornersLeft
  BY DEF IInv
<1>2. QED
  BY <1>1, Invariance, PTL

\* Steps outside transform_ip publish nothing and touch no Tracker.
LEMMA OtherHandlers ==
  ASSUME TypeOK, [Next]_vars, \A discont \in BOOLEAN : ~TransformIp(discont)
  PROVE  /\ UNCHANGED <<trackerVars, seen>>
         /\ reset' \/ UNCHANGED reset
         /\ Next => out' = Plain(Nothing) \/ out' = Plain(Disturbed)
<1>1. CASE UNCHANGED vars /\ ~Next
  <2>1. UNCHANGED <<trackerVars, seen>> /\ UNCHANGED reset
    BY <1>1 DEF vars, elementVars, trackerVars
  <2>2. QED
    BY <1>1, <2>1
<1>2. CASE Next
  <2>1. UNCHANGED <<trackerVars, seen>> /\ (reset' \/ UNCHANGED reset)
    <3>1. \A b \in BOOLEAN : SetEnabled(b) => UNCHANGED <<trackerVars, seen>> /\ (reset' \/ UNCHANGED reset)
      BY DEF SetEnabled, TypeOK
    <3>2. \A r \in Rois : SetRoi(r) => UNCHANGED <<trackerVars, seen>> /\ reset'
      BY DEF SetRoi
    <3>3. Restart \/ RefuseCaps => UNCHANGED <<trackerVars, seen>> /\ UNCHANGED reset
      BY DEF Restart, RefuseCaps, elementVars
    <3>4. \A s \in Sizes : SetCaps(s) => UNCHANGED <<trackerVars, seen>> /\ (reset' \/ UNCHANGED reset)
      BY DEF SetCaps, TypeOK
    <3>5. \A event \in Events : SinkEvent(event) => UNCHANGED <<trackerVars, seen>> /\ reset'
      BY DEF SinkEvent
    <3>6. QED
      BY <1>2, <3>1, <3>2, <3>3, <3>4, <3>5, Zenon DEF Next
  <2>2. out' = Plain(Nothing) \/ out' = Plain(Disturbed)
    BY <1>2, Zenon DEF Next, SetEnabled, SetRoi, Restart, SetCaps, RefuseCaps, SinkEvent
  <2>3. QED
    BY <2>1, <2>2
<1>3. QED
  BY <1>1, <1>2

\* The Tracker stays within what was seen: corners only disappear, a lost
\* target has a box that stays, and what ends either is published or an error.
LEMMA StepSeen == TypeOK /\ IInv /\ SeenTrue /\ [Next]_vars => SeenTrue'
<1> SUFFICES ASSUME TypeOK, IInv, SeenTrue, [Next]_vars
             PROVE  SeenTrue'
  OBVIOUS
<1>1. CASE \A discont \in BOOLEAN : ~TransformIp(discont)
  <2>1. UNCHANGED <<trackerVars, seen>> /\ (reset' \/ UNCHANGED reset)
    BY <1>1, OtherHandlers
  <2>2. QED
    BY <2>1 DEF SeenTrue, trackerVars
<1>2. ASSUME NEW discont \in BOOLEAN, TransformIp(discont) PROVE SeenTrue'
  <2> USE DEF Plain, LkReport, Report, Passed, Error, Initialized, Tracked
  <2>0. points' \in Counts /\ Record
    BY <1>2, FrameTypes DEF TransformIp
  <2>1. CASE out'.report.kind = "error"
    <3>1. seen' = Unseen
      BY <2>0, <2>1 DEF Record
    <3>2. QED
      BY <2>0, <3>1, FeatureAssumption DEF SeenTrue, Unseen, Counts
  <2>2. CASE out'.report.kind \in {"initialized", "tracked"}
    <3>1. seen' = [lost |-> out'.lost, corners |-> points', box |-> box']
      BY <2>0, <2>2 DEF Record
    <3>2. ~Bypass(discont) /\ ~FrameFails(discont)
      BY <2>2 DEF Bypass, FrameFails
    <3>3. out'.lost => lost'
      <4>1. CASE Capture(discont)
        BY <2>2, <4>1 DEF Capture
      <4>2. CASE StayLost(discont)
        BY <4>2 DEF StayLost, trackerVars
      <4>3. CASE Follow(discont)
        BY <2>2, <4>3 DEF Follow
      <4>4. QED
        BY <1>2, <3>2, <4>1, <4>2, <4>3 DEF TransformIp
    <3>4. QED
      BY <2>0, <3>1, <3>3 DEF SeenTrue, Counts
  <2>3. CASE Bypass(discont)
    <3>1. seen' = seen
      BY <2>0, <2>3 DEF Bypass, Record
    <3>2. QED
      BY <2>3, <3>1 DEF Bypass, SeenTrue, trackerVars
  <2>4. ~Bypass(discont) => out'.report.kind \in {"error", "initialized", "tracked"}
    BY <1>2 DEF TransformIp, Capture, StayLost, Follow, FrameFails
  <2>5. QED
    BY <2>1, <2>2, <2>3, <2>4
<1>3. QED
  BY <1>1, <1>2

\* Once a result has said that the target is lost, all say so, at the same
\* place, until one says that a template was captured.
THEOREM LostStaysLost == Spec => LostUntilRecaptured
<1>1. Init => SeenTrue
  BY FeatureAssumption DEF Init, SeenTrue, Unseen
<1>2. TypeOK /\ SeenTrue /\ [Next]_vars
        => [out'.report.kind = "tracked" =>
              /\ seen.lost => out'.lost /\ box' = seen.box
              /\ out'.confidence <= seen.corners]_vars
  <2> SUFFICES ASSUME TypeOK, SeenTrue, Next, out'.report.kind = "tracked"
               PROVE  /\ seen.lost => out'.lost /\ box' = seen.box
                      /\ out'.confidence <= seen.corners
    BY DEF vars
  <2>1. PICK discont \in BOOLEAN : TransformIp(discont)
    <3>1. out' # Plain(Nothing) /\ out' # Plain(Disturbed)
      BY DEF Plain, LkReport, Nothing, Disturbed, Report
    <3>2. QED
      BY <3>1, OtherHandlers DEF Next
  <2> USE DEF Plain, LkReport, Report, Passed, Error, Initialized, Tracked
  <2>2. ~Bypass(discont) /\ ~FrameFails(discont) /\ ~Capture(discont)
    BY DEF Bypass, FrameFails, Capture
  <2>3. points \in Counts /\ seen.corners \in Counts
    BY DEF TypeOK, Seen
  <2>4. CASE StayLost(discont)
    <3>1. out'.lost /\ out'.confidence = 0 /\ box' = box
      BY <2>4 DEF StayLost, trackerVars
    <3>2. QED
      BY <2>3, <3>1 DEF SeenTrue, Counts
  <2>5. CASE Follow(discont)
    <3>1. ~lost /\ ~reset /\ points' \in 0..points /\ out'.confidence \in {0, points'}
      BY <2>5 DEF Follow
    <3>2. QED
      BY <2>3, <3>1 DEF SeenTrue, Counts
  <2>6. QED
    BY <2>1, <2>2, <2>4, <2>5 DEF TransformIp
<1>3. QED
  BY <1>1, <1>2, StepSeen, TypeCorrect, Invariance, PTL DEF Spec, LostUntilRecaptured

-----------------------------------------------------------------------------
\* The initial state is an initial state of the contract.
LEMMA InitContract == Init => Contract!Init
BY DEF Init, PadInit, Contract!Init, Contract!None, Contract!Silent,
       Contract!Report, Stale, NoTemplate, Nothing, Report, Plain, LkReport

\* Every step of the element is a step of the contract, or leaves what the
\* contract speaks of unchanged.
LEMMA StepContract ==
  IInv /\ [Next]_vars => [Contract!Next]_(Contract!contractVars)
<1> SUFFICES ASSUME IInv, [Next]_vars
             PROVE  Contract!Next \/ UNCHANGED Contract!contractVars
  BY DEF Contract!contractVars
<1> USE DEF Contract!None, Contract!Silent, Contract!Disturbed, Contract!Report,
            NoTemplate, Nothing, Disturbed, Report, Stale, Plain, LkReport, trackerVars
<1>1. ASSUME NEW b \in BOOLEAN, SetEnabled(b) PROVE Contract!Next
  BY <1>1 DEF SetEnabled, padVars, Contract!Next, Contract!SetEnabled
<1>2. ASSUME NEW r \in Rois, SetRoi(r) PROVE Contract!Next
  BY <1>2 DEF SetRoi, padVars, Contract!Next, Contract!AssignRoi
<1>3. CASE Restart
  BY <1>3 DEF Restart, PadActivate, PadDeactivate, elementVars, Contract!Next,
              Contract!Interrupt
<1>4. ASSUME NEW s \in Sizes, SetCaps(s) PROVE Contract!Next
  BY <1>4 DEF SetCaps, PadCaps, Contract!Next, Contract!Negotiate
<1>5. CASE RefuseCaps
  BY <1>5 DEF RefuseCaps, PadCaps, elementVars, Contract!Next, Contract!Idle
<1>6. ASSUME NEW event \in Events, SinkEvent(event) PROVE Contract!Next
  BY <1>6 DEF SinkEvent, PadEvent, Events, Contract!Next, Contract!Interrupt
<1>7. ASSUME NEW discont \in BOOLEAN, TransformIp(discont) PROVE Contract!Next
  <2> USE <1>7 DEF TransformIp, PadBuffer, padVars
  <2>1. CASE Bypass(discont)
    BY <2>1 DEF Bypass, Passed, Contract!Next, Contract!Bypass
  <2>2. CASE Capture(discont)
    <3>1. Contract!Capture(discont)
      BY <2>2 DEF Capture, Initialized, Error, Contract!Capture, Contract!Failed
    <3>2. QED
      BY <3>1 DEF Contract!Next
  <2>3. CASE StayLost(discont)
    <3>1. Contract!Follow
      BY <2>3 DEF StayLost, Tracked, Error, Contract!Follow, Contract!Failed
    <3>2. QED
      BY <3>1 DEF Contract!Next
  <2>4. CASE Follow(discont)
    <3>1. Contract!Follow
      BY <2>4 DEF Follow, Tracked, Error, Contract!Follow, Contract!Failed
    <3>2. QED
      BY <3>1 DEF Contract!Next
  <2>5. CASE FrameFails(discont)
    <3>1. Contract!Fail(discont)
      BY <2>5 DEF FrameFails, Error, Contract!Fail, Contract!Failed
    <3>2. QED
      BY <3>1 DEF Contract!Next
  <2>6. QED
    BY <2>1, <2>2, <2>3, <2>4, <2>5
<1>8. CASE UNCHANGED vars
  BY <1>8 DEF vars, padVars, elementVars, Contract!contractVars
<1>9. QED
  BY <1>1, <1>2, <1>3, <1>4, <1>5, <1>6, <1>7, <1>8 DEF Next

\* cpulktracker implements the single-ROI contract, though a restart reaches
\* it only through the events the new stream begins with.
THEOREM Implements == Spec => ImplementsContract
BY InitContract, StepContract, Invariance, PTL DEF Spec, ImplementsContract, Contract!Spec
=============================================================================
