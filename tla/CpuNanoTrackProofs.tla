------------------------- MODULE CpuNanoTrackProofs -------------------------
(***************************************************************************)
(* cpunanotrack for every set of frame sizes, ROI strings and model        *)
(* directories: its type, its inductive invariant, and that it implements  *)
(* the single-ROI contract.  Then cpulighttrack, which shares its handlers *)
(* and keeps the same invariant by another transform_ip.                   *)
(***************************************************************************)
EXTENDS CpuLightTrack, TLAPS

\* Every report a handler can make is one of Reports.
LEMMA ReportTypes ==
  /\ Nothing \in Reports /\ Disturbed \in Reports
  /\ \A gap \in BOOLEAN : Passed(gap) \in Reports /\ Error(gap) \in Reports
  /\ \A t \in Template \cup {NoTemplate}, gap \in BOOLEAN :
        Initialized(t, gap) \in Reports /\ Tracked(t, gap) \in Reports
BY DEF Reports, Report, Nothing, Disturbed, Passed, Error, Initialized, Tracked

\* What the instance is made with.
LEMMA InitTypes == Init => TypeOK
BY PadAssumption, ReportTypes DEF Init, PadInit, TypeOK, PadTypeOK, Stages

\* The handlers only ever store values of the right kind.
LEMMA StepTypes == TypeOK /\ [Next]_vars => TypeOK'
<1> SUFFICES ASSUME TypeOK, [Next]_vars PROVE TypeOK'
  OBVIOUS
<1> USE PadAssumption, ReportTypes
<1> USE DEF TypeOK, PadTypeOK, Stages
<1>1. ASSUME NEW b \in BOOLEAN, SetEnabled(b) PROVE TypeOK'
  BY <1>1 DEF SetEnabled, padVars
<1>2. ASSUME NEW r \in Rois, SetRoi(r) PROVE TypeOK'
  BY <1>2 DEF SetRoi, padVars
<1>3. ASSUME NEW d \in Dirs \cup {NoDir}, SetModelsDir(d) PROVE TypeOK'
  BY <1>3 DEF SetModelsDir, padVars
<1>4. CASE Start
  BY <1>4 DEF Start, PadActivate
<1>5. CASE StartFails
  BY <1>5 DEF StartFails, PadActivateFails, padVars
<1>6. CASE Stop
  BY <1>6 DEF Stop, PadDeactivate
<1>7. ASSUME NEW s \in Sizes, SetCaps(s) PROVE TypeOK'
  BY <1>7 DEF SetCaps, PadCaps
<1>8. CASE RefuseCaps
  BY <1>8 DEF RefuseCaps, PadCaps, elementVars
<1>9. ASSUME NEW event \in Events, SinkEvent(event) PROVE TypeOK'
  BY <1>9 DEF SinkEvent, PadEvent, Events
<1>10. ASSUME NEW discont \in BOOLEAN, TransformIp(discont) PROVE TypeOK'
  <2>1. CASE Bypass(discont)
    BY <1>10, <2>1 DEF TransformIp, PadBuffer, padVars, Bypass
  <2>2. CASE Capture(discont)
    <3>1. template' \in Template
      BY <1>10, <2>2 DEF Capture, Template
    <3>2. out' \in Reports
      BY <3>1, <2>2 DEF Capture
    <3>3. QED
      BY <1>10, <2>2, <3>1, <3>2
         DEF TransformIp, PadBuffer, padVars, Capture, LoadTracker
  <2>3. CASE Track(discont)
    <3>1. out' \in Reports
      BY <2>3 DEF Track
    <3>2. QED
      BY <1>10, <2>3, <3>1
         DEF TransformIp, PadBuffer, padVars, Track, LoadTracker
  <2>4. CASE FrameFails(discont)
    BY <1>10, <2>4
       DEF TransformIp, PadBuffer, padVars, FrameFails, LoadTracker
  <2>5. QED
    BY <1>10, <2>1, <2>2, <2>3, <2>4 DEF TransformIp
<1>11. CASE UNCHANGED vars
  BY <1>11 DEF vars, padVars, elementVars
<1>12. QED
  BY <1>1, <1>2, <1>3, <1>4, <1>5, <1>6, <1>7, <1>8, <1>9, <1>10, <1>11
     DEF Next

\* The element's state keeps its types.
THEOREM TypeCorrect == Spec => []TypeOK
BY InitTypes, StepTypes, PTL DEF Spec

-----------------------------------------------------------------------------
\* The initial state satisfies the inductive invariant.
LEMMA InitIInv == Init => IInv
BY DEF Init, PadInit, IInv, StartedWithPad, ModelsFollowSettings, TemplateFresh,
       PublishesCurrentRoi, Nothing, Report

\* Every step preserves it.
LEMMA StepIInv == TypeOK /\ IInv /\ [Next]_vars => IInv'
<1> SUFFICES ASSUME TypeOK, IInv, [Next]_vars
             PROVE  IInv'
  OBVIOUS
<1> USE DEF IInv, StartedWithPad, ModelsFollowSettings, TemplateFresh,
            PublishesCurrentRoi
<1>1. ASSUME NEW b \in BOOLEAN, SetEnabled(b) PROVE IInv'
  BY <1>1 DEF SetEnabled, padVars, Nothing, Report
<1>2. ASSUME NEW r \in Rois, SetRoi(r) PROVE IInv'
  BY <1>2 DEF SetRoi, padVars, Disturbed, Report
<1>3. ASSUME NEW d \in Dirs \cup {NoDir}, SetModelsDir(d) PROVE IInv'
  BY <1>3 DEF SetModelsDir, padVars, Nothing, Report
<1>4. CASE Start
  BY <1>4 DEF Start, PadActivate, Disturbed, Report
<1>5. CASE StartFails
  BY <1>5 DEF StartFails, PadActivateFails, padVars, TypeOK, Disturbed, Report
<1>6. CASE Stop
  BY <1>6 DEF Stop, PadDeactivate, Disturbed, Report
<1>7. ASSUME NEW s \in Sizes, SetCaps(s) PROVE IInv'
  BY <1>7 DEF SetCaps, PadCaps, TypeOK, Nothing, Report
<1>8. CASE RefuseCaps
  BY <1>8 DEF RefuseCaps, PadCaps, elementVars, Nothing, Report
<1>9. ASSUME NEW event \in Events, SinkEvent(event) PROVE IInv'
  BY <1>9 DEF SinkEvent, PadEvent, Events, Disturbed, Report
<1>10. ASSUME NEW discont \in BOOLEAN, TransformIp(discont) PROVE IInv'
  <2> USE <1>10 DEF TransformIp, PadBuffer, padVars
  <2>1. CASE Bypass(discont)
    BY <2>1, PadAssumption DEF Bypass, Passed, Report, TypeOK
  <2>2. CASE Capture(discont)
    BY <2>2 DEF Capture, LoadTracker, Initialized, Error, Report
  <2>3. CASE Track(discont)
    BY <2>3 DEF Track, LoadTracker, Tracked, Error, Report
  <2>4. CASE FrameFails(discont)
    BY <2>4 DEF FrameFails, LoadTracker, Error, Report, TypeOK
  <2>5. QED
    BY <2>1, <2>2, <2>3, <2>4
<1>11. CASE UNCHANGED vars
  BY <1>11 DEF vars, padVars, elementVars
<1>12. QED
  BY <1>1, <1>2, <1>3, <1>4, <1>5, <1>6, <1>7, <1>8, <1>9, <1>10, <1>11 DEF Next

\* The inductive invariant holds in every reachable state.
THEOREM Invariance == Spec => []IInv
BY InitIInv, StepIInv, TypeCorrect, PTL DEF Spec

\* While reset is down the template matches the stored ROI and the frame size.
THEOREM FreshTemplate == Spec => []TemplateFresh
<1>1. IInv => TemplateFresh
  BY DEF IInv
<1>2. QED
  BY <1>1, Invariance, PTL

\* Every published region comes from the ROI string the element holds.
THEOREM CurrentRoiPublished == Spec => []PublishesCurrentRoi
<1>1. IInv => PublishesCurrentRoi
  BY DEF IInv
<1>2. QED
  BY <1>1, Invariance, PTL

\* The models loaded are those the settings name: none is loaded while
\* streaming and none outlives stop().
THEOREM SettingsLoaded == Spec => []ModelsFollowSettings
<1>1. IInv => ModelsFollowSettings
  BY DEF IInv
<1>2. QED
  BY <1>1, Invariance, PTL

-----------------------------------------------------------------------------
\* The initial state is an initial state of the contract.
LEMMA InitContract == Init => Contract!Init
BY DEF Init, PadInit, Contract!Init, Contract!None, Contract!Silent,
       Contract!Report, Stale, NoTemplate, Nothing, Report

\* Every step of the element is a step of the contract, or leaves what the
\* contract speaks of unchanged.
LEMMA StepContract ==
  IInv /\ [Next]_vars => [Contract!Next]_(Contract!contractVars)
<1> SUFFICES ASSUME IInv, [Next]_vars
             PROVE  Contract!Next \/ UNCHANGED Contract!contractVars
  BY DEF Contract!contractVars
<1> USE DEF Contract!None, Contract!Silent, Contract!Disturbed, Contract!Report,
            NoTemplate, Nothing, Disturbed, Report, Stale
<1>1. ASSUME NEW b \in BOOLEAN, SetEnabled(b) PROVE Contract!Next
  BY <1>1 DEF SetEnabled, padVars, Contract!Next, Contract!SetEnabled
<1>2. ASSUME NEW r \in Rois, SetRoi(r) PROVE Contract!Next
  BY <1>2 DEF SetRoi, padVars, Contract!Next, Contract!AssignRoi
<1>3. ASSUME NEW d \in Dirs \cup {NoDir}, SetModelsDir(d) PROVE Contract!Next
  BY <1>3 DEF SetModelsDir, padVars, Contract!Next, Contract!Idle
<1>4. CASE Start
  BY <1>4 DEF Start, PadActivate, Contract!Next, Contract!Interrupt
<1>5. CASE StartFails
  BY <1>5 DEF StartFails, PadActivateFails, padVars, Contract!Next, Contract!Interrupt
<1>6. CASE Stop
  BY <1>6 DEF Stop, PadDeactivate, Contract!Next, Contract!Interrupt
<1>7. ASSUME NEW s \in Sizes, SetCaps(s) PROVE Contract!Next
  BY <1>7 DEF SetCaps, PadCaps, Contract!Next, Contract!Negotiate
<1>8. CASE RefuseCaps
  BY <1>8 DEF RefuseCaps, PadCaps, elementVars, Contract!Next, Contract!Idle
<1>9. ASSUME NEW event \in Events, SinkEvent(event) PROVE Contract!Next
  BY <1>9 DEF SinkEvent, PadEvent, Events, Contract!Next, Contract!Interrupt
<1>10. ASSUME NEW discont \in BOOLEAN, TransformIp(discont) PROVE Contract!Next
  <2> USE <1>10 DEF TransformIp, PadBuffer, padVars
  <2>1. CASE Bypass(discont)
    BY <2>1 DEF Bypass, Passed, Contract!Next, Contract!Bypass
  <2>2. CASE Capture(discont)
    <3>1. Contract!Capture(discont)
      BY <2>2 DEF Capture, Initialized, Error, Contract!Capture, Contract!Failed
    <3>2. QED
      BY <3>1 DEF Contract!Next
  <2>3. CASE Track(discont)
    <3>1. Contract!Follow
      BY <2>3 DEF Track, Tracked, Error, Contract!Follow, Contract!Failed
    <3>2. QED
      BY <3>1 DEF Contract!Next
  <2>4. CASE FrameFails(discont)
    <3>1. Contract!Fail(discont)
      BY <2>4 DEF FrameFails, Error, Contract!Fail, Contract!Failed
    <3>2. QED
      BY <3>1 DEF Contract!Next
  <2>5. QED
    BY <2>1, <2>2, <2>3, <2>4
<1>11. CASE UNCHANGED vars
  BY <1>11 DEF vars, padVars, elementVars, Contract!contractVars
<1>12. QED
  BY <1>1, <1>2, <1>3, <1>4, <1>5, <1>6, <1>7, <1>8, <1>9, <1>10, <1>11 DEF Next

\* cpunanotrack implements the single-ROI contract.
THEOREM Implements == Spec => ImplementsContract
BY InitContract, StepContract, Invariance, PTL DEF Spec, ImplementsContract, Contract!Spec
-----------------------------------------------------------------------------
(* cpulighttrack.                                                          *)

\* A frame of cpulighttrack that fails.
LightFrameFails(discont) == /\ PadBuffer
                            /\ LightFails(discont)
                            /\ UNCHANGED <<enabled, started, roi, models_dir, info>>

\* But for the frames that fail, what cpulighttrack does is what cpunanotrack
\* might do.
LEMMA LightSteps ==
  ASSUME [LightNext]_lightVars
  PROVE  [Next]_vars \/ \E discont \in BOOLEAN : LightFrameFails(discont)
<1>1. CASE Handlers
  BY <1>1 DEF Handlers, Next
<1>2. ASSUME NEW discont \in BOOLEAN, LightTransformIp(discont)
      PROVE  Next \/ LightFrameFails(discont)
  <2>1. CASE LightBypass(discont) \/ LightCapture(discont) \/ LightFollow(discont)
    <3>1. TransformIp(discont)
      BY <1>2, <2>1
         DEF LightTransformIp, LightBypass, LightCapture, LightFollow, TransformIp
    <3>2. QED
      BY <3>1 DEF Next
  <2>2. CASE LightFails(discont)
    BY <1>2, <2>2 DEF LightTransformIp, LightFrameFails
  <2>3. QED
    BY <1>2, <2>1, <2>2 DEF LightTransformIp
<1>3. CASE UNCHANGED lightVars
  BY <1>3 DEF lightVars
<1>4. QED
  BY <1>1, <1>2, <1>3 DEF LightNext

\* Neither a frame that fails before the ROI is parsed nor one whose capture
\* fails leaves a template that reset does not speak of.
LEMMA LightStepIInv == TypeOK /\ IInv /\ [LightNext]_lightVars => (TypeOK /\ IInv)'
<1> SUFFICES ASSUME TypeOK, IInv, [LightNext]_lightVars
             PROVE  TypeOK' /\ IInv'
  OBVIOUS
<1>1. CASE [Next]_vars
  BY <1>1, StepTypes, StepIInv
<1>2. ASSUME NEW discont \in BOOLEAN, LightFrameFails(discont)
      PROVE  TypeOK' /\ IInv'
  <2> USE <1>2 DEF LightFrameFails, LightFails, PadBuffer, padVars, LoadTracker
  <2>1. TypeOK'
    BY ReportTypes DEF TypeOK, PadTypeOK, Stages
  <2>2. IInv'
    BY DEF TypeOK, IInv, StartedWithPad, ModelsFollowSettings, TemplateFresh,
           PublishesCurrentRoi, Error, Report
  <2>3. QED
    BY <2>1, <2>2
<1>3. QED
  BY <1>1, <1>2, LightSteps

\* cpulighttrack keeps what cpunanotrack keeps: the template is that of the
\* stored ROI and frame size while reset is down, and the models are those the
\* settings name.
THEOREM LightInvariance == LightSpec => [](TypeOK /\ IInv)
<1>1. LightInit => TypeOK /\ IInv
  BY InitTypes, InitIInv DEF LightInit
<1>2. QED
  BY <1>1, LightStepIInv, PTL DEF LightSpec

\* A coordinate that becomes NaN was the middle of two opposite infinities.
\* The distance between them is infinite too, so that nothing of the candidate
\* counts, and zero times it is NaN.
LEMMA InfiniteBox ==
  ASSUME NEW low \in Floats, NEW high \in Floats, NEW extent \in {"finite", "plus_inf"},
         extent \in Difference(high, low),
         NEW middle \in Sum(low, high), NEW moved \in Sum("finite", middle),
         Clamped(moved) = "nan",
         NEW scaled \in {extent, "plus_inf"}, NEW old \in {"finite", "nan"}
  PROVE  extent = "plus_inf" /\ Clamped(Blend(old, scaled, "zero")) = "nan"
<1> USE DEF Floats, Difference, Opposite, Clamped
<1>1. middle = "nan"
  BY DEF Sum
<1>2. low # "finite" /\ high # "finite" /\ low # high
  BY <1>1 DEF Sum
<1>3. extent = "plus_inf"
  BY <1>2
<1>4. QED
  BY <1>3 DEF Blend

\* What the crop accepts is finite in every coordinate and dimension.
LEMMA AcceptedFinite ==
  ASSUME center \in Kept, size \in Kept, BoxInv, CropAccepts
  PROVE  center = AllFinite /\ size = AllFinite
<1>1. \A a \in Axes : size[a] = "finite"
  BY DEF CropAccepts, ToInt, Kept
<1>2. \A a \in Axes : center[a] = "finite"
  BY <1>1 DEF BoxInv, Kept
<1>3. QED
  BY <1>1, <1>2 DEF Kept, AllFinite

\* No coordinate becomes NaN without its dimension.
LEMMA StepBox ==
  center \in Kept /\ size \in Kept /\ BoxInv /\ [LightNext]_lightVars
    => (center \in Kept /\ size \in Kept /\ BoxInv)'
<1> SUFFICES ASSUME center \in Kept, size \in Kept, BoxInv, [LightNext]_lightVars
             PROVE  center' \in Kept /\ size' \in Kept /\ BoxInv'
  OBVIOUS
<1>1. AllFinite \in Kept /\ \A a \in Axes : AllFinite[a] = "finite"
  BY DEF AllFinite, Kept
<1>2. CASE UNCHANGED boxVars
  BY <1>2 DEF boxVars, BoxInv
<1>3. CASE center' = AllFinite /\ size' = AllFinite
  BY <1>1, <1>3 DEF BoxInv
<1>4. CASE Handlers
  <2>1. \/ center' = AllFinite /\ size' = AllFinite
        \/ UNCHANGED boxVars
    BY <1>4 DEF Handlers, boxVars
  <2>2. QED
    BY <1>2, <1>3, <2>1
<1>5. ASSUME NEW discont \in BOOLEAN, LightTransformIp(discont)
      PROVE  center' \in Kept /\ size' \in Kept /\ BoxInv'
  <2>1. CASE LightBypass(discont) \/ LightCapture(discont) \/ LightFails(discont)
    <3>1. \/ center' = AllFinite /\ size' = AllFinite
          \/ UNCHANGED boxVars
      BY <2>1 DEF LightBypass, LightCapture, LightFails
    <3>2. QED
      BY <1>2, <1>3, <3>1
  <2>2. CASE LightFollow(discont) /\ Selected
    <3>1. center = AllFinite /\ size = AllFinite
      BY <2>2, AcceptedFinite DEF LightFollow
    <3>2. center' \in Kept /\ size' \in Kept
      BY <2>2 DEF Selected
    <3>3. ASSUME NEW a \in Axes, center'[a] = "nan" PROVE size'[a] = "nan"
      <4>1. PICK low \in [Axes -> Floats], high \in [Axes -> Floats],
                 extent \in [Axes -> {"finite", "plus_inf"}], lr \in {"zero", "positive"} :
                 /\ extent[a] \in Difference(high[a], low[a])
                 /\ lr = "positive" => extent = AllFinite
                 /\ \E middle \in Sum(low[a], high[a]) :
                       \E moved \in Sum(center[a], middle) : center'[a] = Clamped(moved)
                 /\ \E scaled \in {extent[a], "plus_inf"} :
                       size'[a] = Clamped(Blend(size[a], scaled, lr))
        BY <2>2 DEF Selected
      <4>2. PICK middle \in Sum(low[a], high[a]) :
                 \E moved \in Sum("finite", middle) : center'[a] = Clamped(moved)
        BY <1>1, <3>1, <4>1
      <4>3. PICK moved \in Sum("finite", middle) : Clamped(moved) = "nan"
        BY <3>3, <4>2
      <4>4. PICK scaled \in {extent[a], "plus_inf"} :
                 size'[a] = Clamped(Blend(size[a], scaled, lr))
        BY <4>1
      <4>5. /\ low[a] \in Floats /\ high[a] \in Floats
            /\ extent[a] \in {"finite", "plus_inf"} /\ size[a] \in {"finite", "nan"}
        BY DEF Kept
      <4>6. extent[a] = "plus_inf" /\ Clamped(Blend(size[a], scaled, "zero")) = "nan"
        BY <4>1, <4>3, <4>5, InfiniteBox
      <4>7. lr = "zero"
        BY <1>1, <4>1, <4>6
      <4>8. QED
        BY <4>4, <4>6, <4>7
    <3>4. QED
      BY <3>2, <3>3 DEF BoxInv
  <2>3. CASE LightFollow(discont) /\ NoneSelected
    BY <1>2, <2>3 DEF NoneSelected
  <2>4. QED
    BY <1>5, <2>1, <2>2, <2>3 DEF LightTransformIp, LightFollow
<1>6. CASE UNCHANGED lightVars
  BY <1>2, <1>6 DEF lightVars
<1>7. QED
  BY <1>4, <1>5, <1>6 DEF LightNext

\* Whatever coordinates the network returns, a box that became NaN is followed
\* for no second frame.
THEOREM LightFollowsFinite == LightSpec => NonFiniteNeverFollowed
<1>1. LightInit => center \in Kept /\ size \in Kept /\ BoxInv
  BY DEF LightInit, Kept, AllFinite, BoxInv
<1>2. center \in Kept /\ size \in Kept /\ BoxInv /\ [LightNext]_lightVars
        => [out'.kind = "tracked" => center = AllFinite /\ size = AllFinite]_lightVars
  <2> SUFFICES ASSUME center \in Kept, size \in Kept, BoxInv, LightNext,
                      out'.kind = "tracked"
               PROVE  center = AllFinite /\ size = AllFinite
    BY DEF lightVars
  <2> USE DEF Passed, Error, Initialized, Report
  <2>1. ~Handlers
    <3>1. Handlers => out' = Nothing \/ out' = Disturbed
      BY Zenon DEF Handlers, SetEnabled, SetRoi, SetModelsDir, Start, StartFails,
         Stop, SetCaps, RefuseCaps, SinkEvent
    <3>2. QED
      BY <3>1 DEF Nothing, Disturbed
  <2>2. PICK discont \in BOOLEAN : LightTransformIp(discont)
    BY <2>1 DEF LightNext
  <2>3. CropAccepts
    BY <2>2 DEF LightTransformIp, LightBypass, LightCapture, LightFollow, LightFails,
       Bypass, Capture
  <2>4. QED
    BY <2>3, AcceptedFinite
<1>3. QED
  BY <1>1, <1>2, StepBox, PTL DEF LightSpec, NonFiniteNeverFollowed

\* Every step of cpulighttrack is one of the contract too.
LEMMA LightStepContract ==
  IInv /\ [LightNext]_lightVars => [Contract!Next]_(Contract!contractVars)
<1> SUFFICES ASSUME IInv, [LightNext]_lightVars
             PROVE  [Contract!Next]_(Contract!contractVars)
  OBVIOUS
<1>1. CASE [Next]_vars
  BY <1>1, StepContract
<1>2. ASSUME NEW discont \in BOOLEAN, LightFrameFails(discont)
      PROVE  Contract!Next
  <2>1. Contract!Fail(discont)
    BY <1>2 DEF LightFrameFails, LightFails, PadBuffer, padVars, Error, Report, Stale,
       NoTemplate, Contract!Fail, Contract!Failed, Contract!Report, Contract!None
  <2>2. QED
    BY <2>1 DEF Contract!Next
<1>3. QED
  BY <1>1, <1>2, LightSteps

\* cpulighttrack implements the single-ROI contract.
THEOREM LightImplements == LightSpec => ImplementsContract
<1>1. LightInit => Contract!Init
  BY InitContract DEF LightInit
<1>2. QED
  BY <1>1, LightStepContract, LightInvariance, PTL
     DEF LightSpec, ImplementsContract, Contract!Spec
=============================================================================
