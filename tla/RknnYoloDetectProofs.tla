------------------------ MODULE RknnYoloDetectProofs ------------------------
(***************************************************************************)
(* rknnyolodetect for every set of frame sizes, input areas, boxes, scores *)
(* and thresholds: what the network runs on, what is released, and which   *)
(* boxes are left.                                                         *)
(***************************************************************************)
EXTENDS RknnYoloDetect, NonMaxSuppressionProofs

\* The variables keep their types.
LEMMA InitTypes == Init => TypeOK
<1> SUFFICES ASSUME Init PROVE TypeOK
  OBVIOUS
<1>1. NmsTypeOK
  BY DEF Init, NmsInit, NmsTypeOK
<1>2. model_input \in [Areas -> Contents] /\ source_rgb \in Contents
  BY DEF Init, Contents
<1>3. contexts \in Int /\ outputs \in Int /\ mappings \in Int
  BY DEF Init
<1>4. QED
  BY <1>1, <1>2, <1>3 DEF Init, TypeOK, Steps

\* A step of transform_ip keeps the types.
LEMMA FrameTypes ==
  ASSUME TypeOK, TransformIp
  PROVE  TypeOK'
<1> USE BoxAssumption, AreaAssumption
    DEF TypeOK, NmsTypeOK, Steps, Contents, Goto, settings, images, resources, counts,
        nmsVars
<1>1. CASE MapFrame
  <2>1. \A c \in Contents : Aged(c) \in Contents
    BY DEF Aged
  <2>2. model_input' \in [Areas -> Contents] /\ source_rgb' \in Contents
    BY <1>1, <2>1 DEF MapFrame
  <2>3. QED
    BY <1>1, <2>2 DEF MapFrame
<1>2. CASE Gather
  BY <1>2 DEF Gather
<1>3. CASE Fill
  <2>1. model_input' \in [Areas -> Contents]
    BY <1>3 DEF Fill, SpoilInput
  <2>2. QED
    BY <1>3, <2>1 DEF Fill
<1>4. CASE Blit
  <2>1. model_input' \in [Areas -> Contents]
    BY <1>4 DEF Blit, SpoilInput
  <2>2. QED
    BY <1>4, <2>1 DEF Blit
<1>5. CASE Resize
  <2>1. model_input' \in [Areas -> Contents]
    BY <1>5 DEF Resize
  <2>2. QED
    BY <1>5, <2>1 DEF Resize
<1>6. CASE Run
  BY <1>6 DEF Run, NmsBegin
<1>7. CASE Select
  BY <1>7 DEF Select, NmsBegin
<1>8. ASSUME NEW b \in Boxes, Suppress(b) PROVE TypeOK'
  BY <1>8 DEF Suppress, Consider
<1>9. CASE Release \/ Unmap
  <2>1. contexts' \in Int /\ outputs' \in Int /\ mappings' \in Int
    BY <1>9 DEF Release, Unmap
  <2>2. QED
    BY <1>9, <2>1 DEF Release, Unmap
<1>10. CASE Attach
  BY <1>10 DEF Attach, EndFrame, NmsBegin
<1>11. CASE Throw
  <2>1. model_input' \in [Areas -> Contents]
    BY <1>11 DEF Throw, Unwind, SpoilInput
  <2>2. QED
    BY <1>11, <2>1 DEF Throw, Unwind, NmsBegin
<1>12. CASE InferCatch
  <2>1. contexts' \in Int /\ outputs' \in Int /\ mappings' \in Int
    BY <1>12 DEF InferCatch
  <2>2. QED
    BY <1>12, <2>1 DEF InferCatch
<1>13. CASE Catch
  <2>1. contexts' \in Int /\ outputs' \in Int /\ mappings' \in Int
    BY <1>13 DEF Catch, EndFrame
  <2>2. UNCHANGED <<settings, video_info, runtime, use_rga, images, context_, judged_by>>
    BY <1>13 DEF Catch, EndFrame
  <2>3. /\ step' = "idle" /\ direct' = FALSE /\ at_least' = 0 /\ mapped' = FALSE
        /\ candidates' = {} /\ pending' = {} /\ detections' = {}
    BY <1>13 DEF Catch, EndFrame, NmsBegin
  <2>4. QED
    BY <2>1, <2>2, <2>3
<1>14. QED
  BY <1>1, <1>2, <1>3, <1>4, <1>5, <1>6, <1>7, <1>8, <1>9, <1>10, <1>11, <1>12, <1>13
     DEF TransformIp

\* So does every step.
LEMMA StepTypes == TypeOK /\ [Next]_vars => TypeOK'
<1> SUFFICES ASSUME TypeOK, [Next]_vars
             PROVE  TypeOK'
  OBVIOUS
<1> USE BoxAssumption, AreaAssumption
    DEF TypeOK, NmsTypeOK, Steps, Goto, settings, images, resources, counts, nmsVars
<1>1. CASE SetProperty
  BY <1>1 DEF SetProperty
<1>2. CASE Start
  <2>1. model_input' \in [Areas -> Contents] /\ source_rgb' \in Contents
    BY <1>2 DEF Start, Contents
  <2>2. QED
    BY <1>2, <2>1 DEF Start
<1>3. CASE InitContext \/ ValidateModel \/ DiscardContext \/ Stop
  <2>1. contexts' \in Int /\ outputs' \in Int /\ mappings' \in Int
    BY <1>3 DEF InitContext, ValidateModel, DiscardContext, Stop
  <2>2. QED
    BY <1>3, <2>1 DEF InitContext, ValidateModel, DiscardContext, Stop
<1>4. ASSUME NEW s \in Sizes, SetCaps(s) PROVE TypeOK'
  BY <1>4 DEF SetCaps
<1>5. CASE TransformIp
  BY <1>5, FrameTypes
<1>6. CASE UNCHANGED vars
  BY <1>6 DEF vars
<1>7. QED
  BY <1>1, <1>2, <1>3, <1>4, <1>5, <1>6 DEF Next

\* The handlers only ever store values of the right kind.
THEOREM TypeCorrect == Spec => []TypeOK
BY InitTypes, StepTypes, PTL DEF Spec

-----------------------------------------------------------------------------
\* A start keeps a context only with a runtime: context_ and the step say
\* whether there is one, in the constructor, its catch block and the destructor.
LEMMA StepContext == TypeOK /\ ContextByFlag /\ [Next]_vars => ContextByFlag'
<1> SUFFICES ASSUME TypeOK, ContextByFlag, [Next]_vars
             PROVE  ContextByFlag'
  OBVIOUS
<1> USE DEF ContextByFlag, Goto, settings, images, resources, counts, nmsVars
<1>1. CASE SetProperty \/ (\E s \in Sizes : SetCaps(s)) \/ UNCHANGED vars
  BY <1>1 DEF SetProperty, SetCaps, vars
<1>2. CASE Start
  BY <1>2 DEF Start
<1>3. CASE InitContext
  BY <1>3 DEF InitContext, TypeOK
<1>4. CASE ValidateModel
  BY <1>4 DEF ValidateModel
<1>5. CASE DiscardContext
  BY <1>5 DEF DiscardContext
<1>6. CASE Stop
  BY <1>6 DEF Stop
<1>7. CASE MapFrame \/ Gather \/ Fill \/ Blit \/ Resize \/ Unmap
  BY <1>7 DEF MapFrame, Gather, Fill, Blit, Resize, Unmap
<1>8. CASE Run \/ Select \/ (\E b \in Boxes : Suppress(b)) \/ Release
  BY <1>8 DEF Run, Select, Suppress, Release
<1>9. CASE Attach \/ Catch
  BY <1>9 DEF Attach, Catch, EndFrame
<1>10. CASE Throw \/ InferCatch
  BY <1>10 DEF Throw, Throwing, Unwind, InferCatch
<1>11. QED
  BY <1>1, <1>2, <1>3, <1>4, <1>5, <1>6, <1>7, <1>8, <1>9, <1>10
     DEF Next, TransformIp

\* A frame holds a mapping while its flag says so, outputs from the run to the
\* end of decode or to infer's catch block.
LEMMA StepFrame == TypeOK /\ FrameByFlag /\ [Next]_vars => FrameByFlag'
<1> SUFFICES ASSUME TypeOK, FrameByFlag, [Next]_vars
             PROVE  FrameByFlag'
  OBVIOUS
<1> USE DEF FrameByFlag, Goto, settings, images, resources, counts, nmsVars
<1>1. CASE SetProperty \/ (\E s \in Sizes : SetCaps(s)) \/ UNCHANGED vars
  BY <1>1 DEF SetProperty, SetCaps, vars
<1>2. CASE Start \/ InitContext \/ ValidateModel \/ DiscardContext \/ Stop
  BY <1>2 DEF Start, InitContext, ValidateModel, DiscardContext, Stop
<1>3. CASE MapFrame
  BY <1>3 DEF MapFrame
<1>4. CASE Gather \/ Fill \/ Blit \/ Resize
  BY <1>4 DEF Gather, Fill, Blit, Resize
<1>5. CASE Unmap
  BY <1>5 DEF Unmap
<1>6. CASE Run
  BY <1>6 DEF Run
<1>7. CASE Select \/ \E b \in Boxes : Suppress(b)
  BY <1>7 DEF Select, Suppress
<1>8. CASE Release \/ InferCatch
  BY <1>8 DEF Release, InferCatch
<1>9. CASE Attach \/ Catch
  BY <1>9 DEF Attach, Catch, EndFrame
<1>10. CASE Throw
  BY <1>10 DEF Throw, Throwing, Unwind
<1>11. QED
  BY <1>1, <1>2, <1>3, <1>4, <1>5, <1>6, <1>7, <1>8, <1>9, <1>10
     DEF Next, TransformIp

\* What the flags say implies the promise.
LEMMA FlagsRelease == ContextByFlag /\ FrameByFlag => ResourcesReleased
BY DEF ContextByFlag, FrameByFlag, ResourcesReleased

\* The constructor's and the two functions' catch blocks, and the destructor,
\* give back each context, each frame's outputs and its mapping exactly once,
\* whichever calls throw: after any frame or start only a runtime's context is
\* left.
THEOREM Released == Spec => []ResourcesReleased
<1>1. Init => ContextByFlag /\ FrameByFlag
  BY DEF Init, ContextByFlag, FrameByFlag
<1>2. QED
  BY <1>1, StepContext, StepFrame, FlagsRelease, TypeCorrect, PTL DEF Spec

-----------------------------------------------------------------------------
\* The RGA's calls, when all succeed, and the CPU, after any that fails, leave
\* this frame and its padding in the input.
LEMMA StepInput ==
  TypeOK /\ InputInv /\ [Next]_vars => InputInv'
<1> SUFFICES ASSUME TypeOK, InputInv, [Next]_vars
             PROVE  InputInv'
  OBVIOUS
<1> USE DEF InputInv, InputInTheMaking, InputOfThisFrame, InputReady, Goto, settings,
            images
<1>1. CASE SetProperty \/ UNCHANGED vars
  BY <1>1 DEF SetProperty, vars
<1>2. CASE Start \/ InitContext \/ ValidateModel \/ DiscardContext
  BY <1>2 DEF Start, InitContext, ValidateModel, DiscardContext
<1>3. CASE Stop \/ \E s \in Sizes : SetCaps(s)
  BY <1>3 DEF Stop, SetCaps
<1>4. CASE MapFrame
  BY <1>4 DEF MapFrame, TypeOK
<1>5. CASE Gather
  BY <1>5 DEF Gather
<1>6. CASE Fill
  BY <1>6 DEF Fill
<1>7. CASE Blit
  BY <1>7 DEF Blit, TypeOK
<1>8. CASE Resize
  BY <1>8 DEF Resize, TypeOK
<1>9. CASE Unmap \/ Run \/ Select \/ (\E b \in Boxes : Suppress(b)) \/ Release
  BY <1>9 DEF Unmap, Run, Select, Suppress, Release
<1>10. CASE Attach \/ Catch
  BY <1>10 DEF Attach, Catch, EndFrame
<1>11. CASE Throw \/ InferCatch
  BY <1>11 DEF Throw, Throwing, Unwind, InferCatch
<1>12. QED
  BY <1>1, <1>2, <1>3, <1>4, <1>5, <1>6, <1>7, <1>8, <1>9, <1>10, <1>11
     DEF Next, TransformIp

\* The network runs on this frame and its padding only.
THEOREM InputIsThisFrame == Spec => []InputOfThisFrame
<1>1. Init => InputInv
  BY DEF Init, InputInv, InputInTheMaking, InputOfThisFrame
<1>2. InputInv => InputOfThisFrame
  BY DEF InputInv
<1>3. QED
  BY <1>1, <1>2, StepInput, TypeCorrect, PTL DEF Spec

-----------------------------------------------------------------------------
\* Every other step leaves the choice alone or begins a new one.
LEMMA StepNms == TypeOK /\ NmsInv /\ [Next]_vars => NmsInv'
<1> SUFFICES ASSUME TypeOK, NmsInv, [Next]_vars
             PROVE  NmsInv'
  OBVIOUS
<1>1. CASE UNCHANGED nmsVars
  BY <1>1 DEF nmsVars, NmsInv, NmsCorrect, KeptFirst, Separate, LeftOutForBetter, Suppresses
<1>2. CASE \E boxes : NmsBegin(boxes)
  BY <1>2, BeginNms
<1>3. CASE \E b \in Boxes : Suppress(b)
  BY <1>3, ConsiderNms DEF Suppress, TypeOK
<1>4. UNCHANGED nmsVars \/ (\E boxes : NmsBegin(boxes)) \/ \E b \in Boxes : Suppress(b)
  <2>1. CASE Run \/ Select
    BY <2>1 DEF Run, Select
  <2>2. CASE Attach \/ Catch \/ Throw
    BY <2>2 DEF Attach, Catch, EndFrame, Throw, Unwind
  <2>3. CASE \/ SetProperty \/ Start \/ InitContext \/ ValidateModel \/ DiscardContext
             \/ Stop \/ (\E s \in Sizes : SetCaps(s)) \/ UNCHANGED vars
    BY <2>3 DEF SetProperty, Start, InitContext, ValidateModel, DiscardContext, Stop,
       SetCaps, vars
  <2>4. CASE MapFrame \/ Gather \/ Fill \/ Blit \/ Resize \/ Unmap \/ Release \/ InferCatch
    BY <2>4 DEF MapFrame, Gather, Fill, Blit, Resize, Unmap, Release, InferCatch
  <2>5. QED
    BY <2>1, <2>2, <2>3, <2>4 DEF Next, TransformIp
<1>5. QED
  BY <1>1, <1>2, <1>3, <1>4

\* The boxes attached to a frame are a maximal choice of its candidates in
\* which none hides another, for every overlap relation that is symmetric.
THEOREM SuppressionCorrect == Spec => []BoxesSuppressed
<1>1. Init => NmsInv
  BY DEF Init, NmsInit, NmsInv, NmsCorrect, KeptFirst, Separate, LeftOutForBetter
<1>2. NmsInv => BoxesSuppressed
  BY DEF NmsInv, BoxesSuppressed
<1>3. QED
  BY <1>1, <1>2, StepNms, TypeCorrect, PTL DEF Spec
=============================================================================
