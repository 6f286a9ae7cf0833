-------------------------- MODULE YoloDetectProofs --------------------------
(***************************************************************************)
(* yolodetect for every size of input and frame, and every set of boxes,   *)
(* scores and thresholds: its letterbox fits the input, the boxes it       *)
(* attaches lie on the frame, and they come complete and in order.         *)
(***************************************************************************)
EXTENDS YoloDetect, SequenceTheorems, NonMaxSuppressionProofs

\* The quotient of an integer division, by its defining inequalities.
LEMMA Quotient ==
  ASSUME NEW n \in Int, NEW d \in Nat \ {0}
  PROVE  /\ n \div d \in Int
         /\ d * (n \div d) <= n
         /\ n < d * (n \div d) + d
OBVIOUS

\* A quotient below a bound that the number is below.
LEMMA QuotientAtMost ==
  ASSUME NEW n \in Int, NEW d \in Nat \ {0}, NEW m \in Int, n < d * (m + 1)
  PROVE  n \div d <= m
<1> DEFINE q == n \div d
<1>1. q \in Int /\ d * q <= n
  BY Quotient
<1>2. SUFFICES ASSUME q >= m + 1 PROVE FALSE
  BY <1>1
<1>3. d * q >= d * (m + 1)
  BY <1>1, <1>2
<1>4. QED
  BY <1>1, <1>3

LEMMA QuotientAtLeast ==
  ASSUME NEW n \in Int, NEW d \in Nat \ {0}, NEW m \in Int, d * m <= n
  PROVE  n \div d >= m
<1> DEFINE q == n \div d
<1>1. q \in Int /\ n < d * q + d
  BY Quotient
<1>2. SUFFICES ASSUME q + 1 <= m PROVE FALSE
  BY <1>1
<1>3. d * (q + 1) <= d * m
  BY <1>1, <1>2
<1>4. QED
  BY <1>1, <1>3

\* Rounding does not pass an integer, and keeps a natural number one.
LEMMA RoundAtMost ==
  ASSUME NEW n \in Nat, NEW d \in Nat \ {0}, NEW m \in Nat, n <= m * d
  PROVE  Round(n, d) \in Nat /\ Round(n, d) <= m
<1>1. 2 * d \in Nat \ {0} /\ 2 * n + d \in Int
  OBVIOUS
<1>2. 2 * n + d < (2 * d) * (m + 1)
  OBVIOUS
<1>3. (2 * n + d) \div (2 * d) <= m
  BY <1>1, <1>2, QuotientAtMost
<1>4. (2 * d) * 0 <= 2 * n + d
  OBVIOUS
<1>5. (2 * n + d) \div (2 * d) >= 0
  BY <1>1, <1>4, QuotientAtLeast
<1>6. QED
  BY <1>1, <1>3, <1>5, Quotient DEF Round

\* The first edge is before the last.
LEMMA FloorCeil ==
  ASSUME NEW a \in Int, NEW b \in Int, NEW d \in Nat \ {0}, a <= b
  PROVE  Floor(a, d) \in Int /\ Ceil(b, d) \in Int /\ Floor(a, d) <= Ceil(b, d)
<1> DEFINE p == a \div d
           q == (-b) \div d
<1>1. p \in Int /\ d * p <= a
  BY Quotient
<1>2. q \in Int /\ d * q <= -b
  BY Quotient
<1>3. d * (p + q) <= 0
  BY <1>1, <1>2
<1>4. p + q <= 0
  BY <1>1, <1>2, <1>3
<1>5. QED
  BY <1>1, <1>2, <1>4 DEF Floor, Ceil

-----------------------------------------------------------------------------
\* The scale is a positive fraction, and takes neither side past the input's.
LEMMA ScaleFits ==
  ASSUME NEW s \in Size
  PROVE  /\ Scale(s).num \in Nat \ {0}
         /\ Scale(s).den \in Nat \ {0}
         /\ s.width * Scale(s).num <= InputWidth * Scale(s).den
         /\ s.height * Scale(s).num <= InputHeight * Scale(s).den
<1> USE InputAssumption DEF InputAssumption, Size
<1>1. CASE Wide(s)
  BY <1>1 DEF Scale, Wide
<1>2. CASE ~Wide(s)
  <2>1. InputHeight * s.width <= InputWidth * s.height
    BY <1>2 DEF Wide
  <2>2. QED
    BY <1>2, <2>1 DEF Scale
<1>3. QED
  BY <1>1, <1>2

\* A padding that centres what fits leaves it room.
LEMMA Centred ==
  ASSUME NEW all \in Nat, NEW part \in Nat, part <= all
  PROVE  /\ (all - part) \div 2 \in Nat
         /\ (all - part) \div 2 + part <= all
BY SMT

\* The letterbox: a frame of any size is scaled to a size that fits into the
\* input, and the region it is copied to lies within the input, although the
\* sides are rounded one by one.
THEOREM LetterboxFits ==
  ASSUME NEW s \in Size
  PROVE  /\ ResizedWidth(s) \in 0..InputWidth
         /\ ResizedHeight(s) \in 0..InputHeight
         /\ PadX(s) \in Nat /\ PadX(s) + ResizedWidth(s) <= InputWidth
         /\ PadY(s) \in Nat /\ PadY(s) + ResizedHeight(s) <= InputHeight
<1> USE InputAssumption DEF InputAssumption
<1>1. s.width \in Nat /\ s.height \in Nat
  BY DEF Size
<1>2. /\ s.width * Scale(s).num \in Nat
      /\ s.height * Scale(s).num \in Nat
  BY <1>1, ScaleFits
<1>3. ResizedWidth(s) \in Nat /\ ResizedWidth(s) <= InputWidth
  BY <1>2, ScaleFits, RoundAtMost DEF ResizedWidth
<1>4. ResizedHeight(s) \in Nat /\ ResizedHeight(s) <= InputHeight
  BY <1>2, ScaleFits, RoundAtMost DEF ResizedHeight
<1>5. PadX(s) \in Nat /\ PadX(s) + ResizedWidth(s) <= InputWidth
  BY <1>3, Centred DEF PadX
<1>6. PadY(s) \in Nat /\ PadY(s) + ResizedHeight(s) <= InputHeight
  BY <1>4, Centred DEF PadY
<1>7. QED
  BY <1>3, <1>4, <1>5, <1>6

\* Clamping keeps the order.
LEMMA Clamps ==
  ASSUME NEW a \in Int, NEW b \in Int, a <= b, NEW most \in Nat
  PROVE  /\ Clamp(a, most) \in Int /\ 0 <= Clamp(a, most)
         /\ Clamp(a, most) <= Clamp(b, most)
         /\ Clamp(b, most) \in Int /\ Clamp(b, most) <= most
BY DEF Clamp

\* The edges of a box along one axis are in order and on the frame.
LEMMA EdgesInOrder ==
  ASSUME NEW centre \in Int, NEW extent \in Nat, NEW pad \in Nat, NEW scale, NEW pixels \in Nat,
         scale.num \in Nat \ {0}, scale.den \in Nat \ {0}
  PROVE  LET first == FirstEdge(centre, extent, pad, scale, pixels)
             last  == LastEdge(centre, extent, pad, scale, pixels)
         IN  first \in Int /\ last \in Int /\ 0 <= first /\ first <= last /\ last <= pixels
<1> DEFINE a == (2 * centre - extent - 2 * pad) * scale.den
           b == (2 * centre + extent - 2 * pad) * scale.den
           d == 2 * scale.num
<1>1. a \in Int /\ b \in Int /\ d \in Nat \ {0}
  OBVIOUS
<1>2. a <= b
  <2>1. 2 * centre - extent - 2 * pad <= 2 * centre + extent - 2 * pad
    OBVIOUS
  <2>2. QED
    BY <2>1
<1>3. Floor(a, d) \in Int /\ Ceil(b, d) \in Int /\ Floor(a, d) <= Ceil(b, d)
  BY <1>1, <1>2, FloorCeil
<1>4. QED
  BY <1>3, Clamps DEF FirstEdge, LastEdge

\* A box of the model with any area on the frame is a part of the frame.
LEMMA AreaInFrame ==
  ASSUME NEW b \in NetworkBox, NEW s \in Size, HasArea(SourceBox(b, s))
  PROVE  InFrame(SourceBox(b, s), s)
<1> DEFINE left   == FirstEdge(b.x, b.width, PadX(s), Scale(s), s.width)
           right  == LastEdge(b.x, b.width, PadX(s), Scale(s), s.width)
           top    == FirstEdge(b.y, b.height, PadY(s), Scale(s), s.height)
           bottom == LastEdge(b.y, b.height, PadY(s), Scale(s), s.height)
<1>1. /\ b.x \in Int /\ b.y \in Int /\ b.width \in Nat /\ b.height \in Nat
      /\ s.width \in Nat /\ s.height \in Nat
  BY DEF NetworkBox, Size
<1>2. PadX(s) \in Nat /\ PadY(s) \in Nat
  BY LetterboxFits
<1>3. left \in Int /\ right \in Int /\ 0 <= left /\ left <= right /\ right <= s.width
  BY <1>1, <1>2, ScaleFits, EdgesInOrder
<1>4. top \in Int /\ bottom \in Int /\ 0 <= top /\ top <= bottom /\ bottom <= s.height
  BY <1>1, <1>2, ScaleFits, EdgesInOrder
<1>5. SourceBox(b, s) = [x |-> left, y |-> top, width |-> right - left, height |-> bottom - top]
  BY DEF SourceBox
<1> HIDE DEF left, right, top, bottom
<1>6. (right - left) * (bottom - top) > 0
  BY <1>5 DEF HasArea
<1>7. right - left > 0 /\ bottom - top > 0
  BY <1>3, <1>4, <1>6
<1>8. QED
  BY <1>3, <1>4, <1>5, <1>7 DEF InFrame

-----------------------------------------------------------------------------
\* A step of transform_ip keeps the types.
LEMMA FrameTypes == ASSUME TypeOK, TransformIp PROVE TypeOK'
<1> USE BoxAssumption, PlaceAssumption DEF TypeOK, NmsTypeOK, Steps, Goto, settings, nmsVars
<1>1. CASE MapFrame
  BY <1>1 DEF MapFrame
<1>2. CASE Preprocess
  BY <1>2 DEF Preprocess
<1>3. CASE Run
  BY <1>3 DEF Run, NmsBegin
<1>4. CASE Select
  BY <1>4 DEF Select, NmsBegin
<1>5. ASSUME NEW b \in Boxes, Suppress(b) PROVE TypeOK'
  BY <1>5 DEF Suppress, Consider
<1>6. ASSUME NEW b \in Boxes, Attach(b) PROVE TypeOK'
  <2>1. attached' \in Seq(Boxes)
    BY <1>6, AppendProperties DEF Attach
  <2>2. QED
    BY <1>6, <2>1 DEF Attach
<1>7. CASE Suppressed \/ Attached
  BY <1>7 DEF Suppressed, Attached
<1>8. CASE Deliver \/ FrameFails
  <2>1. EndFrame
    BY <1>8 DEF Deliver, FrameFails
  <2>2. attached' \in Seq(Boxes)
    BY <2>1, EmptySeq DEF EndFrame
  <2>3. NmsTypeOK'
    BY <2>1 DEF EndFrame, NmsBegin
  <2>4. UNCHANGED <<settings, video_info, runtime>>
    BY <2>1 DEF EndFrame
  <2>5. step' = "idle" /\ at_least' = 0 /\ mapped' = FALSE
    BY <2>1 DEF EndFrame
  <2>6. QED
    BY <2>2, <2>3, <2>4, <2>5
<1>9. QED
  BY <1>1, <1>2, <1>3, <1>4, <1>5, <1>6, <1>7, <1>8 DEF TransformIp

\* The handlers only ever store values of the right kind.
THEOREM TypeCorrect == Spec => []TypeOK
<1> USE BoxAssumption, PlaceAssumption
<1>1. Init => TypeOK
  <2> SUFFICES ASSUME Init PROVE TypeOK
    OBVIOUS
  <2>1. NmsTypeOK
    BY InitNms DEF Init
  <2>2. attached \in Seq(Boxes)
    BY EmptySeq DEF Init
  <2>3. QED
    BY <2>1, <2>2 DEF Init, TypeOK, Steps
<1>2. TypeOK /\ [Next]_vars => TypeOK'
  <2> SUFFICES ASSUME TypeOK, [Next]_vars PROVE TypeOK'
    OBVIOUS
  <2>1. CASE SetProperty
    BY <2>1 DEF SetProperty, TypeOK, NmsTypeOK, nmsVars, settings
  <2>2. CASE Start \/ StartFails \/ Stop \/ UNCHANGED vars
    BY <2>2 DEF Start, StartFails, Stop, TypeOK, NmsTypeOK, vars, nmsVars, settings
  <2>3. ASSUME NEW s \in Sizes, SetCaps(s) PROVE TypeOK'
    BY <2>3 DEF SetCaps, TypeOK, NmsTypeOK, nmsVars, settings
  <2>4. CASE TransformIp
    BY <2>4, FrameTypes
  <2>5. QED
    BY <2>1, <2>2, <2>3, <2>4 DEF Next
<1>3. QED
  BY <1>1, <1>2, PTL DEF Spec

-----------------------------------------------------------------------------
\* A candidate passed the filter on a frame of the size that the caps still
\* announce, by the threshold of then, whatever the property is now.
LEMMA StepCandidates ==
  TypeOK /\ CandidatesOnFrame /\ [Next]_vars => CandidatesOnFrame'
<1> SUFFICES ASSUME TypeOK, CandidatesOnFrame, [Next]_vars
             PROVE  CandidatesOnFrame'
  OBVIOUS
<1> USE DEF CandidatesOnFrame, TypeOK, Goto, nmsVars
<1>1. CASE SetProperty \/ Start \/ StartFails \/ Stop \/ (\E s \in Sizes : SetCaps(s))
  BY <1>1 DEF SetProperty, Start, StartFails, Stop, SetCaps, vars
<1>2. CASE MapFrame \/ Preprocess \/ Run
  BY <1>2 DEF MapFrame, Preprocess, Run
<1>3. CASE Select
  BY <1>3 DEF Select, NmsBegin
<1>4. CASE \E b \in Boxes : Suppress(b) \/ Attach(b)
  BY <1>4 DEF Suppress, Consider, Attach
<1>5. CASE Suppressed \/ Attached
  BY <1>5 DEF Suppressed, Attached
<1>6. CASE Deliver \/ FrameFails
  BY <1>6 DEF Deliver, FrameFails, EndFrame
<1>7. CASE UNCHANGED vars
  BY <1>7 DEF vars
<1>8. QED
  BY <1>1, <1>2, <1>3, <1>4, <1>5, <1>6, <1>7 DEF Next, TransformIp

LEMMA Candidates == Spec => []CandidatesOnFrame
<1>1. Init => CandidatesOnFrame
  BY DEF Init, CandidatesOnFrame
<1>2. QED
  BY <1>1, StepCandidates, TypeCorrect, PTL DEF Spec

\* Every box attached is a part of its frame, and not empty.
THEOREM AttachedBoxesInFrame == Spec => []BoxesInFrame
<1>1. TypeOK /\ CandidatesOnFrame => BoxesInFrame
  <2> SUFFICES ASSUME TypeOK, CandidatesOnFrame,
                      step \in {"suppress", "attach", "deliver"}, NEW b \in detections
               PROVE  InFrame(SourceBox(Place[b], video_info), video_info)
    BY DEF BoxesInFrame
  <2>1. b \in candidates /\ b \in Boxes
    BY DEF TypeOK, NmsTypeOK
  <2>2. video_info \in Size /\ Place[b] \in NetworkBox
    BY <2>1, PlaceAssumption DEF CandidatesOnFrame
  <2>3. HasArea(SourceBox(Place[b], video_info))
    BY <2>1 DEF CandidatesOnFrame
  <2>4. QED
    BY <2>2, <2>3, AreaInFrame
<1>2. QED
  BY <1>1, Candidates, TypeCorrect, PTL

-----------------------------------------------------------------------------
\* Every step begins a choice, looks at the next candidate, or leaves the
\* choice alone.
LEMMA StepNms == TypeOK /\ NmsInv /\ [Next]_vars => NmsInv'
<1> SUFFICES ASSUME TypeOK, NmsInv, [Next]_vars
             PROVE  NmsInv'
  OBVIOUS
<1>1. CASE UNCHANGED nmsVars
  BY <1>1 DEF nmsVars, NmsInv, NmsCorrect, KeptFirst, Separate, LeftOutForBetter, Suppresses
<1>2. CASE \E boxes : NmsBegin(boxes)
  BY <1>2, BeginNms
<1>3. CASE \E b \in Boxes : Suppress(b)
  BY <1>3, ConsiderNms DEF Suppress, TypeOK
<1>4. UNCHANGED nmsVars \/ (\E boxes : NmsBegin(boxes)) \/ \E b \in Boxes : Suppress(b)
  <2>1. CASE Run \/ Select
    BY <2>1 DEF Run, Select
  <2>2. CASE Deliver \/ FrameFails
    BY <2>2 DEF Deliver, FrameFails, EndFrame
  <2>3. CASE SetProperty \/ Start \/ StartFails \/ Stop \/ (\E s \in Sizes : SetCaps(s))
             \/ UNCHANGED vars
    BY <2>3 DEF SetProperty, Start, StartFails, Stop, SetCaps, vars
  <2>4. CASE MapFrame \/ Preprocess \/ Suppressed \/ Attached \/ \E b \in Boxes : Attach(b)
    BY <2>4 DEF MapFrame, Preprocess, Suppressed, Attached, Attach
  <2>5. QED
    BY <2>1, <2>2, <2>3, <2>4 DEF Next, TransformIp
<1>5. QED
  BY <1>1, <1>2, <1>3, <1>4

\* One more box is attached: it is the most certain of those left, and none of
\* those before.
LEMMA AttachInOrder ==
  ASSUME TypeOK, AttachedSoFar, NEW b \in Boxes, Attach(b)
  PROVE  AttachedSoFar'
<1> USE DEF AttachedSoFar, Attach, NextToAttach, nmsVars
<1>1. /\ attached' = Append(attached, b)
      /\ attached \in Seq(Boxes)
      /\ Len(attached') = Len(attached) + 1
      /\ \A i \in 1..Len(attached) : attached'[i] = attached[i]
      /\ attached'[Len(attached) + 1] = b
      /\ Len(attached) \in Nat
  BY AppendProperties DEF TypeOK
<1>2. Carried' = Carried \cup {b}
  BY <1>1 DEF Carried
<1>3. Carried' \subseteq detections'
  BY <1>2
<1>4. \A c \in Boxes : Score[c] \in Nat
  BY BoxAssumption
<1>5. detections \subseteq Boxes /\ \A i \in 1..Len(attached) : attached[i] \in Boxes
  BY <1>1 DEF TypeOK, NmsTypeOK
<1>6. \A i \in 1..Len(attached) : attached[i] # b /\ Score[b] <= Score[attached[i]]
  BY DEF Carried
<1>7. \A i \in 1..Len(attached'), c \in detections' \ Carried' : Score[c] <= Score[attached'[i]]
  BY <1>1, <1>2
<1>8. \A i, j \in 1..Len(attached') :
        i < j => /\ attached'[i] # attached'[j]
                 /\ Score[attached'[i]] >= Score[attached'[j]]
  BY <1>1, <1>4, <1>5, <1>6
<1>9. QED
  BY <1>3, <1>7, <1>8

\* What is attached is the head of the order, and at last all of it.
LEMMA StepAttached == TypeOK /\ AttachedSoFar /\ [Next]_vars => AttachedSoFar'
<1> SUFFICES ASSUME TypeOK, AttachedSoFar, [Next]_vars
             PROVE  AttachedSoFar'
  OBVIOUS
<1>1. CASE \E b \in Boxes : Attach(b)
  BY <1>1, AttachInOrder
<1>2. CASE attached' = <<>> /\ step' \notin {"attach", "deliver"}
  BY <1>2 DEF AttachedSoFar, Carried
<1>3. CASE Run \/ Select \/ (\E b \in Boxes : Suppress(b)) \/ MapFrame \/ Preprocess
  BY <1>2, <1>3 DEF AttachedSoFar, Run, Select, Suppress, MapFrame, Preprocess, Goto
<1>4. CASE Deliver \/ FrameFails
  BY <1>2, <1>4 DEF Deliver, FrameFails, EndFrame
<1>5. CASE Suppressed \/ Attached
  BY <1>5 DEF Suppressed, Attached, Goto, AttachedSoFar, Carried, nmsVars
<1>6. CASE SetProperty \/ Start \/ StartFails \/ Stop \/ (\E s \in Sizes : SetCaps(s))
           \/ UNCHANGED vars
  BY <1>6 DEF SetProperty, Start, StartFails, Stop, SetCaps, vars, AttachedSoFar, Carried, nmsVars
<1>7. QED
  BY <1>1, <1>3, <1>4, <1>5, <1>6 DEF Next, TransformIp

\* A buffer that is pushed on carries all of a correct choice of its
\* candidates, by decreasing confidence.
THEOREM InOrderAndComplete == Spec => []DeliveredInOrder
<1>1. Init => NmsInv /\ AttachedSoFar
  BY InitNms DEF Init, AttachedSoFar, Carried
<1>2. NmsInv /\ AttachedSoFar /\ CandidatesOnFrame => DeliveredInOrder
  BY DEF NmsInv, AttachedSoFar, CandidatesOnFrame, DeliveredInOrder
<1>3. QED
  BY <1>1, <1>2, StepNms, StepAttached, Candidates, TypeCorrect, PTL DEF Spec
=============================================================================
