---------------------- MODULE NonMaxSuppressionProofs ----------------------
(***************************************************************************)
(* The suppression for every set of boxes, every score, and every overlap  *)
(* relation that is symmetric: each of its steps keeps the choice correct. *)
(***************************************************************************)
EXTENDS NonMaxSuppression, TLAPS

\* The empty choice.
LEMMA InitNms == NmsInit => NmsTypeOK /\ NmsInv
BY DEF NmsInit, NmsTypeOK, NmsInv, NmsCorrect, KeptFirst, Separate, LeftOutForBetter

\* A frame that has just begun, or ended, has nothing to suppress.
LEMMA BeginNms == ASSUME NEW boxes, NmsBegin(boxes) PROVE NmsInv'
BY DEF NmsBegin, NmsInv, NmsCorrect, KeptFirst, Separate, LeftOutForBetter

\* Looking at the next most certain candidate keeps the choice correct: a kept
\* box that hides it is no less certain, and if there is none no kept box is
\* hidden by it either, since overlap is symmetric.
LEMMA ConsiderNms ==
  ASSUME NmsTypeOK, NmsInv, NEW b \in Boxes, Consider(b)
  PROVE  NmsInv'
<1> USE BoxAssumption DEF NmsTypeOK, NmsInv, NmsCorrect, Thresholds
<1>1. KeptFirst'
  BY DEF KeptFirst, Consider
<1>2. CASE \E c \in detections : Suppresses(c, b, judged_by)
  <2>1. detections' = detections /\ candidates' = candidates
        /\ judged_by' = judged_by /\ pending' = pending \ {b} /\ b \in pending
    BY <1>2 DEF Consider
  <2>2. Separate'
    BY <2>1 DEF Separate, Suppresses
  <2>3. LeftOutForBetter'
    BY <1>2, <2>1 DEF LeftOutForBetter, KeptFirst, Suppresses
  <2>4. QED
    BY <1>1, <2>2, <2>3
<1>3. CASE ~\E c \in detections : Suppresses(c, b, judged_by)
  <2>1. detections' = detections \cup {b} /\ candidates' = candidates
        /\ judged_by' = judged_by /\ pending' = pending \ {b}
    BY <1>3 DEF Consider
  <2>2. \A c \in detections : ~Suppresses(b, c, judged_by)
    BY <1>3 DEF Suppresses
  <2>3. Separate'
    BY <1>3, <2>1, <2>2 DEF Separate, Suppresses
  <2>4. LeftOutForBetter'
    BY <2>1 DEF LeftOutForBetter, Suppresses
  <2>5. QED
    BY <1>1, <2>3, <2>4
<1>4. QED
  BY <1>2, <1>3
=============================================================================
