------------------------- MODULE NonMaxSuppression -------------------------
(***************************************************************************)
(* The greedy non-maximum suppression of the YOLO elements                 *)
(* (src/rknnyolodetect/rknnyolodetect.cpp, RknnRuntime::decode, and        *)
(* src/yolodetect/yolodetect.cpp, postprocess): the candidates are looked  *)
(* at by decreasing confidence, equal ones in any order, for std::sort is  *)
(* not stable, and each is kept unless one of its class kept before        *)
(* overlaps it by more than the threshold.                                 *)
(***************************************************************************)
EXTENDS Naturals

CONSTANTS
    Boxes,      \* boxes a frame may contain
    ClassOf,    \* their class_id
    Score,      \* their quantized confidence
    Overlap     \* Overlap[t]: the pairs whose IoU is greater than t

ASSUME BoxAssumption ==
    /\ Score \in [Boxes -> Nat]
    /\ \A t \in DOMAIN Overlap : /\ Overlap[t] \subseteq Boxes \X Boxes
                                 /\ \A b, c \in Boxes :
                                      <<b, c>> \in Overlap[t] => <<c, b>> \in Overlap[t]

VARIABLES
    candidates,     \* those of the frame
    pending,        \* not looked at yet
    detections,     \* kept
    judged_by       \* the IoU threshold that decode was called with

nmsVars == <<candidates, pending, detections, judged_by>>

Thresholds == DOMAIN Overlap

NmsTypeOK ==
    /\ candidates \subseteq Boxes
    /\ pending \subseteq candidates
    /\ detections \subseteq candidates
    /\ judged_by \in Thresholds

NmsInit ==
    /\ candidates = {}
    /\ pending = {}
    /\ detections = {}
    /\ judged_by \in Thresholds

Suppresses(c, b, t) == ClassOf[c] = ClassOf[b] /\ <<c, b>> \in Overlap[t]

NmsBegin(boxes) ==
    /\ candidates' = boxes
    /\ pending' = boxes
    /\ detections' = {}

\* The next candidate in the sorted order.
Consider(b) ==
    /\ b \in pending
    /\ \A c \in pending : Score[c] <= Score[b]
    /\ pending' = pending \ {b}
    /\ detections' = IF \E c \in detections : Suppresses(c, b, judged_by)
                     THEN detections
                     ELSE detections \cup {b}
    /\ UNCHANGED <<candidates, judged_by>>

-----------------------------------------------------------------------------
\* No two boxes kept describe one object.
Separate ==
    \A b, c \in detections : b # c => ~Suppresses(c, b, judged_by)

\* A candidate is left out only for one kept, of its class, over it, and no
\* less certain.
LeftOutForBetter ==
    \A b \in candidates \ (pending \cup detections) :
        \E c \in detections : Suppresses(c, b, judged_by) /\ Score[c] >= Score[b]

\* What is kept is no less certain than what is still to come.
KeptFirst == \A c \in detections, b \in pending : Score[c] >= Score[b]

\* While boxes are compared and when they are attached to the frame, the boxes
\* kept are a maximal choice in which no box hides another: whatever the order
\* of equal scores, and though the application may assign another threshold
\* meanwhile.
NmsCorrect == Separate /\ LeftOutForBetter

\* The inductive invariant of the suppression.
NmsInv == KeptFirst /\ NmsCorrect
=============================================================================
