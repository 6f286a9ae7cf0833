----------------------------- MODULE Letterbox -----------------------------
(***************************************************************************)
(* The geometry of yolodetect (src/yolodetect/yolodetect.cpp): preprocess  *)
(* scales a frame into the model's input and centres it between two        *)
(* paddings; to_source_box takes a box of the model back to the frame.     *)
(*                                                                         *)
(* The code computes in floats; here a scale is a fraction and a result is *)
(* what the exact computation gives.  The numbers of a model's output are  *)
(* integers, a width or height among them never negative.                  *)
(***************************************************************************)
EXTENDS Integers

CONSTANTS InputWidth, InputHeight   \* of the model

ASSUME InputAssumption == InputWidth \in Nat \ {0} /\ InputHeight \in Nat \ {0}

Size == [width : Nat \ {0}, height : Nat \ {0}]

NetworkBox == [x : Int, y : Int, width : Nat, height : Nat]    \* x, y: its centre

Clamp(n, most) == IF n < 0 THEN 0 ELSE IF n > most THEN most ELSE n
Floor(n, d) == n \div d
Ceil(n, d) == -((-n) \div d)
Round(n, d) == (2 * n + d) \div (2 * d)

\* The width is what limits the scale, num / den.
Wide(s) == InputWidth * s.height <= InputHeight * s.width

Scale(s) == IF Wide(s) THEN [num |-> InputWidth, den |-> s.width]
                       ELSE [num |-> InputHeight, den |-> s.height]

\* The size that a frame is scaled to, each side rounded on its own, and the
\* padding to its left and above it.
ResizedWidth(s) == Round(s.width * Scale(s).num, Scale(s).den)
ResizedHeight(s) == Round(s.height * Scale(s).num, Scale(s).den)
PadX(s) == (InputWidth - ResizedWidth(s)) \div 2
PadY(s) == (InputHeight - ResizedHeight(s)) \div 2

\* cv::resize takes the size, and the region it is copied to is in the input.
Resizable(s) == ResizedWidth(s) > 0 /\ ResizedHeight(s) > 0

\* One axis of to_source_box: the first and the last edge of a box with the
\* given centre and extent, on a frame of that many pixels.
FirstEdge(centre, extent, pad, scale, pixels) ==
    Clamp(Floor((2 * centre - extent - 2 * pad) * scale.den, 2 * scale.num), pixels)
LastEdge(centre, extent, pad, scale, pixels) ==
    Clamp(Ceil((2 * centre + extent - 2 * pad) * scale.den, 2 * scale.num), pixels)

\* Mutant: the right edge is not clamped to the frame.
UnclampedSourceBox(b, s) ==
    LET left   == FirstEdge(b.x, b.width, PadX(s), Scale(s), s.width)
        right  == Ceil((2 * b.x + b.width - 2 * PadX(s)) * Scale(s).den, 2 * Scale(s).num)
        top    == FirstEdge(b.y, b.height, PadY(s), Scale(s), s.height)
        bottom == LastEdge(b.y, b.height, PadY(s), Scale(s), s.height)
    IN  [x |-> left, y |-> top, width |-> right - left, height |-> bottom - top]

\* to_source_box.  Clamping to whole pixels and then rounding outwards is the
\* same as the reverse.
SourceBox(b, s) ==
    LET left   == FirstEdge(b.x, b.width, PadX(s), Scale(s), s.width)
        right  == LastEdge(b.x, b.width, PadX(s), Scale(s), s.width)
        top    == FirstEdge(b.y, b.height, PadY(s), Scale(s), s.height)
        bottom == LastEdge(b.y, b.height, PadY(s), Scale(s), s.height)
    IN  [x |-> left, y |-> top, width |-> right - left, height |-> bottom - top]

\* box.area() > 0.
HasArea(box) == box.width * box.height > 0

\* A part of the frame that is not empty.
InFrame(box, s) ==
    /\ box.x >= 0 /\ box.width > 0 /\ box.x + box.width <= s.width
    /\ box.y >= 0 /\ box.height > 0 /\ box.y + box.height <= s.height
=============================================================================
