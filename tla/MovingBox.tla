----------------------------- MODULE MovingBox -----------------------------
(***************************************************************************)
(* Where colorboxsrc draws its box in frame n (src/colorboxsrc.cpp): to    *)
(* and fro along each axis, from a 64-bit frame counter.                   *)
(***************************************************************************)
EXTENDS Naturals

CONSTANTS
    Width, Height,  \* kWidth and kHeight
    BoxSize,        \* kBoxSize
    Wrap            \* 2^64 in the code

ASSUME FrameAssumption ==
    /\ Width \in Nat /\ Height \in Nat /\ BoxSize \in Nat
    /\ BoxSize < Width /\ BoxSize < Height
    /\ Wrap \in Nat \ {0}

\* A position that moves by speed per frame over 0..range and back.
Bounce(n, speed, range) ==
    LET position == ((n * speed) % Wrap) % (range * 2)
    IN IF position <= range THEN position ELSE range * 2 - position

BoxX(n) == Bounce(n, 4, Width - BoxSize)
BoxY(n) == Bounce(n, 2, Height - BoxSize)
=============================================================================
