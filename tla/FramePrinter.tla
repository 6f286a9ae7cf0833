---------------------------- MODULE FramePrinter ----------------------------
(***************************************************************************)
(* What the capstone application promises to whoever reads its output: one *)
(* line per frame of the video, in their order and without a gap, each     *)
(* with the box of that very frame or with none; and when the video is     *)
(* said to be over, it has a line for each frame.                          *)
(*                                                                         *)
(* Threads, queues, buffers and metadata are the business of the module    *)
(* that implements it.                                                     *)
(***************************************************************************)
EXTENDS Naturals, Sequences

CONSTANTS NumBuffers, NotFound, WholeFrame, Boxes

VARIABLES
    recognises, \* what the thresholds match: "nothing", the "box" or "everything"
    printed,    \* the lines
    complete    \* the application has ended because the video had

printerVars == <<recognises, printed, complete>>

Init ==
    /\ recognises \in {"nothing", "box", "everything"}
    /\ printed = <<>>
    /\ complete = FALSE

Line(n, detection) == [frame |-> n, of |-> n, detection |-> detection]

\* What may be found in frame n, if anything.
Recognised(n) == IF recognises = "box" THEN {Boxes[n]}
                 ELSE IF recognises = "everything" THEN {WholeFrame} ELSE {}

\* The next frame; its detection may get lost on the way.
PrintLine ==
    /\ ~complete
    /\ Len(printed) < NumBuffers
    /\ \E detection \in {NotFound} \cup Recognised(Len(printed)) :
           printed' = Append(printed, Line(Len(printed), detection))
    /\ UNCHANGED <<recognises, complete>>

Finish ==
    /\ ~complete
    /\ Len(printed) = NumBuffers
    /\ complete' = TRUE
    /\ UNCHANGED <<recognises, printed>>

Next == PrintLine \/ Finish

Spec == Init /\ [][Next]_printerVars
=============================================================================
