---------------------------- MODULE MCYoloDetect ----------------------------
(***************************************************************************)
(* A model with an 8 by 6 input, and frames that leave padding at the ends *)
(* or at the sides, or of which scaling leaves no row.  The boxes a and c  *)
(* hang over an edge, d is larger than the input, and b is within the      *)
(* padding of a wide frame.                                                *)
(***************************************************************************)
EXTENDS YoloDetect

Frame(w, h) == [width |-> w, height |-> h]
MCSizes == {Frame(13, 5), Frame(3, 7), Frame(40, 1)}

At(x, y, w, h) == [x |-> x, y |-> y, width |-> w, height |-> h]
MCPlace == [b \in Boxes |-> CASE b = "a" -> At(7, 3, 5, 3)
                              [] b = "b" -> At(4, 0, 3, 2)
                              [] b = "c" -> At(1, 4, 3, 5)
                              [] b = "d" -> At(4, 3, 11, 9)]

MCClassOf == [b \in Boxes |-> IF b = "d" THEN "car" ELSE "person"]
MCScore == [b \in Boxes |-> IF b = "c" THEN 1 ELSE 2]

Symmetric(pairs) == pairs \cup {<<p[2], p[1]>> : p \in pairs}
MCOverlap == [t \in {45, 70} |->
    Symmetric({<<"a", "b">>, <<"a", "d">>} \cup (IF t = 45 THEN {<<"b", "c">>} ELSE {}))]
=============================================================================
