-------------------------- MODULE MCRknnYoloDetect --------------------------
(***************************************************************************)
(* Two frame sizes, which leave padding at the sides or at the ends.  Boxes *)
(* a, b and c are of one class: a and b are equally certain, b overlaps     *)
(* both of the others, by different amounts.  d, of another class, overlaps *)
(* a.                                                                      *)
(***************************************************************************)
EXTENDS RknnYoloDetect

MCClassOf == [x \in Boxes |-> IF x = "d" THEN "car" ELSE "person"]
MCScore == [x \in Boxes |-> CASE x = "c" -> 1 [] OTHER -> 2]

Symmetric(pairs) == pairs \cup {<<p[2], p[1]>> : p \in pairs}
MCOverlap == [t \in {45, 70} |->
    Symmetric({<<"a", "b">>, <<"a", "d">>} \cup (IF t = 45 THEN {<<"b", "c">>} ELSE {}))]

MCCovers == [s \in Sizes |-> CASE s = "wide" -> {"centre", "sides"}
                               [] OTHER      -> {"centre", "ends"}]
=============================================================================
