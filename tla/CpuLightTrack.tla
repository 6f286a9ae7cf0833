---------------------------- MODULE CpuLightTrack ----------------------------
(***************************************************************************)
(* The cpulighttrack element (src/cpulighttrack/gstcpulighttrack.cpp).     *)
(*                                                                         *)
(* Its property, state and event handlers are those of cpunanotrack, line  *)
(* for line, and are taken from CpuNanoTrack.  transform_ip differs: the   *)
(* Tracker is made before the ROI is parsed, and track() rejects a         *)
(* non-finite score or an empty box but not an infinite or NaN coordinate. *)
(* What those do to the box it keeps is followed here by their class:      *)
(* finite, an infinity, or NaN.                                            *)
(***************************************************************************)
EXTENDS CpuNanoTrack

VARIABLES
    center,     \* Tracker::center, the class of each coordinate
    size        \* Tracker::size, the class of width and height

boxVars == <<center, size>>
lightVars == <<vars, boxVars>>

Axes == {"x", "y"}
Floats == {"minus_inf", "finite", "plus_inf", "nan"}
Kept == [Axes -> {"finite", "nan"}]     \* what std::clamp lets through
AllFinite == [a \in Axes |-> "finite"]

LightTypeOK == TypeOK /\ center \in Kept /\ size \in Kept

LightInit == Init /\ center = AllFinite /\ size = AllFinite

\* set_property, start, stop, set_caps and sink_event; a Tracker that they
\* make or destroy has no template, and a box of zeros or none.
Handlers ==
    /\ \/ \E b \in BOOLEAN : SetEnabled(b)
       \/ \E r \in Rois : SetRoi(r)
       \/ \E d \in Dirs \cup {NoDir} : SetModelsDir(d)
       \/ Start
       \/ StartFails
       \/ Stop
       \/ \E s \in Sizes : SetCaps(s)
       \/ RefuseCaps
       \/ \E event \in Events : SinkEvent(event)
    /\ center' = IF template' = NoTemplate THEN AllFinite ELSE center
    /\ size' = IF template' = NoTemplate THEN AllFinite ELSE size

-----------------------------------------------------------------------------
(* Arithmetic of floats, by class.                                         *)

Opposite(f) == CASE f = "minus_inf" -> "plus_inf"
                 [] f = "plus_inf" -> "minus_inf"
                 [] OTHER -> f

\* What f - g may be; the difference of finite numbers may overflow.
Difference(f, g) == CASE "nan" \in {f, g} -> {"nan"}
                      [] f = "finite" /\ g = "finite" -> Floats \ {"nan"}
                      [] f = g -> {"nan"}
                      [] f = "finite" -> {Opposite(g)}
                      [] OTHER -> {f}

Sum(f, g) == Difference(f, Opposite(g))

\* std::clamp compares, and no comparison with NaN is true.
Clamped(f) == IF f = "nan" THEN "nan" ELSE "finite"

\* Mutant: the size is left alone when nothing of the new one counts.
BlendIfAny(old, new, lr) == IF lr = "zero" THEN old ELSE new

\* old * (1 - lr) + new * lr, where zero times infinity is NaN.
Blend(old, new, lr) ==
    IF old = "nan" \/ (new = "plus_inf" /\ lr = "zero") THEN "nan" ELSE new

\* The int a float converts to.  That of NaN is undefined: the processors this
\* is built for give 0 (AArch64) or INT_MIN (x86-64).
ToInt(f) == IF f = "nan" THEN {"zero", "lowest"} ELSE {"number"}

-----------------------------------------------------------------------------
(* transform_ip.                                                           *)

LightBypass(discont) == Bypass(discont) /\ UNCHANGED boxVars

\* initialize() overwrites center and size.
LightCapture(discont) == /\ Capture(discont)
                         /\ center' = AllFinite
                         /\ size' = AllFinite

\* The side of the crop comes from both dimensions, and has to be positive;
\* its place comes from the center, and only has to meet the frame.
CropAccepts ==
    LET side == IF \E a \in Axes : size[a] = "nan" THEN "nan" ELSE "finite"
    IN  /\ "number" \in ToInt(side)
        /\ \A a \in Axes : ToInt(center[a]) # {"lowest"}

\* No candidate has a rank that compares with the best one: the offset and
\* the size stay zero, and so does the learning rate.
NoneSelected == UNCHANGED boxVars

\* The candidate of the best rank, with its corners in any class.  The rank is
\* NaN, and so never best, with a NaN dimension or with two infinite ones; an
\* infinite dimension makes the penalty, and with it the rate, zero; and the
\* division by the scale may overflow.
Selected ==
    \E low, high \in [Axes -> Floats], extent \in [Axes -> {"finite", "plus_inf"}],
       lr \in {"zero", "positive"} :
        /\ \A a \in Axes : extent[a] \in Difference(high[a], low[a])
        /\ \E a \in Axes : extent[a] = "finite"
        /\ lr = "positive" => extent = AllFinite
        /\ center' \in Kept
        /\ \A a \in Axes : \E middle \in Sum(low[a], high[a]) :
               \E moved \in Sum(center[a], middle) : center'[a] = Clamped(moved)
        /\ size' \in Kept
        /\ \A a \in Axes : \E scaled \in {extent[a], "plus_inf"} :
               size'[a] = Clamped(Blend(size[a], scaled, lr))

LightFollow(discont) == /\ CropAccepts
                        /\ Track(discont)
                        /\ NoneSelected \/ Selected

\* Mutant: a failed frame clears reset.
LightFailsForgetsReset(discont) ==
    /\ enabled
    /\ reset' = FALSE
    /\ out' = Error(discont)
    /\ LoadTracker
    /\ UNCHANGED <<template, boxVars>>

\* The buffer or the models fail; or, the Tracker being there, the ROI or
\* track() does; or initialize() throws after it had begun.
LightFails(discont) ==
    /\ enabled
    /\ reset' = (reset \/ discont)
    /\ out' = Error(discont)
    /\ \/ UNCHANGED <<tracker, template, boxVars>>
       \/ /\ LoadTracker
          /\ UNCHANGED <<template, boxVars>>
       \/ /\ LoadTracker
          /\ reset'
          /\ info \in FitsIn[roi]
          /\ template' = NoTemplate
          /\ center' = AllFinite
          /\ size' = AllFinite

LightTransformIp(discont) ==
    /\ PadBuffer
    /\ \/ LightBypass(discont)
       \/ LightCapture(discont)
       \/ LightFollow(discont)
       \/ LightFails(discont)
    /\ UNCHANGED <<enabled, started, roi, models_dir, info>>

LightNext == \/ Handlers
             \/ \E discont \in BOOLEAN : LightTransformIp(discont)

LightSpec == LightInit /\ [][LightNext]_lightVars

-----------------------------------------------------------------------------
(***************************************************************************)
(* Properties                                                              *)
(***************************************************************************)

\* A frame is tracked only from a box that is finite in both coordinates and
\* both dimensions: after the one frame whose box became NaN, none is until a
\* new template is captured (track:135-138, 163-166).  The crop refuses a NaN
\* size but not a NaN center, so this rests on no coordinate becoming NaN
\* without its dimension (BoxInv).  That one frame is still published.
NonFiniteNeverFollowed ==
    [][out'.kind = "tracked" => center = AllFinite /\ size = AllFinite]_lightVars

\* The inductive invariant behind it.
BoxInv == \A a \in Axes : center[a] = "nan" => size[a] = "nan"
=============================================================================
