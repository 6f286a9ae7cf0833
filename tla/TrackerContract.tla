-------------------------- MODULE TrackerContract --------------------------
(***************************************************************************)
(* The single-ROI contract that the four tracker elements share, as the    *)
(* applications that drive them see it.  A template is captured from the   *)
(* stored ROI by the first enabled frame after anything that makes the     *)
(* old one stale: an ROI assignment, a change of "enabled", a start, a new *)
(* stream or segment, a flush, a DISCONT buffer, a new frame size.  Until  *)
(* the next such event every frame is tracked from that template, and from *)
(* no other.  A frame that fails publishes nothing.                        *)
(*                                                                         *)
(* This is a specification of what the elements promise; models, memory,   *)
(* locks and the reset flag are the business of the modules that implement *)
(* it.                                                                     *)
(***************************************************************************)
CONSTANTS Sizes, Rois, NoRoi, NoSize, FitsIn

VARIABLES
    roi,        \* the stored "roi" property
    enabled,    \* the "enabled" property
    size,       \* the negotiated frame size
    stale,      \* no template was captured since the last stale-making event
    template,   \* the template in use
    out         \* what the last step was, and what it published

contractVars == <<roi, enabled, size, stale, template, out>>

None      == [roi |-> NoRoi, size |-> NoSize]
Report(kind, t, gap) == [kind |-> kind, template |-> t, gap |-> gap]
Silent    == Report("nothing", None, FALSE)
Disturbed == Report("disturbed", None, FALSE)
Failed(gap) == Report("error", None, gap)

Init == /\ roi = NoRoi
        /\ enabled = FALSE
        /\ size = NoSize
        /\ stale = TRUE
        /\ template = None
        /\ out = Silent

AssignRoi(r) == /\ roi' = r
                /\ stale' = TRUE
                /\ out' = Disturbed
                /\ UNCHANGED <<enabled, size, template>>

SetEnabled(b) == /\ enabled' = b
                 /\ stale' = (stale \/ b # enabled)
                 /\ out' = Silent
                 /\ UNCHANGED <<roi, size, template>>

Negotiate(s) == /\ size' = s
                /\ stale' = (stale \/ s # size)
                /\ out' = Silent
                /\ UNCHANGED <<roi, enabled, template>>

\* A start, stop, stream, segment or flush.  Models may be released with it.
Interrupt == /\ stale' = TRUE
             /\ template' \in {template, None}
             /\ out' = Disturbed
             /\ UNCHANGED <<roi, enabled, size>>

\* A step the contract says nothing about: a setting of the models, refused
\* caps, a failed start.
Idle == /\ out' = Silent
        /\ UNCHANGED <<roi, enabled, size, stale, template>>

Bypass(discont) == /\ ~enabled
                   /\ stale' = (stale \/ discont)
                   /\ out' = Report("passed", None, discont)
                   /\ UNCHANGED <<roi, enabled, size, template>>

Capture(discont) ==
    /\ enabled
    /\ stale \/ discont
    /\ size \in FitsIn[roi]
    /\ template' = [roi |-> roi, size |-> size]
    /\ stale' = FALSE
    /\ out' \in {Report("initialized", template', discont), Failed(discont)}
    /\ UNCHANGED <<roi, enabled, size>>

Follow == /\ enabled
          /\ ~stale
          /\ out' \in {Report("tracked", template, FALSE), Failed(FALSE)}
          /\ UNCHANGED <<roi, enabled, size, stale, template>>

\* A frame that fails leaves no half-made template in use.
Fail(discont) == /\ enabled
                 /\ stale' = (stale \/ discont)
                 /\ \/ UNCHANGED template
                    \/ template' = None /\ stale'
                 /\ out' = Failed(discont)
                 /\ UNCHANGED <<roi, enabled, size>>

Next == \/ \E r \in Rois : AssignRoi(r)
        \/ \E b \in BOOLEAN : SetEnabled(b)
        \/ \E s \in Sizes : Negotiate(s)
        \/ Interrupt
        \/ Idle
        \/ \E discont \in BOOLEAN : \/ Bypass(discont)
                                    \/ Capture(discont)
                                    \/ Fail(discont)
        \/ Follow

Spec == Init /\ [][Next]_contractVars
=============================================================================
