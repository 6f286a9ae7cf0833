----------------------------- MODULE TrackerPad -----------------------------
(***************************************************************************)
(* What surrounds a tracker element: GstBaseTransform and its sink pad,    *)
(* which call the element's handlers.  External code, modelled from the    *)
(* virtual methods the elements install and the order in which GStreamer   *)
(* calls them: start, then STREAM_START, CAPS, SEGMENT and buffers on the  *)
(* streaming thread, a flush or a new segment at any time, stop at the     *)
(* end.  A buffer may follow a frame that failed: an application may       *)
(* ignore the error message, and flushing restarts a paused source.        *)
(*                                                                         *)
(* Frame sizes and ROI strings are abstract values.  FitsIn[r] is the set  *)
(* of frame sizes for which parse_roi accepts the string r.                *)
(***************************************************************************)

CONSTANTS
    Sizes,      \* frame sizes (width x height) that caps may announce
    NoSize,     \* the size before any caps: gst_video_info_init
    Rois,       \* values of the "roi" property, valid or not
    NoRoi,      \* its default, the empty string
    FitsIn      \* FitsIn[r]: the sizes in which parse_roi accepts r

ASSUME PadAssumption ==
    /\ NoSize \notin Sizes
    /\ NoRoi \in Rois
    /\ FitsIn \in [Rois -> SUBSET Sizes]
    /\ FitsIn[NoRoi] = {}

VARIABLES
    stage,      \* how far the sink pad has got
    negotiated  \* the last set_caps of this activation returned TRUE

padVars == <<stage, negotiated>>

Stages == {"inactive", "active", "stream", "segment"}

PadTypeOK == /\ stage \in Stages
             /\ negotiated \in BOOLEAN

PadInit == /\ stage = "inactive"
           /\ negotiated = FALSE

\* READY to PAUSED, when the element's start() returned TRUE.
PadActivate == /\ stage = "inactive"
               /\ stage' = "active"
               /\ negotiated' = FALSE

\* start() returned FALSE: the pad is not activated and stop() is not called.
PadActivateFails == /\ stage = "inactive"
                    /\ UNCHANGED padVars

PadDeactivate == /\ stage # "inactive"
                 /\ stage' = "inactive"
                 /\ negotiated' = FALSE

\* The three events the elements' sink_event acts on.  A flush drops the
\* sticky segment, and a new stream starts without one.
PadEvent(event) ==
    /\ \/ /\ event = "STREAM_START"
          /\ stage # "inactive"
          /\ stage' = "stream"
       \/ /\ event = "SEGMENT"
          /\ stage \in {"stream", "segment"}
          /\ negotiated
          /\ stage' = "segment"
       \/ /\ event = "FLUSH_STOP"
          /\ stage \in {"stream", "segment"}
          /\ stage' = "stream"
    /\ UNCHANGED negotiated

Events == {"STREAM_START", "SEGMENT", "FLUSH_STOP"}

\* CAPS, accepted or refused by the element's set_caps.
PadCaps(accepted) == /\ stage \in {"stream", "segment"}
                     /\ negotiated' = accepted
                     /\ UNCHANGED stage

\* A buffer reaches transform_ip only in a negotiated segment.
PadBuffer == /\ stage = "segment"
             /\ negotiated
             /\ UNCHANGED padVars

-----------------------------------------------------------------------------
(***************************************************************************)
(* A template is what a tracker learned: from which ROI, in frames of      *)
(* which size.  A report is what a handler did, and what a buffer left     *)
(* transform_ip with.                                                      *)
(***************************************************************************)
Template == [roi : Rois, size : Sizes]

NoTemplate == [roi |-> NoRoi, size |-> NoSize]

Report(kind, t, gap) == [kind |-> kind, template |-> t, gap |-> gap]

\* gap: the buffer had the DISCONT flag.
Passed(gap)         == Report("passed", NoTemplate, gap)
Error(gap)          == Report("error", NoTemplate, gap)
Initialized(t, gap) == Report("initialized", t, gap)
Tracked(t, gap)     == Report("tracked", t, gap)

\* No buffer, and a handler after which a new template must be captured.
Nothing   == Report("nothing", NoTemplate, FALSE)
Disturbed == Report("disturbed", NoTemplate, FALSE)

Reports == [kind : {"nothing", "disturbed", "passed", "error", "initialized", "tracked"},
            template : Template \cup {NoTemplate},
            gap : BOOLEAN]
=============================================================================
