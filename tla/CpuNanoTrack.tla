---------------------------- MODULE CpuNanoTrack ----------------------------
(***************************************************************************)
(* The cpunanotrack element (src/cpunanotracker/gstcpunanotrack.cpp).      *)
(*                                                                         *)
(* Every handler holds the instance's mutex from its first read of State   *)
(* to its last write, inference included, so each handler is one action.   *)
(* set_property runs on application threads at any time, the others where  *)
(* TrackerPad lets them.                                                   *)
(***************************************************************************)
EXTENDS TrackerPad

CONSTANTS
    Dirs,       \* values of "models-dir" that name a directory
    NoDir       \* its default, the empty string

ASSUME DirAssumption == NoDir \notin Dirs

VARIABLES
    enabled, started, reset, roi, models_dir,
    info,       \* State.info: the size of the frames
    tracker,    \* the models_dir the Tracker was made from; NoDir: null
    template,   \* State.tracker's centre, size, average and template output
    out         \* history: what the last step did with a buffer, if any

elementVars == <<enabled, started, reset, roi, models_dir, info, tracker, template>>
vars == <<padVars, elementVars, out>>

TypeOK ==
    /\ PadTypeOK
    /\ enabled \in BOOLEAN
    /\ started \in BOOLEAN
    /\ reset \in BOOLEAN
    /\ roi \in Rois
    /\ models_dir \in Dirs \cup {NoDir}
    /\ info \in Sizes \cup {NoSize}
    /\ tracker \in Dirs \cup {NoDir}
    /\ template \in Template \cup {NoTemplate}
    /\ out \in Reports

Init ==
    /\ PadInit
    /\ enabled = FALSE
    /\ started = FALSE
    /\ reset = TRUE
    /\ roi = NoRoi
    /\ models_dir = NoDir
    /\ info = NoSize
    /\ tracker = NoDir
    /\ template = NoTemplate
    /\ out = Nothing

-----------------------------------------------------------------------------
(* set_property, on an application thread.                                 *)

SetEnabled(b) ==
    /\ enabled' = b
    /\ reset' = (reset \/ b # enabled)
    /\ out' = Nothing
    /\ UNCHANGED <<padVars, started, roi, models_dir, info, tracker, template>>

SetRoi(r) ==
    /\ roi' = r
    /\ reset' = TRUE
    /\ out' = Disturbed
    /\ UNCHANGED <<padVars, enabled, started, models_dir, info, tracker, template>>

\* Mutant: the setting is accepted while started.
SetModelsDirAnytime(d) ==
    /\ models_dir' = d
    /\ out' = Nothing
    /\ UNCHANGED <<padVars, enabled, started, reset, roi, info, tracker, template>>

\* Refused with a warning while started.
SetModelsDir(d) ==
    /\ models_dir' = IF started THEN models_dir ELSE d
    /\ out' = Nothing
    /\ UNCHANGED <<padVars, enabled, started, reset, roi, info, tracker, template>>

-----------------------------------------------------------------------------
(* start and stop.  With a models_dir the three sessions are loaded before *)
(* the pads are activated.                                                 *)

Start ==
    /\ PadActivate
    /\ tracker' = IF models_dir # NoDir THEN models_dir ELSE tracker
    /\ template' = IF models_dir # NoDir THEN NoTemplate ELSE template
    /\ reset' = TRUE
    /\ started' = TRUE
    /\ out' = Disturbed
    /\ UNCHANGED <<enabled, roi, models_dir, info>>

StartFails ==
    /\ PadActivateFails
    /\ models_dir # NoDir
    /\ tracker' = NoDir
    /\ template' = NoTemplate
    /\ out' = Disturbed
    /\ UNCHANGED <<enabled, started, reset, roi, models_dir, info>>

Stop ==
    /\ PadDeactivate
    /\ tracker' = NoDir
    /\ template' = NoTemplate
    /\ reset' = TRUE
    /\ started' = FALSE
    /\ out' = Disturbed
    /\ UNCHANGED <<enabled, roi, models_dir, info>>

-----------------------------------------------------------------------------
(* set_caps and sink_event, on the streaming thread.                       *)

\* Mutant: a new frame size keeps the old template.
SetCapsKeepsTemplate(s) ==
    /\ PadCaps(TRUE)
    /\ info' = s
    /\ out' = Nothing
    /\ UNCHANGED <<enabled, started, reset, roi, models_dir, tracker, template>>

SetCaps(s) ==
    /\ PadCaps(TRUE)
    /\ info' = s
    /\ reset' = (reset \/ s # info)
    /\ out' = Nothing
    /\ UNCHANGED <<enabled, started, roi, models_dir, tracker, template>>

\* Not BGR, or interlaced.
RefuseCaps ==
    /\ PadCaps(FALSE)
    /\ out' = Nothing
    /\ UNCHANGED elementVars

\* Mutant: a new segment is forgotten.
SinkEventWithoutSegment(event) ==
    /\ PadEvent(event)
    /\ reset' = (reset \/ event # "SEGMENT")
    /\ out' = Disturbed
    /\ UNCHANGED <<enabled, started, roi, models_dir, info, tracker, template>>

SinkEvent(event) ==
    /\ PadEvent(event)
    /\ reset' = TRUE
    /\ out' = Disturbed
    /\ UNCHANGED <<enabled, started, roi, models_dir, info, tracker, template>>

-----------------------------------------------------------------------------
(* transform_ip, on the streaming thread.                                  *)

\* The Tracker, made now if start() did not make it.
LoadTracker ==
    /\ tracker' = IF tracker # NoDir THEN tracker ELSE models_dir
    /\ tracker' # NoDir

Bypass(discont) ==
    /\ ~enabled
    /\ reset' = (reset \/ discont)
    /\ out' = Passed(discont)
    /\ UNCHANGED <<tracker, template>>

\* The metadata is attached after reset is cleared, and that may fail.
Capture(discont) ==
    /\ enabled
    /\ reset \/ discont
    /\ info \in FitsIn[roi]
    /\ LoadTracker
    /\ template' = [roi |-> roi, size |-> info]
    /\ reset' = FALSE
    /\ out' \in {Initialized(template', discont), Error(discont)}

Track(discont) ==
    /\ enabled
    /\ ~reset
    /\ ~discont
    /\ LoadTracker
    /\ reset' = FALSE
    /\ out' \in {Tracked(template, discont), Error(discont)}
    /\ UNCHANGED template

\* The buffer cannot be mapped, its dimensions or the ROI are refused, there
\* are no models or they do not load, or track() threw: none of them touches
\* the template, since track() moves the box last.  Or initialize() threw
\* with the new ROI already in place of the old one.
FrameFails(discont) ==
    /\ enabled
    /\ reset' = (reset \/ discont)
    /\ out' = Error(discont)
    /\ \/ UNCHANGED <<tracker, template>>
       \/ /\ LoadTracker
          /\ ~reset'
          /\ UNCHANGED template
       \/ /\ LoadTracker
          /\ reset'
          /\ info \in FitsIn[roi]
          /\ template' = NoTemplate

TransformIp(discont) ==
    /\ PadBuffer
    /\ \/ Bypass(discont)
       \/ Capture(discont)
       \/ Track(discont)
       \/ FrameFails(discont)
    /\ UNCHANGED <<enabled, started, roi, models_dir, info>>

-----------------------------------------------------------------------------
Next ==
    \/ \E b \in BOOLEAN : SetEnabled(b)
    \/ \E r \in Rois : SetRoi(r)
    \/ \E d \in Dirs \cup {NoDir} : SetModelsDir(d)
    \/ Start
    \/ StartFails
    \/ Stop
    \/ \E s \in Sizes : SetCaps(s)
    \/ RefuseCaps
    \/ \E event \in Events : SinkEvent(event)
    \/ \E discont \in BOOLEAN : TransformIp(discont)

Spec == Init /\ [][Next]_vars

-----------------------------------------------------------------------------
(***************************************************************************)
(* Properties                                                              *)
(***************************************************************************)

\* While the reset flag is down, the template in memory was captured from the
\* ROI string the element holds now and in frames of the size it has now, by
\* a Tracker that exists (transform_ip:361-368 against every handler that
\* writes roi, info, tracker or reset).
TemplateFresh ==
    ~reset => /\ tracker # NoDir
              /\ template = [roi |-> roi, size |-> info]
              /\ info \in FitsIn[roi]

\* Whatever a frame publishes, captured or tracked, comes from the current
\* ROI string: an application that assigns "roi" never sees another region
\* for the old string, nor one that does not fit the frame.
PublishesCurrentRoi ==
    out.kind \in {"initialized", "tracked"} =>
        /\ out.template = [roi |-> roi, size |-> info]
        /\ info \in FitsIn[roi]

\* A running element has exactly the models its "models-dir" names loaded, a
\* stopped one has none.  In particular the second place that makes a Tracker
\* (transform_ip:362-365) never loads one on the streaming thread.
ModelsFollowSettings ==
    tracker = IF started THEN models_dir ELSE NoDir

\* The pad and the element agree on whether the element runs; the guard of
\* set_property:257 relies on it.
StartedWithPad == started <=> stage # "inactive"

\* The inductive invariant the proofs rest on.
IInv == /\ StartedWithPad
        /\ ModelsFollowSettings
        /\ TemplateFresh
        /\ PublishesCurrentRoi

\* Buffers flow only in a segment; before it the template is stale whatever
\* the flag says.
Stale == reset \/ stage # "segment"

Contract == INSTANCE TrackerContract WITH size <- info, stale <- Stale

\* The element implements the single-ROI contract of its README.
ImplementsContract == Contract!Spec
=============================================================================
