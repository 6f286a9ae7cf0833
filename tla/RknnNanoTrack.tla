--------------------------- MODULE RknnNanoTrack ---------------------------
(***************************************************************************)
(* The rknnnanotrack element (src/nanotracker/gstrknnnanotrack.cpp).       *)
(*                                                                         *)
(* It differs from cpunanotrack in when models are loaded: start() only    *)
(* validates the settings, and the first enabled frame makes the Tracker   *)
(* on the streaming thread.  As there, one mutex makes each handler one    *)
(* step.  RknnTracker shows the inside of that step.                       *)
(***************************************************************************)
EXTENDS TrackerPad

CONSTANTS
    Dirs,       \* values of "models-dir" that name a directory
    NoDir,      \* its default, the empty string
    Precisions, \* strings an application may assign to "precision"
    Resizes     \* and to "resize"

ASSUME SettingsAssumption ==
    /\ NoDir \notin Dirs
    /\ "mixed" \in Precisions
    /\ "auto" \in Resizes

VARIABLES
    enabled, started, reset, roi, models_dir, precision, resize, info,
    tracker,    \* what the Tracker was made from; NoTracker: null
    template,   \* State.tracker's centre, size, average and template features
    out         \* history: what the last step did with a buffer, if any

settings == <<models_dir, precision, resize>>
elementVars == <<enabled, started, reset, roi, settings, info, tracker, template>>
vars == <<padVars, elementVars, out>>

ValidPrecisions == {"fp16", "mixed", "int8", "int8-mmse"}
ValidResizes == {"auto", "cpu"}

NoTracker == [dir |-> NoDir, precision |-> "mixed", rga |-> FALSE]
Trackers == [dir : Dirs, precision : Precisions, rga : BOOLEAN]

\* The Tracker that the settings ask for.
Wanted == [dir |-> models_dir, precision |-> precision, rga |-> (resize = "auto")]

TypeOK ==
    /\ PadTypeOK
    /\ enabled \in BOOLEAN
    /\ started \in BOOLEAN
    /\ reset \in BOOLEAN
    /\ roi \in Rois
    /\ models_dir \in Dirs \cup {NoDir}
    /\ precision \in Precisions
    /\ resize \in Resizes
    /\ info \in Sizes \cup {NoSize}
    /\ tracker \in Trackers \cup {NoTracker}
    /\ template \in Template \cup {NoTemplate}
    /\ out \in Reports

Init ==
    /\ PadInit
    /\ enabled = FALSE
    /\ started = FALSE
    /\ reset = TRUE
    /\ roi = NoRoi
    /\ models_dir = NoDir
    /\ precision = "mixed"
    /\ resize = "auto"
    /\ info = NoSize
    /\ tracker = NoTracker
    /\ template = NoTemplate
    /\ out = Nothing

-----------------------------------------------------------------------------
(* set_property, on an application thread.                                 *)

SetEnabled(b) ==
    /\ enabled' = b
    /\ reset' = (reset \/ b # enabled)
    /\ out' = Nothing
    /\ UNCHANGED <<padVars, started, roi, settings, info, tracker, template>>

SetRoi(r) ==
    /\ roi' = r
    /\ reset' = TRUE
    /\ out' = Disturbed
    /\ UNCHANGED <<padVars, enabled, started, settings, info, tracker, template>>

\* Mutant: only models-dir is frozen while started.
SetSettingHalfFrozen(d, p, z) ==
    /\ models_dir' = IF started THEN models_dir ELSE d
    /\ precision' = p
    /\ resize' = z
    /\ out' = Nothing
    /\ UNCHANGED <<padVars, enabled, started, reset, roi, info, tracker, template>>

\* One of models-dir, precision and resize, all refused while started.
SetSetting(d, p, z) ==
    /\ models_dir' = IF started THEN models_dir ELSE d
    /\ precision' = IF started THEN precision ELSE p
    /\ resize' = IF started THEN resize ELSE z
    /\ out' = Nothing
    /\ UNCHANGED <<padVars, enabled, started, reset, roi, info, tracker, template>>

-----------------------------------------------------------------------------
(* start and stop.                                                         *)

SettingsValid == /\ precision \in ValidPrecisions
                 /\ resize \in ValidResizes

Start ==
    /\ PadActivate
    /\ SettingsValid
    /\ reset' = TRUE
    /\ started' = TRUE
    /\ out' = Disturbed
    /\ UNCHANGED <<enabled, roi, settings, info, tracker, template>>

StartFails ==
    /\ PadActivateFails
    /\ ~SettingsValid
    /\ out' = Nothing
    /\ UNCHANGED elementVars

\* Mutant: the Tracker outlives stop().
StopKeepsTracker ==
    /\ PadDeactivate
    /\ reset' = TRUE
    /\ started' = FALSE
    /\ out' = Disturbed
    /\ UNCHANGED <<enabled, roi, settings, info, tracker, template>>

Stop ==
    /\ PadDeactivate
    /\ tracker' = NoTracker
    /\ template' = NoTemplate
    /\ reset' = TRUE
    /\ started' = FALSE
    /\ out' = Disturbed
    /\ UNCHANGED <<enabled, roi, settings, info>>

-----------------------------------------------------------------------------
(* set_caps and sink_event, on the streaming thread.                       *)

\* Mutant: a new frame size keeps the old template.
SetCapsKeepsTemplate(s) ==
    /\ PadCaps(TRUE)
    /\ info' = s
    /\ out' = Nothing
    /\ UNCHANGED <<enabled, started, reset, roi, settings, tracker, template>>

SetCaps(s) ==
    /\ PadCaps(TRUE)
    /\ info' = s
    /\ reset' = (reset \/ s # info)
    /\ out' = Nothing
    /\ UNCHANGED <<enabled, started, roi, settings, tracker, template>>

\* Not BGR, or interlaced.
RefuseCaps ==
    /\ PadCaps(FALSE)
    /\ out' = Nothing
    /\ UNCHANGED elementVars

SinkEvent(event) ==
    /\ PadEvent(event)
    /\ reset' = TRUE
    /\ out' = Disturbed
    /\ UNCHANGED <<enabled, started, roi, settings, info, tracker, template>>

-----------------------------------------------------------------------------
(* transform_ip, on the streaming thread.                                  *)

\* The Tracker, made by the first frame that needs one.  model_path throws
\* without a directory or with an unknown precision.
LoadTracker ==
    IF tracker # NoTracker
    THEN UNCHANGED tracker
    ELSE /\ models_dir # NoDir
         /\ precision \in ValidPrecisions
         /\ tracker' = Wanted

Bypass(discont) ==
    /\ ~enabled
    /\ reset' = (reset \/ discont)
    /\ out' = Passed(discont)
    /\ UNCHANGED <<tracker, template>>

\* The metadata is attached after reset is cleared, and that may fail.
Capture(discont) ==
    /\ enabled
    /\ reset \/ discont
    /\ info \in FitsIn[roi]
    /\ LoadTracker
    /\ template' = [roi |-> roi, size |-> info]
    /\ reset' = FALSE
    /\ out' \in {Initialized(template', discont), Error(discont)}

\* Mutant: DISCONT is looked at only while disabled.
TrackAcrossGap(discont) ==
    /\ enabled
    /\ ~reset
    /\ LoadTracker
    /\ reset' = FALSE
    /\ out' \in {Tracked(template, discont), Error(discont)}
    /\ UNCHANGED template

Track(discont) ==
    /\ enabled
    /\ ~reset
    /\ ~discont
    /\ LoadTracker
    /\ reset' = FALSE
    /\ out' \in {Tracked(template, discont), Error(discont)}
    /\ UNCHANGED template

\* The buffer, its dimensions, the ROI, the models or track() fail, none of
\* which touches the template; or initialize() threw after it had begun.
FrameFails(discont) ==
    /\ enabled
    /\ reset' = (reset \/ discont)
    /\ out' = Error(discont)
    /\ \/ UNCHANGED <<tracker, template>>
       \/ /\ ~reset'
          /\ LoadTracker
          /\ UNCHANGED template
       \/ /\ reset'
          /\ info \in FitsIn[roi]
          /\ LoadTracker
          /\ template' = NoTemplate

TransformIp(discont) ==
    /\ PadBuffer
    /\ \/ Bypass(discont)
       \/ Capture(discont)
       \/ Track(discont)
       \/ FrameFails(discont)
    /\ UNCHANGED <<enabled, started, roi, settings, info>>

-----------------------------------------------------------------------------
\* set_property assigns one setting at a time.
OneSetting ==
    \/ \E d \in Dirs \cup {NoDir} : SetSetting(d, precision, resize)
    \/ \E p \in Precisions : SetSetting(models_dir, p, resize)
    \/ \E z \in Resizes : SetSetting(models_dir, precision, z)

Next ==
    \/ \E b \in BOOLEAN : SetEnabled(b)
    \/ \E r \in Rois : SetRoi(r)
    \/ OneSetting
    \/ Start
    \/ StartFails
    \/ Stop
    \/ \E s \in Sizes : SetCaps(s)
    \/ RefuseCaps
    \/ \E event \in Events : SinkEvent(event)
    \/ \E discont \in BOOLEAN : TransformIp(discont)

Spec == Init /\ [][Next]_vars

-----------------------------------------------------------------------------
(***************************************************************************)
(* Properties                                                              *)
(***************************************************************************)

\* A Tracker in memory was made from the settings the element holds now, and
\* only a started element has one: settings read when the first frame arrives
\* are those start() accepted (start:411, set_property:375, transform_ip:473).
TrackerMatchesSettings ==
    tracker # NoTracker => started /\ tracker = Wanted

\* What start() validated still holds while the element runs, so a lazily
\* made Tracker never meets a precision or resize that start() would refuse.
RunsWithValidSettings == started => SettingsValid

\* While reset is down, the template was captured by the Tracker in memory
\* from the current ROI string in frames of the current size, although the
\* Tracker itself may have been made frames after start().
TemplateFresh ==
    ~reset => /\ tracker # NoTracker
              /\ template = [roi |-> roi, size |-> info]
              /\ info \in FitsIn[roi]

\* The pad and the element agree on whether the element runs.
StartedWithPad == started <=> stage # "inactive"

\* The inductive invariant.
IInv == /\ StartedWithPad
        /\ RunsWithValidSettings
        /\ TrackerMatchesSettings
        /\ TemplateFresh

\* Buffers flow only in a segment; before it the template is stale.
Stale == reset \/ stage # "segment"

Contract == INSTANCE TrackerContract WITH size <- info, stale <- Stale

\* The element implements the single-ROI contract.
ImplementsContract == Contract!Spec
=============================================================================
