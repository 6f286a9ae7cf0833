---------------------------- MODULE BenchmarkApp ----------------------------
(***************************************************************************)
(* The tracker benchmark (apps/run_cpunanotracker_benchmark.py): a Tk      *)
(* window whose callbacks, and a callback that re-arms itself every        *)
(* millisecond, drive a GStreamer pipeline that ends in an appsink.        *)
(*                                                                         *)
(* All callbacks run on the Tk thread, one at a time.  The streaming       *)
(* thread of the pipeline runs beside them: `held' is the buffer that      *)
(* waits in the appsink for playback or for its time, and `queue' what the *)
(* appsink has rendered and nobody has pulled.  A frame is the number of   *)
(* the ROI whose result it carries, 0 for none.                            *)
(***************************************************************************)
EXTENDS Naturals, Sequences

CONSTANTS
    Processors, \* the names in the "Tracker / detector" combobox
    Kind,       \* Kind[p]: "tracker" or "detector", from the catalog
    MaxBuffers, \* of the appsink; one in the code
    MaxRois     \* bound: ROIs the user draws in one video

ASSUME BenchmarkAssumption ==
    /\ Kind \in [Processors -> {"tracker", "detector"}]
    /\ MaxBuffers \in Nat \ {0}
    /\ MaxRois \in Nat

VARIABLES
    selected,     \* the combobox
    config,       \* tracker_config: the processor last built into a pipeline
    pipeline,     \* "none" for None, else the state asked of it
    paused, roi_selected,
    clock,        \* stats_started_at is not None
    counted,      \* history: ROIs whose results are in the statistics
    stale,        \* history: how many of those results are of another ROI
    roi, enabled, \* properties of the loaded element; an ROI is its number
    held, queue, bus,
    loop          \* where the tick callback is

appVars == <<selected, config, pipeline, paused, roi_selected, loop>>
statsVars == <<clock, counted, stale>>
elementVars == <<roi, enabled>>
sinkVars == <<held, queue, bus>>
vars == <<appVars, statsVars, elementVars, sinkVars>>

NoBuffer == MaxRois + 1
Results == 0..MaxRois

TypeOK ==
    /\ selected \in Processors
    /\ config \in Processors
    /\ pipeline \in {"none", "paused", "playing"}
    /\ paused \in BOOLEAN
    /\ roi_selected \in BOOLEAN
    /\ clock \in BOOLEAN
    /\ counted \subseteq 1..MaxRois
    /\ stale \in Nat
    /\ roi \in Results
    /\ enabled \in BOOLEAN
    /\ held \in Results \cup {NoBuffer}
    /\ queue \in Seq(Results)
    /\ bus \in {"empty", "eos", "error"}
    /\ loop \in {"waiting", "keys", "dead", "destroyed"}

ResetStatistics == clock' = FALSE /\ counted' = {} /\ stale' = 0

\* Not every value of config is one a pipeline was built with: the attribute
\* does not exist before the first load, and nothing reads it then.
Init ==
    /\ selected \in Processors
    /\ config = selected
    /\ pipeline = "none"
    /\ paused = FALSE
    /\ roi_selected = FALSE
    /\ clock = FALSE /\ counted = {} /\ stale = 0
    /\ roi = 0 /\ enabled = FALSE
    /\ held = NoBuffer /\ queue = <<>> /\ bus = "empty"
    /\ loop = "waiting"

-----------------------------------------------------------------------------
(* The streaming thread: external.                                         *)

\* The next frame passes the element and reaches the appsink.
Stream ==
    /\ pipeline # "none"
    /\ bus = "empty"
    /\ held = NoBuffer
    /\ held' = IF enabled THEN roi ELSE 0
    /\ UNCHANGED <<appVars, statsVars, elementVars, queue, bus>>

\* Its time has come: the appsink queues it, in place of the oldest if full.
Render ==
    /\ pipeline = "playing"
    /\ held # NoBuffer
    /\ queue' = Append(IF Len(queue) < MaxBuffers THEN queue ELSE Tail(queue), held)
    /\ held' = NoBuffer
    /\ UNCHANGED <<appVars, statsVars, elementVars, bus>>

\* The appsink posts EOS once its queue is empty.
PostEos ==
    /\ pipeline = "playing"
    /\ bus = "empty"
    /\ held = NoBuffer
    /\ queue = <<>>
    /\ bus' = "eos"
    /\ UNCHANGED <<appVars, statsVars, elementVars, held, queue>>

PostError ==
    /\ pipeline # "none"
    /\ bus = "empty"
    /\ bus' = "error"
    /\ UNCHANGED <<appVars, statsVars, elementVars, held, queue>>

-----------------------------------------------------------------------------
(* The Tk callbacks.  Buttons, combobox and window manager are served      *)
(* between two ticks, and when there are no more ticks.                    *)

Idle == loop \in {"waiting", "dead"}

\* Mutant: a stopped video leaves its ROI selected.
StopVideoKeepsRoi ==
    /\ pipeline' = "none"
    /\ paused' = FALSE
    /\ roi' = 0 /\ enabled' = FALSE
    /\ held' = NoBuffer /\ queue' = <<>> /\ bus' = "empty"
    /\ ResetStatistics
    /\ UNCHANGED <<roi_selected, selected>>

\* Setting the state to NULL ends the streaming thread; element, sink and bus
\* go with the pipeline.
StopVideo ==
    /\ pipeline' = "none"
    /\ paused' = FALSE
    /\ roi_selected' = FALSE
    /\ roi' = 0 /\ enabled' = FALSE
    /\ held' = NoBuffer /\ queue' = <<>> /\ bus' = "empty"
    /\ ResetStatistics
    /\ UNCHANGED selected

SelectProcessor(p) ==
    /\ Idle
    /\ selected' = p
    /\ UNCHANGED <<config, pipeline, paused, roi_selected, loop, statsVars, elementVars, sinkVars>>

\* The source is not valid, the pipeline cannot be built, or has no first
\* frame.
LoadFails ==
    /\ Idle
    /\ StopVideo
    /\ config' \in {config, selected}
    /\ UNCHANGED loop

\* The first frame has prerolled, without a result of the disabled tracker.
Prerolled ==
    /\ config' = selected
    /\ pipeline' = "paused"
    /\ roi_selected' = FALSE
    /\ roi' = 0 /\ enabled' = FALSE
    /\ held' = 0 /\ queue' = <<>> /\ bus' = "empty"
    /\ ResetStatistics
    /\ UNCHANGED selected

LoadSource ==
    /\ Idle
    /\ Prerolled
    /\ paused' = TRUE
    /\ UNCHANGED loop

\* OpenCV cannot open the window or show the frame: the cv2.error passes the
\* except clause and Tk prints it.  What stop_video had reset stays as it was,
\* and the pipeline is there.
LoadRaises ==
    /\ Idle
    /\ Prerolled
    /\ paused' = FALSE
    /\ UNCHANGED loop

MayDraw == Kind[selected] = "tracker" /\ pipeline # "none" /\ paused

\* Mutant: a new ROI continues the statistics of the one before.
RoiDrawnKeepsStatistics ==
    /\ MayDraw
    /\ Kind[config] = "tracker"
    /\ roi < MaxRois
    /\ roi' = roi + 1
    /\ enabled' = TRUE
    /\ roi_selected' = TRUE
    /\ UNCHANGED <<selected, config, pipeline, paused, sinkVars, statsVars>>

\* select_roi, when the user draws a box.  The loaded element has the property.
RoiDrawn ==
    /\ MayDraw
    /\ Kind[config] = "tracker"
    /\ roi < MaxRois
    /\ roi' = roi + 1
    /\ enabled' = TRUE
    /\ roi_selected' = TRUE
    /\ ResetStatistics
    /\ UNCHANGED <<selected, config, pipeline, paused, sinkVars>>

\* The combobox names a tracker, and the element of the pipeline is a
\* detector: set_property raises a TypeError.
RoiRaises ==
    /\ MayDraw
    /\ Kind[config] = "detector"
    /\ UNCHANGED <<selected, config, pipeline, paused, roi_selected, statsVars, elementVars, sinkVars>>

\* From the button: Tk prints a callback's exception and goes on.
RoiButton ==
    /\ Idle
    /\ RoiDrawn \/ RoiRaises
    /\ UNCHANGED loop

\* Mutant: pausing leaves the clock of the statistics running.
TogglePauseKeepsClock ==
    /\ pipeline # "none"
    /\ clock' = (clock \/ (Kind[config] = "tracker" /\ paused /\ roi_selected))
    /\ paused' = ~paused
    /\ pipeline' = IF paused' THEN "paused" ELSE "playing"
    /\ UNCHANGED <<selected, config, roi_selected, counted, stale, elementVars, sinkVars>>

TogglePause ==
    /\ pipeline # "none"
    /\ clock' = IF Kind[config] = "tracker" /\ paused /\ roi_selected THEN TRUE
                ELSE clock /\ paused
    /\ paused' = ~paused
    /\ pipeline' = IF paused' THEN "paused" ELSE "playing"
    /\ UNCHANGED <<selected, config, roi_selected, counted, stale, elementVars, sinkVars>>

PlayButton ==
    /\ Idle
    /\ TogglePause
    /\ UNCHANGED loop

Close ==
    /\ Idle
    /\ StopVideo
    /\ loop' = "destroyed"
    /\ UNCHANGED config

-----------------------------------------------------------------------------
(* tick: the bus, one sample, one key, and the next tick.                  *)

CheckBus ==
    /\ pipeline # "none"
    /\ bus # "empty"
    /\ StopVideo
    /\ UNCHANGED config

\* One result of the loaded tracker enters the statistics, if an ROI was drawn.
Counts == Kind[config] = "tracker" /\ Head(queue) # 0 /\ roi_selected

MayShow == pipeline # "none" /\ bus = "empty" /\ ~paused /\ queue # <<>>

Pulled(counts) ==
    /\ counted' = IF counts THEN counted \cup {Head(queue)} ELSE counted
    /\ stale' = IF counts /\ Head(queue) # roi THEN stale + 1 ELSE stale
    /\ queue' = Tail(queue)
    /\ UNCHANGED <<selected, pipeline, paused, roi_selected, clock, elementVars, held, bus>>

\* frame_from_sample may raise a RuntimeError, which stops the video.
ShowFrame ==
    /\ MayShow
    /\ StopVideo \/ Pulled(Counts)
    /\ UNCHANGED config

\* OpenCV may raise before or after the result is counted: no clause of tick
\* catches cv2.error.
ShowRaises ==
    /\ MayShow
    /\ Pulled(Counts) \/ Pulled(FALSE)
    /\ UNCHANGED config

NothingToShow ==
    /\ pipeline = "none" \/ (bus = "empty" /\ (paused \/ queue = <<>>))
    /\ UNCHANGED <<selected, config, pipeline, paused, roi_selected, statsVars, elementVars, sinkVars>>

\* An exception leaves tick before it re-arms itself.
TickPolls ==
    /\ loop = "waiting"
    /\ \/ loop' = "keys" /\ (CheckBus \/ ShowFrame \/ NothingToShow)
       \/ loop' = "dead" /\ ShowRaises

\* The key, if any.
TickKey ==
    /\ loop = "keys"
    /\ \/ /\ StopVideo
          /\ loop' = "waiting"
          /\ UNCHANGED config
       \/ /\ TogglePause \/ RoiDrawn
          /\ loop' = "waiting"
       \/ /\ RoiRaises
          /\ loop' = "dead"

NoKey ==
    /\ loop = "keys"
    /\ loop' = "waiting"
    /\ UNCHANGED <<selected, config, pipeline, paused, roi_selected, statsVars, elementVars, sinkVars>>

Finished == loop = "destroyed" /\ UNCHANGED vars

-----------------------------------------------------------------------------
Next ==
    \/ Stream
    \/ Render
    \/ PostEos
    \/ PostError
    \/ \E p \in Processors : SelectProcessor(p)
    \/ LoadFails
    \/ LoadSource
    \/ LoadRaises
    \/ RoiButton
    \/ PlayButton
    \/ Close
    \/ TickPolls
    \/ TickKey
    \/ NoKey
    \/ Finished

Spec == Init /\ [][Next]_vars

-----------------------------------------------------------------------------
(***************************************************************************)
(* Properties                                                              *)
(***************************************************************************)

\* The clock of the statistics runs exactly while a pipeline with an ROI
\* plays, whichever of keys, buttons, messages and failures changed that, so
\* that every result counted is timed and no other time is; and a pipeline
\* taken for a paused one is paused, though a load that raised may leave a
\* paused one that is not taken for one
\* (toggle_pause:388, select_roi:327, stop_video:398, load_source:303).
StatisticsTimed ==
    /\ clock <=> pipeline = "playing" /\ roi_selected
    /\ paused => pipeline = "paused"

\* The application believes an ROI is tracked only while the element of the
\* loaded pipeline is a tracker that was given one and is enabled, although
\* the guards look at the combobox (select_roi:316, tick:427).
RoiMeansTracking ==
    roi_selected <=> Kind[config] = "tracker" /\ pipeline # "none" /\ enabled /\ roi > 0

\* After a new ROI, at most the samples in the appsink and the one that waits
\* there still carry results of an earlier one into its statistics
\* (build_pipeline:266, show_frame:358).
StaleResultsBounded == stale <= MaxBuffers + 1

-----------------------------------------------------------------------------
\* A result in flight that would be counted as stale.
Old(result) == result \notin {0, roi, NoBuffer}

\* Old results are ahead of new ones: with `stale' counted already, those still
\* in flight leave the bound intact.
OldInFlight ==
    /\ \A i \in DOMAIN queue : Old(queue[i]) => stale + i <= MaxBuffers + 1
    /\ Old(held) => stale + Len(queue) <= MaxBuffers

\* The inductive invariant.
IInv == /\ StatisticsTimed
        /\ RoiMeansTracking
        /\ StaleResultsBounded
        /\ Len(queue) <= MaxBuffers
        /\ OldInFlight
=============================================================================
