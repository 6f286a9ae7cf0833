# TLA+ models of the GStreamer C++ plugin tutorial

This directory models the concurrent and stateful core of the repository: the
four single-target tracker elements of `src/`, the two YOLO detectors, and three
applications of `apps/`: the bridge, which runs a detection pipeline, publishes
its detections and takes commands from a GUI; the tracker benchmark; and the
capstone, with the source and the detector it runs. TLC checks small instances;
TLAPS proves the safety properties of the trackers, the detectors and the three
applications for every instance.

Run a check with `tlc -config <cfg> <module>`, a proof with `tlapm <module>`.
`PROJECT.json` lists the runs, the properties, the mutants that show that each
property can fail, and the source lines of every definition. Paths below are
relative to the repository.

## 1. The system

| Part | State | Operations | Talks to |
|---|---|---|---|
| `cpunanotrack` (`src/cpunanotracker/gstcpunanotrack.cpp`) | `State`: enabled, started, reset, roi, models_dir, info, a `Tracker` (three ONNX sessions, centre, size, template) under one mutex | set_property, start, stop, set_caps, sink_event, transform_ip | the pad (streaming thread), the application (properties, error messages), metadata |
| `rknnnanotrack` (`src/nanotracker/gstrknnnanotrack.cpp`) | the same and precision, resize; the `Tracker` is made by the first enabled frame and holds three RKNN contexts, eight tensor memories, two of them images that the CPU, the RGA and the NPU share, and `use_rga` | the same; initialize, track, crop | the same, the NPU and the RGA |
| `cpulighttrack` (`src/cpulighttrack/gstcpulighttrack.cpp`) | as `cpunanotrack`; its box may be any float | the same | the same |
| `cpulktracker` (`src/cpulktracker/gstcpulktracker.cpp`) | enabled, reset, roi, info, the corners and the lost flag | set_property, set_caps, sink_event, transform_ip; no start or stop | the same |
| `rknnyolodetect` (`src/rknnyolodetect/rknnyolodetect.cpp`) | model path, two thresholds, video info, the `RknnRuntime`: context, input of the model, aligned copy, `use_rga_`; no lock | set_property, start, stop, set_caps, transform_ip (preprocess, infer, decode) | the same, the NPU and the RGA, metadata |
| `yolodetect` (`src/yolodetect/yolodetect.cpp`) | model path, two thresholds, video info, the `YoloRuntime` with its ONNX session; no lock | set_property, start, stop, set_caps, transform_ip (preprocess, postprocess) | the pad, the application, metadata |
| `offer_latest` (`apps/bridge_project/queues.py`) | a bounded `queue.Queue` | put, drop the oldest, put again | the two queues of the bridge |
| detections (`pipeline.py`, `run_bridge.py`, `transport.py`, `run_bridge_gui.py`) | detection queue (1), frame counter, the two telemetry sockets, the GUI's labels | on_new_sample, publish_loop, publish, poll_telemetry | streaming thread, publisher thread, GUI process |
| commands (the same files, `controlledreddetect.cpp`) | command queue (10), the detector's properties | send_command, `_command_loop`, drain_commands, apply_command, transform_ip | GUI process, command thread, main loop, streaming thread |
| start and stop of the bridge (`run_bridge.py`, `transport.py`, `pipeline.py`) | sockets, `running`, stop event, two threads, the pipeline | main, start, stop, run, the two thread loops | all of the above |
| benchmark (`apps/run_cpunanotracker_benchmark.py`) | the chosen and the loaded processor, the pipeline, paused, roi_selected, the statistics and their clock | buttons, keys, tick, check_bus, show_frame | Tk, the streaming thread through an appsink of one, the tracker's properties, the bus |
| capstone (`apps/run_capstone.py`, `colorboxsrc.cpp`, `reddetect.cpp`) | the source's frame counter, two queues, an appsink of one, the application's own counter | create, transform_ip, on_new_sample, on_bus_message, run | four threads, metadata, the bus |

The other parts (tutorial filters and sources, the standalone demos, vendored
headers) are listed in `PROJECT.json` with why they are left out.

What is hard here:

- **A template that is stale.** A tracker captures a template from the stored
  ROI and tracks from it until something makes it stale: an ROI assignment, a
  change of `enabled`, a start, a stream, segment or flush event, a DISCONT
  buffer, a new frame size. These arrive on application and streaming threads
  in any order, and each must raise `reset`; frames may fail half way through a
  capture. The properties relate the template to the ROI, the frame size and
  the settings across such sequences.
- **Settings that are read late.** `rknnnanotrack` validates its settings in
  start() and reads them when the first enabled frame loads the models.
- **Buffers behind a cache.** The images `rknnnanotrack` shows its networks are
  written by the RGA past the CPU's cache or by the CPU through it, sometimes
  both within one frame, and a cached line may be written back at any time.
- **Memories owned by contexts.** Its head imports the feature memories of the
  backbones; any step of the construction may fail, and what was made is then
  released by whoever knows of it: a catch block, or the destructors of the members
  that are complete, in the reverse order of their declaration.
- **An input buffer that outlives the frame.** `rknnyolodetect` scales each
  frame into the same 640x640 buffer by two RGA calls, either of which may fail
  half way, and falls back to the CPU from then on. The frame size may change
  between frames, and a frame covers a different part of the buffer.
- **No lock.** The detectors read their thresholds on the streaming thread while
  an application may assign them.
- **Rounding.** `yolodetect` scales a frame into its input between two paddings
  and boxes back out of it, each with its own rounding.
- **Numbers that are counted, not carried.** The capstone prints a frame number it
  counts itself, on a thread behind a tee, a queue and an appsink.
- **A window that must agree with a pipeline.** The benchmark's callbacks look at
  the combobox, at flags of their own and at a pipeline whose buffers still carry
  results from before the last click.
- **A queue operation in three steps.** `offer_latest` is three calls of
  `queue.Queue`, with consumers and other producers between them.
- **Threads that share sockets with stop().** `ZmqBridgeTransport.stop` closes
  the sockets and sets the attributes to `None` while two threads use them, on
  paths through failed starts, interrupts and joins with a time limit.
- **Thresholds written one by one** while the streaming thread reads them
  without a lock.

## 2. Modules

| Module | What it models |
|---|---|
| `TrackerPad` | external: GstBaseTransform and the sink pad, i.e. which handler may run when; templates and reports |
| `TrackerContract` | the abstract specification the four trackers share: when a template is captured, followed, or forgotten, and what each frame publishes |
| `CpuNanoTrack` | `cpunanotrack`, one action per handler |
| `CpuLightTrack` | `cpulighttrack`: the handlers of `CpuNanoTrack`, whose code it mirrors, with its own frame step and the box by the IEEE class of its floats |
| `RknnNanoTrack` | `rknnnanotrack`, with its three settings and the lazy load, each handler one step |
| `RknnMemory` | the contexts and tensor memories of its `Tracker`: what exists in the runtime, and what the fields and locals of the program know of it while they are made and released |
| `RgaCrop` | its two image buffers, as the NPU and the CPU's cache hold them, and what the RGA and the CPU do to them |
| `RknnTracker` | composes the three: a frame and a stop are one step per call of the RKNN runtime or the RGA |
| `CpuLkTracker` | `cpulktracker`, with the number of corners, the lost flag and the box's displacement |
| `NonMaxSuppression` | the greedy suppression of overlapping boxes, and what it promises |
| `RknnYoloDetect` | `rknnyolodetect`, one action per call of the RGA and the NPU and one per catch block; extends `NonMaxSuppression` |
| `Letterbox` | the geometry of `yolodetect`: scaling into the model's input and back |
| `YoloDetect` | `yolodetect`, one action per stage of a frame; extends `NonMaxSuppression` and `Letterbox` |
| `LatestQueue` | `offer_latest`, one action per queue call |
| `BridgeTelemetry` | detections from the appsink to the GUI; INSTANCE of `LatestQueue` |
| `BridgeCommands` | commands from the GUI to the detector and the frames that read its thresholds; INSTANCE of `LatestQueue` |
| `BridgeLifecycle` | main(), transport start and stop, and the two threads, one action per statement that touches shared state |
| `BenchmarkApp` | the benchmark's window, tick, pipeline and bus |
| `MovingBox` | where `colorboxsrc` draws the box in frame n |
| `FramePrinter` | the abstract specification of the capstone's output: what each line may say and when the last was printed |
| `Capstone` | the capstone and the four threads of its pipeline; extends `MovingBox`, implements `FramePrinter` |
| `MC*` | the instances TLC checks |
| `*Proofs` | theorems: one module for `CpuNanoTrack` and `CpuLightTrack`, one for each other tracker, one for each detector and one for the suppression they share |
| `BridgeProofs` | theorems about the messages of the bridge: extends `BridgeTelemetry` and `BridgeCommands`, and instantiates `LatestQueue` (`Queue`) |
| `ApplicationProofs` | theorems about the applications: extends `BenchmarkApp`, `BridgeLifecycle` and `Capstone` |

`BridgeCommands`, `BridgeLifecycle` and `Capstone` are extended beside another
specification where their theorems are, so their own `Init`, `Next`, `Spec`,
`TypeOK` and `IInv` bear their names (`CommandInit`, `BridgeSpec`, `RunIInv`), and
so do the fair specifications of their runs (`FairCommandSpec`, `FairBridgeSpec`,
`FairRunSpec`), as those of `CpuLightTrack` and `RknnTracker` do.

### State and actions

**Trackers.** The variables have the names of the fields of the C++ `State`.
Each handler locks the mutex before its first access to the state and holds it
through inference, so each is one action; the actions are named after the
handlers, and `transform_ip` is split into its outcomes: `Bypass` (disabled),
`Capture` (a template is taken), `Track` or `Follow`, and `FrameFails` (any of
its error returns, with the state each leaves: a request to capture survives,
and a capture that fails half way leaves no usable template). A frame size, an
ROI string and a models directory are abstract values; `FitsIn[r]` is the set
of sizes in which `parse_roi` accepts the string `r`, so an invalid string is
one with an empty set. `template` is what the tracker learned: from which ROI,
at which size. `out` is a history variable: the report of the last step.
Inference is a choice between success and an exception. In `CpuLkTracker`
optical flow keeps any number of the corners and moves the box by any of a few
offsets. `StayLost` is the early return for a lost target, and `seen` a history
variable of what the last result said: its lost flag, its corners, its box.
In `CpuLightTrack` the kept `center` and `size` are the classes of their floats.
`Selected` computes what a tracked frame makes of them from candidates whose
corners are of any class, with the sums, the product and the clamp of the code, and
`CropAccepts` what `crop` makes of the result in the next frame. A size that is NaN
is refused there and a centre that is NaN is not, on AArch64 (where it converts
to 0). That no box with a NaN centre alone comes about is what the property is for.

**Contract.** `Contract == INSTANCE TrackerContract WITH size <- info, stale
<- Stale` is the refinement mapping. `Stale` is `reset` or "no segment has
begun": an element without `start()` relies on the stream's events to raise
`reset`, and no buffer comes before them. Models, settings and the flag are
hidden by the mapping. `cpulktracker` implements the same contract although it
shares no code with the others.

**Inside a frame of `rknnnanotrack`.** The mutex is held throughout a frame, so that
`RknnNanoTrack` may take it in one step; `RknnTracker` takes it apart, with `step` for
what the holder of the mutex does next. `live` is the set of contexts and memories
that exist in the runtime. The rest of `RknnMemory` is what the program knows of them:
`ctx` the contexts in a field, `held` the memory in a local that is not yet in a
vector, `owned` those in a vector, `built` the `Model`s whose constructor has
returned. The destructors and catch blocks look at these only. A query that fails
releases its own context (`QueryFails`), a vector that cannot grow its own memory
(`OwnFails`); what else is there is left to `ReleaseMemory` and `ReleaseContext`, the
bodies of `~Model`, for the members that are `built`, last declared first. `Stopped`
and `BuildFailed` ask that no member is left to destroy, and not that nothing is left
in the runtime. An image buffer is a pair: `device` is what the NPU or the RGA would
find in memory, `dirty` what the CPU's cache holds and has not written back, each the
crop of "this" frame or "other" pixels. `CacheWritesBack` may happen between any two
calls; `SyncBeforeRga`, `SyncBeforeCpu` and `SyncAfterCpu` are the three
`rknn_mem_sync`. `features` is a history variable: which template the memory shared
with the head was computed from. A call that fails ends the frame with the state the
exception leaves. Each of its steps is one of `RknnNanoTrack` or leaves the element
alone, by how it is written, so that what is proved of the element holds of it; the
element's step is the last of the frame.

**Detectors.** `rknnyolodetect` has no mutex, so that `SetProperty` may fall
between any two calls `transform_ip` makes: `step` says which is next, and
`Gather` to `Attach` are the calls in their order. `start`, `stop` and
`set_caps` are never concurrent with a frame (GstBaseTransform). The input of the
model is a set of areas, and `Covers[s]` those that a frame of size `s` is scaled
to; memory holds zeros, padding, `this` frame, an `old` one, or a `torn` mixture
that a failed call left. `source_rgb` is the aligned copy that the RGA needs when
it cannot read the mapped rows, and `direct` that it can. A box has a class and a
score; `Overlap[t]` is the pairs whose intersection over union exceeds `t`.
`Consider` looks at any of the most certain boxes left, because `std::sort` may
leave equal ones in any order. `contexts`, `outputs` and `mappings` count what
really exists, each changed only where the code calls the runtime or GStreamer;
`context_` and `mapped` are the code's own flags, by which the destructor and the
catch block decide. `Start` to `DiscardContext` are the construction with its catch
block; `Throw` leaves any call of a frame that may throw for the innermost catch
block around it, `InferCatch` or `Catch`. The two thresholds are read in one step: no
property relates them. `yolodetect` is modelled in the same way. Its boxes have a
place in the model's input, and `SourceBox` is where `to_source_box` puts them on
the frame. The code computes in floats; `Letterbox` computes what they
approximate, with fractions.

**Bridge.** A detection is its frame number and a command its number and kind. In the
queue, `pc[p]` says where producer `p` is in `offer_latest`, and `held[p]` what it
offers (in `BridgeCommands` `offer_pc` and `received`). The wire between two ZeroMQ
sockets is a bounded FIFO that may drop what is sent. In `BridgeCommands` a threshold
is the number of the command that set it; `SetThreshold` is one `set_property`,
`ReadThreshold` one of the six reads of `transform_ip`. The six reads are
unsynchronised with the writes. Each is an aligned machine word, so a read returns one
of the values written, and because nothing orders them they are read in any order. In
`BridgeLifecycle` the variables `main`, `command` and `publisher` are the next
statements of the three threads, `gst_pipeline` is `BridgePipeline.pipeline` with its
state, and a socket attribute is `none`, `open` or `closed`; `Interrupt` and
`CutShort` are KeyboardInterrupt before and within the finally blocks.

**Benchmark.** `selected` is the combobox and `config` what was last built into a
pipeline. `roi` and `enabled` are the element's properties, an ROI its number.
`held` is the buffer that waits in the appsink for its time (or, paused, for
playback), `queue` what the appsink has rendered; a buffer is the ROI whose result
it carries. `loop` is where the tick callback is; buttons are served between its
runs. `counted` and `stale` are history variables of the statistics. A `cv2.error`
is caught nowhere: in `load_source` it leaves a pipeline that is paused while
`paused` is not set (`LoadRaises`), in `show_frame` it ends the tick (`ShowRaises`).

**Capstone.** `source` is where the source's thread is, which runs `reddetect`
and pushes into both queues; `display` and `metadata` are the queues, `samples`
the appsink. A buffer is its offset and its metadata. `detects` is what the
thresholds match, chosen once: nothing, the box, or the background too, and then the
rectangle is the whole frame. `printed` is a history
variable, `ending` the reason the loop was left; `runner` is "killed" after an
interrupt that no try block catches. `Printer` maps it to `FramePrinter`:
the printer has finished when the loop was left because of EOS.

## 3. Runs

Numbers of distinct states are those of the checked instance.

| Run | Instance | What it shows |
|---|---|---|
| `cpu_nano_track` (1374) | 2 sizes, 3 ROI strings, 2 directories | The template in use is that of the current ROI and frame size (`TemplateFresh`); the models in memory are those of `models-dir` while started and none otherwise (`ModelsFollowSettings`); the contract is implemented (`ImplementsContract`) |
| `rknn_nano_track` (405252) | 2 sizes, 3 ROI strings, a directory, 3 precisions and 3 resize modes of which one each is invalid; the objects of `RknnMemory` are the code's | The lazily made tracker has the settings in force (`TrackerMatchesSettings`), which are those start() accepted (`RunsWithValidSettings`); no memory outlives its context or its source (`NothingDangling`), and none is leaked, whichever call fails (`NothingLeaked`); a network sees this frame's crop and nothing else (`ImageOfThisFrame`); the head has the features of the template (`HeadMatchesTemplate`), which is fresh (`TemplateFresh`); the contract is implemented (`ImplementsContract`) |
| `cpu_light_track` (6582) | as `cpu_nano_track`; floats are finite, an infinity or NaN | A box that became NaN is refused by the crop of the next frame, in whichever coordinate it is, so that no frame is tracked from it (`NonFiniteNeverFollowed`); the contract is implemented (`ImplementsContract`) |
| `cpu_lk_tracker` (112695) | minimum 2 of at most 4 corners, box within 2 pixels | While a target is followed enough corners are left, so that the median and the confidence are defined (`CornersLeft`); a result that says lost is followed by no other, at no other place, until a template is captured, over property writes, events and restarts (`LostUntilRecaptured`); the contract is implemented (`ImplementsContract`) |
| `rknn_yolo_detect` (96688) | 2 sizes, 3 areas, 4 boxes of 2 classes, 2 thresholds | The network runs on this frame and its padding only (`InputOfThisFrame`); contexts, outputs and mappings are released once, whichever call throws into which catch block (`ResourcesReleased`); the boxes kept are a correct suppression, whatever is assigned meanwhile (`BoxesSuppressed`) |
| `yolo_detect` (11128) | input of 8 by 6, 3 frame sizes, 4 boxes | What is attached lies on the frame (`BoxesInFrame`); what is pushed on carries the whole of a correct suppression, by decreasing confidence (`DeliveredInOrder`) |
| `bridge_telemetry` (535) | queue of 1, 5 frames, wire of 2 | Detections are ordered from end to end (`EndToEndOrder`), the newest is never the one dropped (`NewestKept`), offers are never refused (`NeverRefused`), and the video never waits (`VideoNeverBlocked`) |
| `bridge_commands` (125955) | queue of 2, 4 commands, 3 thresholds, wire of 1 | Commands never go back (`CommandsNeverGoBack`), the newest received is applied or superseded (`NewestReceivedApplied`), and a frame mixes two commands only while one is being applied (`FrameThresholdsRecent`) |
| `bridge_lifecycle` (2582) | exact: nothing is bounded | However main() leaves its loop, it ends (`MainExits`), both sockets are closed and forgotten (`SocketsClosedAtExit`), the pipeline is stopped (`PipelineStoppedAtExit`) and the two threads end (`ThreadsEnd`) |
| `bridge_lifecycle_command` | the same | *Violated*: the command thread dies of an exception (`CommandThreadNeverCrashes`, section 5) |
| `benchmark` (9687) | 2 trackers and a detector, 3 ROIs, an appsink of one as in the code | The clock of the statistics runs exactly while results are counted (`StatisticsTimed`); an ROI is believed tracked only when it is (`RoiMeansTracking`); at most two results of an earlier ROI are counted into the statistics of a new one (`StaleResultsBounded`) |
| `capstone` (42561) | 4 frames, queues of 2, the frame and box of the code, a counter that wraps at 65536 | The application implements `FramePrinter`: what is printed under a number is what was found in that frame, none is skipped, and EOS ends it only when all is printed (`ImplementsPrinter`); the application ends, stopped unless an interrupt fell outside of its try block, and with EOS everything was printed (`EndsWithAllPrinted`) |

**Why the bounds are enough.** The trackers compare a size with a size and a
string with a string for equality only: two sizes, a ROI that fits both, one
that fits the larger only and one that fits none give every outcome of those
comparisons, and the proofs below cover all others. Two of four corners lets a
target lose none, some, exactly enough or too many. In `rknn_yolo_detect` an
area is covered by both sizes, by one, or by the other; two boxes are equally
certain, one is less so, one pair overlaps at one threshold only, and one
overlapping pair is of two classes. In `yolo_detect` a frame is wider than the
input, taller, or so wide that nothing of it is left (which `cv::resize` refuses);
boxes hang over an edge, cover the input, or lie in the padding. In
`rknn_nano_track` the tensors are those of the code, so every order of failures
is there. In `benchmark` two results in flight, of one or two earlier ROIs, are
what an appsink of one can hold; a third ROI adds a repetition. In `capstone` four
frames fill both queues of two, which stand for the 200 buffers of a `queue`. In
`bridge_commands` four commands fill the queue of two (the code has ten), with
one being applied and one being offered. Three thresholds are the first, one in
the middle and the last. In `bridge_telemetry` five frames are one in each place
(label, wire of two, publisher, queue). Sequences of lifecycle statements are
finite as they are.

**Deadlock** is checked except in `bridge_telemetry` and `bridge_commands`,
where the bounds on frames and commands stop the model. `BridgeLifecycle` states
its end with `BridgeFinished`, and so do `BenchmarkApp` and `Capstone`.

**Fairness.** None is assumed of the applications that assign properties, of
the GUI or of the user. Weak fairness is assumed of the streaming thread
(`VideoSpec`: the source keeps pushing), of the GLib main loop, whose 50 ms timer drains
the command queue (`FairCommandSpec`), and of the three threads of
`BridgeLifecycle`; of leaving the GLib loop none. No statement of those threads
waits without a time limit: `poll`, `get` and `join` of the command thread have
one, and `join` of the publisher is covered because the publisher looks at the
stop event between gets of limited duration. In `Capstone` the four threads
run and the main loop dispatches the bus; of an interrupt nothing.

Two things are not claimed because the code does not give them. That a detection, or
a newer one, gets to the publisher: the queue is briefly empty in every offer that
drops, so that with a source that never ends even a publisher that keeps trying may
find it so each time; it does when the source stops (and a sample need not be
published at all, see section 5). And that the benchmark answers a message:
`select_roi` waits in `cv2.selectROI` (`run_cpunanotracker_benchmark.py:321`) and
`load_source` in `pull-preroll` (299) on the only Tk thread, for as long as the user
or the source takes, and `tick` does not run meanwhile. `BenchmarkApp` is checked
without fairness.

## 4. Theorems

All are for every value of the constants, under the `ASSUME`s next to their
declaration (the defaults are not among the proper values; an empty ROI fits no
frame; the minimum number of corners is positive and at most the maximum; sizes
are positive). Those about `Queue`, which is instantiated with any producers, items
and size, name theirs: a positive size. A bound of a model (frames, commands, the
wire, ROIs) is a constant like any other: the theorems hold however large it is.

| Module | Theorem | States |
|---|---|---|
| `CpuNanoTrackProofs` | `TypeCorrect`, `FreshTemplate`, `CurrentRoiPublished`, `SettingsLoaded`, `Implements` | the properties of `cpu_nano_track` |
| | `LightInvariance`, `LightFollowsFinite`, `LightImplements` | those of `cpu_light_track`, and the types and invariant of the handlers both elements have |
| `RknnNanoTrackProofs` | `TypeCorrect`, `SettingsLoadedLate`, `SettingsStayValid`, `FreshTemplate`, `Implements` | of the element with single-step frames |
| | `TrackerImplementsContract`, `TrackerKeepsInvariants` | the contract and the invariants of the element hold of the element taken apart |
| | `NeverDangling`, `NeverLeaking`, `NetworksReadThisFrame`, `HeadAndTemplate` | the rest of `rknn_nano_track` |
| `CpuLkTrackerProofs` | `TypeCorrect`, `EnoughCorners`, `LostStaysLost`, `Implements` | those of `cpu_lk_tracker` |
| `RknnYoloDetectProofs` | `TypeCorrect`, `Released`, `InputIsThisFrame`, `SuppressionCorrect` | those of `rknn_yolo_detect`, for any areas and boxes; overlap is assumed symmetric, as the code's is |
| `YoloDetectProofs` | `LetterboxFits`, `TypeCorrect`, `AttachedBoxesInFrame`, `InOrderAndComplete` | the padded frame fits any input; the properties of `yolo_detect` for all sizes and boxes |
| `NonMaxSuppressionProofs` | lemmas only | the suppression keeps its invariant; both detectors use them |
| `BridgeProofs` | `QueueTypeCorrect`, `OneProducerNeverRefused` | the queue stays within its size; with one producer, as both queues of the bridge have, no offer is refused |
| | `TypeCorrect`, `NeverRefusedHere`, `NewestIsKept`, `InOrderEndToEnd` | the safety properties of `bridge_telemetry` for any number of frames and any wire |
| | `CommandInvariance`, `CommandsForward`, `ThresholdsRecent`, `NewestCommandKept` | the safety properties of `bridge_commands` for any thresholds, queue, wire and number of commands; and the safety half of `NewestReceivedApplied`: the newest command received is in the queue, taken or applied |
| `ApplicationProofs` | `BenchmarkInvariance`, `ClockRight`, `RoiTracked`, `StaleBounded` | the safety properties of `benchmark` for any processors, any appsink and any number of ROIs |
| | `SocketsClosed`, `PipelineStopped`, `ServedUntilStopped`, `MainGoesOn` | those of `bridge_lifecycle`; that no thread finds a socket gone before the shutdown begins; and that main() never returns to a statement it has passed, the safety half of `MainExits` |
| | `PrinterImplemented`, `FramesPrinted`, `AllPrintedAtEos` | `ImplementsPrinter` of `capstone` for any video, queues and box, the invariant behind it (`PrintsDescribeFrames`), and the safety half of `EndsWithAllPrinted` |
| | `BoxDrawnInFrame` | `draw_box`, which checks no bounds, stays within the frame, whatever the frame's number and wherever the counter wraps |

The argument is the same for each module. `IInv` is the conjunction of the
properties and what makes them inductive:

- `CpuNanoTrack`, `RknnNanoTrack`: `StartedWithPad` ties the element's `started`
  to the pad. Without it a second start() could replace the tracker of a running
  element and leave a template that belongs to the old one. The other conjuncts
  are needed of each other: a fresh template implies a tracker, and the tracker
  implies the settings.
- `CpuLkTracker`: `CornersLeft` bounds the corners from both sides by the number
  found; only `Follow` and `Capture` disturb it while `reset` is down. `SeenTrue`
  ties what the last result said to what the Tracker knows: a target reported lost
  is lost, at that box. A failed frame withdraws what was seen, a capture replaces
  it, and every other handler keeps both sides (`OtherHandlers`).
- `RknnYoloDetect`: `ContextByFlag` and `FrameByFlag` say that what exists is what the
  code's flags and the place in a frame say, and that each flag is set only in the
  steps between its acquisition and its release. At rest that leaves one context if
  there is a runtime and nothing else (`FlagsRelease`). `InputInv` adds what the RGA
  has done so far (`InputInTheMaking`): the copy is of this frame, and before the
  scaling all is padding. `NmsInv` adds `KeptFirst`, that the boxes kept are no less
  certain than those to come; it gives the score of the box that hides the next one,
  and symmetry of overlap that no box kept is hidden by the next.
- `RknnTracker`: four invariants, each proved on top of the ones before.
  `Holding` accounts for everything that exists by a field or a local that knows it:
  while the `Tracker` is made (`Building`: each `Model` that was built, each memory
  that was bound, and at most one context or memory in the making), while it is
  destroyed (`Dismantling`), with it and without it. `NeverLeaking` then rests on
  that each catch block releases the one object no field knows
  (`FailureAccounted`) and that the destructors reach the rest
  (`DismantlingKept`). `NothingDangling` is kept because each memory comes after its
  owner and its source in `Creation`, and the owner of a source is declared before
  that of the import (`Ranks`, `Origins`), so that it is destroyed after it.
  `ImageInTheMaking` says what each step has done to the buffer: before the RGA
  or the CPU writes, the cache holds nothing that could overwrite it.
  `FeaturesFollow` ties the features to the template when no capture is due.
- `Letterbox`: what limits the scale fills its side, and the other side is no
  longer (`LetterboxFits`); a box whose edges are clamped and then rounded lies
  on the frame, and the filter on its area removes the empty ones.
- `YoloDetect`: `CandidatesOnFrame` keeps what the filter promised until the
  boxes are attached; `AttachedSoFar` says that what is attached is the head of
  the ranking.
- `BridgeTelemetry`: `Chain` orders the label, the wire, the publisher's message,
  the queue and the frame counter, pairwise between neighbours; `Offering` says
  where the newest detection is while an offer is in its second or third step,
  and that the only producer finds room. `InOrderEndToEnd` then concatenates the
  pieces (`ConcatGrows`).
- `LatestQueue`: `RoomAfterDrop`, that the only producer finds room after its
  drop because everyone else only takes.
- `CpuLightTrack`: the invariant of `CpuNanoTrack`, whose handlers it has, is kept
  by its own frame step too (`LightStepIInv`). `BoxInv` says that a centre that is NaN
  has a size that is NaN in the same axis: a coordinate becomes NaN only between two
  opposite infinities, whose distance is infinite (`InfiniteBox`), and an infinite
  extent makes the learning rate zero and the size NaN (`StepBox`). The crop, which
  refuses a NaN size, therefore refuses both (`AcceptedFinite`).
- `BridgeCommands`: `CommandChain` numbers the commands from the last one applied over
  the one being applied, the queue and the one being offered to the wire, each
  group below the next. `Setting` says that the thresholds are a prefix of the
  command being applied before a suffix of the last one applied: with `CommandChain`,
  each `set_property` raises a threshold (`CommandsForward`), and what a frame reads
  lies between `floor` and `Newest`. `CommandOffering` is needed to rule out the step
  in which an offer is refused, which would lose the newest command.
- `BridgeLifecycle`: three functions of the position of `main`: which sockets are
  open, which threads were started and not joined, whether the pipeline plays
  (`SocketsByPosition`, `ThreadsByPosition`, `PlayingByPosition`). The statements
  of the finally blocks rely on what the ones before them left, on each of the
  paths that lead there. It needs the threads' own positions only where `main`
  joins them.
- `BenchmarkApp`: `StatisticsTimed` and `RoiMeansTracking` are inductive with the
  types. The first needs its second conjunct, that what is taken for paused is paused:
  an ROI may be drawn only then, and no video plays that is not timed.
  `StaleResultsBounded` is not: it needs `OldInFlight`, that a result in place i of
  the appsink which is of an earlier ROI leaves room for i more in the bound, because
  old results are ahead of new ones.
- `Capstone`: every buffer on the way to the printer has the number that follows
  from its place: those printed come first, then the sample, the queue, the buffer
  of the source. EOS counts as the buffer after the last, so that nothing follows
  it and the sample before it is printed when it arrives. The refinement of
  `FramePrinter` then has one step to show for each of its two actions: the sample
  is the printer's next frame, and `ending` is set once, by a message that comes
  after the last line.

`InitIInv`, `StepIInv` and `IInv => property` give the invariants (in
`RknnYoloDetectProofs` one lemma per part: `StepTypes`, `StepContext`, `StepFrame`,
`StepInput`, `StepNms`). The
refinement is proved by `InitContract` and `StepContract`, one step per action,
each naming the contract's action it maps to; `StepContract` uses `IInv`,
because only a fresh template makes `Track` a `Follow` of the contract.
`LostStaysLost` and `LightFollowsFinite` are action properties, proved from an
invariant that links history, or the arithmetic, to the state (`SeenTrue`, `BoxInv`).

`BridgeProofs` and `ApplicationProofs` have, for each of their specifications, one
lemma for the initial states, one per action or group of actions, and one for the
step. `MainGoesOn` numbers the statements of main() (`Order`) and adds 20 once the
stop event is set (`Place`), because the statements of stop() may run twice, for a
failed start and in the finally block: each step of main() then raises `Place`,
which is bounded, so what `MainExits` adds is only that the thread is scheduled.

**Only model-checked:** liveness (`VideoNeverBlocked`, `NewestReceivedApplied`,
`MainExits`, `ThreadsEnd` and `EndsWithAllPrinted`), which rests on fairness and hence
on ENABLED; and the violated `CommandThreadNeverCrashes`. Every other property of the
runs is stated by a theorem.

## 5. Findings

`bridge_lifecycle_command`: `transport.py:90` reads `self.command_socket` again after
the check at line 86, while `stop()` sets it to `None` at line 66. TLC's trace: the
poll at 82 returns while `running` is set, `stop()` clears it (62) and closes the
socket (65), the loop finds the attribute still set (86), `stop()` sets it to `None`,
and `recv` is called on `None`. The exception is one the loop does not catch, and the
thread ends with a traceback on an otherwise clean stop. The use at 78 is harmless:
`stop()` clears `running` first, and the loop looks at it (80) before it polls what
was registered. `src/docs/bridge_project/requirements.md:147` asks for a clean one.

Remarks that follow from the models and have no run of their own:

- `gstcpulighttrack.cpp:152` rejects a non-finite score and a box without area. An
  infinite coordinate gets through and may make the size NaN at lines 165-166, and
  that frame is published as tracked. The crop of the next frame refuses it. It would
  not refuse a centre that is NaN alone; that there is none depends on the
  multiplication by a learning rate of zero (`NonFiniteNeverFollowed`). `cpunanotrack`,
  whose contract the file says it mirrors (`gstcpulighttrack.cpp:1`), fails the frame
  itself.
- `run_bridge.py:87` joins the publisher thread, which was not started if
  `transport.start()` failed. The `RuntimeError` of `join` replaces the error that
  says why (`"join_error"` in `BridgeLifecycle`).
- In the benchmark, with a detector loaded, a tracker chosen in the combobox and
  the video paused, the key `r` draws an ROI and sets a property the detector does
  not have. The `TypeError` leaves `tick` before it arms itself again
  (`run_cpunanotracker_benchmark.py:422-429`): `loop` is "dead", no sample is shown
  and an end of stream is never reported. From the button the same exception is
  printed and nothing else happens. No property covers this.
- An error of OpenCV is in none of the benchmark's except clauses. From `show_frame`
  (`run_cpunanotracker_benchmark.py:332-367`) it ends the tick in the same way; from
  `load_source` (303-304) it leaves a pipeline that is paused while `paused` is False,
  so that the play button has to be pressed twice (`LoadRaises`).
- The same guards let a tracker's ROI be drawn for another tracker than the one
  in the combobox; it goes to the loaded element, as `RoiMeansTracking` says.
- After an ROI was drawn again while paused, up to two results of the old one are
  counted into the new statistics (`StaleResultsBounded` is tight).
- A frame so wide or so tall that its other side rounds to nothing ends
  `yolodetect` with an error (`Resizable`): `cv::resize` refuses an empty size.
- A frame on which `cpulktracker` loses its target is published with confidence
  0, the value also used for later lost frames.
- An interrupt between `set_state(PLAYING)` (`pipeline.py:87`) and the `try`
  that follows leaves the pipeline playing; `PipelineStoppedAtExit` excludes it
  by name. The capstone has the same gap (`run_capstone.py:116-118`): there the
  interrupt ends the process (`InterruptUncaught`).
- A thresholds command may be dropped by a full queue in favour of later
  `enable` commands. `NewestReceivedApplied` promises that the newest command is
  applied, not the newest of each kind.
- Because the detection queue keeps the newest, fewer messages may be published
  than the one per sample of `src/docs/bridge_project/requirements.md:203`.
- With thresholds that match the background, `reddetect` reports the whole frame as
  the box, in every frame (`WholeFrame` in `Capstone`).

## 6. Not modelled

- The arithmetic of scores, quantization, DFL decoding and intersection over
  union; images, colours and inference. Box arithmetic is modelled for
  `yolodetect` and the moving box, and there exactly: rounding errors of floats,
  and NaN or negative extents that a network might produce, are left out.
- Data races on strings: `model-path` of `rknnyolodetect`
  (`rknnyolodetect.cpp:548`) and of `yolodetect` (`yolodetect.cpp:274`) being
  replaced while start() reads it; the property is declared mutable in READY
  only, which GObject does not enforce. start() is one step.
- What libzmq does when a socket is closed under a poll: the model lets the call
  return or raise.
- get_property, logging, the widgets of the GUI, the drawing and the averages of
  the benchmark.
- The posting of error messages while the mutex is held (`gstcpunanotrack.cpp:303`):
  a synchronous bus handler that reads a property would wait for itself. No
  application of the repository has one.
- A second activation of `colorboxsrc`, whose counter is not reset: no application
  of the repository plays one twice.
- `metaattach`, `metaprint`, `is_livesrc` and the tutorial filters and sources:
  each treats a frame on one thread without regard to any other but for a counter.
- The `except Exception` of `drain_commands` (`pipeline.py:104-117`): `decode_command`
  (`messages.py:127-139`) lets through only values that the detector's properties
  accept, so that nothing there throws.
- `src/yolodetect.cpp`, an older copy of `src/yolodetect/yolodetect.cpp` that no build
  file names.
- The demos under `radxa/`, `onnx/` and `demos/`: single-threaded programs that
  show the algorithms the elements were made from. The vendored ONNX Runtime
  headers, which are most of the lines of the tree.

## 7. Plan

Done, in this order: `TrackerContract`, `TrackerPad`, `CpuNanoTrack` and its
proofs; the other trackers as refinements of the same contract; `LatestQueue`
and the three modules of the bridge; `RknnYoloDetect`; `RknnMemory`, `RgaCrop` and
`RknnTracker`; `BenchmarkApp`; `MovingBox` and `Capstone`; `Letterbox` and
`YoloDetect`; the proofs of the last detector, of `RknnTracker` and of
`BridgeTelemetry`; those of `CpuLightTrack`, `BridgeCommands` and the applications; `FramePrinter`.

What could follow:

1. The measures behind the other liveness properties, as `MainGoesOn` is the one
   behind `MainExits`: for instance that an offer ends after at most two more steps
   of its producer.
2. An abstract specification for the commands of the bridge (a register that only
   moves forward), which the detailed one implements.
3. The boxes of `cpunanotrack` and `rknnnanotrack` by the class of their floats, as
   those of `cpulighttrack` are.
