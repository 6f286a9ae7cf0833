---------------------------- MODULE RknnTracker ----------------------------
(***************************************************************************)
(* rknnnanotrack with the inside of a frame: the element of RknnNanoTrack, *)
(* the memories of RknnMemory and the crop of RgaCrop.  A frame or a stop  *)
(* that RknnNanoTrack takes in one step is here one step per call of the   *)
(* RKNN runtime or the RGA.  The mutex is held meanwhile, so that every    *)
(* other handler waits, but the CPU's cache does not.                      *)
(***************************************************************************)
EXTENDS RknnNanoTrack, RknnMemory, RgaCrop

VARIABLES
    step,       \* what the holder of the mutex does next
    gap,        \* the buffer in progress has the DISCONT flag
    features    \* the template that template_feature was computed from

handlerVars == <<padVars, elementVars, out>>
frameVars == <<memoryVars, image, use_rga, step, gap, features>>
allVars == <<handlerVars, frameVars>>

\* With a Tracker, in transform_ip.
FrameSteps == {"crop", "resize", "invalidate", "write", "flush", "run", "head", "done"}

Steps == {"idle", "build", "unwind", "stop"} \cup FrameSteps

FrameTypeOK ==
    /\ TypeOK
    /\ MemoryTypeOK
    /\ CropTypeOK
    /\ step \in Steps
    /\ gap \in BOOLEAN
    /\ features \in Template \cup {NoTemplate}

TrackerInit ==
    /\ Init
    /\ MemoryInit
    /\ image = NoImages
    /\ use_rga = FALSE
    /\ step = "idle"
    /\ gap = FALSE
    /\ features = NoTemplate

\* initialize() or track(), and the buffer it fills.
Capturing == reset \/ gap
Buffer == IF Capturing THEN "template" ELSE "search"

Goto(from, to) == step = from /\ step' = to

-----------------------------------------------------------------------------
(* Handlers that neither make nor use the Tracker.                         *)

\* A frame that fails before it needs the Tracker: it cannot be mapped, has
\* no proper dimensions, or the ROI does not fit.
FrameRefused(discont) == FrameFails(discont) /\ UNCHANGED <<tracker, template>>

ShortHandler ==
    /\ step = "idle"
    /\ \/ \E b \in BOOLEAN : SetEnabled(b)
       \/ \E r \in Rois : SetRoi(r)
       \/ OneSetting
       \/ Start
       \/ StartFails
       \/ tracker = NoTracker /\ Stop
       \/ \E s \in Sizes : SetCaps(s)
       \/ RefuseCaps
       \/ \E event \in Events : SinkEvent(event)
       \/ /\ PadBuffer
          /\ \E discont \in BOOLEAN : Bypass(discont) \/ FrameRefused(discont)
          /\ UNCHANGED <<enabled, started, roi, settings, info>>
    /\ UNCHANGED frameVars

-----------------------------------------------------------------------------
(* transform_ip up to the crop.                                            *)

FrameBegins(discont) ==
    /\ step = "idle"
    /\ PadBuffer
    /\ enabled
    /\ reset \/ discont => info \in FitsIn[roi]
    /\ gap' = discont
    /\ step' = IF tracker = NoTracker THEN "build" ELSE "crop"
    /\ UNCHANGED <<elementVars, out, memoryVars, image, use_rga, features>>

\* The Tracker's constructor.
Construct ==
    /\ step = "build"
    /\ models_dir # NoDir
    /\ precision \in ValidPrecisions
    /\ \/ \E m \in Models : Load(m) \/ Query(m)
       \/ \E o \in Memories : CreateMemory(o) \/ Bind(o)
       \/ Own
    /\ UNCHANGED <<handlerVars, image, use_rga, step, gap, features>>

\* One of its calls fails, or a name does, and what was made is to be undone.
ConstructFails ==
    /\ Goto("build", "unwind")
    /\ (\E m \in Models : QueryFails(m)) \/ OwnFails \/ ElseFails
    /\ UNCHANGED <<handlerVars, image, use_rga, gap, features>>

Constructed ==
    /\ Goto("build", "crop")
    /\ AllMade
    /\ made' = 0
    /\ image' = Cleared
    /\ use_rga' = (resize = "auto")
    /\ UNCHANGED <<handlerVars, live, ctx, owned, held, built, gap, features>>

\* ~Tracker, or what is destroyed of a Tracker whose constructor throws.
Destruct ==
    /\ step \in {"unwind", "stop"}
    /\ (\E o \in Memories : ReleaseMemory(o)) \/ (\E m \in Models : ReleaseContext(m))
    /\ UNCHANGED <<handlerVars, image, use_rga, step, gap, features>>

StopBegins ==
    /\ Goto("idle", "stop")
    /\ stage # "inactive"
    /\ tracker # NoTracker
    /\ UNCHANGED <<handlerVars, memoryVars, image, use_rga, gap, features>>

\* No member is left to destroy, and the rest of stop runs.
Stopped ==
    /\ Goto("stop", "idle")
    /\ built = {}
    /\ Stop
    /\ image' = NoImages
    /\ use_rga' = FALSE
    /\ features' = NoTemplate
    /\ UNCHANGED <<memoryVars, gap>>

-----------------------------------------------------------------------------
(* crop: the RGA scales into the buffer, else the CPU does.                *)

CropBegins ==
    /\ step = "crop"
    /\ \/ ~use_rga /\ step' = "invalidate" /\ UNCHANGED <<image, use_rga>>
       \/ use_rga /\ step' = "invalidate" /\ RgaImportFails
       \/ use_rga /\ step' = "resize" /\ SyncBeforeRga(Buffer)
    /\ UNCHANGED <<handlerVars, memoryVars, gap, features>>

Resize ==
    /\ step = "resize"
    /\ \/ step' = "run" /\ RgaWrites(Buffer)
       \/ step' = "invalidate" /\ RgaFails(Buffer)
    /\ UNCHANGED <<handlerVars, memoryVars, gap, features>>

CpuCrop ==
    /\ \/ Goto("invalidate", "write") /\ SyncBeforeCpu(Buffer)
       \/ Goto("write", "flush") /\ CpuWrites(Buffer, "this")
       \/ Goto("flush", "run") /\ SyncAfterCpu(Buffer)
    /\ UNCHANGED <<handlerVars, memoryVars, gap, features>>

-----------------------------------------------------------------------------
(* The networks, and the end of the frame.                                 *)

\* Mutant: a capture keeps the features that the head already has.
RunKeepsFeatures ==
    /\ step = "run"
    /\ step' = IF Capturing THEN "done" ELSE "head"
    /\ features' = IF Capturing /\ features = NoTemplate THEN [roi |-> roi, size |-> info]
                   ELSE features
    /\ UNCHANGED <<handlerVars, memoryVars, image, use_rga, gap>>

Run ==
    /\ step = "run"
    /\ step' = IF Capturing THEN "done" ELSE "head"
    /\ features' = IF Capturing THEN [roi |-> roi, size |-> info] ELSE features
    /\ UNCHANGED <<handlerVars, memoryVars, image, use_rga, gap>>

\* The head runs, and its outputs are decoded.
RunHead ==
    /\ Goto("head", "done")
    /\ UNCHANGED <<handlerVars, memoryVars, image, use_rga, gap, features>>

\* The result becomes metadata, or that fails.
FrameEnds ==
    /\ Goto("done", "idle")
    /\ PadBuffer
    /\ Capture(gap) \/ Track(gap)
    /\ image' = Aged(image)
    /\ UNCHANGED <<enabled, started, roi, settings, info, memoryVars, use_rga, gap, features>>

\* The crop size, a sync, the scaling, a network or a value it returns fails.
\* The Tracker is there, and in a capture it has begun to forget the template.
CallFails ==
    /\ step \in {"crop", "invalidate", "write", "flush", "run", "head"}
    /\ step' = "idle"
    /\ PadBuffer
    /\ FrameFails(gap)
    /\ tracker' # NoTracker
    /\ template' = IF Capturing THEN NoTemplate ELSE template
    /\ \E after \in {Aged(image), Aged([image EXCEPT ![Buffer].dirty = "other"])} :
          /\ after # Aged(image) => step = "write"
          /\ image' = after
    /\ features' \in IF step = "run" /\ Capturing THEN {features, NoTemplate} ELSE {features}
    /\ UNCHANGED <<enabled, started, roi, settings, info, memoryVars, use_rga, gap>>

\* The Tracker could not be made, and no member of it is left.
BuildFailed ==
    /\ Goto("unwind", "idle")
    /\ built = {}
    /\ PadBuffer
    /\ FrameRefused(gap)
    /\ UNCHANGED <<enabled, started, roi, settings, info, memoryVars, image, use_rga, gap, features>>

\* The cache of the CPU, whoever runs.
CacheWritesBack ==
    /\ \E b \in Buffers : WriteBack(b)
    /\ UNCHANGED <<handlerVars, memoryVars, step, gap, features>>

-----------------------------------------------------------------------------
TrackerNext ==
    \/ ShortHandler
    \/ \E discont \in BOOLEAN : FrameBegins(discont)
    \/ Construct
    \/ ConstructFails
    \/ Constructed
    \/ Destruct
    \/ StopBegins
    \/ Stopped
    \/ CropBegins
    \/ Resize
    \/ CpuCrop
    \/ Run
    \/ RunHead
    \/ FrameEnds
    \/ CallFails
    \/ BuildFailed
    \/ CacheWritesBack

TrackerSpec == TrackerInit /\ [][TrackerNext]_allVars

-----------------------------------------------------------------------------
(***************************************************************************)
(* Properties                                                              *)
(***************************************************************************)

\* The contexts and memories exist exactly as long as the Tracker, whichever
\* call of its constructor failed (Model:90, Tracker:200, stop:424).
NothingLeaked ==
    step = "idle" => live = IF tracker = NoTracker THEN {} ELSE Objects

\* When a network runs, the NPU reads this frame's crop and no other pixel,
\* and the cache can no longer overwrite it, whatever failed before (crop:312).
ImageOfThisFrame ==
    step = "run" => image[Buffer] = [device |-> "this", dirty |-> "none"]

\* The head compares with the features of the template whose box is followed,
\* although a failed capture changes the box and keeps the features
\* (initialize:233, import:219).
HeadMatchesTemplate ==
    step = "head" => features = template /\ template = [roi |-> roi, size |-> info]

-----------------------------------------------------------------------------
\* The inductive invariants.  What is held while the Tracker is made,
Building ==
    /\ built = {m \in Models : Creation[m] <= made}
    /\ built \subseteq ctx
    /\ \A m \in ctx \ built : Due(m) /\ held = NoMemory
    /\ {o \in Memories : Creation[o] <= made} \subseteq owned
    /\ \A o \in owned : Creation[o] <= made \/ (Due(o) /\ held = NoMemory)
    /\ held # NoMemory => Due(held) /\ held \notin owned

\* while it is destroyed,
Dismantling ==
    /\ ctx = built
    /\ held = NoMemory
    /\ \A o \in owned : Owner[o] \in built
    /\ \A o \in owned \cap DOMAIN Source : Source[o] \in owned

\* and with a Tracker and without one:
Complete == ctx = Models /\ built = Models /\ owned = Memories /\ held = NoMemory
Bare == ctx = {} /\ built = {} /\ owned = {} /\ held = NoMemory

\* by where the holder of the mutex is.  Nothing exists that no field knows.
Holding ==
    /\ live = ctx \cup owned \cup ({held} \ {NoMemory})
    /\ step = "build" => Building
    /\ step # "build" => made = 0
    /\ step \in {"unwind", "stop"} => Dismantling
    /\ step \in {"build", "unwind"} => tracker = NoTracker
    /\ step \in FrameSteps => Complete
    /\ step = "idle" => IF tracker = NoTracker THEN Bare ELSE Complete

\* what the crop has done to the buffer so far:
ImageInTheMaking ==
    /\ step \in {"resize", "write"} => image[Buffer].dirty = "none"
    /\ step = "flush" => \/ image[Buffer].dirty = "this"
                         \/ image[Buffer] = [device |-> "this", dirty |-> "none"]
    /\ ImageOfThisFrame

\* and which template the features are of.
FeaturesFollow ==
    /\ ~reset => features = template
    /\ step = "head" => ~Capturing
    /\ step = "done" /\ Capturing => features = [roi |-> roi, size |-> info]
=============================================================================
