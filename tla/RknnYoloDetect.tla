--------------------------- MODULE RknnYoloDetect ---------------------------
(***************************************************************************)
(* The rknnyolodetect element (src/rknnyolodetect/rknnyolodetect.cpp).     *)
(*                                                                         *)
(* It has no lock: an application thread may assign a property between any *)
(* two steps, so start and transform_ip are one action per call of the RGA *)
(* or the NPU, and one per catch block.  GstBaseTransform, external, calls *)
(* start before and stop after the frames, and set_caps between them.      *)
(*                                                                         *)
(* The 640x640 input of the model is a set of areas.  A frame, scaled,     *)
(* covers some of them, according to its size, and the others are padding. *)
(***************************************************************************)
EXTENDS Integers, NonMaxSuppression

CONSTANTS
    Sizes, NoSize,  \* frame sizes, and the size before any caps
    Areas,          \* parts of the model's input
    Covers          \* Covers[s]: the areas a frame of size s is scaled to

ASSUME AreaAssumption ==
    /\ NoSize \notin Sizes
    /\ Covers \in [Sizes -> SUBSET Areas]

VARIABLES
    model_path,     \* whether the property is set
    confidence_threshold, iou_threshold,
    video_info,
    runtime,        \* whether self->runtime is there
    use_rga, context_, source_rgb, model_input, \* RknnRuntime's fields;
                    \* context_: whether it is not 0
    step,           \* where start or transform_ip is
    direct,         \* use_mapped_frame: the RGA reads the frame, not a copy
    at_least,       \* the confidence threshold infer was called with
    mapped,         \* transform_ip's flag: the frame is to be unmapped
    contexts,       \* external: RKNN contexts initialised less those destroyed
    outputs,        \* external: RKNN outputs got less those released
    mappings        \* external: frames mapped less those unmapped

settings == <<model_path, confidence_threshold, iou_threshold>>
counts == <<contexts, outputs, mappings>>
resources == <<context_, mapped, counts>>
images == <<source_rgb, model_input>>
vars == <<settings, video_info, runtime, use_rga, images, step, direct,
          at_least, resources, nmsVars>>

Steps == {"idle", "init", "validate", "discard",
          "gather", "fill", "blit", "resize", "unmap",
          "run", "decode", "suppress", "infer_catch", "attach", "catch"}

\* What memory holds: zeros, padding, this frame, an earlier one, or a mixture.
Contents == {"zero", "gray", "this", "old", "torn"}

TypeOK ==
    /\ NmsTypeOK
    /\ model_path \in BOOLEAN
    /\ confidence_threshold \in Nat
    /\ iou_threshold \in Thresholds
    /\ video_info \in Sizes \cup {NoSize}
    /\ runtime \in BOOLEAN
    /\ use_rga \in BOOLEAN
    /\ source_rgb \in Contents
    /\ model_input \in [Areas -> Contents]
    /\ step \in Steps
    /\ direct \in BOOLEAN
    /\ at_least \in Nat
    /\ mapped \in BOOLEAN
    /\ context_ \in BOOLEAN
    /\ contexts \in Int /\ outputs \in Int /\ mappings \in Int

Init ==
    /\ NmsInit
    /\ model_path = FALSE
    /\ confidence_threshold = 0
    /\ iou_threshold \in Thresholds
    /\ video_info = NoSize
    /\ runtime = FALSE
    /\ use_rga = FALSE
    /\ source_rgb = "zero"
    /\ model_input = [a \in Areas |-> "zero"]
    /\ step = "idle"
    /\ direct = FALSE
    /\ at_least = 0
    /\ mapped = FALSE
    /\ context_ = FALSE
    /\ contexts = 0 /\ outputs = 0 /\ mappings = 0

-----------------------------------------------------------------------------
(* set_property, on an application thread, at any time.  A confidence      *)
(* threshold, quantized, only matters by where it falls among the scores.  *)

SetProperty ==
    /\ \/ model_path' \in BOOLEAN
          /\ UNCHANGED <<confidence_threshold, iou_threshold>>
       \/ confidence_threshold' \in {Score[b] : b \in Boxes}
          /\ UNCHANGED <<model_path, iou_threshold>>
       \/ iou_threshold' \in Thresholds
          /\ UNCHANGED <<model_path, confidence_threshold>>
    /\ UNCHANGED <<video_info, runtime, use_rga, images, step, direct,
                   at_least, resources, nmsVars>>

-----------------------------------------------------------------------------
(* start, stop and set_caps, which no frame overlaps.                      *)

Goto(from, to) == step = from /\ step' = to

\* No model-path, or new RknnRuntime begins, with its fields' initializers.
Start ==
    /\ ~runtime
    /\ \/ ~model_path /\ Goto("idle", "idle") /\ UNCHANGED <<use_rga, images>>
       \/ /\ model_path /\ Goto("idle", "init")
          /\ use_rga' = TRUE
          /\ source_rgb' = "zero"
          /\ model_input' = [a \in Areas |-> "zero"]
    /\ UNCHANGED <<settings, video_info, runtime, direct, at_least, resources, nmsVars>>

\* The file cannot be read or rknn_init fails, or there is a context.
InitContext ==
    /\ \/ Goto("init", "idle") /\ UNCHANGED <<contexts, context_>>
       \/ Goto("init", "validate") /\ contexts' = contexts + 1 /\ context_' = TRUE
    /\ UNCHANGED <<settings, video_info, runtime, use_rga, images, direct, at_least,
                   mapped, outputs, mappings, nmsVars>>

\* validate_model accepts the model and the constructor ends, or throws, at
\* any of its queries, into the constructor's catch block.
ValidateModel ==
    /\ \/ Goto("validate", "idle") /\ runtime' = TRUE
       \/ Goto("validate", "discard") /\ UNCHANGED runtime
    /\ UNCHANGED <<settings, video_info, use_rga, images, direct, at_least,
                   resources, nmsVars>>

\* That block, which throws on into start's: there is no runtime.
DiscardContext ==
    /\ Goto("discard", "idle")
    /\ contexts' = contexts - 1
    /\ context_' = FALSE
    /\ UNCHANGED <<settings, video_info, runtime, use_rga, images, direct, at_least,
                   mapped, outputs, mappings, nmsVars>>

\* delete runtime: the destructor destroys the context there is.
Stop ==
    /\ step = "idle" /\ runtime
    /\ runtime' = FALSE
    /\ contexts' = IF context_ THEN contexts - 1 ELSE contexts
    /\ context_' = FALSE
    /\ UNCHANGED <<settings, video_info, use_rga, images, step, direct,
                   at_least, mapped, outputs, mappings, nmsVars>>

SetCaps(s) ==
    /\ step = "idle" /\ runtime
    /\ video_info' = s
    /\ UNCHANGED <<settings, runtime, use_rga, images, step, direct, at_least,
                   resources, nmsVars>>

-----------------------------------------------------------------------------
(* transform_ip, on the streaming thread: preprocess.                      *)

Aged(content) == IF content = "this" THEN "old" ELSE content

\* A step that fails may have written some of the input.
SpoilInput ==
    \E some \in SUBSET Areas :
        model_input' = [a \in Areas |-> IF a \in some THEN "torn" ELSE model_input[a]]

\* The frame is mapped.  One that cannot be mapped ends here.
MapFrame ==
    /\ runtime /\ video_info # NoSize
    /\ Goto("idle", "gather")
    /\ mapped' = TRUE
    /\ mappings' = mappings + 1
    /\ source_rgb' = Aged(source_rgb)
    /\ model_input' = [a \in Areas |-> Aged(model_input[a])]
    /\ UNCHANGED <<settings, video_info, runtime, use_rga, direct, at_least,
                   context_, contexts, outputs, nmsVars>>

\* A frame whose rows the RGA cannot read in place is copied.
Gather ==
    /\ Goto("gather", IF use_rga THEN "fill" ELSE "resize")
    /\ direct' \in BOOLEAN
    /\ source_rgb' = IF use_rga /\ ~direct' THEN "this" ELSE source_rgb
    /\ UNCHANGED <<settings, video_info, runtime, use_rga, model_input, at_least,
                   resources, nmsVars>>

\* imfill paints all of the input, or fails half way.
Fill ==
    /\ \/ /\ Goto("fill", "blit")
          /\ model_input' = [a \in Areas |-> "gray"]
          /\ UNCHANGED use_rga
       \/ /\ Goto("fill", "resize")
          /\ SpoilInput
          /\ use_rga' = FALSE
    /\ UNCHANGED <<settings, video_info, runtime, source_rgb, direct, at_least,
                   resources, nmsVars>>

\* improcess scales the frame, or its copy, or fails half way.
Blit ==
    /\ \/ /\ Goto("blit", "unmap")
          /\ model_input' = [a \in Areas |->
                IF a \notin Covers[video_info] THEN model_input[a]
                ELSE IF direct THEN "this" ELSE source_rgb]
          /\ UNCHANGED use_rga
       \/ /\ Goto("blit", "resize")
          /\ SpoilInput
          /\ use_rga' = FALSE
    /\ UNCHANGED <<settings, video_info, runtime, source_rgb, direct, at_least,
                   resources, nmsVars>>

\* Mutant: only the region of the frame is written.
ResizeRegionOnly ==
    /\ Goto("resize", "unmap")
    /\ model_input' = [a \in Areas |->
          IF a \in Covers[video_info] THEN "this" ELSE model_input[a]]
    /\ UNCHANGED <<settings, video_info, runtime, use_rga, source_rgb, direct,
                   at_least, resources, nmsVars>>

\* The CPU overwrites the whole input.
Resize ==
    /\ Goto("resize", "unmap")
    /\ model_input' = [a \in Areas |->
          IF a \in Covers[video_info] THEN "this" ELSE "gray"]
    /\ UNCHANGED <<settings, video_info, runtime, use_rga, source_rgb, direct,
                   at_least, resources, nmsVars>>

Unmap ==
    /\ Goto("unmap", "run")
    /\ mappings' = mappings - 1
    /\ mapped' = FALSE
    /\ UNCHANGED <<settings, video_info, runtime, use_rga, images, direct, at_least,
                   context_, contexts, outputs, nmsVars>>

-----------------------------------------------------------------------------
(* transform_ip: infer, decode and the metadata.                           *)

\* infer is called with the thresholds of this moment.
Run ==
    /\ Goto("run", "decode")
    /\ outputs' = outputs + 1
    /\ at_least' = confidence_threshold
    /\ judged_by' = iou_threshold
    /\ NmsBegin({})
    /\ UNCHANGED <<settings, video_info, runtime, use_rga, images, direct,
                   context_, mapped, contexts, mappings>>

\* The network finds any boxes; those below the threshold are passed over.
Select ==
    /\ Goto("decode", "suppress")
    /\ \E boxes \in SUBSET {b \in Boxes : Score[b] >= at_least} : NmsBegin(boxes)
    /\ UNCHANGED <<settings, video_info, runtime, use_rga, images, direct,
                   at_least, resources, judged_by>>

\* Mutant: boxes are compared by the threshold of the property.
ConsiderByProperty(b) ==
    /\ step = "suppress"
    /\ b \in pending
    /\ \A c \in pending : Score[c] <= Score[b]
    /\ pending' = pending \ {b}
    /\ detections' = IF \E c \in detections : Suppresses(c, b, iou_threshold)
                     THEN detections
                     ELSE detections \cup {b}
    /\ UNCHANGED <<candidates, judged_by, settings, video_info, runtime, use_rga,
                   images, step, direct, at_least, resources>>

Suppress(b) ==
    /\ step = "suppress"
    /\ Consider(b)
    /\ UNCHANGED <<settings, video_info, runtime, use_rga, images, step, direct,
                   at_least, resources>>

Release ==
    /\ Goto("suppress", "attach")
    /\ pending = {}
    /\ outputs' = outputs - 1
    /\ UNCHANGED <<settings, video_info, runtime, use_rga, images, direct, at_least,
                   context_, mapped, contexts, mappings, nmsVars>>

\* What was local to the frame is gone.
EndFrame ==
    /\ step' = "idle"
    /\ direct' = FALSE
    /\ at_least' = 0
    /\ mapped' = FALSE
    /\ NmsBegin({})
    /\ UNCHANGED <<settings, video_info, runtime, use_rga, images, context_, contexts,
                   outputs, judged_by>>

\* The metadata is attached, and the frame is done.
Attach ==
    /\ step = "attach"
    /\ EndFrame
    /\ UNCHANGED mappings

-----------------------------------------------------------------------------
(* transform_ip: what throws, and the two catch blocks.                    *)

\* Where a call may throw: the frame's dimensions are refused, OpenCV, the NPU
\* or the memory fails, or a box cannot be attached.
Throwing == {"gather", "resize", "run", "decode", "suppress", "attach"}

\* The blocks left by the exception take their vectors with them.
Unwind ==
    /\ NmsBegin({})
    /\ IF step = "resize" THEN SpoilInput ELSE UNCHANGED model_input
    /\ UNCHANGED <<settings, video_info, runtime, use_rga, source_rgb, direct,
                   at_least, resources, judged_by>>

\* Mutant: decode is called outside of infer's try block.
ThrowPastInfer ==
    /\ step \in Throwing
    /\ step' = "catch"
    /\ Unwind

\* Only decode's exceptions are caught by infer.
Throw ==
    /\ step \in Throwing
    /\ step' = IF step \in {"decode", "suppress"} THEN "infer_catch" ELSE "catch"
    /\ Unwind

InferCatch ==
    /\ Goto("infer_catch", "catch")
    /\ outputs' = outputs - 1
    /\ UNCHANGED <<settings, video_info, runtime, use_rga, images, direct, at_least,
                   context_, mapped, contexts, mappings, nmsVars>>

Catch ==
    /\ step = "catch"
    /\ mappings' = IF mapped THEN mappings - 1 ELSE mappings
    /\ EndFrame

-----------------------------------------------------------------------------
TransformIp == \/ MapFrame \/ Gather \/ Fill \/ Blit \/ Resize \/ Unmap
               \/ Run \/ Select \/ (\E b \in Boxes : Suppress(b)) \/ Release \/ Attach
               \/ Throw \/ InferCatch \/ Catch

Next == \/ SetProperty
        \/ Start \/ InitContext \/ ValidateModel \/ DiscardContext \/ Stop
        \/ \E s \in Sizes : SetCaps(s)
        \/ TransformIp

Spec == Init /\ [][Next]_vars

-----------------------------------------------------------------------------
(***************************************************************************)
(* Properties                                                              *)
(***************************************************************************)

\* The input is this frame and its padding.
InputReady ==
    \A a \in Areas : model_input[a] = IF a \in Covers[video_info] THEN "this" ELSE "gray"

\* The network runs on this frame, padded, and on nothing else: not on a part
\* of an earlier frame of another size, on a copy of one, or on what a failed
\* RGA call left behind.
InputOfThisFrame == step = "run" => InputReady

\* Between frames and starts, by whatever call and catch block the last one
\* ended, the element holds one context if it has a runtime, and no outputs or
\* mapping; at no time is anything released that is not held, or held twice.
ResourcesReleased ==
    /\ step = "idle" => /\ contexts = IF runtime THEN 1 ELSE 0
                        /\ outputs = 0
                        /\ mappings = 0
    /\ contexts \in 0..1 /\ outputs \in 0..1 /\ mappings \in 0..1

\* The boxes attached to a frame are a correct choice of its candidates.
BoxesSuppressed == NmsCorrect

-----------------------------------------------------------------------------
\* The code's flags tell what is held, and so does the step, for the outputs.
ContextByFlag ==
    /\ contexts = IF context_ THEN 1 ELSE 0
    /\ context_ <=> runtime \/ step \in {"validate", "discard"}
    /\ step \in {"init", "validate", "discard"} => ~runtime

FrameByFlag ==
    /\ mappings = IF mapped THEN 1 ELSE 0
    /\ step \in {"gather", "fill", "blit", "resize", "unmap"} => mapped
    /\ mapped => step \in {"gather", "fill", "blit", "resize", "unmap", "catch"}
    /\ outputs = IF step \in {"decode", "suppress", "infer_catch"} THEN 1 ELSE 0

\* What the RGA has done of this frame's input so far.
InputInTheMaking ==
    /\ step \in {"fill", "blit"} /\ ~direct => source_rgb = "this"
    /\ step = "blit" => \A a \in Areas : model_input[a] = "gray"
    /\ step = "unmap" => InputReady
    /\ step \notin {"idle", "init", "validate", "discard"} => video_info \in Sizes

\* The inductive invariant of the input.
InputInv == InputInTheMaking /\ InputOfThisFrame
=============================================================================
