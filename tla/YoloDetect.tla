----------------------------- MODULE YoloDetect -----------------------------
(***************************************************************************)
(* The yolodetect element (src/yolodetect/yolodetect.cpp): ONNX Runtime on *)
(* the CPU.                                                                *)
(*                                                                         *)
(* It has no lock: an application thread may assign a property between any *)
(* two steps of a frame.  GstBaseTransform, which is external, calls start *)
(* before and stop after the frames, set_caps between them, and pushes a   *)
(* buffer on only if transform_ip returned GST_FLOW_OK.                    *)
(***************************************************************************)
EXTENDS NonMaxSuppression, Letterbox, Sequences

CONSTANTS
    Sizes, NoSize,  \* frame sizes, and the size before any caps
    Place           \* where in the model's input the network sees each box

ASSUME PlaceAssumption ==
    /\ Sizes \subseteq Size
    /\ NoSize \notin Sizes
    /\ Place \in [Boxes -> NetworkBox]

VARIABLES
    model_path,     \* whether the property is set
    confidence_threshold, iou_threshold,
    video_info,
    runtime,        \* whether self->runtime is there
    step,           \* where transform_ip is
    at_least,       \* the confidence threshold postprocess was called with
    mapped,         \* the frame is mapped
    attached        \* the metadata of the buffer: roi->id is the place in it

settings == <<model_path, confidence_threshold, iou_threshold>>
vars == <<settings, video_info, runtime, step, at_least, mapped, attached, nmsVars>>

Steps == {"idle", "preprocess", "run", "decode", "suppress", "attach", "deliver"}

TypeOK ==
    /\ NmsTypeOK
    /\ model_path \in BOOLEAN
    /\ confidence_threshold \in Nat
    /\ iou_threshold \in Thresholds
    /\ video_info \in Sizes \cup {NoSize}
    /\ runtime \in BOOLEAN
    /\ step \in Steps
    /\ at_least \in Nat
    /\ mapped \in BOOLEAN
    /\ attached \in Seq(Boxes)

Init ==
    /\ NmsInit
    /\ model_path = FALSE
    /\ confidence_threshold = 0
    /\ iou_threshold \in Thresholds
    /\ video_info = NoSize
    /\ runtime = FALSE
    /\ step = "idle"
    /\ at_least = 0
    /\ mapped = FALSE
    /\ attached = <<>>

-----------------------------------------------------------------------------
(* set_property, on an application thread, at any time.                    *)

SetProperty ==
    /\ \/ model_path' \in BOOLEAN
          /\ UNCHANGED <<confidence_threshold, iou_threshold>>
       \/ confidence_threshold' \in {Score[b] : b \in Boxes}
          /\ UNCHANGED <<model_path, iou_threshold>>
       \/ iou_threshold' \in Thresholds
          /\ UNCHANGED <<model_path, confidence_threshold>>
    /\ UNCHANGED <<video_info, runtime, step, at_least, mapped, attached, nmsVars>>

-----------------------------------------------------------------------------
(* start, stop and set_caps, which no frame overlaps.                      *)

Start ==
    /\ step = "idle" /\ ~runtime
    /\ model_path
    /\ runtime' = TRUE
    /\ UNCHANGED <<settings, video_info, step, at_least, mapped, attached, nmsVars>>

\* No path, or no session, or a model of another shape: the constructor throws.
StartFails ==
    /\ step = "idle" /\ ~runtime
    /\ UNCHANGED vars

Stop ==
    /\ step = "idle" /\ runtime
    /\ runtime' = FALSE
    /\ UNCHANGED <<settings, video_info, step, at_least, mapped, attached, nmsVars>>

SetCaps(s) ==
    /\ step = "idle" /\ runtime
    /\ video_info' = s
    /\ UNCHANGED <<settings, runtime, step, at_least, mapped, attached, nmsVars>>

-----------------------------------------------------------------------------
(* transform_ip, on the streaming thread.                                  *)

Goto(from, to) == step = from /\ step' = to

\* The frame is mapped.  One that cannot be mapped ends here.
MapFrame ==
    /\ runtime /\ video_info # NoSize
    /\ Goto("idle", "preprocess")
    /\ mapped' = TRUE
    /\ UNCHANGED <<settings, video_info, runtime, at_least, attached, nmsVars>>

Preprocess ==
    /\ Goto("preprocess", "run")
    /\ Resizable(video_info)
    /\ mapped' = FALSE
    /\ UNCHANGED <<settings, video_info, runtime, at_least, attached, nmsVars>>

\* The session runs, and postprocess is called with the thresholds of then.
Run ==
    /\ Goto("run", "decode")
    /\ at_least' = confidence_threshold
    /\ judged_by' = iou_threshold
    /\ NmsBegin({})
    /\ UNCHANGED <<settings, video_info, runtime, mapped, attached>>

\* The network finds any boxes.  Those below the threshold are passed over, and
\* those with nothing on the frame.
Select ==
    /\ Goto("decode", "suppress")
    /\ \E boxes \in SUBSET {b \in Boxes : /\ Score[b] >= at_least
                                          /\ HasArea(SourceBox(Place[b], video_info))} :
           NmsBegin(boxes)
    /\ UNCHANGED <<settings, video_info, runtime, at_least, mapped, attached, judged_by>>

Suppress(b) ==
    /\ step = "suppress"
    /\ Consider(b)
    /\ UNCHANGED <<settings, video_info, runtime, step, at_least, mapped, attached>>

Suppressed ==
    /\ Goto("suppress", "attach")
    /\ pending = {}
    /\ UNCHANGED <<settings, video_info, runtime, at_least, mapped, attached, nmsVars>>

Carried == {attached[i] : i \in 1..Len(attached)}

\* The next of the vector: detections were kept by decreasing confidence.
NextToAttach(b) ==
    /\ b \in detections \ Carried
    /\ \A c \in detections \ Carried : Score[c] <= Score[b]

\* Mutant: a box whose metadata cannot be attached is passed over.
AttachOrSkip(b) ==
    /\ step = "attach"
    /\ NextToAttach(b)
    /\ \/ attached' = Append(attached, b) /\ UNCHANGED detections
       \/ detections' = detections \ {b} /\ UNCHANGED attached
    /\ UNCHANGED <<settings, video_info, runtime, step, at_least, mapped,
                   candidates, pending, judged_by>>

Attach(b) ==
    /\ step = "attach"
    /\ NextToAttach(b)
    /\ attached' = Append(attached, b)
    /\ UNCHANGED <<settings, video_info, runtime, step, at_least, mapped, nmsVars>>

Attached ==
    /\ Goto("attach", "deliver")
    /\ Carried = detections
    /\ UNCHANGED <<settings, video_info, runtime, at_least, mapped, attached, nmsVars>>

\* What was local to the frame is gone.
EndFrame ==
    /\ step' = "idle"
    /\ at_least' = 0
    /\ attached' = <<>>
    /\ mapped' = FALSE
    /\ NmsBegin({})
    /\ UNCHANGED <<settings, video_info, runtime, judged_by>>

Deliver == step = "deliver" /\ EndFrame

\* OpenCV, ONNX Runtime or the memory fail, at metadata half attached too: the
\* frame is unmapped if it was mapped and the buffer goes no further.
FrameFails == step \in {"preprocess", "run", "decode", "suppress", "attach"} /\ EndFrame

-----------------------------------------------------------------------------
TransformIp == \/ MapFrame \/ Preprocess \/ Run \/ Select
               \/ (\E b \in Boxes : Suppress(b) \/ Attach(b))
               \/ Suppressed \/ Attached \/ Deliver \/ FrameFails

Next == \/ SetProperty
        \/ Start \/ StartFails \/ Stop
        \/ \E s \in Sizes : SetCaps(s)
        \/ TransformIp

Spec == Init /\ [][Next]_vars

-----------------------------------------------------------------------------
(***************************************************************************)
(* Properties                                                              *)
(***************************************************************************)

\* The boxes attached to a buffer lie on its frame and are not empty, whatever
\* the padding and the rounding of a frame of that size did to them
\* (preprocess and to_source_box, 135-198, and the filter at 234).
BoxesInFrame ==
    step \in {"suppress", "attach", "deliver"} =>
        \A b \in detections : InFrame(SourceBox(Place[b], video_info), video_info)

\* What a buffer that is pushed on carries is all of a correct choice of its
\* candidates, each box once, by decreasing confidence, so that roi->id is its
\* rank; no matter that a threshold was assigned or metadata failed on the way
\* (postprocess 239-262, transform_ip 416-450).
DeliveredInOrder ==
    step = "deliver" =>
        /\ NmsCorrect
        /\ \A b \in candidates : Score[b] >= at_least
        /\ Carried = detections
        /\ \A i, j \in 1..Len(attached) :
             i < j => /\ attached[i] # attached[j]
                      /\ Score[attached[i]] >= Score[attached[j]]

-----------------------------------------------------------------------------
\* The candidates came through the filter, on a frame of this size.
CandidatesOnFrame ==
    /\ step # "idle" => runtime /\ video_info \in Sizes
    /\ step \in {"suppress", "attach", "deliver"} =>
         \A b \in candidates : /\ Score[b] >= at_least
                               /\ HasArea(SourceBox(Place[b], video_info))

\* What is attached so far is the head of the order.
AttachedSoFar ==
    /\ step \in {"attach", "deliver"} => pending = {}
    /\ step \notin {"attach", "deliver"} => attached = <<>>
    /\ Carried \subseteq detections
    /\ step = "deliver" => Carried = detections
    /\ \A i \in 1..Len(attached), c \in detections \ Carried :
         Score[c] <= Score[attached[i]]
    /\ \A i, j \in 1..Len(attached) :
         i < j => /\ attached[i] # attached[j]
                  /\ Score[attached[i]] >= Score[attached[j]]
=============================================================================
