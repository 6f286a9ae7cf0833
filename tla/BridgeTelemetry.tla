--------------------------- MODULE BridgeTelemetry ---------------------------
(***************************************************************************)
(* The way of a detection from the appsink to the GUI (apps/): the         *)
(* streaming thread runs on_new_sample, which offers the detection to a    *)
(* queue of one; the publisher thread takes it and sends it on a PUB       *)
(* socket without waiting; the GUI polls its SUB socket every 50 ms.       *)
(*                                                                         *)
(* A message is its frame number.  ZeroMQ is external: a bounded FIFO that *)
(* drops what it has no room or no subscriber for.                         *)
(***************************************************************************)
EXTENDS Integers, Sequences

CONSTANTS
    MaxFrames,  \* bound of the model: samples the source produces
    WireLength  \* bound of the model: messages between the two sockets

ASSUME BoundsAssumption == MaxFrames \in Nat /\ WireLength \in Nat

VARIABLES
    detection_queue, pc, held, refused,     \* the queue and its producer
    frame,      \* BridgePipeline.frame
    publisher,  \* "get" or "publish": where publish_loop is
    message,    \* the last message it got from the queue; -1: none yet
    wire,       \* messages sent and not yet received by the GUI
    shown       \* the frame the GUI displays; -1: none yet

queueVars == <<detection_queue, pc, held, refused>>
vars == <<queueVars, frame, publisher, message, wire, shown>>

Frames == 0..MaxFrames

DetectionQueue == INSTANCE LatestQueue
    WITH Producers <- {"appsink"}, Items <- Frames, Capacity <- 1,
         q <- detection_queue

TypeOK ==
    /\ DetectionQueue!QueueTypeOK
    /\ frame \in Frames
    /\ publisher \in {"get", "publish"}
    /\ message \in Frames \cup {-1}
    /\ wire \in Seq(Frames) /\ Len(wire) <= WireLength
    /\ shown \in Frames \cup {-1}

Init ==
    /\ detection_queue = <<>>
    /\ pc = [p \in {"appsink"} |-> "idle"]
    /\ held = [p \in {"appsink"} |-> 0]
    /\ refused = FALSE
    /\ frame = 0
    /\ publisher = "get"
    /\ message = -1
    /\ wire = <<>>
    /\ shown = -1

-----------------------------------------------------------------------------
(* The streaming thread.                                                   *)

\* Mutant: only an offer that finds room counts the frame.
CountFrameIfRoom == frame' = IF pc["appsink"] = "idle" /\ pc'["appsink"] = "idle"
                             THEN frame + 1 ELSE frame

\* on_new_sample counts the frame when offer_detection has returned.
CountFrame == frame' = IF pc'["appsink"] = "idle" THEN frame + 1 ELSE frame

OnNewSample ==
    /\ frame < MaxFrames
    /\ DetectionQueue!Offer("appsink", frame)
    /\ CountFrame
    /\ UNCHANGED <<publisher, message, wire, shown>>

\* Mutant: a full queue is left to the publisher to empty.
OfferDetectionWaits ==
    /\ detection_queue = <<>>
    /\ DetectionQueue!Continue("appsink")
    /\ CountFrame
    /\ UNCHANGED <<publisher, message, wire, shown>>

\* offer_latest goes on after Full.
OfferDetection ==
    /\ DetectionQueue!Continue("appsink")
    /\ CountFrame
    /\ UNCHANGED <<publisher, message, wire, shown>>

-----------------------------------------------------------------------------
(* publish_loop.  get() times out on an empty queue and tries again, which *)
(* changes nothing.                                                        *)

GetDetection ==
    /\ publisher = "get"
    /\ DetectionQueue!Take
    /\ message' = Head(detection_queue)
    /\ publisher' = "publish"
    /\ UNCHANGED <<frame, wire, shown>>

\* The message is sent, or dropped by the socket, or publish raises and the
\* loop logs it: it is not tried again.
Publish ==
    /\ publisher = "publish"
    /\ publisher' = "get"
    /\ \/ Len(wire) < WireLength /\ wire' = Append(wire, message)
       \/ UNCHANGED wire
    /\ UNCHANGED <<queueVars, frame, message, shown>>

-----------------------------------------------------------------------------
(* The GUI.                                                                *)

PollTelemetry ==
    /\ wire # <<>>
    /\ shown' = Head(wire)
    /\ wire' = Tail(wire)
    /\ UNCHANGED <<queueVars, frame, publisher, message>>

-----------------------------------------------------------------------------
Next == OnNewSample \/ OfferDetection \/ GetDetection \/ Publish \/ PollTelemetry

Spec == Init /\ [][Next]_vars

\* The source pushes buffers; the publisher and the GUI may stop for ever.
VideoSpec == Spec /\ WF_vars(OnNewSample \/ OfferDetection)

-----------------------------------------------------------------------------
(***************************************************************************)
(* Properties                                                              *)
(***************************************************************************)

Increasing(s) == \A i, j \in DOMAIN s : i < j => s[i] < s[j]

\* From the label of the GUI back to the queue, frame numbers only grow: no
\* detection overtakes another, none is shown twice, whatever is dropped.
EndToEndOrder ==
    Increasing(<<shown>> \o wire
               \o (IF publisher = "publish" THEN <<message>> ELSE <<>>)
               \o detection_queue)

\* Between two samples the detection of the last one is waiting in the queue
\* or was taken by the publisher: "drop stale detection" never drops the
\* newest.
NewestKept ==
    pc["appsink"] = "idle" /\ frame > 0 =>
        message = frame - 1 \/ detection_queue = <<frame - 1>>

\* The streaming thread gets through its samples though the publisher and the
\* GUI may stop at any point.
VideoNeverBlocked == <>(frame = MaxFrames)

\* offer_latest never returns False to the streaming thread, which would not
\* notice: offer_detection drops its result.
NeverRefused == DetectionQueue!NeverRefused

-----------------------------------------------------------------------------
\* The inductive invariants: of the way,
Chain ==
    /\ message < frame
    /\ \A i \in DOMAIN detection_queue : /\ message < detection_queue[i]
                                         /\ detection_queue[i] < frame
    /\ Increasing(wire)
    /\ \A i \in DOMAIN wire : /\ shown < wire[i]
                              /\ wire[i] <= message
                              /\ publisher = "publish" => wire[i] < message
    /\ shown <= message
    /\ publisher = "publish" => shown < message

\* and of an offer in progress.
Offering ==
    /\ ~refused
    /\ pc["appsink"] = "dropped" => detection_queue = <<>>
    /\ pc["appsink"] # "idle" => held["appsink"] = frame /\ frame < MaxFrames
    /\ pc["appsink"] # "dropped" /\ frame > 0 =>
          message = frame - 1 \/ detection_queue = <<frame - 1>>
=============================================================================
