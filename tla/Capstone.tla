------------------------------ MODULE Capstone ------------------------------
(***************************************************************************)
(* The capstone application (apps/run_capstone.py) and the pipeline it     *)
(* runs: colorboxsrc, reddetect, and a tee with a queue to a video sink    *)
(* and a queue to an appsink, whose new-sample callback prints what        *)
(* reddetect attached to the buffer (src/colorboxsrc.cpp,                  *)
(* src/reddetect.cpp).                                                     *)
(*                                                                         *)
(* Four threads: the source's, which also runs reddetect and pushes into   *)
(* both queues; one behind each queue; and the main loop.                  *)
(***************************************************************************)
EXTENDS MovingBox, Sequences

CONSTANTS
    NumBuffers, \* --num-buffers
    QueueSize   \* bound: what a queue element holds (200 buffers by default)

ASSUME CapstoneAssumption == NumBuffers \in Nat /\ QueueSize \in Nat \ {0}

VARIABLES
    runner,         \* where CapstoneRunner.run is
    ending,         \* history: why the main loop was left
    frame_number,   \* of colorboxsrc
    detects,        \* what the thresholds given to reddetect match: "nothing",
                    \* the "box", or "everything", the background too
    source,         \* where the source's thread is
    buffer,         \* the buffer it works on
    display, metadata,  \* the two queues
    samples,        \* of the appsink: max-buffers=1, drop=true
    frame,          \* CapstoneRunner.frame
    printed,        \* history: what was printed
    at_eos,         \* the sinks that have posted EOS
    message         \* the first message of the bus

sourceVars == <<frame_number, detects, source, buffer>>
branchVars == <<samples, frame, printed, at_eos>>
runVars == <<runner, ending, sourceVars, display, metadata, branchVars,
             message>>

\* A detection as reddetect attaches it and the application prints it.
NotFound == [found |-> FALSE, x |-> 0, y |-> 0, width |-> 0, height |-> 0]
BoxOf(n) == [found |-> TRUE, x |-> BoxX(n), y |-> BoxY(n),
             width |-> BoxSize, height |-> BoxSize]
WholeFrame == [found |-> TRUE, x |-> 0, y |-> 0, width |-> Width, height |-> Height]

\* The rectangle around the pixels of frame n that match.  There is background
\* at all four edges, wherever the box is.
Detection(n) == IF detects = "box" THEN BoxOf(n)
                ELSE IF detects = "everything" THEN WholeFrame ELSE NotFound

\* What comes down a branch: buffers, by offset and metadata, and EOS.
Buffer(n, meta) == [offset |-> n, meta |-> meta]
NoMeta == <<>>
Eos == Buffer(NumBuffers, NoMeta)

RunInit ==
    /\ runner = "start"
    /\ ending = "none"
    /\ frame_number = 0
    /\ detects \in {"nothing", "box", "everything"}
    /\ source = "stopped"
    /\ buffer = Eos
    /\ display = <<>> /\ metadata = <<>>
    /\ samples = <<>>
    /\ frame = 0
    /\ printed = <<>>
    /\ at_eos = {}
    /\ message = "empty"

-----------------------------------------------------------------------------
(* run(), on the main thread.                                              *)

SetPlaying ==
    /\ runner = "start"
    /\ runner' = "enter"
    /\ source' = "create"
    /\ UNCHANGED <<ending, frame_number, detects, buffer, display, metadata, branchVars,
                   message>>

\* Into the try block.
EnterLoop ==
    /\ runner = "enter"
    /\ runner' = "loop"
    /\ UNCHANGED <<ending, sourceVars, display, metadata, branchVars, message>>

\* KeyboardInterrupt outside of the try block, or in the finally block: it ends
\* the application without the state NULL.
InterruptUncaught ==
    /\ runner \in {"start", "enter", "stop"}
    /\ runner' = "killed"
    /\ UNCHANGED <<ending, sourceVars, display, metadata, branchVars, message>>

\* Mutant: errors are printed, and the loop goes on.
OnBusMessageEosOnly ==
    /\ runner = "loop"
    /\ message = "eos"
    /\ runner' = "stop"
    /\ ending' = message
    /\ UNCHANGED <<sourceVars, display, metadata, branchVars,
                   message>>

OnBusMessage ==
    /\ runner = "loop"
    /\ message # "empty"
    /\ runner' = "stop"
    /\ ending' = message
    /\ UNCHANGED <<sourceVars, display, metadata, branchVars,
                   message>>

InterruptRun ==
    /\ runner = "loop"
    /\ runner' = "stop"
    /\ ending' = "interrupt"
    /\ UNCHANGED <<sourceVars, display, metadata, branchVars,
                   message>>

\* The state NULL ends the streaming threads and empties the pipeline.
SetNull ==
    /\ runner = "stop"
    /\ runner' = "done"
    /\ source' = "stopped"
    /\ display' = <<>> /\ metadata' = <<>> /\ samples' = <<>>
    /\ UNCHANGED <<ending, frame_number, detects, buffer, frame, printed, at_eos, message>>

-----------------------------------------------------------------------------
(* The source's thread.                                                    *)

SourceGoto(from, to) == source = from /\ source' = to

\* colorboxsrc makes the next frame, and GstBaseSrc waits for its time.
Create ==
    /\ SourceGoto("create", "detect")
    /\ frame_number < NumBuffers
    /\ buffer' = Buffer(frame_number, NoMeta)
    /\ frame_number' = frame_number + 1
    /\ UNCHANGED <<runner, ending, detects, display, metadata, branchVars,
                   message>>

\* reddetect attaches what it found, unless the metadata cannot be added.
Detect ==
    /\ SourceGoto("detect", "display")
    /\ \E meta \in {NoMeta, <<Detection(buffer.offset)>>} :
          buffer' = Buffer(buffer.offset, meta)
    /\ UNCHANGED <<runner, ending, frame_number, detects, display, metadata, branchVars,
                   message>>

\* A frame cannot be allocated or mapped: the flow ends with an error.
FlowError ==
    /\ source \in {"create", "detect"}
    /\ source' = "stopped"
    /\ message' = IF message = "empty" THEN "error" ELSE message
    /\ UNCHANGED <<runner, ending, frame_number, detects, buffer, display, metadata,
                   branchVars>>

\* After the last frame.
CreateEos ==
    /\ SourceGoto("create", "display")
    /\ frame_number = NumBuffers
    /\ buffer' = Eos
    /\ UNCHANGED <<runner, ending, frame_number, detects, display, metadata, branchVars,
                   message>>

\* The tee pushes into one queue and then the other, and waits for room.
PushDisplay ==
    /\ SourceGoto("display", "metadata")
    /\ Len(display) < QueueSize
    /\ display' = Append(display, buffer)
    /\ UNCHANGED <<runner, ending, frame_number, detects, buffer, metadata, branchVars,
                   message>>

PushMetadata ==
    /\ SourceGoto("metadata", IF buffer = Eos THEN "stopped" ELSE "create")
    /\ Len(metadata) < QueueSize
    /\ metadata' = Append(metadata, buffer)
    /\ UNCHANGED <<runner, ending, frame_number, detects, buffer, display, branchVars,
                   message>>

-----------------------------------------------------------------------------
(* The threads behind the queues.                                          *)

\* The pipeline posts EOS when all of its sinks have.
PostSinkEos(sink) ==
    /\ at_eos' = at_eos \cup {sink}
    /\ message' = IF at_eos' = {"display", "metadata"} /\ message = "empty"
                  THEN "eos" ELSE message

Display ==
    /\ display # <<>>
    /\ display' = Tail(display)
    /\ IF Head(display) = Eos THEN PostSinkEos("display") ELSE UNCHANGED <<at_eos, message>>
    /\ UNCHANGED <<runner, ending, sourceVars, metadata, samples, frame, printed>>

\* The appsink queues the buffer and emits new-sample, on this thread, which
\* pulls it before the next can come: the queue of one never has to drop.  EOS
\* is posted when all have been pulled.
RenderSample ==
    /\ metadata # <<>>
    /\ samples = <<>>
    /\ metadata' = Tail(metadata)
    /\ IF Head(metadata) = Eos
       THEN PostSinkEos("metadata") /\ UNCHANGED samples
       ELSE samples' = <<Head(metadata)>> /\ UNCHANGED <<at_eos, message>>
    /\ UNCHANGED <<runner, ending, sourceVars, display, frame, printed>>

\* Mutant: a buffer without metadata is printed and not counted.
OnNewSampleForgetsToCount ==
    /\ samples # <<>>
    /\ samples' = <<>>
    /\ LET sample == Head(samples)
           detection == IF sample.meta = NoMeta THEN NotFound ELSE Head(sample.meta)
       IN printed' = Append(printed, [frame |-> frame, of |-> sample.offset, detection |-> detection])
    /\ frame' = IF Head(samples).meta = NoMeta THEN frame ELSE frame + 1
    /\ UNCHANGED <<runner, ending, sourceVars, display, metadata, at_eos, message>>

\* new-sample is emitted on the appsink's thread, which waits for it to return.
OnNewSample ==
    /\ samples # <<>>
    /\ samples' = <<>>
    /\ LET sample == Head(samples)
           detection == IF sample.meta = NoMeta THEN NotFound ELSE Head(sample.meta)
       IN printed' = Append(printed, [frame |-> frame, of |-> sample.offset, detection |-> detection])
    /\ frame' = frame + 1
    /\ UNCHANGED <<runner, ending, sourceVars, display, metadata, at_eos, message>>

RunFinished == runner \in {"done", "killed"} /\ UNCHANGED runVars

-----------------------------------------------------------------------------
Source == Create \/ Detect \/ FlowError \/ CreateEos \/ PushDisplay \/ PushMetadata
Runner == SetPlaying \/ EnterLoop \/ OnBusMessage \/ SetNull

RunNext == \/ Source \/ Runner \/ InterruptRun \/ InterruptUncaught
           \/ Display \/ RenderSample \/ OnNewSample \/ RunFinished

RunSpec == RunInit /\ [][RunNext]_runVars

\* Every thread runs, and the main loop dispatches the messages of the bus.
FairRunSpec == /\ RunSpec
               /\ WF_runVars(Source) /\ WF_runVars(Runner)
               /\ WF_runVars(Display) /\ WF_runVars(RenderSample \/ OnNewSample)

-----------------------------------------------------------------------------
(***************************************************************************)
(* Properties                                                              *)
(***************************************************************************)

\* The numbers printed are those of the frames, none is skipped although the
\* printer counts for itself and buffers may come without metadata, and the
\* rectangle printed is that of this frame (on_new_sample:70,
\* gst_color_box_src_create:177).
PrintsDescribeFrames ==
    \A i \in DOMAIN printed :
        /\ printed[i].frame = i - 1
        /\ printed[i].of = i - 1
        /\ printed[i].detection \in {NotFound, Detection(i - 1)}

\* The application ends, with the pipeline stopped unless it was interrupted
\* outside of the try block (run:116 to 118) or in the finally block; and if EOS
\* ended it, it has printed every frame by then (on_bus_message:102, run:114).
EndsWithAllPrinted ==
    <>(/\ runner = "killed" \/ (runner = "done" /\ source = "stopped")
       /\ ending = "eos" => Len(printed) = NumBuffers)
-----------------------------------------------------------------------------
\* The safety half of it: when EOS has ended the loop, every frame is printed
\* (on_bus_message:102).
EosMeansAllPrinted == ending = "eos" => Len(printed) = NumBuffers

Numbers == 0..NumBuffers
Detections == {NotFound, WholeFrame} \cup {BoxOf(n) : n \in Numbers}
Buffers == [offset : Numbers, meta : {NoMeta} \cup {<<d>> : d \in Detections}]

RunTypeOK ==
    /\ runner \in {"start", "enter", "loop", "stop", "done", "killed"}
    /\ ending \in {"none", "eos", "error", "interrupt"}
    /\ frame_number \in Numbers
    /\ detects \in {"nothing", "box", "everything"}
    /\ source \in {"stopped", "create", "detect", "display", "metadata"}
    /\ buffer \in Buffers
    /\ display \in Seq(Buffers)
    /\ metadata \in Seq(Buffers)
    /\ samples \in {<<>>} \cup {<<b>> : b \in Buffers}
    /\ frame \in Nat
    /\ printed \in Seq([frame : Nat, of : Numbers, detection : Detections])
    /\ at_eos \subseteq {"display", "metadata"}
    /\ message \in {"empty", "eos", "error"}

\* The inductive invariant numbers every buffer on its way to the printer, EOS
\* being the one after the last: what is printed, the sample, the queue, the
\* buffer at the source, the next frame.
Described(b) == b.meta \in {NoMeta, <<Detection(b.offset)>>}

SamplesInOrder ==
    \A i \in DOMAIN samples :
        samples[i].offset = frame /\ frame < NumBuffers /\ Described(samples[i])

QueueInOrder ==
    \A i \in DOMAIN metadata :
        /\ metadata[i].offset = frame + Len(samples) + i - 1
        /\ Described(metadata[i])
        /\ metadata[i].offset = NumBuffers => metadata[i] = Eos

Arriving == frame + Len(samples) + Len(metadata)

SourceInOrder ==
    /\ source = "create" => frame_number = Arriving
    /\ source \in {"detect", "display", "metadata"} =>
          /\ buffer.offset = Arriving
          /\ Described(buffer)
          /\ IF buffer.offset = NumBuffers THEN buffer = Eos /\ source # "detect"
             ELSE frame_number = buffer.offset + 1

EosLast ==
    /\ "metadata" \in at_eos => frame = NumBuffers
    /\ message = "eos" => "metadata" \in at_eos
    /\ ending = "eos" => frame = NumBuffers
    /\ runner \in {"start", "enter", "loop"} => ending = "none"

RunIInv ==
    /\ runner = "start" => Arriving = 0 /\ frame_number = 0 /\ source = "stopped"
    /\ Len(printed) = frame
    /\ PrintsDescribeFrames
    /\ SamplesInOrder
    /\ QueueInOrder
    /\ SourceInOrder
    /\ EosLast

-----------------------------------------------------------------------------
Printer == INSTANCE FramePrinter
    WITH recognises <- detects, complete <- (ending = "eos"),
         Boxes <- [n \in Numbers |-> BoxOf(n)]

\* The application keeps the promise of FramePrinter to its reader, although
\* the lines are printed by a thread that counts frames for itself, from buffers
\* that crossed a tee and a queue, and EOS comes over two sinks
\* (on_new_sample:70, on_bus_message:102).
ImplementsPrinter == Printer!Spec
=============================================================================
