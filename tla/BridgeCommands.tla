--------------------------- MODULE BridgeCommands ---------------------------
(***************************************************************************)
(* The way of a command from the GUI to the detector: the GUI sends it on  *)
(* a PUB socket (apps/run_bridge_gui.py), the command thread decodes it    *)
(* and offers it to a bounded queue (transport.py), the main loop drains   *)
(* the queue every 50 ms and sets the detector's properties one by one     *)
(* (pipeline.py), and the streaming thread reads them without a lock while *)
(* it looks at a frame (src/controlledreddetect.cpp).                      *)
(*                                                                         *)
(* A command is its number and kind; a threshold is the number of the      *)
(* command that set it, 0 being the bridge's command line.                 *)
(***************************************************************************)
EXTENDS Naturals, Sequences

CONSTANTS
    Fields,         \* the threshold properties, in the order they are set
    QueueLength,    \* maxsize of command_queue
    MaxCommands,    \* bound of the model: commands the GUI sends
    ChannelLength      \* bound of the model: messages between the two sockets

ASSUME CommandAssumption ==
    /\ Fields \in Seq(STRING) /\ Len(Fields) > 0
    /\ \A i, j \in DOMAIN Fields : Fields[i] = Fields[j] => i = j
    /\ QueueLength \in Nat \ {0}
    /\ MaxCommands \in Nat
    /\ ChannelLength \in Nat

VARIABLES
    sent,                   \* commands the GUI has sent
    channel,                \* commands between the sockets
    command_queue, offer_pc, received, offer_refused,   \* queue and producer
    applying,               \* what apply_command was called with, if it runs
    next,                   \* the field it sets next: an index of Fields
    detection_enabled,
    threshold,              \* the detector's threshold properties
    applied,                \* history: the last command applied to the end
    settled,                \* history: the last that set thresholds
    transform,              \* "none" or "reading": where transform_ip is
    used,                   \* the thresholds it has read for this frame
    floor                   \* history: settled when the frame began

offerVars == <<command_queue, offer_pc, received, offer_refused>>
applyVars == <<applying, next, detection_enabled, threshold, applied, settled>>
frameVars == <<transform, used, floor>>
commandVars == <<sent, channel, offerVars, applyVars, frameVars>>

Names == {Fields[i] : i \in DOMAIN Fields}
Numbers == 0..MaxCommands
Kinds == {"enable", "disable", "thresholds"}
NoCommand == [n |-> 0, kind |-> "enable"]
Commands == [n : Numbers \ {0}, kind : Kinds]

CommandQueue == INSTANCE LatestQueue
    WITH Producers <- {"subscriber"}, Items <- Commands \cup {NoCommand},
         Capacity <- QueueLength, q <- command_queue,
         pc <- offer_pc, held <- received, refused <- offer_refused

CommandTypeOK ==
    /\ CommandQueue!QueueTypeOK
    /\ sent \in Numbers
    /\ channel \in Seq(Commands) /\ Len(channel) <= ChannelLength
    /\ applying \in Commands \cup {NoCommand}
    /\ next \in DOMAIN Fields
    /\ detection_enabled \in BOOLEAN
    /\ threshold \in [Names -> Numbers]
    /\ applied \in Numbers
    /\ settled \in Numbers
    /\ transform \in {"none", "reading"}
    /\ DOMAIN used \subseteq Names
    /\ floor \in Numbers

CommandInit ==
    /\ sent = 0
    /\ channel = <<>>
    /\ command_queue = <<>>
    /\ offer_pc = [p \in {"subscriber"} |-> "idle"]
    /\ received = [p \in {"subscriber"} |-> NoCommand]
    /\ offer_refused = FALSE
    /\ applying = NoCommand
    /\ next = 1
    /\ detection_enabled = TRUE
    /\ threshold = [f \in Names |-> 0]
    /\ applied = 0
    /\ settled = 0
    /\ transform = "none"
    /\ used = <<>>
    /\ floor = 0

-----------------------------------------------------------------------------
(* The GUI.                                                                *)

\* Without room or a subscriber the sockets drop the message.
SendCommand(kind) ==
    /\ sent < MaxCommands
    /\ sent' = sent + 1
    /\ \/ /\ Len(channel) < ChannelLength
          /\ channel' = Append(channel, [n |-> sent', kind |-> kind])
       \/ UNCHANGED channel
    /\ UNCHANGED <<offerVars, applyVars, frameVars>>

-----------------------------------------------------------------------------
(* The command thread.                                                     *)

ReceiveCommand ==
    /\ channel # <<>>
    /\ channel' = Tail(channel)
    /\ CommandQueue!Offer("subscriber", Head(channel))
    /\ UNCHANGED <<sent, applyVars, frameVars>>

\* decode_command refuses the payload, which is logged and forgotten.
RefuseCommand ==
    /\ channel # <<>>
    /\ offer_pc["subscriber"] = "idle"
    /\ channel' = Tail(channel)
    /\ UNCHANGED <<sent, offerVars, applyVars, frameVars>>

\* offer_latest goes on after Full.
OfferCommand ==
    /\ CommandQueue!Continue("subscriber")
    /\ UNCHANGED <<sent, channel, applyVars, frameVars>>

-----------------------------------------------------------------------------
(* The main loop: drain_commands and apply_command.                        *)
(* set_property cannot raise here: decode_command lets only values pass    *)
(* that the properties accept, so drain_commands' except catches nothing.  *)

\* Mutant: the newest command is taken first.
TakeNewestCommand ==
    /\ applying = NoCommand
    /\ command_queue # <<>>
    /\ applying' = command_queue[Len(command_queue)]
    /\ command_queue' = SubSeq(command_queue, 1, Len(command_queue) - 1)
    /\ UNCHANGED <<sent, channel, offer_pc, received, offer_refused, next,
                   detection_enabled, threshold, applied, settled, frameVars>>

TakeCommand ==
    /\ applying = NoCommand
    /\ CommandQueue!Take
    /\ applying' = Head(command_queue)
    /\ UNCHANGED <<sent, channel, next, detection_enabled, threshold, applied,
                   settled, frameVars>>

SetDetectionEnabled ==
    /\ applying # NoCommand
    /\ applying.kind # "thresholds"
    /\ detection_enabled' = (applying.kind = "enable")
    /\ applied' = applying.n
    /\ applying' = NoCommand
    /\ UNCHANGED <<sent, channel, offerVars, next, threshold, settled, frameVars>>

\* Mutant: the last threshold is forgotten.
SetThresholdNotLast ==
    /\ applying.kind = "thresholds"
    /\ threshold' = IF next = Len(Fields) THEN threshold
                    ELSE [threshold EXCEPT ![Fields[next]] = applying.n]
    /\ IF next < Len(Fields)
       THEN next' = next + 1 /\ UNCHANGED <<applying, applied, settled>>
       ELSE /\ next' = 1
            /\ applied' = applying.n
            /\ settled' = applying.n
            /\ applying' = NoCommand
    /\ UNCHANGED <<sent, channel, offerVars, detection_enabled, frameVars>>

\* One set_property; the last one ends the command.
SetThreshold ==
    /\ applying.kind = "thresholds"
    /\ threshold' = [threshold EXCEPT ![Fields[next]] = applying.n]
    /\ IF next < Len(Fields)
       THEN next' = next + 1 /\ UNCHANGED <<applying, applied, settled>>
       ELSE /\ next' = 1
            /\ applied' = applying.n
            /\ settled' = applying.n
            /\ applying' = NoCommand
    /\ UNCHANGED <<sent, channel, offerVars, detection_enabled, frameVars>>

-----------------------------------------------------------------------------
(* transform_ip, on the streaming thread.  A disabled detector reads       *)
(* nothing else.  The six reads are arguments of one call: C++ leaves      *)
(* their order open.                                                       *)

BeginFrame ==
    /\ transform = "none"
    /\ detection_enabled
    /\ transform' = "reading"
    /\ used' = <<>>
    /\ floor' = settled
    /\ UNCHANGED <<sent, channel, offerVars, applyVars>>

ReadThreshold(f) ==
    /\ transform = "reading"
    /\ f \notin DOMAIN used
    /\ used' = [g \in DOMAIN used \cup {f} |-> IF g = f THEN threshold[f] ELSE used[g]]
    /\ UNCHANGED <<sent, channel, offerVars, applyVars, transform, floor>>

\* The frame is done, or could not be mapped.
EndFrame ==
    /\ transform = "reading"
    /\ DOMAIN used \in {{}, Names}
    /\ transform' = "none"
    /\ used' = <<>>
    /\ floor' = 0
    /\ UNCHANGED <<sent, channel, offerVars, applyVars>>

-----------------------------------------------------------------------------
CommandNext ==
    \/ \E kind \in Kinds : SendCommand(kind)
    \/ ReceiveCommand \/ RefuseCommand \/ OfferCommand
    \/ TakeCommand \/ SetDetectionEnabled \/ SetThreshold
    \/ BeginFrame \/ (\E f \in Names : ReadThreshold(f)) \/ EndFrame

CommandSpec == CommandInit /\ [][CommandNext]_commandVars

\* The command thread and the main loop run; the GUI and the video may stop.
FairCommandSpec ==
    /\ CommandSpec
    /\ WF_commandVars(OfferCommand)
    /\ WF_commandVars(TakeCommand)
    /\ WF_commandVars(SetDetectionEnabled) /\ WF_commandVars(SetThreshold)

-----------------------------------------------------------------------------
(***************************************************************************)
(* Properties                                                              *)
(***************************************************************************)

\* Commands take effect in the order the GUI sent them, whatever the sockets
\* and the queue drop: no property returns to the value of an older command.
CommandsNeverGoBack ==
    [][/\ applied' >= applied
       /\ \A f \in Names : threshold'[f] >= threshold[f]]_commandVars

\* The thresholds command being written, or the last one written.
Newest == IF applying.kind = "thresholds" THEN applying.n ELSE settled

\* A frame judges its pixels by thresholds that are no older than the last
\* command applied before the frame began and no newer than the one being
\* applied now.  It mixes two commands only if a command was being applied
\* meanwhile: otherwise floor and Newest are the same.
FrameThresholdsRecent ==
    \A f \in DOMAIN used : used[f] \in floor..Newest

\* The newest command the command thread has received is applied, or one that
\* came after it is: "latest wins" although the queue may be full whenever it
\* comes, and though the main loop empties it between the three steps of
\* offer_latest.
NewestReceivedApplied ==
    \A n \in Numbers : received["subscriber"].n = n ~> applied >= n
-----------------------------------------------------------------------------
\* The newest command received is never lost: when its offer has returned, it
\* is the last in the queue, or taken, or applied (offer_latest:11).
NewestReceivedKept ==
    offer_pc["subscriber"] = "idle" =>
        IF command_queue # <<>>
        THEN command_queue[Len(command_queue)] = received["subscriber"]
        ELSE received["subscriber"] = applying \/ received["subscriber"].n = applied

\* offer_latest never returns False to the command thread (_command_loop:100).
CommandsNeverRefused == CommandQueue!NeverRefused

\* The inductive invariants: commands in the order of their numbers, from the
\* ones applied to those on the wire,
InOrder(commands) ==
    \A i, j \in DOMAIN commands : i < j => commands[i].n < commands[j].n

CommandChain ==
    /\ settled <= applied
    /\ applying # NoCommand => applied < applying.n
    /\ applying.n <= received["subscriber"].n /\ applied <= received["subscriber"].n
    /\ InOrder(command_queue)
    /\ \A i \in DOMAIN command_queue : /\ applying.n < command_queue[i].n
                                       /\ applied < command_queue[i].n
                                       /\ command_queue[i].n <= received["subscriber"].n
    /\ offer_pc["subscriber"] # "idle" =>
           /\ applying.n < received["subscriber"].n /\ applied < received["subscriber"].n
           /\ \A i \in DOMAIN command_queue : command_queue[i].n < received["subscriber"].n
    /\ received["subscriber"].n <= sent
    /\ InOrder(channel)
    /\ \A i \in DOMAIN channel : /\ received["subscriber"].n < channel[i].n
                                 /\ channel[i].n <= sent

\* an offer in progress,
CommandOffering ==
    /\ CommandQueue!IInv
    /\ NewestReceivedKept

\* the thresholds set so far, and those a frame has read.
Setting ==
    /\ next > 1 => applying.kind = "thresholds"
    /\ \A i \in DOMAIN Fields :
          threshold[Fields[i]] = IF i < next THEN applying.n ELSE settled

Reading ==
    /\ floor <= settled
    /\ FrameThresholdsRecent

CommandIInv == CommandChain /\ CommandOffering /\ Setting /\ Reading
=============================================================================
