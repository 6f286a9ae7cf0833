--------------------------- MODULE BridgeLifecycle ---------------------------
(***************************************************************************)
(* How the bridge starts and stops (apps/run_bridge.py main and            *)
(* publish_loop, apps/bridge_project/transport.py, BridgePipeline.run):    *)
(* the main thread opens two sockets, starts two threads, runs the GLib    *)
(* loop, and in its finally blocks takes everything down while the two     *)
(* threads still use the sockets.                                          *)
(*                                                                         *)
(* A step is one statement that touches what the threads share.  A socket  *)
(* attribute is None, an open socket or a closed one; ZeroMQ and GStreamer *)
(* are external.  KeyboardInterrupt is raised in the main thread at most   *)
(* once, before any statement, those of the finally blocks included; in    *)
(* the loop it is one of the ways to leave it.                             *)
(***************************************************************************)
EXTENDS Naturals

VARIABLES
    main,               \* the next statement of the main thread
    failure,            \* what main() has raised so far
    telemetry_socket,   \* "none", "open" or "closed"
    command_socket,
    running,            \* transport.running
    stop_event,
    has_command_thread, \* transport.command_thread is not None
    command,            \* the next statement of bridge-command-subscriber
    publisher,          \* the next statement of bridge-telemetry-publisher
    gst_pipeline,       \* "none", "built", "playing" or "stopped"
    interrupted         \* KeyboardInterrupt has been raised

mainVars == <<main, failure, interrupted>>
transportVars == <<telemetry_socket, command_socket, running, has_command_thread>>
bridgeVars == <<mainVars, transportVars, stop_event, command, publisher, gst_pipeline>>

Sockets == {"none", "open", "closed"}

BridgeTypeOK ==
    /\ main \in {"open_telemetry", "open_command", "set_running", "make_command_thread",
                 "start_command_thread", "start_publisher_thread",
                 "build", "play", "loop", "stop_pipeline", "set_stop_event",
                 "clear_running", "close_command", "forget_command", "close_telemetry",
                 "forget_telemetry", "join_command", "after_transport_stop",
                 "join_publisher", "exited"}
    /\ failure \in {"none", "startup_error", "interrupt", "join_error", "cut_short"}
    /\ telemetry_socket \in Sockets
    /\ command_socket \in Sockets
    /\ running \in BOOLEAN
    /\ stop_event \in BOOLEAN
    /\ has_command_thread \in BOOLEAN
    /\ command \in {"new", "register", "head", "poll", "check", "recv", "offer",
                    "done", "crashed"}
    /\ publisher \in {"new", "head", "check", "send", "done"}
    /\ gst_pipeline \in {"none", "built", "playing", "stopped"}
    /\ interrupted \in BOOLEAN
    /\ publisher # "new" => command # "new"

BridgeInit ==
    /\ main = "open_telemetry"
    /\ failure = "none"
    /\ telemetry_socket = "none"
    /\ command_socket = "none"
    /\ running = FALSE
    /\ stop_event = FALSE
    /\ has_command_thread = FALSE
    /\ command = "new"
    /\ publisher = "new"
    /\ gst_pipeline = "none"
    /\ interrupted = FALSE

Goto(from, to) == main = from /\ main' = to

-----------------------------------------------------------------------------
(* ZmqBridgeTransport.start.  A socket that was made but not bound is      *)
(* closed by the stop() of the except clause, as the bound one is.         *)

OpenTelemetry ==
    /\ telemetry_socket' = "open"
    /\ \/ Goto("open_telemetry", "open_command") /\ UNCHANGED failure
       \/ Goto("open_telemetry", "clear_running") /\ failure' = "startup_error"
    /\ UNCHANGED <<command_socket, running, has_command_thread, stop_event,
                   command, publisher, gst_pipeline, interrupted>>

OpenCommand ==
    /\ command_socket' = "open"
    /\ \/ Goto("open_command", "set_running") /\ UNCHANGED failure
       \/ Goto("open_command", "clear_running") /\ failure' = "startup_error"
    /\ UNCHANGED <<telemetry_socket, running, has_command_thread, stop_event,
                   command, publisher, gst_pipeline, interrupted>>

SetRunning ==
    /\ Goto("set_running", "make_command_thread")
    /\ running' = TRUE
    /\ UNCHANGED <<failure, interrupted, telemetry_socket, command_socket,
                   has_command_thread, stop_event, command, publisher, gst_pipeline>>

MakeCommandThread ==
    /\ Goto("make_command_thread", "start_command_thread")
    /\ has_command_thread' = TRUE
    /\ UNCHANGED <<failure, interrupted, telemetry_socket, command_socket,
                   running, stop_event, command, publisher, gst_pipeline>>

\* Thread.start may raise RuntimeError, here and below.
StartCommandThread ==
    /\ \/ Goto("start_command_thread", "start_publisher_thread")
          /\ command' = "register" /\ UNCHANGED failure
       \/ Goto("start_command_thread", "clear_running")
          /\ failure' = "startup_error" /\ UNCHANGED command
    /\ UNCHANGED <<interrupted, transportVars, stop_event, publisher, gst_pipeline>>

StartPublisherThread ==
    /\ \/ Goto("start_publisher_thread", "build")
          /\ publisher' = "head" /\ UNCHANGED failure
       \/ Goto("start_publisher_thread", "set_stop_event")
          /\ failure' = "startup_error" /\ UNCHANGED publisher
    /\ UNCHANGED <<interrupted, transportVars, stop_event, command, gst_pipeline>>

-----------------------------------------------------------------------------
(* BridgePipeline.run and stop.                                            *)

\* parse_launch may raise, outside of run's try block.
Build ==
    /\ \/ Goto("build", "play") /\ gst_pipeline' = "built" /\ UNCHANGED failure
       \/ Goto("build", "set_stop_event") /\ failure' = "startup_error"
          /\ UNCHANGED gst_pipeline
    /\ UNCHANGED <<interrupted, transportVars, stop_event, command, publisher>>

\* Also starts the command poller.
Play ==
    /\ Goto("play", "loop")
    /\ gst_pipeline' = "playing"
    /\ UNCHANGED <<failure, interrupted, transportVars, stop_event, command, publisher>>

\* Mutant: the loop ends without the pipeline being stopped.
LeaveLoopPlaying ==
    /\ Goto("loop", "set_stop_event")
    /\ interrupted' \in {interrupted, TRUE}
    /\ UNCHANGED <<failure, transportVars, stop_event, command, publisher, gst_pipeline>>

\* EOS or an error on the bus, or KeyboardInterrupt, which run() swallows.
LeaveLoop ==
    /\ Goto("loop", "stop_pipeline")
    /\ interrupted' \in {interrupted, TRUE}
    /\ UNCHANGED <<failure, transportVars, stop_event, command, publisher, gst_pipeline>>

StopPipeline ==
    /\ Goto("stop_pipeline", "set_stop_event")
    /\ gst_pipeline' = "stopped"
    /\ UNCHANGED <<failure, interrupted, transportVars, stop_event, command, publisher>>

Starting == {"open_telemetry", "open_command", "set_running", "make_command_thread",
             "start_command_thread", "start_publisher_thread", "build", "play"}

StopStatements == {"clear_running", "close_command", "forget_command", "close_telemetry",
                   "forget_telemetry", "join_command", "after_transport_stop"}

\* KeyboardInterrupt outside of the loop.  No except clause of start or run
\* catches it, so it goes straight to main's finally block, also from the
\* stop() that a failed start() calls and from the one of run's finally.
Interrupt ==
    /\ ~interrupted
    /\ interrupted' = TRUE
    /\ main' = "set_stop_event"
    /\ failure' = "interrupt"
    /\ \/ /\ main \in Starting
          /\ UNCHANGED gst_pipeline
       \/ /\ main \in StopStatements /\ ~stop_event
          /\ UNCHANGED gst_pipeline
       \/ /\ main = "play"                \* after set_state, before the try
          /\ gst_pipeline' = "playing"
       \/ /\ main = "stop_pipeline"
          /\ UNCHANGED gst_pipeline
    /\ UNCHANGED <<transportVars, stop_event, command, publisher>>

\* In main's finally block there is nothing left to catch it.
CutShort ==
    /\ ~interrupted
    /\ interrupted' = TRUE
    /\ main \in {"set_stop_event", "join_publisher"} \cup StopStatements
    /\ main \in StopStatements => stop_event
    /\ main' = "exited"
    /\ failure' = "cut_short"
    /\ UNCHANGED <<transportVars, stop_event, command, publisher, gst_pipeline>>

-----------------------------------------------------------------------------
(* The finally block of main, and ZmqBridgeTransport.stop, which           *)
(* transport.start also calls when it fails, before main's finally block   *)
(* calls it again.                                                         *)

SetStopEvent ==
    /\ Goto("set_stop_event", "clear_running")
    /\ stop_event' = TRUE
    /\ UNCHANGED <<failure, interrupted, transportVars, command, publisher, gst_pipeline>>

ClearRunning ==
    /\ Goto("clear_running", "close_command")
    /\ running' = FALSE
    /\ UNCHANGED <<failure, interrupted, telemetry_socket, command_socket,
                   has_command_thread, stop_event, command, publisher, gst_pipeline>>

CloseCommand ==
    /\ \/ command_socket # "none" /\ command_socket' = "closed"
          /\ Goto("close_command", "forget_command")
       \/ command_socket = "none" /\ UNCHANGED command_socket
          /\ Goto("close_command", "close_telemetry")
    /\ UNCHANGED <<failure, interrupted, telemetry_socket, running,
                   has_command_thread, stop_event, command, publisher, gst_pipeline>>

ForgetCommand ==
    /\ Goto("forget_command", "close_telemetry")
    /\ command_socket' = "none"
    /\ UNCHANGED <<failure, interrupted, telemetry_socket, running,
                   has_command_thread, stop_event, command, publisher, gst_pipeline>>

\* Mutant: stop() forgets the telemetry socket.
CloseTelemetryForgotten ==
    /\ Goto("close_telemetry", "join_command")
    /\ UNCHANGED <<failure, interrupted, transportVars, stop_event, command,
                   publisher, gst_pipeline>>

CloseTelemetry ==
    /\ \/ telemetry_socket # "none" /\ telemetry_socket' = "closed"
          /\ Goto("close_telemetry", "forget_telemetry")
       \/ telemetry_socket = "none" /\ UNCHANGED telemetry_socket
          /\ Goto("close_telemetry", "join_command")
    /\ UNCHANGED <<failure, interrupted, command_socket, running,
                   has_command_thread, stop_event, command, publisher, gst_pipeline>>

ForgetTelemetry ==
    /\ Goto("forget_telemetry", "join_command")
    /\ telemetry_socket' = "none"
    /\ UNCHANGED <<failure, interrupted, command_socket, running,
                   has_command_thread, stop_event, command, publisher, gst_pipeline>>

\* Mutant: join() without a timeout.
JoinCommandForever ==
    /\ has_command_thread => command \in {"done", "crashed"}
    /\ Goto("join_command", "after_transport_stop")
    /\ has_command_thread' = FALSE
    /\ UNCHANGED <<failure, interrupted, telemetry_socket, command_socket, running,
                   stop_event, command, publisher, gst_pipeline>>

\* join(timeout=1.0) returns when the thread has ended or the time is over,
\* and raises RuntimeError on a thread that was made but not started.
JoinCommand ==
    /\ \/ /\ has_command_thread => command # "new"
          /\ Goto("join_command", "after_transport_stop")
          /\ has_command_thread' = FALSE
          /\ UNCHANGED failure
       \/ /\ has_command_thread /\ command = "new"
          /\ Goto("join_command", IF stop_event THEN "exited" ELSE "set_stop_event")
          /\ failure' = "join_error"
          /\ UNCHANGED has_command_thread
    /\ UNCHANGED <<interrupted, telemetry_socket, command_socket, running,
                   stop_event, command, publisher, gst_pipeline>>

\* stop() returns to start()'s except clause, which re-raises into main's
\* finally block, or to that block.
TransportStopped ==
    /\ \/ ~stop_event /\ Goto("after_transport_stop", "set_stop_event")
       \/ stop_event /\ Goto("after_transport_stop", "join_publisher")
    /\ UNCHANGED <<failure, interrupted, transportVars, stop_event, command,
                   publisher, gst_pipeline>>

\* join raises RuntimeError on a thread that was never started.
JoinPublisher ==
    /\ Goto("join_publisher", "exited")
    /\ failure' = IF publisher = "new" THEN "join_error" ELSE failure
    /\ UNCHANGED <<interrupted, transportVars, stop_event, command, publisher,
                   gst_pipeline>>

MainStep ==
    \/ OpenTelemetry \/ OpenCommand \/ SetRunning \/ MakeCommandThread
    \/ StartCommandThread \/ StartPublisherThread
    \/ Build \/ Play \/ StopPipeline
    \/ SetStopEvent \/ ClearRunning \/ CloseCommand \/ ForgetCommand
    \/ CloseTelemetry \/ ForgetTelemetry \/ JoinCommand \/ TransportStopped
    \/ JoinPublisher

-----------------------------------------------------------------------------
(* _command_loop, on its own thread.  The poller keeps the socket it was   *)
(* given; every other use reads self.command_socket again.                 *)

CommandGoto(from, to) == /\ command = from
                         /\ command' = to
                         /\ UNCHANGED <<mainVars, transportVars, stop_event,
                                        publisher, gst_pipeline>>

\* The poller is given the socket, or None, which nothing polls any more:
\* stop() clears running before it sets the socket to None.
Register == CommandGoto("register", "head")

\* Mutant: the loop does not look at running.
LoopHeadForEver == CommandGoto("head", "poll")

LoopHead == \/ running /\ CommandGoto("head", "poll")
            \/ ~running /\ CommandGoto("head", "done")

\* poll returns events, or none after 100 ms; polling a closed socket raises
\* ZMQError, unless it had begun before the close and just returns.
Poll == \/ CommandGoto("poll", "check")
        \/ CommandGoto("poll", "head")
        \/ command_socket # "open" /\ CommandGoto("poll", "done")

\* "self.command_socket not in events", with an event for the polled socket.
CheckEvents == \/ command_socket # "none" /\ CommandGoto("check", "recv")
               \/ command_socket = "none" /\ CommandGoto("check", "head")

\* The attribute read again: None has no recv, and no except clause of the
\* loop catches AttributeError.  A payload may be refused by decode_command.
Recv == \/ command_socket = "open" /\ CommandGoto("recv", "offer")
        \/ command_socket = "open" /\ CommandGoto("recv", "head")
        \/ command_socket = "closed" /\ CommandGoto("recv", "done")
        \/ command_socket = "none" /\ CommandGoto("recv", "crashed")

OfferCommand == CommandGoto("offer", "head")

CommandStep == Register \/ LoopHead \/ Poll \/ CheckEvents \/ Recv \/ OfferCommand

-----------------------------------------------------------------------------
(* publish_loop, on its own thread: transport.publish reads the socket     *)
(* twice, and whatever it raises is logged.                                *)

PublisherGoto(from, to) == /\ publisher = from
                           /\ publisher' = to
                           /\ UNCHANGED <<mainVars, transportVars, stop_event,
                                          command, gst_pipeline>>

\* The stop event, then get() with a timeout.
PublishHead == \/ stop_event /\ PublisherGoto("head", "done")
               \/ ~stop_event /\ PublisherGoto("head", "check")
               \/ ~stop_event /\ PublisherGoto("head", "head")

PublishCheck == \/ telemetry_socket = "none" /\ PublisherGoto("check", "head")
                \/ telemetry_socket # "none" /\ PublisherGoto("check", "send")

\* Sent, or the AttributeError of None or the ZMQError of a closed socket.
PublishSend == PublisherGoto("send", "head")

PublisherStep == PublishHead \/ PublishCheck \/ PublishSend

-----------------------------------------------------------------------------
BridgeFinished == main = "exited" /\ UNCHANGED bridgeVars

BridgeNext == \/ MainStep \/ LeaveLoop \/ Interrupt \/ CutShort
              \/ CommandStep \/ PublisherStep \/ BridgeFinished

BridgeSpec == BridgeInit /\ [][BridgeNext]_bridgeVars

\* Threads run.  That the loop is ever left is the user's business.
FairBridgeSpec == /\ BridgeSpec
                  /\ WF_bridgeVars(MainStep)
                  /\ WF_bridgeVars(CommandStep) /\ WF_bridgeVars(PublisherStep)

-----------------------------------------------------------------------------
(***************************************************************************)
(* Properties                                                              *)
(***************************************************************************)

Stopping == main \in {"set_stop_event", "clear_running", "close_command",
                      "forget_command", "close_telemetry", "forget_telemetry",
                      "join_command", "after_transport_stop", "join_publisher"}

\* However main() ends, through a failed bind, thread or build, an interrupt,
\* the loop, or a join that raises, both sockets are closed and forgotten;
\* only an interrupt of the finally block itself can leave them open.
SocketsClosedAtExit ==
    main = "exited" /\ failure # "cut_short" =>
        telemetry_socket = "none" /\ command_socket = "none"

\* Once main() is on its way out it gets there, whatever the two threads do
\* meanwhile: join has a time limit.
MainExits == Stopping ~> main = "exited"

\* The two threads do not outlive the bridge: each ends after main() does,
\* unless it was never started or the finally block was interrupted.
ThreadsEnd == main = "exited" /\ failure # "cut_short" ~>
                  /\ command \in {"new", "done", "crashed"}
                  /\ publisher \in {"new", "done"}

\* The requirements say that the bridge stops cleanly on EOS, an error or an
\* interrupt.  Without any failure or interrupt its command thread still ends
\* in an AttributeError if stop() sets the socket to None between the look at
\* it in 86 and the use in 90.
CommandThreadNeverCrashes ==
    failure = "none" /\ ~interrupted => command # "crashed"

\* Nor does the pipeline play any more when main() has returned, or failed for
\* another reason than an interrupt outside of the loop (one after set_state
\* and before the try block does leave it playing).
PipelineStoppedAtExit ==
    main = "exited" /\ failure \notin {"interrupt", "cut_short"} =>
        gst_pipeline # "playing"
-----------------------------------------------------------------------------
\* Where both threads are started, and where running is set.
Serving == {"build", "play", "loop", "stop_pipeline"}
Threading == {"make_command_thread", "start_command_thread", "start_publisher_thread"} \cup Serving

\* While the application serves, nothing it serves with is missing: from the
\* build of the pipeline until the finally blocks begin, both sockets are open
\* and neither thread has ended or died (main:71, _command_loop:82,
\* publish_loop:29).
ServesUntilStopped ==
    main \in Serving =>
        /\ telemetry_socket = "open" /\ command_socket = "open"
        /\ command \notin {"new", "done", "crashed"}
        /\ publisher \notin {"new", "done"}

\* What main() has done by the statement it is at.
SocketsByPosition ==
    /\ main \in {"close_telemetry", "forget_telemetry", "join_command",
                 "after_transport_stop", "join_publisher"} => command_socket = "none"
    /\ main \in {"join_command", "after_transport_stop", "join_publisher"} =>
           telemetry_socket = "none"
    /\ main \in {"open_command", "set_running"} \cup Threading => telemetry_socket = "open"
    /\ main \in {"set_running"} \cup Threading => command_socket = "open"

ThreadsByPosition ==
    /\ main \in Starting \cup {"loop", "stop_pipeline", "set_stop_event"} => ~stop_event
    /\ main \in Threading => running
    /\ main \in {"open_telemetry", "open_command", "set_running", "make_command_thread",
                 "start_command_thread"} => command = "new"
    /\ main \in Serving \cup {"start_publisher_thread"} =>
           command \notin {"new", "done", "crashed"}
    /\ main \in Serving => publisher \notin {"new", "done"}

\* A playing pipeline that main() does not stop was left by an interrupt, and
\* has both threads, so that no join raises in its place.
PlayingByPosition ==
    /\ main \in Starting => gst_pipeline # "playing"
    /\ gst_pipeline = "playing" =>
           /\ main \in {"loop", "stop_pipeline"} \/ failure \in {"interrupt", "cut_short"}
           /\ command # "new" /\ publisher # "new"

\* The inductive invariant.
BridgeIInv == /\ SocketsByPosition
              /\ ThreadsByPosition
              /\ PlayingByPosition
              /\ SocketsClosedAtExit

\* Where main() is in its statements, those of the stop() of a failed start
\* coming before those of the finally block.
Statements == {"open_telemetry", "open_command", "set_running", "make_command_thread",
               "start_command_thread", "start_publisher_thread", "build", "play",
               "loop", "stop_pipeline", "set_stop_event", "join_publisher", "exited"}
              \cup StopStatements

Order == [s \in Statements |->
    CASE s = "open_telemetry" -> 0
      [] s = "open_command" -> 1
      [] s = "set_running" -> 2
      [] s = "make_command_thread" -> 3
      [] s = "start_command_thread" -> 4
      [] s = "start_publisher_thread" -> 5
      [] s = "build" -> 6
      [] s = "play" -> 7
      [] s = "loop" -> 8
      [] s = "stop_pipeline" -> 9
      [] s = "clear_running" -> 10
      [] s = "close_command" -> 11
      [] s = "forget_command" -> 12
      [] s = "close_telemetry" -> 13
      [] s = "forget_telemetry" -> 14
      [] s = "join_command" -> 15
      [] s = "after_transport_stop" -> 16
      [] s = "set_stop_event" -> 17
      [] s = "join_publisher" -> 18
      [] s = "exited" -> 40]

Place == IF stop_event THEN 20 + Order[main] ELSE Order[main]

\* The measure behind MainExits: whatever fails and whenever the interrupt
\* comes, main() never returns to a statement it has passed, and each of the
\* statements of stop() runs at most once before the stop event is set and once
\* after (transport.start:44, main:84).
MainMovesOn == [][main' # main => Place' > Place]_bridgeVars
=============================================================================
