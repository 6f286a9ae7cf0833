-------------------------- MODULE ApplicationProofs --------------------------
(***************************************************************************)
(* The Python applications, for every value of their constants: the        *)
(* benchmark's statistics and ROI; the start and stop of the bridge; and   *)
(* the frames the capstone application prints.                             *)
(*                                                                         *)
(* A definition that each of them has of its own (Init, Next, IInv) bears  *)
(* its name: BridgeInit of BridgeLifecycle, RunInit of Capstone.           *)
(***************************************************************************)
EXTENDS BenchmarkApp, Capstone, BridgeLifecycle, SequenceTheorems, TLAPS

-----------------------------------------------------------------------------
(* The benchmark.                                                          *)

\* The window opens without a video.
LEMMA BenchmarkInit == Init => TypeOK /\ IInv
<1> SUFFICES ASSUME Init PROVE TypeOK /\ IInv
  OBVIOUS
<1> USE BenchmarkAssumption DEF Init
<1>1. queue \in Seq(Results) /\ DOMAIN queue = {} /\ Len(queue) = 0
  OBVIOUS
<1>2. TypeOK
  <2>1. roi \in Results /\ counted \subseteq 1..MaxRois /\ stale \in Nat
        /\ held \in Results \cup {NoBuffer}
    BY DEF Results, NoBuffer
  <2>2. QED
    BY <1>1, <2>1 DEF TypeOK
<1>3. StatisticsTimed /\ RoiMeansTracking
  BY DEF StatisticsTimed, RoiMeansTracking
<1>4. StaleResultsBounded /\ Len(queue) <= MaxBuffers /\ OldInFlight
  BY <1>1 DEF StaleResultsBounded, OldInFlight, Old
<1>5. QED
  BY <1>2, <1>3, <1>4 DEF IInv

\* Stopping the video leaves nothing in flight, and no ROI.
LEMMA StopKeeps ==
  ASSUME TypeOK, StopVideo, config' \in Processors,
         loop' \in {"waiting", "keys", "dead", "destroyed"}
  PROVE  TypeOK' /\ IInv'
<1> USE BenchmarkAssumption DEF StopVideo, ResetStatistics
<1>1. queue' \in Seq(Results) /\ DOMAIN queue' = {} /\ Len(queue') = 0
  OBVIOUS
<1>2. TypeOK'
  <2>1. roi' \in Results /\ counted' \subseteq 1..MaxRois /\ stale' \in Nat
        /\ held' \in Results \cup {NoBuffer}
    BY DEF Results, NoBuffer
  <2>2. QED
    BY <1>1, <2>1 DEF TypeOK
<1>3. StatisticsTimed' /\ RoiMeansTracking'
  BY DEF StatisticsTimed, RoiMeansTracking
<1>4. StaleResultsBounded' /\ Len(queue') <= MaxBuffers /\ OldInFlight'
  BY <1>1 DEF StaleResultsBounded, OldInFlight, Old
<1>5. QED
  BY <1>2, <1>3, <1>4 DEF IInv

\* Loading one starts with an empty appsink and a frame without a result.
LEMMA LoadKeeps ==
  ASSUME TypeOK, LoadSource \/ LoadRaises
  PROVE  TypeOK' /\ IInv'
<1> USE BenchmarkAssumption DEF LoadSource, LoadRaises, Prerolled, ResetStatistics
<1>1. queue' \in Seq(Results) /\ DOMAIN queue' = {} /\ Len(queue') = 0
  <2>1. queue' = <<>>
    OBVIOUS
  <2>2. QED
    BY <2>1
<1>2. TypeOK'
  <2>1. roi' \in Results /\ counted' \subseteq 1..MaxRois /\ stale' \in Nat
        /\ held' \in Results \cup {NoBuffer}
    BY DEF Results, NoBuffer
  <2>2. QED
    BY <1>1, <2>1 DEF TypeOK
<1>3. StatisticsTimed' /\ RoiMeansTracking'
  BY DEF StatisticsTimed, RoiMeansTracking
<1>4. StaleResultsBounded' /\ Len(queue') <= MaxBuffers /\ OldInFlight'
  BY <1>1 DEF StaleResultsBounded, OldInFlight, Old
<1>5. QED
  BY <1>2, <1>3, <1>4 DEF IInv

\* Play and pause, from the button or the key.
LEMMA ToggleKeeps ==
  ASSUME TypeOK, IInv, TogglePause, loop' \in {"waiting", "keys", "dead", "destroyed"}
  PROVE  TypeOK' /\ IInv'
<1> USE DEF TogglePause, elementVars, sinkVars
<1>1. TypeOK'
  BY DEF TypeOK
<1>2. StatisticsTimed' /\ RoiMeansTracking'
  BY DEF TypeOK, IInv, StatisticsTimed, RoiMeansTracking
<1>3. StaleResultsBounded' /\ Len(queue') <= MaxBuffers /\ OldInFlight'
  BY DEF IInv, StaleResultsBounded, OldInFlight, Old
<1>4. QED
  BY <1>1, <1>2, <1>3 DEF IInv

\* A new ROI makes every result in flight an old one, and starts counting.
LEMMA RoiKeeps ==
  ASSUME TypeOK, IInv, RoiDrawn, loop' \in {"waiting", "keys", "dead", "destroyed"}
  PROVE  TypeOK' /\ IInv'
<1> USE BenchmarkAssumption DEF RoiDrawn, ResetStatistics, MayDraw, sinkVars
<1>1. TypeOK'
  <2>1. roi' \in Results /\ counted' \subseteq 1..MaxRois /\ stale' \in Nat
    BY DEF TypeOK, Results
  <2>2. QED
    BY <2>1 DEF TypeOK
<1>2. StatisticsTimed' /\ RoiMeansTracking'
  BY DEF TypeOK, Results, IInv, StatisticsTimed, RoiMeansTracking
<1>3. /\ queue' = queue /\ stale' = 0
      /\ Len(queue) \in Nat /\ DOMAIN queue = 1..Len(queue) /\ Len(queue) <= MaxBuffers
  BY LenProperties DEF TypeOK, IInv
<1>4. StaleResultsBounded' /\ Len(queue') <= MaxBuffers /\ OldInFlight'
  BY <1>3 DEF StaleResultsBounded, OldInFlight
<1>5. QED
  BY <1>1, <1>2, <1>4 DEF IInv

\* What the streaming thread makes carries the current ROI; what it hands
\* over moves one place on.
LEMMA StreamingKeeps ==
  ASSUME TypeOK, IInv, Stream \/ Render \/ PostEos \/ PostError
  PROVE  TypeOK' /\ IInv'
<1> USE BenchmarkAssumption DEF appVars, statsVars, elementVars
<1>1. StatisticsTimed' /\ RoiMeansTracking' /\ StaleResultsBounded'
  BY DEF IInv, StatisticsTimed, RoiMeansTracking, StaleResultsBounded, Stream, Render,
     PostEos, PostError
<1>2. CASE Stream
  <2>1. held' \in {0, roi} /\ UNCHANGED <<queue, roi, stale>>
    BY <1>2 DEF Stream
  <2>2. TypeOK'
    BY <1>2, <2>1 DEF Stream, TypeOK, Results
  <2>3. Len(queue') <= MaxBuffers /\ OldInFlight'
    BY <2>1 DEF IInv, OldInFlight, Old
  <2>4. QED
    BY <1>1, <2>2, <2>3 DEF IInv
<1>3. CASE Render
  <2> DEFINE kept == IF Len(queue) < MaxBuffers THEN queue ELSE Tail(queue)
  <2>1. /\ queue \in Seq(Results) /\ Len(queue) \in Nat /\ DOMAIN queue = 1..Len(queue)
        /\ Len(queue) <= MaxBuffers
        /\ held \in Results
        /\ stale \in Nat
    BY <1>3, LenProperties DEF TypeOK, IInv, Render
  <2>2. /\ kept \in Seq(Results) /\ Len(kept) \in Nat
        /\ Len(kept) < MaxBuffers /\ Len(kept) <= Len(queue)
        /\ \A i \in 1..Len(kept) : \E j \in DOMAIN queue : j >= i /\ kept[i] = queue[j]
    <3>1. CASE Len(queue) < MaxBuffers
      BY <2>1, <3>1
    <3>2. CASE ~(Len(queue) < MaxBuffers)
      <4>1. queue # <<>>
        BY <2>1, <3>2
      <4>2. /\ Tail(queue) \in Seq(Results) /\ Len(Tail(queue)) = Len(queue) - 1
            /\ \A i \in 1..(Len(queue) - 1) : Tail(queue)[i] = queue[i + 1]
        BY <2>1, <4>1, HeadTailProperties
      <4>3. QED
        BY <2>1, <3>2, <4>2
    <3>3. QED
      BY <3>1, <3>2
  <2> HIDE DEF kept
  <2>3. /\ queue' = Append(kept, held) /\ held' = NoBuffer
        /\ UNCHANGED <<roi, stale>>
    BY <1>3 DEF Render, kept
  <2>4. /\ queue' \in Seq(Results) /\ Len(queue') = Len(kept) + 1
        /\ DOMAIN queue' = 1..(Len(kept) + 1)
        /\ \A i \in 1..Len(kept) : queue'[i] = kept[i]
        /\ queue'[Len(kept) + 1] = held
    BY <2>1, <2>2, <2>3, AppendProperties
  <2>5. TypeOK'
    BY <1>3, <2>4 DEF Render, TypeOK
  <2>6. Len(queue') <= MaxBuffers
    BY <2>2, <2>4
  <2>7. ASSUME NEW i \in DOMAIN queue', queue'[i] \notin {0, roi, NoBuffer}
        PROVE  stale + i <= MaxBuffers + 1
    <3>1. CASE i \in 1..Len(kept)
      <4>1. PICK j \in DOMAIN queue : j >= i /\ kept[i] = queue[j]
        BY <2>2, <3>1
      <4>2. Old(queue[j])
        BY <2>3, <2>4, <2>7, <3>1, <4>1 DEF Old
      <4>3. QED
        BY <2>1, <3>1, <4>1, <4>2 DEF IInv, OldInFlight
    <3>2. CASE i = Len(kept) + 1
      <4>1. Old(held)
        BY <2>3, <2>4, <2>7, <3>2 DEF Old
      <4>2. QED
        BY <2>1, <2>2, <3>2, <4>1 DEF IInv, OldInFlight
    <3>3. QED
      BY <2>2, <2>4, <3>1, <3>2
  <2>8. OldInFlight'
    BY <2>3, <2>7 DEF OldInFlight, Old, NoBuffer
  <2>9. QED
    BY <1>1, <2>5, <2>6, <2>8 DEF IInv
<1>4. CASE PostEos \/ PostError
  BY <1>1, <1>4 DEF PostEos, PostError, TypeOK, IInv, OldInFlight, Old
<1>5. QED
  BY <1>2, <1>3, <1>4

\* The tick shows the first result; if it is an old one, it is counted, and
\* the old ones behind it move up.
LEMMA ShownKeeps ==
  ASSUME TypeOK, IInv, ShowFrame \/ ShowRaises, loop' \in {"keys", "dead"}
  PROVE  TypeOK' /\ IInv'
<1>1. CASE StopVideo
  BY <1>1, StopKeeps DEF ShowFrame, ShowRaises, TypeOK
<1>2. CASE ~StopVideo
  <2>1. /\ queue \in Seq(Results) /\ queue # <<>> /\ queue' = Tail(queue)
        /\ Len(queue) \in Nat \ {0} /\ DOMAIN queue = 1..Len(queue)
        /\ Len(queue) <= MaxBuffers
        /\ stale \in Nat /\ stale <= MaxBuffers + 1 /\ MaxBuffers \in Nat
        /\ UNCHANGED <<selected, config, pipeline, paused, roi_selected, clock,
                       elementVars, held, bus>>
    BY <1>2, BenchmarkAssumption, LenProperties, EmptySeq
       DEF ShowFrame, ShowRaises, MayShow, Pulled, TypeOK, IInv, StaleResultsBounded
  <2>2. /\ queue' \in Seq(Results) /\ Len(queue') = Len(queue) - 1
        /\ DOMAIN queue' = 1..(Len(queue) - 1)
        /\ \A i \in 1..(Len(queue) - 1) : queue'[i] = queue[i + 1]
        /\ Head(queue) = queue[1] /\ queue[1] \in Results
    BY <2>1, HeadTailProperties, ElementOfSeq
  <2>3. /\ counted' \in {counted, counted \cup {queue[1]}}
        /\ counted' # counted => queue[1] # 0
        /\ \/ stale' = stale
           \/ stale' = stale + 1 /\ queue[1] # 0 /\ queue[1] # roi
    <3>1. PICK counts \in {Counts, FALSE} : Pulled(counts)
      BY <1>2 DEF ShowFrame, ShowRaises
    <3>2. counts => queue[1] # 0
      BY <2>2, <3>1 DEF Counts
    <3>3. QED
      BY <2>2, <3>1, <3>2 DEF Pulled
  <2>4. stale' = stale \/ (stale' = stale + 1 /\ Old(queue[1]))
    BY <2>2, <2>3, BenchmarkAssumption DEF Old, NoBuffer, Results
  <2>5. TypeOK'
    BY <2>1, <2>2, <2>3, BenchmarkAssumption DEF TypeOK, Results, elementVars
  <2>6. StatisticsTimed' /\ RoiMeansTracking'
    BY <2>1 DEF IInv, StatisticsTimed, RoiMeansTracking, elementVars
  <2>7. StaleResultsBounded' /\ Len(queue') <= MaxBuffers
    <3>1. Old(queue[1]) => stale + 1 <= MaxBuffers + 1
      BY <2>1 DEF IInv, OldInFlight
    <3>2. QED
      BY <2>1, <2>2, <2>4, <3>1 DEF StaleResultsBounded
  <2>8. OldInFlight'
    <3>1. ASSUME NEW i \in DOMAIN queue', queue'[i] \notin {0, roi, NoBuffer}
          PROVE  stale' + i <= MaxBuffers + 1
      <4>1. i + 1 \in DOMAIN queue /\ Old(queue[i + 1])
        BY <2>1, <2>2, <3>1 DEF Old, elementVars
      <4>2. stale + (i + 1) <= MaxBuffers + 1
        BY <4>1 DEF IInv, OldInFlight
      <4>3. QED
        BY <2>1, <2>2, <2>4, <4>2
    <3>2. Old(held) => stale' + Len(queue') <= MaxBuffers
      BY <2>1, <2>2, <2>4 DEF IInv, OldInFlight
    <3>3. QED
      BY <2>1, <3>1, <3>2 DEF OldInFlight, Old, NoBuffer, elementVars
  <2>9. QED
    BY <2>5, <2>6, <2>7, <2>8 DEF IInv
<1>3. QED
  BY <1>1, <1>2

\* Every callback and every step of the streaming thread keeps the invariant.
LEMMA BenchmarkStep == TypeOK /\ IInv /\ [Next]_vars => (TypeOK /\ IInv)'
<1> SUFFICES ASSUME TypeOK, IInv, [Next]_vars
             PROVE  TypeOK' /\ IInv'
  OBVIOUS
<1> DEFINE Still == UNCHANGED <<config, pipeline, paused, roi_selected, statsVars,
                                elementVars, sinkVars>>
<1>1. ASSUME Still, selected' \in Processors,
             loop' \in {"waiting", "keys", "dead", "destroyed"}
      PROVE  TypeOK' /\ IInv'
  BY <1>1 DEF TypeOK, IInv, StatisticsTimed, RoiMeansTracking, StaleResultsBounded,
     OldInFlight, Old, statsVars, elementVars, sinkVars
<1>2. CASE Stream \/ Render \/ PostEos \/ PostError
  BY <1>2, StreamingKeeps
<1>3. ASSUME NEW p \in Processors, SelectProcessor(p) PROVE TypeOK' /\ IInv'
  BY <1>1, <1>3 DEF SelectProcessor, TypeOK
<1>4. CASE LoadFails
  BY <1>4, StopKeeps DEF LoadFails, TypeOK
<1>5. CASE LoadSource \/ LoadRaises
  BY <1>5, LoadKeeps
<1>6. CASE RoiButton
  BY <1>1, <1>6, RoiKeeps DEF RoiButton, RoiRaises, TypeOK
<1>7. CASE PlayButton
  BY <1>7, ToggleKeeps DEF PlayButton, TypeOK
<1>8. CASE Close
  BY <1>8, StopKeeps DEF Close, TypeOK
<1>9. CASE TickPolls
  <2>1. CASE CheckBus
    BY <1>9, <2>1, StopKeeps DEF TickPolls, CheckBus, TypeOK
  <2>2. CASE ShowFrame \/ ShowRaises
    BY <1>9, <2>2, ShownKeeps DEF TickPolls
  <2>3. CASE NothingToShow
    BY <1>1, <1>9, <2>3 DEF TickPolls, NothingToShow, TypeOK
  <2>4. QED
    BY <1>9, <2>1, <2>2, <2>3 DEF TickPolls
<1>10. CASE TickKey
  BY <1>1, <1>10, StopKeeps, ToggleKeeps, RoiKeeps DEF TickKey, RoiRaises, TypeOK
<1>11. CASE NoKey
  BY <1>1, <1>11 DEF NoKey, TypeOK
<1>12. CASE UNCHANGED vars
  BY <1>1, <1>12 DEF vars, appVars, TypeOK
<1>13. QED
  BY <1>2, <1>3, <1>4, <1>5, <1>6, <1>7, <1>8, <1>9, <1>10, <1>11, <1>12
     DEF Next, Finished

\* The benchmark keeps its types and its invariant.
THEOREM BenchmarkInvariance == Spec => [](TypeOK /\ IInv)
BY BenchmarkInit, BenchmarkStep, PTL DEF Spec

\* The clock of the statistics runs exactly while a video with an ROI plays.
THEOREM ClockRight == Spec => []StatisticsTimed
<1>1. IInv => StatisticsTimed
  BY DEF IInv
<1>2. QED
  BY <1>1, BenchmarkInvariance, PTL

\* An ROI is believed tracked exactly while the loaded element tracks one.
THEOREM RoiTracked == Spec => []RoiMeansTracking
<1>1. IInv => RoiMeansTracking
  BY DEF IInv
<1>2. QED
  BY <1>1, BenchmarkInvariance, PTL

\* A new ROI's statistics take in no more results of earlier ones than the
\* appsink can hold and one.
THEOREM StaleBounded == Spec => []StaleResultsBounded
<1>1. IInv => StaleResultsBounded
  BY DEF IInv
<1>2. QED
  BY <1>1, BenchmarkInvariance, PTL

-----------------------------------------------------------------------------
(* The start and stop of the bridge.                                       *)

\* Nothing is open, started or playing when main() begins.
LEMMA BridgeStartsEmpty == BridgeInit => BridgeIInv
BY DEF BridgeInit, BridgeIInv, SocketsByPosition, ThreadsByPosition,
       PlayingByPosition, SocketsClosedAtExit, Threading,
       Serving, Starting

\* The statements of start() and of main() up to the loop: each leaves what
\* the next position says.
LEMMA BridgeStarts ==
  ASSUME BridgeIInv,
         \/ OpenTelemetry \/ OpenCommand \/ SetRunning
         \/ MakeCommandThread \/ StartCommandThread
         \/ StartPublisherThread \/ Build \/ Play
  PROVE  BridgeIInv'
<1> USE DEF BridgeIInv, SocketsByPosition, ThreadsByPosition,
            PlayingByPosition, SocketsClosedAtExit, Threading,
            Serving, Starting, Goto, transportVars
<1>1. CASE OpenTelemetry
  BY <1>1 DEF OpenTelemetry
<1>2. CASE OpenCommand
  BY <1>2 DEF OpenCommand
<1>3. CASE SetRunning
  BY <1>3 DEF SetRunning
<1>4. CASE MakeCommandThread
  BY <1>4 DEF MakeCommandThread
<1>5. CASE StartCommandThread
  BY <1>5 DEF StartCommandThread
<1>6. CASE StartPublisherThread
  BY <1>6 DEF StartPublisherThread
<1>7. CASE Build
  BY <1>7 DEF Build
<1>8. CASE Play
  BY <1>8 DEF Play
<1>9. QED
  BY <1>1, <1>2, <1>3, <1>4, <1>5, <1>6, <1>7, <1>8

\* The end of the loop, an interrupt, and the finally blocks.
LEMMA BridgeStops ==
  ASSUME BridgeIInv,
         \/ LeaveLoop \/ StopPipeline \/ Interrupt \/ CutShort
         \/ SetStopEvent \/ ClearRunning \/ CloseCommand
         \/ ForgetCommand \/ CloseTelemetry \/ ForgetTelemetry
         \/ JoinCommand \/ TransportStopped \/ JoinPublisher
  PROVE  BridgeIInv'
<1> USE DEF BridgeIInv, SocketsByPosition, ThreadsByPosition,
            PlayingByPosition, SocketsClosedAtExit, Threading,
            Serving, Starting, Goto, transportVars
<1>1. CASE LeaveLoop
  BY <1>1 DEF LeaveLoop
<1>2. CASE StopPipeline
  BY <1>2 DEF StopPipeline
<1>3. CASE Interrupt
  BY <1>3 DEF Interrupt, StopStatements
<1>4. CASE CutShort
  BY <1>4 DEF CutShort, StopStatements
<1>5. CASE SetStopEvent
  BY <1>5 DEF SetStopEvent
<1>6. CASE ClearRunning
  BY <1>6 DEF ClearRunning
<1>7. CASE CloseCommand
  BY <1>7 DEF CloseCommand
<1>8. CASE ForgetCommand
  BY <1>8 DEF ForgetCommand
<1>9. CASE CloseTelemetry
  BY <1>9 DEF CloseTelemetry
<1>10. CASE ForgetTelemetry
  BY <1>10 DEF ForgetTelemetry
<1>11. CASE JoinCommand
  BY <1>11 DEF JoinCommand
<1>12. CASE TransportStopped
  BY <1>12 DEF TransportStopped
<1>13. CASE JoinPublisher
  BY <1>13 DEF JoinPublisher
<1>14. QED
  BY <1>1, <1>2, <1>3, <1>4, <1>5, <1>6, <1>7, <1>8, <1>9, <1>10, <1>11, <1>12, <1>13

\* The two threads: while main() serves, the sockets are open, running is set
\* and the stop event is not, so that neither finds a reason to end.
LEMMA BridgeThreads ==
  ASSUME BridgeIInv, CommandStep \/ PublisherStep
  PROVE  BridgeIInv'
<1>1. CASE CommandStep
  <2> USE DEF CommandStep, CommandGoto, Register, LoopHead,
              Poll, CheckEvents, Recv, OfferCommand
  <2>1. UNCHANGED <<mainVars, transportVars, stop_event, publisher, gst_pipeline>>
    BY <1>1
  <2>2. command # "new" /\ command' # "new"
    BY <1>1
  <2>3. command_socket = "open" /\ running => command' \notin {"done", "crashed"}
    BY <1>1
  <2>4. QED
    BY <2>1, <2>2, <2>3
       DEF BridgeIInv, SocketsByPosition, ThreadsByPosition,
           PlayingByPosition, SocketsClosedAtExit, Threading,
           Serving, Starting, mainVars, transportVars
<1>2. CASE PublisherStep
  <2> USE DEF PublisherStep, PublisherGoto, PublishHead,
              PublishCheck, PublishSend
  <2>1. UNCHANGED <<mainVars, transportVars, stop_event, command, gst_pipeline>>
    BY <1>2
  <2>2. publisher # "new" /\ publisher' # "new"
    BY <1>2
  <2>3. ~stop_event => publisher' # "done"
    BY <1>2
  <2>4. QED
    BY <2>1, <2>2, <2>3
       DEF BridgeIInv, SocketsByPosition, ThreadsByPosition,
           PlayingByPosition, SocketsClosedAtExit, Threading,
           Serving, Starting, mainVars, transportVars
<1>3. QED
  BY <1>1, <1>2

\* Every step of the bridge keeps what its position says.
LEMMA BridgeStep == BridgeIInv /\ [BridgeNext]_(bridgeVars) => BridgeIInv'
<1> SUFFICES ASSUME BridgeIInv, [BridgeNext]_(bridgeVars)
             PROVE  BridgeIInv'
  OBVIOUS
<1>1. CASE MainStep \/ LeaveLoop \/ Interrupt \/ CutShort
  BY <1>1, BridgeStarts, BridgeStops DEF MainStep
<1>2. CASE CommandStep \/ PublisherStep
  BY <1>2, BridgeThreads
<1>3. CASE UNCHANGED bridgeVars
  BY <1>3 DEF bridgeVars, mainVars, transportVars, BridgeIInv,
     SocketsByPosition, ThreadsByPosition, PlayingByPosition,
     SocketsClosedAtExit
<1>4. QED
  BY <1>1, <1>2, <1>3 DEF BridgeNext, BridgeFinished

\* main() is where its invariant says.
LEMMA BridgeInvariance == BridgeSpec => []BridgeIInv
BY BridgeStartsEmpty, BridgeStep, PTL DEF BridgeSpec

\* However main() ends, both sockets are closed and forgotten, unless the
\* finally block itself was interrupted.
THEOREM SocketsClosed == BridgeSpec => []SocketsClosedAtExit
<1>1. BridgeIInv => SocketsClosedAtExit
  BY DEF BridgeIInv
<1>2. QED
  BY <1>1, BridgeInvariance, PTL

\* However main() ends, the pipeline does not play on, unless an interrupt
\* outside of the loop ended it.
THEOREM PipelineStopped == BridgeSpec => []PipelineStoppedAtExit
<1>1. BridgeIInv => PipelineStoppedAtExit
  BY DEF BridgeIInv, PlayingByPosition, PipelineStoppedAtExit
<1>2. QED
  BY <1>1, BridgeInvariance, PTL

\* While the pipeline is built and plays, sockets and threads are there: only
\* the shutdown can make the command thread find a socket gone.
THEOREM ServedUntilStopped == BridgeSpec => []ServesUntilStopped
<1>1. BridgeIInv => ServesUntilStopped
  BY DEF BridgeIInv, SocketsByPosition, ThreadsByPosition,
     ServesUntilStopped, Threading, Serving
<1>2. QED
  BY <1>1, BridgeInvariance, PTL

\* The order of the statements.
LEMMA OrderOf ==
  /\ Order["open_telemetry"] = 0
  /\ Order["open_command"] = 1
  /\ Order["set_running"] = 2
  /\ Order["make_command_thread"] = 3
  /\ Order["start_command_thread"] = 4
  /\ Order["start_publisher_thread"] = 5
  /\ Order["build"] = 6
  /\ Order["play"] = 7
  /\ Order["loop"] = 8
  /\ Order["stop_pipeline"] = 9
  /\ Order["clear_running"] = 10
  /\ Order["close_command"] = 11
  /\ Order["forget_command"] = 12
  /\ Order["close_telemetry"] = 13
  /\ Order["forget_telemetry"] = 14
  /\ Order["join_command"] = 15
  /\ Order["after_transport_stop"] = 16
  /\ Order["set_stop_event"] = 17
  /\ Order["join_publisher"] = 18
  /\ Order["exited"] = 40
BY DEF Order, Statements, StopStatements

\* A step of the main thread goes on in its order of statements; the other two
\* threads leave it where it is.
LEMMA MainAdvances ==
  ASSUME BridgeIInv, [BridgeNext]_(bridgeVars), main' # main
  PROVE  Place' > Place
<1> USE OrderOf DEF Place, Goto, transportVars
<1>1. main \in Starting \cup {"loop", "stop_pipeline", "set_stop_event"} => ~stop_event
  BY DEF BridgeIInv, ThreadsByPosition
<1>2. CASE OpenTelemetry \/ OpenCommand \/ SetRunning \/ MakeCommandThread
  BY <1>2 DEF OpenTelemetry, OpenCommand, SetRunning, MakeCommandThread
<1>3. CASE StartCommandThread \/ StartPublisherThread
  BY <1>3 DEF StartCommandThread, StartPublisherThread
<1>4. CASE Build \/ Play \/ LeaveLoop \/ StopPipeline
  <2>1. stop_event' = stop_event
    BY <1>4 DEF Build, Play, LeaveLoop, StopPipeline
  <2>2. \/ main = "build" /\ main' \in {"play", "set_stop_event"}
        \/ main = "play" /\ main' = "loop"
        \/ main = "loop" /\ main' = "stop_pipeline"
        \/ main = "stop_pipeline" /\ main' = "set_stop_event"
    BY <1>4 DEF Build, Play, LeaveLoop, StopPipeline
  <2>3. QED
    BY <2>1, <2>2
<1>5. CASE Interrupt
  BY <1>1, <1>5 DEF Interrupt, Starting, StopStatements
<1>6. CASE CutShort
  BY <1>1, <1>6 DEF CutShort, StopStatements
<1>7. CASE SetStopEvent
  BY <1>1, <1>7 DEF SetStopEvent
<1>8. CASE ClearRunning \/ CloseCommand \/ ForgetCommand
  BY <1>8 DEF ClearRunning, CloseCommand, ForgetCommand
<1>9. CASE CloseTelemetry \/ ForgetTelemetry
  BY <1>9 DEF CloseTelemetry, ForgetTelemetry
<1>10. CASE JoinCommand \/ TransportStopped \/ JoinPublisher
  BY <1>10 DEF JoinCommand, TransportStopped, JoinPublisher
<1>11. CASE CommandStep \/ PublisherStep
  BY <1>11 DEF CommandStep, CommandGoto, Register, LoopHead, Poll, CheckEvents, Recv,
     OfferCommand, PublisherStep, PublisherGoto, PublishHead, PublishCheck, PublishSend,
     mainVars
<1>12. CASE UNCHANGED bridgeVars
  BY <1>12 DEF bridgeVars, mainVars
<1>13. QED
  BY <1>2, <1>3, <1>4, <1>5, <1>6, <1>7, <1>8, <1>9, <1>10, <1>11, <1>12
     DEF BridgeNext, MainStep, BridgeFinished

\* Whatever fails and whenever the interrupt comes, main() of the bridge never
\* returns to a statement it has passed: it is over after finitely many.
THEOREM MainGoesOn == BridgeSpec => MainMovesOn
<1>1. BridgeIInv /\ [BridgeNext]_(bridgeVars)
         => [main' # main => Place' > Place]_(bridgeVars)
  BY MainAdvances
<1>2. QED
  BY <1>1, BridgeInvariance, PTL DEF BridgeSpec, MainMovesOn
-----------------------------------------------------------------------------
(* The frames the capstone application prints.                             *)

\* Nothing is on its way before the pipeline plays.
LEMMA RunStartsEmpty ==
  ASSUME RunInit
  PROVE  RunTypeOK /\ RunIInv
<1> USE DEF RunInit
<1>1. /\ Len(metadata) = 0 /\ DOMAIN metadata = {} /\ metadata \in Seq(Buffers)
      /\ Len(samples) = 0 /\ DOMAIN samples = {}
      /\ Len(printed) = 0 /\ DOMAIN printed = {}
      /\ printed \in Seq([frame : Nat, of : Numbers, detection : Detections])
  OBVIOUS
<1>2. buffer \in Buffers /\ frame_number \in Numbers
  BY CapstoneAssumption DEF Buffers, Numbers, Eos, Buffer, NoMeta
<1>3. RunTypeOK
  BY <1>1, <1>2 DEF RunTypeOK
<1>4. QED
  BY <1>1, <1>3 DEF RunIInv, PrintsDescribeFrames, SamplesInOrder,
     QueueInOrder, SourceInOrder, EosLast, Arriving

\* What the sequences on the way to the printer hold.
LEMMA RunLengths ==
  ASSUME RunTypeOK
  PROVE  /\ metadata \in Seq(Buffers)
         /\ Len(metadata) \in Nat /\ DOMAIN metadata = 1..Len(metadata)
         /\ \A i \in DOMAIN metadata : metadata[i] \in Buffers
         /\ Len(samples) \in {0, 1} /\ DOMAIN samples = 1..Len(samples)
         /\ \A i \in DOMAIN samples : samples[i] \in Buffers
         /\ Len(printed) \in Nat /\ DOMAIN printed = 1..Len(printed)
         /\ frame \in Nat /\ frame_number \in Nat /\ frame_number <= NumBuffers
         /\ buffer \in Buffers
         /\ \A b \in Buffers : b.offset \in Nat /\ b.offset <= NumBuffers
<1>1. metadata \in Seq(Buffers)
      /\ printed \in Seq([frame : Nat, of : Numbers, detection : Detections])
  BY DEF RunTypeOK
<1>2. samples = <<>> \/ \E b \in Buffers : samples = <<b>>
  BY DEF RunTypeOK
<1>3. Len(samples) \in {0, 1} /\ DOMAIN samples = 1..Len(samples)
      /\ \A i \in DOMAIN samples : samples[i] \in Buffers
  BY <1>2
<1>4. /\ Len(metadata) \in Nat /\ DOMAIN metadata = 1..Len(metadata)
      /\ \A i \in DOMAIN metadata : metadata[i] \in Buffers
      /\ Len(printed) \in Nat /\ DOMAIN printed = 1..Len(printed)
  BY <1>1, LenProperties, ElementOfSeq
<1>5. frame \in Nat /\ frame_number \in Nat /\ frame_number <= NumBuffers
      /\ buffer \in Buffers
  BY DEF RunTypeOK, Numbers
<1>6. \A b \in Buffers : b.offset \in Nat /\ b.offset <= NumBuffers
  BY DEF Buffers, Numbers
<1>7. QED
  BY <1>1, <1>3, <1>4, <1>5, <1>6

\* The source makes the next number, and reddetect describes it.
LEMMA SourceKeeps ==
  ASSUME RunTypeOK, RunIInv,
         Create \/ Detect \/ CreateEos
  PROVE  RunTypeOK' /\ RunIInv'
<1>1. /\ UNCHANGED <<runner, ending, detects, display, metadata, samples, frame, printed,
                     at_eos, message>>
      /\ source \in {"create", "detect"}
      /\ frame_number \in Nat /\ frame_number <= NumBuffers
  BY RunLengths DEF Create, Detect, CreateEos, SourceGoto, branchVars
<1>2. frame_number' \in Numbers /\ buffer' \in Buffers
      /\ source' \in {"detect", "display"}
  <2>1. CASE Create
    BY CapstoneAssumption, <1>1, <2>1 DEF Create, SourceGoto, Numbers, Buffers, Buffer, NoMeta
  <2>2. CASE CreateEos
    BY <1>1, <2>2 DEF CreateEos, SourceGoto, Numbers, Buffers, Buffer,
       Eos, NoMeta, RunTypeOK
  <2>3. CASE Detect
    <3>1. buffer.offset \in Numbers
      BY DEF RunTypeOK, Buffers
    <3>2. PICK meta \in {NoMeta, <<Detection(buffer.offset)>>} :
              buffer' = Buffer(buffer.offset, meta)
      BY <2>3 DEF Detect
    <3>3. meta \in {NoMeta} \cup {<<d>> : d \in Detections}
      BY <3>1, <3>2 DEF Detection, Detections
    <3>4. QED
      BY <2>3, <3>1, <3>2, <3>3 DEF Detect, SourceGoto, Buffers, Buffer, RunTypeOK
  <2>4. QED
    BY <2>1, <2>2, <2>3
<1>3. RunTypeOK'
  BY <1>1, <1>2 DEF RunTypeOK
<1>4. SourceInOrder'
  <2>1. Arriving' = Arriving
    BY <1>1 DEF Arriving
  <2>2. CASE Create
    BY <1>1, <2>1, <2>2 DEF Create, SourceGoto, RunIInv, SourceInOrder,
       Buffer, Described
  <2>3. CASE CreateEos
    BY <1>1, <2>1, <2>3 DEF CreateEos, SourceGoto, RunIInv, SourceInOrder,
       Buffer, Eos, Described
  <2>4. CASE Detect
    <3>1. /\ buffer'.offset = buffer.offset /\ source = "detect" /\ source' = "display"
          /\ buffer'.meta \in {NoMeta, <<Detection(buffer.offset)>>}
          /\ frame_number' = frame_number
      BY <2>4 DEF Detect, SourceGoto, Buffer
    <3>2. Described(buffer)'
      BY <1>1, <3>1 DEF Described, Detection
    <3>3. QED
      BY <2>1, <3>1, <3>2 DEF RunIInv, SourceInOrder
  <2>5. QED
    BY <2>2, <2>3, <2>4
<1>5. QED
  BY <1>1, <1>3, <1>4 DEF RunIInv, PrintsDescribeFrames, SamplesInOrder,
     QueueInOrder, EosLast, Arriving, Described, Detection

\* The tee hands over the number that the queue lacks, and stops after EOS.
LEMMA PushKeeps ==
  ASSUME RunTypeOK, RunIInv, PushMetadata
  PROVE  RunTypeOK' /\ RunIInv'
<1>1. /\ UNCHANGED <<runner, ending, frame_number, detects, buffer, display, samples, frame,
                     printed, at_eos, message>>
      /\ source = "metadata"
      /\ source' = IF buffer = Eos THEN "stopped" ELSE "create"
      /\ metadata' = Append(metadata, buffer)
  BY DEF PushMetadata, SourceGoto, branchVars
<1>2. /\ metadata' \in Seq(Buffers)
      /\ Len(metadata') = Len(metadata) + 1
      /\ DOMAIN metadata' = 1..(Len(metadata) + 1)
      /\ \A i \in 1..Len(metadata) : metadata'[i] = metadata[i]
      /\ metadata'[Len(metadata) + 1] = buffer
  BY <1>1, RunLengths, AppendProperties
<1>3. RunTypeOK'
  BY <1>1, <1>2 DEF RunTypeOK
<1>4. /\ buffer.offset = Arriving
      /\ Described(buffer)
      /\ buffer.offset = NumBuffers => buffer = Eos
      /\ buffer # Eos => frame_number = buffer.offset + 1
  BY <1>1 DEF RunIInv, SourceInOrder
<1>5. Arriving' = Arriving + 1
  <2>1. Len(metadata) \in Nat /\ Len(samples) \in Nat /\ frame \in Nat
    BY RunLengths
  <2>2. Len(metadata') = Len(metadata) + 1
    BY <1>2
  <2>3. samples' = samples /\ frame' = frame
    BY <1>1
  <2>4. Arriving' = frame + Len(samples) + (Len(metadata) + 1)
    BY <2>2, <2>3 DEF Arriving
  <2>5. QED
    BY <2>1, <2>4 DEF Arriving
<1>6. QueueInOrder'
  <2>1. SUFFICES ASSUME NEW i \in 1..(Len(metadata) + 1)
                 PROVE  /\ metadata'[i].offset = frame + Len(samples) + i - 1
                        /\ Described(metadata'[i])
                        /\ metadata'[i].offset = NumBuffers => metadata'[i] = Eos
    BY <1>1, <1>2 DEF QueueInOrder, Described, Detection
  <2>2. CASE i \in 1..Len(metadata)
    BY <1>2, <2>2, RunLengths DEF RunIInv, QueueInOrder
  <2>3. CASE i = Len(metadata) + 1
    BY <1>2, <1>4, <2>3, RunLengths DEF Arriving
  <2>4. QED
    BY <2>2, <2>3, RunLengths
<1>7. SourceInOrder'
  BY <1>1, <1>4, <1>5 DEF SourceInOrder
<1>8. runner # "start"
  BY <1>1 DEF RunIInv
<1>9. QED
  BY <1>1, <1>3, <1>6, <1>7, <1>8 DEF RunIInv, PrintsDescribeFrames,
     SamplesInOrder, EosLast, Described, Detection

\* The appsink takes the next number; if it is EOS, nothing is behind it.
LEMMA RenderKeeps ==
  ASSUME RunTypeOK, RunIInv, RenderSample
  PROVE  RunTypeOK' /\ RunIInv'
<1>1. /\ UNCHANGED <<runner, ending, frame_number, detects, source, buffer, display, frame,
                     printed>>
      /\ metadata # <<>> /\ samples = <<>>
      /\ metadata' = Tail(metadata)
  BY DEF RenderSample, sourceVars
<1>2. /\ Len(metadata) \in Nat \ {0}
      /\ metadata' \in Seq(Buffers)
      /\ Len(metadata') = Len(metadata) - 1
      /\ DOMAIN metadata' = 1..(Len(metadata) - 1)
      /\ \A i \in 1..(Len(metadata) - 1) : metadata'[i] = metadata[i + 1]
      /\ Head(metadata) = metadata[1] /\ metadata[1] \in Buffers
      /\ 1 \in DOMAIN metadata
      /\ Len(samples) = 0
  BY <1>1, RunLengths, HeadTailProperties, EmptySeq
<1>3. /\ metadata[1].offset = frame
      /\ Described(metadata[1])
      /\ metadata[1].offset = NumBuffers => metadata[1] = Eos
      /\ frame <= NumBuffers
  BY <1>2, RunLengths DEF RunIInv, QueueInOrder
<1>4. runner # "start"
  BY <1>2, RunLengths DEF RunIInv, Arriving
<1>5. CASE metadata[1] = Eos
  <2>1. frame = NumBuffers
    BY <1>3, <1>5 DEF Eos, Buffer
  <2>2. Len(metadata) = 1
    <3>1. ASSUME 2 \in DOMAIN metadata PROVE FALSE
      <4>1. metadata[2].offset = frame + Len(samples) + 2 - 1
        BY <3>1 DEF RunIInv, QueueInOrder
      <4>2. QED
        BY <1>2, <2>1, <3>1, <4>1, RunLengths
    <3>2. QED
      BY <1>2, <3>1, RunLengths
  <2>3. Arriving = NumBuffers + 1
    BY CapstoneAssumption, <1>2, <2>1, <2>2 DEF Arriving
  <2>4. source = "stopped"
    BY CapstoneAssumption, <2>3, RunLengths DEF RunIInv, SourceInOrder, RunTypeOK
  <2>5. /\ at_eos' = at_eos \cup {"metadata"}
        /\ message' \in {message, "eos"}
        /\ samples' = samples
    BY <1>2, <1>5 DEF RenderSample, PostSinkEos
  <2>6. RunTypeOK'
    BY <1>1, <1>2, <2>5 DEF RunTypeOK
  <2>7. EosLast'
    BY <1>1, <2>1, <2>5 DEF RunIInv, EosLast
  <2>8. QueueInOrder' /\ SourceInOrder' /\ SamplesInOrder'
    BY <1>1, <1>2, <2>2, <2>4, <2>5 DEF QueueInOrder, SourceInOrder,
       SamplesInOrder
  <2>9. QED
    BY <1>1, <1>4, <2>6, <2>7, <2>8 DEF RunIInv, PrintsDescribeFrames,
       Described, Detection
<1>6. CASE metadata[1] # Eos
  <2>1. frame < NumBuffers
    BY CapstoneAssumption, <1>3, <1>6, RunLengths
  <2>2. samples' = <<metadata[1]>> /\ UNCHANGED <<at_eos, message>>
    BY <1>2, <1>6 DEF RenderSample
  <2>3. Len(samples') = 1 /\ DOMAIN samples' = {1} /\ samples'[1] = metadata[1]
    BY <2>2
  <2>4. RunTypeOK'
    BY <1>1, <1>2, <2>2 DEF RunTypeOK
  <2>5. SamplesInOrder'
    BY <1>1, <1>3, <2>1, <2>3 DEF SamplesInOrder, Described, Detection
  <2>6. QueueInOrder'
    <3>1. SUFFICES ASSUME NEW i \in 1..(Len(metadata) - 1)
                   PROVE  /\ metadata'[i].offset = frame + 1 + i - 1
                          /\ Described(metadata'[i])
                          /\ metadata'[i].offset = NumBuffers => metadata'[i] = Eos
      BY <1>1, <1>2, <2>3 DEF QueueInOrder, Described, Detection
    <3>2. i + 1 \in DOMAIN metadata /\ metadata'[i] = metadata[i + 1]
      BY <1>2, RunLengths
    <3>3. /\ metadata[i + 1].offset = frame + Len(samples) + (i + 1) - 1
          /\ Described(metadata[i + 1])
          /\ metadata[i + 1].offset = NumBuffers => metadata[i + 1] = Eos
      BY <3>2 DEF RunIInv, QueueInOrder
    <3>4. Described(metadata'[i])
          /\ (metadata'[i].offset = NumBuffers => metadata'[i] = Eos)
      BY <3>2, <3>3
    <3>5. metadata'[i].offset = frame + 1 + i - 1
      BY <1>2, <3>2, <3>3, RunLengths
    <3>6. QED
      BY <3>4, <3>5
  <2>7. Arriving' = Arriving
    BY <1>1, <1>2, <2>3, RunLengths DEF Arriving
  <2>8. SourceInOrder' /\ EosLast'
    BY <1>1, <2>2, <2>7 DEF RunIInv, SourceInOrder, EosLast, Described, Detection
  <2>9. QED
    BY <1>1, <1>4, <2>4, <2>5, <2>6, <2>8 DEF RunIInv, PrintsDescribeFrames,
       Described, Detection
<1>7. QED
  BY <1>5, <1>6

\* What is printed is the sample, under the number of the runner: its own.
LEMMA PrintKeeps ==
  ASSUME RunTypeOK, RunIInv, OnNewSample
  PROVE  RunTypeOK' /\ RunIInv'
<1>1. /\ UNCHANGED <<runner, ending, frame_number, detects, source, buffer, display,
                     metadata, at_eos, message>>
      /\ samples # <<>> /\ samples' = <<>> /\ frame' = frame + 1
  BY DEF OnNewSample, sourceVars
<1>2. PICK sample \in Buffers : samples = <<sample>>
  BY <1>1 DEF RunTypeOK
<1> DEFINE detection == IF sample.meta = NoMeta THEN NotFound ELSE Head(sample.meta)
           line == [frame |-> frame, of |-> sample.offset, detection |-> detection]
<1>3. Len(samples) = 1 /\ samples[1] = sample /\ 1 \in DOMAIN samples
      /\ Len(samples') = 0 /\ DOMAIN samples' = {}
  BY <1>1, <1>2
<1>4. sample.offset = frame /\ frame < NumBuffers /\ Described(sample)
  BY <1>3 DEF RunIInv, SamplesInOrder
<1>5. detection \in {NotFound, Detection(frame)}
  BY <1>4 DEF Described, NoMeta
<1>6. printed' = Append(printed, line)
  BY <1>2 DEF OnNewSample
<1> HIDE DEF detection
<1>7. line \in [frame : Nat, of : Numbers, detection : Detections]
      /\ line.frame = frame /\ line.of = frame /\ line.detection = detection
  BY <1>4, <1>5, RunLengths DEF Numbers, Detections, Detection
<1> HIDE DEF line
<1>8. /\ printed \in Seq([frame : Nat, of : Numbers, detection : Detections])
      /\ Len(printed) = frame /\ frame \in Nat
  BY RunLengths DEF RunTypeOK, RunIInv
<1>9. /\ printed' \in Seq([frame : Nat, of : Numbers, detection : Detections])
      /\ Len(printed') = frame + 1 /\ DOMAIN printed' = 1..(frame + 1)
      /\ \A i \in 1..frame : printed'[i] = printed[i]
      /\ printed'[frame + 1] = line
  BY <1>6, <1>7, <1>8, AppendProperties
<1>10. RunTypeOK'
  BY <1>1, <1>8, <1>9 DEF RunTypeOK
<1>11. PrintsDescribeFrames'
  <2>1. SUFFICES ASSUME NEW i \in 1..(frame + 1)
                 PROVE  /\ printed'[i].frame = i - 1
                        /\ printed'[i].of = i - 1
                        /\ printed'[i].detection \in {NotFound, Detection(i - 1)}
    BY <1>1, <1>9 DEF PrintsDescribeFrames, Detection
  <2>2. CASE i \in 1..frame
    BY <1>8, <1>9, <2>2, RunLengths DEF RunIInv, PrintsDescribeFrames
  <2>3. CASE i = frame + 1
    BY <1>5, <1>7, <1>8, <1>9, <2>3
  <2>4. QED
    BY <1>8, <2>2, <2>3
<1>12. Arriving' = Arriving
  BY <1>1, <1>3, RunLengths DEF Arriving
<1>13. SamplesInOrder' /\ SourceInOrder'
  BY <1>1, <1>3, <1>12 DEF RunIInv, SamplesInOrder, SourceInOrder, Described, Detection
<1>14. QueueInOrder'
  BY <1>1, <1>3, RunLengths DEF RunIInv, QueueInOrder, Described, Detection
<1>15. EosLast'
  BY <1>1, <1>4, RunLengths DEF RunIInv, EosLast
<1>16. runner # "start"
  BY <1>3, RunLengths DEF RunIInv, Arriving
<1>17. QED
  BY <1>1, <1>9, <1>10, <1>11, <1>13, <1>14, <1>15, <1>16 DEF RunIInv

\* Every step of the application keeps the invariant.
LEMMA RunStep ==
  ASSUME RunTypeOK, RunIInv, [RunNext]_(runVars)
  PROVE  RunTypeOK' /\ RunIInv'
<1> USE DEF RunIInv, PrintsDescribeFrames, SamplesInOrder, QueueInOrder,
            SourceInOrder, EosLast, Arriving, Described, Detection,
            branchVars, sourceVars
<1>1. CASE Create \/ Detect \/ CreateEos
  BY <1>1, SourceKeeps
<1>2. CASE PushMetadata
  BY <1>2, PushKeeps
<1>3. CASE RenderSample
  BY <1>3, RenderKeeps
<1>4. CASE OnNewSample
  BY <1>4, PrintKeeps
<1>5. CASE FlowError
  BY <1>5 DEF FlowError, RunTypeOK
<1>6. CASE PushDisplay
  <2>1. display' \in Seq(Buffers)
    BY <1>6, AppendProperties DEF PushDisplay, RunTypeOK
  <2>2. QED
    BY <1>6, <2>1 DEF PushDisplay, SourceGoto, RunTypeOK
<1>7. CASE Display
  <2>1. display' \in Seq(Buffers)
    BY <1>7, HeadTailProperties DEF Display, RunTypeOK
  <2>2. /\ at_eos' \in {at_eos, at_eos \cup {"display"}}
        /\ message' # message => message' = "eos" /\ at_eos' = {"display", "metadata"}
    BY <1>7 DEF Display, PostSinkEos
  <2>3. UNCHANGED <<runner, ending, frame_number, detects, source, buffer, metadata, samples,
                    frame, printed>>
    BY <1>7 DEF Display
  <2>4. RunTypeOK'
    BY <2>1, <2>2, <2>3 DEF RunTypeOK
  <2>5. EosLast'
    BY <2>2, <2>3
  <2>6. QED
    BY <2>3, <2>4, <2>5
<1>8. CASE SetPlaying
  BY <1>8 DEF SetPlaying, RunTypeOK
<1>9. CASE EnterLoop \/ InterruptUncaught
  <2>1. /\ UNCHANGED <<ending, frame_number, detects, source, buffer, display, metadata,
                       samples, frame, printed, at_eos, message>>
        /\ runner' \in {"loop", "killed"}
        /\ runner' = "loop" => ending = "none"
    BY <1>9 DEF EnterLoop, InterruptUncaught
  <2>2. RunTypeOK'
    BY <2>1 DEF RunTypeOK
  <2>3. EosLast'
    BY <2>1
  <2>4. QED
    BY <2>1, <2>2, <2>3
<1>10. CASE OnBusMessage \/ InterruptRun
  <2>1. /\ UNCHANGED <<frame_number, detects, source, buffer, display, metadata,
                       samples, frame, printed, at_eos, message>>
        /\ runner' = "stop"
        /\ ending' \in {message, "interrupt"}
        /\ ending' = message => message # "empty"
    BY <1>10 DEF OnBusMessage, InterruptRun, RunTypeOK
  <2>2. RunTypeOK'
    BY <2>1 DEF RunTypeOK
  <2>3. EosLast'
    BY <2>1
  <2>4. QED
    BY <2>1, <2>2, <2>3
<1>11. CASE SetNull
  <2>1. /\ metadata' = <<>> /\ metadata' \in Seq(Buffers) /\ DOMAIN metadata' = {}
        /\ samples' = <<>> /\ DOMAIN samples' = {}
        /\ display' \in Seq(Buffers)
    BY <1>11 DEF SetNull
  <2>2. QED
    BY <1>11, <2>1 DEF SetNull, RunTypeOK
<1>12. CASE UNCHANGED runVars
  BY <1>12 DEF runVars, RunTypeOK
<1>13. QED
  BY <1>1, <1>2, <1>3, <1>4, <1>5, <1>6, <1>7, <1>8, <1>9, <1>10, <1>11, <1>12
     DEF RunNext, Source, Runner, RunFinished

\* What is on its way to the printer is numbered.
LEMMA RunInvariance == RunSpec => [](RunTypeOK /\ RunIInv)
<1>1. RunInit => RunTypeOK /\ RunIInv
  BY RunStartsEmpty
<1>2. RunTypeOK /\ RunIInv /\ [RunNext]_(runVars) => (RunTypeOK /\ RunIInv)'
  BY RunStep
<1>3. QED
  BY <1>1, <1>2, PTL DEF RunSpec

\* However long the video and whatever the queues hold, the numbers printed
\* are those of the frames, none is skipped, and a box is that of its frame.
THEOREM FramesPrinted == RunSpec => []PrintsDescribeFrames
<1>1. RunIInv => PrintsDescribeFrames
  BY DEF RunIInv
<1>2. QED
  BY <1>1, RunInvariance, PTL

\* When EOS has ended the main loop, every frame of the video is printed.
THEOREM AllPrintedAtEos == RunSpec => []EosMeansAllPrinted
<1>1. RunIInv => EosMeansAllPrinted
  BY DEF RunIInv, EosLast, EosMeansAllPrinted
<1>2. QED
  BY <1>1, RunInvariance, PTL

\* The application starts as a printer that has printed nothing.
LEMMA PrinterStarts == RunInit => Printer!Init
BY DEF RunInit, Printer!Init

\* A sample is the next frame, so that its line is the printer's next; EOS ends
\* the loop after the last line; and nothing else shows.
LEMMA PrinterStep ==
  ASSUME RunTypeOK, RunIInv, [RunNext]_(runVars)
  PROVE  [Printer!Next]_(Printer!printerVars)
<1> USE DEF Printer!printerVars
<1>1. CASE OnNewSample
  <2>1. /\ UNCHANGED <<detects, ending>>
        /\ samples # <<>>
    BY <1>1 DEF OnNewSample, sourceVars
  <2>2. PICK sample \in Buffers : samples = <<sample>>
    BY <2>1 DEF RunTypeOK
  <2> DEFINE detection == IF sample.meta = NoMeta THEN NotFound ELSE Head(sample.meta)
  <2>3. printed' = Append(printed, [frame |-> frame, of |-> sample.offset,
                                    detection |-> detection])
    BY <1>1, <2>2 DEF OnNewSample
  <2>4. samples[1] = sample /\ 1 \in DOMAIN samples
    BY <2>2
  <2>5. /\ sample.offset = frame /\ frame < NumBuffers
        /\ Described(sample)
        /\ Len(printed) = frame
    BY <2>4 DEF RunIInv, SamplesInOrder
  <2>6. \/ detection = NotFound
        \/ detects = "box" /\ detection = BoxOf(frame)
        \/ detects = "everything" /\ detection = WholeFrame
    <3>1. detection \in {NotFound, Detection(frame)}
      BY <2>5 DEF Described, NoMeta
    <3>2. QED
      BY <3>1 DEF Detection
  <2> HIDE DEF detection
  <2>7. frame \in Numbers /\ ending # "eos" /\ ending' # "eos"
    BY <2>1, <2>5, RunLengths DEF Numbers, RunIInv, EosLast
  <2>8. [n \in Numbers |-> BoxOf(n)][Len(printed)] = BoxOf(frame)
    BY <2>5, <2>7
  <2>9. Printer!PrintLine
    <3>1. detection \in {NotFound} \cup Printer!Recognised(Len(printed))
      BY <2>6, <2>8 DEF Printer!Recognised
    <3>2. QED
      BY <2>1, <2>3, <2>5, <2>7, <3>1 DEF Printer!PrintLine, Printer!Line
  <2>10. QED
    BY <2>9 DEF Printer!Next
<1>2. CASE OnBusMessage
  <2>1. /\ UNCHANGED <<detects, printed>>
        /\ ending' = message /\ ending = "none"
    BY <1>2 DEF OnBusMessage, sourceVars, branchVars, RunIInv, EosLast
  <2>2. CASE message = "eos"
    <3>1. Len(printed) = NumBuffers
      BY <2>2 DEF RunIInv, EosLast
    <3>2. Printer!Finish
      BY <2>1, <2>2, <3>1 DEF Printer!Finish
    <3>3. QED
      BY <3>2 DEF Printer!Next
  <2>3. QED
    BY <2>1, <2>2
<1>3. CASE InterruptRun \/ InterruptUncaught
  BY <1>3 DEF InterruptRun, InterruptUncaught, sourceVars, branchVars, RunIInv, EosLast
<1>4. CASE Source \/ SetPlaying \/ EnterLoop \/ SetNull \/ Display \/ RenderSample \/ RunFinished
  BY <1>4 DEF Source, Create, Detect, FlowError, CreateEos, PushDisplay, PushMetadata,
     SetPlaying, EnterLoop, SetNull, Display, RenderSample, RunFinished, runVars, sourceVars,
     branchVars
<1>5. CASE UNCHANGED runVars
  BY <1>5 DEF runVars, sourceVars, branchVars
<1>6. QED
  BY <1>1, <1>2, <1>3, <1>4, <1>5 DEF RunNext, Runner

\* For any video, queues and box, the capstone application prints what
\* FramePrinter promises: a line per frame, in order, each with its own box or
\* none, and all of them when EOS ends it.
THEOREM PrinterImplemented == RunSpec => ImplementsPrinter
BY PrinterStarts, PrinterStep, RunInvariance, PTL DEF RunSpec, ImplementsPrinter,
   Printer!Spec

\* Bouncing stays within its range, also where the frame counter wraps.
LEMMA BounceInRange ==
  ASSUME Wrap \in Nat \ {0}, NEW n \in Nat, NEW speed \in Nat, NEW range \in Nat \ {0}
  PROVE  Bounce(n, speed, range) \in 0..range
<1> DEFINE travelled == (n * speed) % Wrap
           position == travelled % (range * 2)
<1>1. travelled \in Nat
  <2>1. n * speed \in Nat
    OBVIOUS
  <2>2. \A m \in Nat, d \in Nat \ {0} : m % d \in Nat
    OBVIOUS
  <2>3. QED
    BY <2>1, <2>2
<1> HIDE DEF travelled
<1>2. position \in Nat /\ position < range * 2
  <2>1. range * 2 \in Nat \ {0}
    OBVIOUS
  <2>2. \A m \in Nat, d \in Nat \ {0} : m % d \in Nat /\ m % d < d
    OBVIOUS
  <2>3. QED
    BY <1>1, <2>1, <2>2
<1>3. Bounce(n, speed, range) = IF position <= range THEN position ELSE range * 2 - position
  BY DEF Bounce, travelled
<1> HIDE DEF position
<1>4. QED
  BY <1>2, <1>3

\* colorboxsrc draws its box within the frame, whichever frame it is
\* (gst_color_box_src_create).
THEOREM BoxDrawnInFrame ==
  ASSUME Width \in Nat, Height \in Nat, BoxSize \in Nat,
         BoxSize < Width, BoxSize < Height, Wrap \in Nat \ {0},
         NEW n \in Nat
  PROVE  /\ BoxX(n) \in Nat /\ BoxX(n) + BoxSize <= Width
         /\ BoxY(n) \in Nat /\ BoxY(n) + BoxSize <= Height
<1>1. Width - BoxSize \in Nat \ {0} /\ Height - BoxSize \in Nat \ {0}
  OBVIOUS
<1>2. BoxX(n) \in 0..(Width - BoxSize) /\ BoxY(n) \in 0..(Height - BoxSize)
  BY <1>1, BounceInRange DEF BoxX, BoxY
<1>3. QED
  BY <1>2
=============================================================================
