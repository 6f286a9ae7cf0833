---------------------------- MODULE BridgeProofs ----------------------------
(***************************************************************************)
(* The messages of the bridge, for every value of the constants: the queue *)
(* that offer_latest keeps; the way of a detection from the appsink to the *)
(* GUI, in order and without losing the newest; and the way of a command   *)
(* from the GUI to the thresholds of a frame.                              *)
(*                                                                         *)
(* The specifications of the two ways are extended, CommandInit being the  *)
(* Init of the commands, and that of the queue is instantiated, for the    *)
(* theorems that hold whoever uses it.                                     *)
(***************************************************************************)
EXTENDS BridgeTelemetry, BridgeCommands, SequenceTheorems, TLAPS

-----------------------------------------------------------------------------
(* offer_latest, for every set of producers and items and every size: the  *)
(* queue never outgrows its size, and with one producer, as both queues of *)
(* the bridge have, no offer is ever refused.                              *)

CONSTANTS Producers, Items, Capacity

VARIABLE q

Queue == INSTANCE LatestQueue

\* The queue stays within maxsize, whatever the producers and consumers do.
THEOREM QueueTypeCorrect ==
  ASSUME Capacity \in Nat \ {0}
  PROVE  Queue!QueueSpec => []Queue!QueueTypeOK
<1> USE DEF Queue!QueueTypeOK, Queue!Points
<1>1. Queue!QueueInit => Queue!QueueTypeOK
  <2> SUFFICES ASSUME Queue!QueueInit PROVE Queue!QueueTypeOK
    OBVIOUS
  <2>1. q \in Seq(Items) /\ Len(q) = 0
    BY EmptySeq DEF Queue!QueueInit
  <2>2. Len(q) <= Capacity
    BY <2>1
  <2>3. pc \in [Producers -> Queue!Points] /\ held \in [Producers -> Items]
    BY DEF Queue!QueueInit
  <2>4. refused \in BOOLEAN
    BY DEF Queue!QueueInit
  <2>5. QED
    BY <2>1, <2>2, <2>3, <2>4
<1>2. ASSUME Queue!QueueTypeOK, [Queue!QueueNext]_(Queue!queueVars)
      PROVE  Queue!QueueTypeOK'
  <2>1. ASSUME NEW p \in Producers, NEW x \in Items, Queue!Put(p, x)
        PROVE  Queue!QueueTypeOK'
    BY <1>2, <2>1 DEF Queue!Put
  <2>2. ASSUME NEW p \in Producers, NEW x \in Items, Queue!FindFull(p, x)
        PROVE  Queue!QueueTypeOK'
    BY <1>2, <2>2 DEF Queue!FindFull
  <2>3. ASSUME NEW p \in Producers, Queue!DropOldest(p)
        PROVE  Queue!QueueTypeOK'
    <3>1. q' \in Seq(Items) /\ Len(q') <= Capacity
      BY <1>2, <2>3 DEF Queue!DropOldest
    <3>2. QED
      BY <1>2, <2>3, <3>1 DEF Queue!DropOldest
  <2>4. ASSUME NEW p \in Producers, Queue!PutAgain(p)
        PROVE  Queue!QueueTypeOK'
    <3>1. held[p] \in Items
      BY <1>2
    <3>2. QED
      BY <1>2, <2>4, <3>1 DEF Queue!PutAgain
  <2>5. ASSUME NEW p \in Producers, Queue!GiveUp(p)
        PROVE  Queue!QueueTypeOK'
    BY <1>2, <2>5 DEF Queue!GiveUp
  <2>6. CASE Queue!Take
    BY <1>2, <2>6 DEF Queue!Take
  <2>7. CASE UNCHANGED Queue!queueVars
    BY <1>2, <2>7 DEF Queue!queueVars
  <2>8. QED
    BY <1>2, <2>1, <2>2, <2>3, <2>4, <2>5, <2>6, <2>7
       DEF Queue!QueueNext, Queue!Offer, Queue!Continue
<1>3. QED
  BY <1>1, <1>2, PTL DEF Queue!QueueSpec

-----------------------------------------------------------------------------
\* The only producer, having dropped an item, finds room for its own: the
\* consumers that run between its two calls only make more of it.
LEMMA RoomForOne ==
  ASSUME Capacity \in Nat \ {0},
         NEW p \in Producers, Producers = {p},
         Queue!QueueTypeOK, Queue!IInv, [Queue!QueueNext]_(Queue!queueVars)
  PROVE  Queue!IInv'
<1> USE DEF Queue!IInv, Queue!RoomAfterDrop, Queue!NeverRefused, Queue!QueueTypeOK
<1>1. ASSUME NEW x \in Items, Queue!Put(p, x) PROVE Queue!IInv'
  BY <1>1 DEF Queue!Put
<1>2. ASSUME NEW x \in Items, Queue!FindFull(p, x) PROVE Queue!IInv'
  BY <1>2 DEF Queue!FindFull
<1>3. CASE Queue!DropOldest(p)
  <2>1. Len(q') < Capacity
    BY <1>3 DEF Queue!DropOldest
  <2>2. QED
    BY <1>3, <2>1 DEF Queue!DropOldest
<1>4. CASE Queue!PutAgain(p)
  BY <1>4 DEF Queue!PutAgain, Queue!Points
<1>5. CASE Queue!GiveUp(p)
  BY <1>5 DEF Queue!GiveUp
<1>6. CASE Queue!Take
  BY <1>6 DEF Queue!Take
<1>7. CASE UNCHANGED Queue!queueVars
  BY <1>7 DEF Queue!queueVars
<1>8. QED
  BY <1>1, <1>2, <1>3, <1>4, <1>5, <1>6, <1>7
       DEF Queue!QueueNext, Queue!Offer, Queue!Continue

\* With one producer offer_latest never returns False.
THEOREM OneProducerNeverRefused ==
  ASSUME Capacity \in Nat \ {0},
         NEW CONSTANT p \in Producers, Producers = {p}
  PROVE  Queue!QueueSpec => []Queue!NeverRefused
<1>1. Queue!QueueInit => Queue!IInv
  BY DEF Queue!QueueInit, Queue!IInv, Queue!RoomAfterDrop, Queue!NeverRefused
<1>2. Queue!QueueTypeOK /\ Queue!IInv /\ [Queue!QueueNext]_(Queue!queueVars) => Queue!IInv'
  BY RoomForOne
<1>3. Queue!IInv => Queue!NeverRefused
  BY DEF Queue!IInv
<1>4. QED
  BY <1>1, <1>2, <1>3, QueueTypeCorrect, PTL DEF Queue!QueueSpec

-----------------------------------------------------------------------------
(* The way of a detection.                                                 *)

\* The one producer of the queue.
LEMMA Producer ==
  ASSUME TypeOK
  PROVE  /\ detection_queue \in Seq(Frames)
         /\ Len(detection_queue) \in 0..1
         /\ pc \in [{"appsink"} -> {"idle", "full", "dropped"}]
         /\ held \in [{"appsink"} -> Frames]
         /\ refused \in BOOLEAN
<1>1. /\ detection_queue \in Seq(Frames) /\ Len(detection_queue) <= 1
      /\ pc \in [{"appsink"} -> {"idle", "full", "dropped"}]
      /\ held \in [{"appsink"} -> Frames]
      /\ refused \in BOOLEAN
  BY DEF TypeOK, DetectionQueue!QueueTypeOK, DetectionQueue!Points
<1>2. \A n \in Nat : n <= 1 => n \in 0..1
  OBVIOUS
<1>3. Len(detection_queue) \in 0..1
  BY <1>1, <1>2, LenProperties, Zenon
<1>4. QED
  BY <1>1, <1>3, Zenon

\* A queue of at most one has one item or is empty.
LEMMA OneOrNone ==
  ASSUME NEW S, NEW s \in Seq(S), Len(s) \in 0..1
  PROVE  s = <<>> \/ (Len(s) = 1 /\ s = <<s[1]>> /\ s[1] \in S /\ Head(s) = s[1] /\ Tail(s) = <<>>)
<1>1. CASE s = <<>>
  BY <1>1
<1>2. CASE s # <<>>
  <2>0. Len(s) # 0
    BY <1>2, EmptySeq, Zenon
  <2>1. Len(s) = 1
    BY <2>0
  <2>2. s[1] \in S /\ Head(s) = s[1]
    BY <2>1, ElementOfSeq
  <2>3. s = <<s[1]>>
    BY <2>1, <2>2
  <2>4. Tail(s) = <<>>
    <3>1. Tail(s) \in Seq(S) /\ Len(Tail(s)) = 0
      BY <1>2, <2>1, HeadTailProperties
    <3>2. Tail(s) # <<>> => Len(Tail(s)) \in Nat \ {0}
      BY <3>1, EmptySeq, Zenon
    <3>3. QED
      BY <3>1, <3>2
  <2>5. QED
    BY <2>1, <2>2, <2>3, <2>4
<1>3. QED
  BY <1>1, <1>2

\* The steps of the streaming thread, as it can take them: an offer finds
\* room, or the queue full; it makes room; and there is room then.
LEMMA Offers ==
  ASSUME TypeOK, Offering, OnNewSample \/ OfferDetection
  PROVE  \/ /\ pc["appsink"] = "idle" /\ pc'["appsink"] = "idle"
            /\ frame < MaxFrames
            /\ detection_queue = <<>> /\ detection_queue' = <<frame>>
            /\ frame' = frame + 1
            /\ held' = [held EXCEPT !["appsink"] = frame]
            /\ pc' = pc
         \/ /\ pc["appsink"] = "idle"
            /\ frame < MaxFrames
            /\ pc' = [pc EXCEPT !["appsink"] = "full"]
            /\ held' = [held EXCEPT !["appsink"] = frame]
            /\ UNCHANGED <<detection_queue, frame>>
         \/ /\ pc["appsink"] = "full"
            /\ pc' = [pc EXCEPT !["appsink"] = "dropped"]
            /\ detection_queue' = <<>>
            /\ UNCHANGED <<held, frame>>
         \/ /\ pc["appsink"] = "dropped"
            /\ detection_queue = <<>> /\ detection_queue' = <<frame>>
            /\ frame' = frame + 1
            /\ pc' = [pc EXCEPT !["appsink"] = "idle"]
            /\ UNCHANGED held
<1>1. CASE OnNewSample /\ DetectionQueue!Put("appsink", frame)
  <2>1. pc' = pc /\ pc["appsink"] = "idle" /\ Len(detection_queue) < 1
        /\ detection_queue' = Append(detection_queue, frame)
        /\ held' = [held EXCEPT !["appsink"] = frame] /\ frame < MaxFrames
    BY <1>1 DEF OnNewSample, DetectionQueue!Put
  <2>2. detection_queue = <<>>
    BY <2>1, Producer, OneOrNone
  <2>3. detection_queue' = <<frame>>
    BY <2>1, <2>2
  <2>4. frame' = frame + 1
    BY <1>1, <2>1 DEF OnNewSample, CountFrame
  <2>5. QED
    BY <2>1, <2>2, <2>3, <2>4
<1>2. CASE OnNewSample /\ DetectionQueue!FindFull("appsink", frame)
  <2>1. pc'["appsink"] = "full"
    BY <1>2, Producer DEF DetectionQueue!FindFull
  <2>2. frame' = frame
    BY <1>2, <2>1 DEF OnNewSample, CountFrame
  <2>3. QED
    BY <1>2, <2>2 DEF OnNewSample, DetectionQueue!FindFull
<1>3. CASE OfferDetection /\ DetectionQueue!DropOldest("appsink")
  <2>1. pc'["appsink"] = "dropped"
    BY <1>3, Producer DEF DetectionQueue!DropOldest
  <2>2. frame' = frame
    BY <1>3, <2>1 DEF OfferDetection, CountFrame
  <2>3. detection_queue' = <<>>
    BY <1>3, Producer, OneOrNone DEF DetectionQueue!DropOldest
  <2>4. QED
    BY <1>3, <2>2, <2>3 DEF DetectionQueue!DropOldest
<1>4. CASE OfferDetection /\ DetectionQueue!PutAgain("appsink")
  <2>1. pc'["appsink"] = "idle"
    BY <1>4, Producer DEF DetectionQueue!PutAgain
  <2>2. frame' = frame + 1
    BY <1>4, <2>1 DEF OfferDetection, CountFrame
  <2>3. detection_queue = <<>> /\ held["appsink"] = frame
    BY <1>4 DEF DetectionQueue!PutAgain, Offering
  <2>4. detection_queue' = <<frame>>
    BY <1>4, <2>3 DEF DetectionQueue!PutAgain
  <2>5. QED
    BY <1>4, <2>2, <2>3, <2>4 DEF DetectionQueue!PutAgain
<1>5. ~DetectionQueue!GiveUp("appsink")
  BY EmptySeq DEF DetectionQueue!GiveUp, Offering
<1>6. QED
  BY <1>1, <1>2, <1>3, <1>4, <1>5
     DEF OnNewSample, OfferDetection, DetectionQueue!Offer, DetectionQueue!Continue

-----------------------------------------------------------------------------
\* Numbers that grow keep growing when a larger one is appended, and when the
\* first is taken away.
LEMMA AppendGrows ==
  ASSUME NEW s \in Seq(Int), NEW x \in Int, Increasing(s),
         \A i \in DOMAIN s : s[i] < x
  PROVE  /\ Increasing(Append(s, x))
         /\ \A i \in DOMAIN Append(s, x) : (i \in DOMAIN s /\ Append(s, x)[i] = s[i])
                                         \/ Append(s, x)[i] = x
<1>1. /\ Len(s) \in Nat /\ DOMAIN s = 1..Len(s)
      /\ DOMAIN Append(s, x) = 1..(Len(s) + 1)
      /\ \A i \in 1..Len(s) : Append(s, x)[i] = s[i]
      /\ Append(s, x)[Len(s) + 1] = x
      /\ \A i \in 1..Len(s) : s[i] \in Int
  BY AppendProperties, LenProperties, ElementOfSeq
<1>2. \A n \in Nat : \A i \in 1..(n + 1) : i \in 1..n \/ i = n + 1
  OBVIOUS
<1>3. \A i \in DOMAIN Append(s, x) : (i \in DOMAIN s /\ Append(s, x)[i] = s[i])
                                    \/ (i = Len(s) + 1 /\ Append(s, x)[i] = x)
  BY <1>1, <1>2, Zenon
<1>4. Increasing(Append(s, x))
  <2>1. SUFFICES ASSUME NEW i \in DOMAIN Append(s, x), NEW j \in DOMAIN Append(s, x), i < j
                 PROVE  Append(s, x)[i] < Append(s, x)[j]
    BY DEF Increasing
  <2>2. \A n \in Nat : \A k \in 1..(n + 1) : i = n + 1 => ~(i < k)
    OBVIOUS
  <2>3. i \in DOMAIN s /\ Append(s, x)[i] = s[i]
    BY <1>1, <1>3, <2>1, <2>2, Zenon
  <2>4. CASE j \in DOMAIN s /\ Append(s, x)[j] = s[j]
    BY <2>1, <2>3, <2>4, Zenon DEF Increasing
  <2>5. CASE j = Len(s) + 1 /\ Append(s, x)[j] = x
    BY <2>3, <2>5, Zenon
  <2>6. QED
    BY <1>3, <2>4, <2>5, Zenon
<1>5. QED
  BY <1>3, <1>4, Zenon

LEMMA TailGrows ==
  ASSUME NEW s \in Seq(Int), s # <<>>, Increasing(s)
  PROVE  /\ Increasing(Tail(s))
         /\ 1 \in DOMAIN s /\ Head(s) = s[1]
         /\ \A i \in DOMAIN Tail(s) : /\ i + 1 \in DOMAIN s
                                     /\ Tail(s)[i] = s[i + 1]
                                     /\ Head(s) < Tail(s)[i]
<1>1. /\ Len(s) \in Nat \ {0} /\ DOMAIN s = 1..Len(s)
      /\ DOMAIN Tail(s) = 1..(Len(s) - 1)
      /\ \A i \in 1..(Len(s) - 1) : Tail(s)[i] = s[i + 1]
  BY HeadTailProperties, LenProperties, EmptySeq
<1>2. \A n \in Nat \ {0} : 1 \in 1..n /\ \A i \in 1..(n - 1) : i + 1 \in 1..n /\ 1 < i + 1
  OBVIOUS
<1>3. 1 \in DOMAIN s /\ \A i \in DOMAIN Tail(s) : i + 1 \in DOMAIN s /\ 1 < i + 1
  BY <1>1, <1>2, Zenon
<1>4. Head(s) = s[1]
  OBVIOUS
<1>5. \A i \in DOMAIN Tail(s) : Head(s) < Tail(s)[i]
  BY <1>1, <1>3, <1>4, Zenon DEF Increasing
<1>6. Increasing(Tail(s))
  <2>1. SUFFICES ASSUME NEW i \in DOMAIN Tail(s), NEW j \in DOMAIN Tail(s), i < j
                 PROVE  Tail(s)[i] < Tail(s)[j]
    BY DEF Increasing
  <2>2. i \in Int /\ j \in Int
    BY <1>1
  <2>3. i + 1 < j + 1
    BY <2>1, <2>2
  <2>4. QED
    BY <1>1, <1>3, <2>3, Zenon DEF Increasing
<1>7. QED
  BY <1>1, <1>3, <1>4, <1>5, <1>6, Zenon

-----------------------------------------------------------------------------
(* The inductive invariant.                                                *)

IInv == TypeOK /\ Chain /\ Offering

LEMMA Starts == Init => IInv
<1>1. SUFFICES ASSUME Init PROVE IInv
  OBVIOUS
<1>2. <<>> \in Seq(Frames) /\ Len(<<>>) = 0
  BY EmptySeq
<1>3. TypeOK
  <2>1. /\ 0 \in Frames /\ 0 <= WireLength /\ 0 <= 1
        /\ -1 \in Frames \cup {-1}
    BY BoundsAssumption DEF Frames
  <2>2. /\ pc \in [{"appsink"} -> {"idle", "full", "dropped"}]
        /\ held \in [{"appsink"} -> Frames]
    BY <1>1, <2>1 DEF Init
  <2>3. /\ detection_queue \in Seq(Frames) /\ Len(detection_queue) <= 1
        /\ wire \in Seq(Frames) /\ Len(wire) <= WireLength
    BY <1>1, <1>2, <2>1, Zenon DEF Init
  <2>4. QED
    BY <1>1, <2>1, <2>2, <2>3
       DEF Init, TypeOK, DetectionQueue!QueueTypeOK, DetectionQueue!Points
<1>4. Chain
  BY <1>1 DEF Init, Chain, Increasing
<1>5. Offering
  BY <1>1 DEF Init, Offering
<1>6. QED
  BY <1>3, <1>4, <1>5 DEF IInv

LEMMA OfferKeeps ==
  ASSUME IInv, OnNewSample \/ OfferDetection
  PROVE  IInv'
<1>1. /\ TypeOK /\ Chain /\ Offering
      /\ UNCHANGED <<publisher, message, wire, shown>>
      /\ UNCHANGED refused
  BY EmptySeq DEF IInv, OnNewSample, OfferDetection, Offering, DetectionQueue!Offer,
     DetectionQueue!Continue, DetectionQueue!Put, DetectionQueue!FindFull,
     DetectionQueue!DropOldest, DetectionQueue!PutAgain, DetectionQueue!GiveUp
<1>2. /\ MaxFrames \in Nat /\ frame \in 0..MaxFrames
      /\ message \in Int
  BY <1>1, BoundsAssumption DEF TypeOK, Frames
<1>3. ASSUME pc' \in [{"appsink"} -> {"idle", "full", "dropped"}],
             held' \in [{"appsink"} -> Frames],
             frame' \in Frames,
             detection_queue' = detection_queue
               \/ detection_queue' = <<>> \/ (detection_queue' = <<frame>>)
      PROVE  TypeOK'
  <2>1. /\ detection_queue \in Seq(Frames) /\ Len(detection_queue) <= 1
        /\ <<>> \in Seq(Frames) /\ Len(<<>>) = 0 /\ 0 <= 1
        /\ <<frame>> \in Seq(Frames) /\ Len(<<frame>>) = 1 /\ 1 <= 1
    <3>1. /\ detection_queue \in Seq(Frames) /\ Len(detection_queue) <= 1
          /\ frame \in Frames
      BY <1>1 DEF TypeOK, DetectionQueue!QueueTypeOK
    <3>2. QED
      BY <3>1, EmptySeq
  <2>2. detection_queue' \in Seq(Frames) /\ Len(detection_queue') <= 1
    BY <1>3, <2>1, Zenon
  <2>3. QED
    BY <1>1, <1>3, <2>2 DEF TypeOK, DetectionQueue!QueueTypeOK, DetectionQueue!Points
<1>4. CASE /\ pc["appsink"] = "idle" /\ pc' = pc
           /\ frame < MaxFrames
           /\ detection_queue' = <<frame>>
           /\ frame' = frame + 1
           /\ held' = [held EXCEPT !["appsink"] = frame]
  <2>1. TypeOK'
    BY <1>1, <1>2, <1>3, <1>4, Producer DEF Frames
  <2>2. Chain'
    BY <1>1, <1>2, <1>4 DEF Chain
  <2>3. Offering'
    BY <1>1, <1>2, <1>4 DEF Offering
  <2>4. QED
    BY <2>1, <2>2, <2>3 DEF IInv
<1>5. CASE /\ pc["appsink"] = "idle" /\ frame < MaxFrames
           /\ pc' = [pc EXCEPT !["appsink"] = "full"]
           /\ held' = [held EXCEPT !["appsink"] = frame]
           /\ UNCHANGED <<detection_queue, frame>>
  <2>1. TypeOK'
    BY <1>1, <1>2, <1>3, <1>5, Producer DEF Frames
  <2>2. Chain'
    BY <1>1, <1>5 DEF Chain
  <2>3. Offering'
    BY <1>1, <1>2, <1>5, Producer DEF Offering
  <2>4. QED
    BY <2>1, <2>2, <2>3 DEF IInv
<1>6. CASE /\ pc["appsink"] = "full"
           /\ pc' = [pc EXCEPT !["appsink"] = "dropped"]
           /\ detection_queue' = <<>>
           /\ UNCHANGED <<held, frame>>
  <2>1. TypeOK'
    BY <1>1, <1>2, <1>3, <1>6, Producer DEF Frames
  <2>2. Chain'
    BY <1>1, <1>6 DEF Chain
  <2>3. Offering'
    BY <1>1, <1>2, <1>6, Producer DEF Offering
  <2>4. QED
    BY <2>1, <2>2, <2>3 DEF IInv
<1>7. CASE /\ pc["appsink"] = "dropped"
           /\ detection_queue = <<>> /\ detection_queue' = <<frame>>
           /\ frame' = frame + 1
           /\ pc' = [pc EXCEPT !["appsink"] = "idle"]
           /\ UNCHANGED held
  <2>0. frame < MaxFrames
    BY <1>1, <1>7 DEF Offering
  <2>1. TypeOK'
    BY <1>1, <1>2, <1>3, <1>7, <2>0, Producer DEF Frames
  <2>2. Chain'
    BY <1>1, <1>2, <1>7 DEF Chain
  <2>3. Offering'
    BY <1>1, <1>2, <1>7, Producer DEF Offering
  <2>4. QED
    BY <2>1, <2>2, <2>3 DEF IInv
<1>8. QED
  BY <1>1, <1>4, <1>5, <1>6, <1>7, Offers

LEMMA GetKeeps ==
  ASSUME IInv, GetDetection
  PROVE  IInv'
<1>1. /\ TypeOK /\ Chain /\ Offering
      /\ publisher = "get" /\ publisher' = "publish"
      /\ detection_queue # <<>> /\ detection_queue' = Tail(detection_queue)
      /\ message' = Head(detection_queue)
      /\ UNCHANGED <<frame, wire, shown, pc, held, refused>>
  BY DEF IInv, GetDetection, DetectionQueue!Take
<1>2. /\ detection_queue = <<detection_queue[1]>> /\ 1 \in DOMAIN detection_queue
      /\ detection_queue' = <<>>
      /\ message' = detection_queue[1] /\ detection_queue[1] \in Frames
  <2>1. /\ Len(detection_queue) = 1 /\ detection_queue = <<detection_queue[1]>>
        /\ detection_queue[1] \in Frames
        /\ Head(detection_queue) = detection_queue[1] /\ Tail(detection_queue) = <<>>
    BY <1>1, Producer, OneOrNone
  <2>2. 1 \in DOMAIN detection_queue
    BY <2>1
  <2>3. QED
    BY <1>1, <2>1, <2>2
<1>3. /\ frame \in Int /\ message \in Int /\ message' \in Int /\ shown \in Int
      /\ \A i \in DOMAIN wire : wire[i] \in Int
  <2>1. /\ frame \in Int /\ message \in Int /\ message' \in Int /\ shown \in Int
    BY <1>1, <1>2, BoundsAssumption DEF TypeOK, Frames
  <2>2. wire \in Seq(Frames) /\ Frames \subseteq Int
    BY <1>1, BoundsAssumption DEF TypeOK, Frames
  <2>3. QED
    BY <2>1, <2>2, LenProperties, ElementOfSeq
<1>4. TypeOK'
  <2>1. /\ detection_queue' \in Seq(Frames) /\ Len(detection_queue') <= 1
    <3>1. <<>> \in Seq(Frames) /\ Len(<<>>) = 0 /\ 0 <= 1
      BY EmptySeq
    <3>2. QED
      BY <1>2, <3>1, Zenon
  <2>2. QED
    BY <1>1, <1>2, <2>1 DEF TypeOK, DetectionQueue!QueueTypeOK
<1>5. Chain'
  <2>1. message < message' /\ message' < frame
    BY <1>1, <1>2 DEF Chain
  <2>2. shown' < message'
    BY <1>1, <1>3, <2>1 DEF Chain
  <2>3. \A i \in DOMAIN wire : shown < wire[i] /\ wire[i] < message' /\ wire[i] <= message'
    BY <1>1, <1>3, <2>1 DEF Chain
  <2>4. shown' <= message'
    BY <1>1, <1>3, <2>2
  <2>5. \A i \in DOMAIN detection_queue' : FALSE
    BY <1>2
  <2>6. Increasing(wire)
    BY <1>1 DEF Chain
  <2>7. QED
    BY <1>1, <2>1, <2>2, <2>3, <2>4, <2>5, <2>6, Zenon DEF Chain, Increasing
<1>6. Offering'
  <2>1. message < detection_queue[1] /\ detection_queue[1] < frame
    BY <1>1, <1>2 DEF Chain
  <2>2. message # frame - 1
    BY <1>2, <1>3, <2>1
  <2>3. pc["appsink"] # "dropped" /\ frame > 0 => message' = frame - 1
    <3>1. SUFFICES ASSUME pc["appsink"] # "dropped" /\ frame > 0
                   PROVE  message' = frame - 1
      OBVIOUS
    <3>2. detection_queue = <<frame - 1>>
      BY <1>1, <2>2, <3>1 DEF Offering
    <3>3. QED
      BY <1>2, <3>2
  <2>4. detection_queue' = <<>>
    BY <1>2
  <2>5. QED
    BY <1>1, <2>3, <2>4 DEF Offering
<1>7. QED
  BY <1>4, <1>5, <1>6 DEF IInv

LEMMA PublishKeeps ==
  ASSUME IInv, Publish
  PROVE  IInv'
<1>1. /\ TypeOK /\ Chain /\ Offering
      /\ publisher = "publish" /\ publisher' = "get"
      /\ \/ Len(wire) < WireLength /\ wire' = Append(wire, message)
         \/ wire' = wire
      /\ UNCHANGED <<frame, message, shown, detection_queue, pc, held, refused>>
  BY DEF IInv, Publish, queueVars
<1>2. /\ wire \in Seq(Frames) /\ wire \in Seq(Int) /\ shown \in Int
      /\ message \in Int /\ shown < message /\ message \in Frames
      /\ Frames \subseteq Int
  <2>1. /\ wire \in Seq(Frames) /\ Frames \subseteq Int /\ shown \in Int /\ message \in Int
        /\ shown < message
        /\ shown >= -1
        /\ message \in Frames \cup {-1}
    BY <1>1, BoundsAssumption DEF TypeOK, Frames, Chain
  <2>2. message \in Frames
    BY <2>1
  <2>3. QED
    BY <2>1, <2>2, SeqMonotonic
<1>3. Offering'
  BY <1>1 DEF Offering
<1>4. CASE Len(wire) < WireLength /\ wire' = Append(wire, message)
  <2>1. /\ Increasing(wire')
        /\ \A i \in DOMAIN wire' : shown < wire'[i] /\ wire'[i] <= message
    <3>1. Increasing(wire) /\ \A i \in DOMAIN wire : shown < wire[i] /\ wire[i] < message
      BY <1>1 DEF Chain
    <3>2. \A i \in DOMAIN wire : wire[i] \in Int
      BY <1>2, LenProperties, ElementOfSeq
    <3>3. /\ Increasing(wire')
          /\ \A i \in DOMAIN wire' : (i \in DOMAIN wire /\ wire'[i] = wire[i])
                                     \/ wire'[i] = message
      BY <1>2, <1>4, <3>1, AppendGrows, Zenon
    <3>4. message <= message /\ \A x \in Int : x < message => x <= message
      BY <1>2
    <3>5. QED
      BY <1>2, <3>1, <3>2, <3>3, <3>4, Zenon
  <2>2. Chain'
    BY <1>1, <2>1 DEF Chain
  <2>3. wire' \in Seq(Frames) /\ Len(wire') <= WireLength
    <3>1. /\ wire' \in Seq(Frames) /\ Len(wire') = Len(wire) + 1
          /\ Len(wire) \in Nat
      BY <1>2, <1>4, AppendProperties, LenProperties
    <3>2. \A n \in Nat : n < WireLength => n + 1 <= WireLength
      BY BoundsAssumption
    <3>3. QED
      BY <1>4, <3>1, <3>2, Zenon
  <2>4. TypeOK'
    BY <1>1, <2>3 DEF TypeOK, DetectionQueue!QueueTypeOK
  <2>5. QED
    BY <1>3, <2>2, <2>4 DEF IInv
<1>5. CASE wire' = wire
  <2>1. TypeOK'
    BY <1>1, <1>5 DEF TypeOK, DetectionQueue!QueueTypeOK
  <2>2. Chain'
    BY <1>1, <1>5 DEF Chain
  <2>3. QED
    BY <1>3, <2>1, <2>2 DEF IInv
<1>6. QED
  BY <1>1, <1>4, <1>5

LEMMA PollKeeps ==
  ASSUME IInv, PollTelemetry
  PROVE  IInv'
<1>1. /\ TypeOK /\ Chain /\ Offering
      /\ wire # <<>> /\ wire' = Tail(wire) /\ shown' = Head(wire)
      /\ UNCHANGED <<frame, message, publisher, detection_queue, pc, held, refused>>
  BY DEF IInv, PollTelemetry, queueVars
<1>2. /\ wire \in Seq(Frames) /\ wire \in Seq(Int)
      /\ Increasing(wire)
  <2>1. wire \in Seq(Frames) /\ Frames \subseteq Int
    BY <1>1, BoundsAssumption DEF TypeOK, Frames
  <2>2. QED
    BY <1>1, <2>1, SeqMonotonic DEF Chain
<1>3. /\ Increasing(wire')
      /\ 1 \in DOMAIN wire /\ shown' = wire[1]
      /\ \A i \in DOMAIN wire' : /\ i + 1 \in DOMAIN wire
                                 /\ wire'[i] = wire[i + 1]
                                 /\ shown' < wire'[i]
  BY <1>1, <1>2, TailGrows, Zenon
<1>4. Chain'
  BY <1>1, <1>3, Zenon DEF Chain
<1>5. Offering'
  BY <1>1 DEF Offering
<1>6. TypeOK'
  <2>1. /\ wire' \in Seq(Frames) /\ Len(wire') = Len(wire) - 1
        /\ shown' \in Frames /\ Len(wire) \in Nat /\ Len(wire) <= WireLength
    BY <1>1, <1>2, HeadTailProperties, LenProperties DEF TypeOK
  <2>2. \A n \in Nat : n <= WireLength => n - 1 <= WireLength
    BY BoundsAssumption
  <2>3. Len(wire') <= WireLength
    BY <2>1, <2>2, Zenon
  <2>4. QED
    BY <1>1, <2>1, <2>3 DEF TypeOK, DetectionQueue!QueueTypeOK
<1>7. QED
  BY <1>4, <1>5, <1>6 DEF IInv

LEMMA Inductive == Spec => []IInv
<1>1. IInv /\ [Next]_vars => IInv'
  <2>1. SUFFICES ASSUME IInv, [Next]_vars PROVE IInv'
    OBVIOUS
  <2>2. CASE UNCHANGED vars
    BY <2>1, <2>2 DEF vars, queueVars, IInv, TypeOK, Chain, Offering, Increasing,
       DetectionQueue!QueueTypeOK
  <2>3. QED
    BY <2>1, <2>2, OfferKeeps, GetKeeps, PublishKeeps, PollKeeps DEF Next
<1>2. QED
  BY <1>1, Starts, PTL DEF Spec

-----------------------------------------------------------------------------
\* The queue never outgrows one item and the wire its length, and every
\* message is the number of a frame that was counted (offer_latest,
\* publish_loop, poll_telemetry).
THEOREM TypeCorrect == Spec => []TypeOK
BY Inductive, PTL DEF IInv

\* offer_detection may drop the result of offer_latest: it is always True.
THEOREM NeverRefusedHere == Spec => []NeverRefused
<1>1. IInv => NeverRefused
  BY DEF IInv, Offering, NeverRefused, DetectionQueue!NeverRefused
<1>2. QED
  BY <1>1, Inductive, PTL

\* Whatever the publisher takes between the steps of offer_latest, the newest
\* detection is the one in the queue or the last one taken.
THEOREM NewestIsKept == Spec => []NewestKept
<1>1. IInv => NewestKept
  BY DEF IInv, Offering, NewestKept
<1>2. QED
  BY <1>1, Inductive, PTL

\* Two runs of growing numbers, the second above the first, make one.
LEMMA ConcatGrows ==
  ASSUME NEW s \in Seq(Int), NEW t \in Seq(Int), Increasing(s), Increasing(t),
         \A i \in DOMAIN s, j \in DOMAIN t : s[i] < t[j]
  PROVE  /\ s \o t \in Seq(Int)
         /\ Increasing(s \o t)
         /\ \A k \in DOMAIN (s \o t) : \/ \E i \in DOMAIN s : (s \o t)[k] = s[i]
                                      \/ \E j \in DOMAIN t : (s \o t)[k] = t[j]
<1>1. /\ s \o t \in Seq(Int)
      /\ Len(s) \in Nat /\ Len(t) \in Nat
      /\ DOMAIN s = 1..Len(s) /\ DOMAIN t = 1..Len(t)
      /\ DOMAIN (s \o t) = 1..(Len(s) + Len(t))
      /\ \A k \in 1..(Len(s) + Len(t)) :
            (s \o t)[k] = IF k <= Len(s) THEN s[k] ELSE t[k - Len(s)]
  BY ConcatProperties, LenProperties
<1>2. ASSUME NEW k \in DOMAIN (s \o t)
      PROVE  \/ k \in DOMAIN s /\ (s \o t)[k] = s[k] /\ k <= Len(s)
             \/ k - Len(s) \in DOMAIN t /\ (s \o t)[k] = t[k - Len(s)] /\ ~(k <= Len(s))
  <2>1. \A m, n \in Nat : \A h \in 1..(m + n) : IF h <= m THEN h \in 1..m ELSE h - m \in 1..n
    OBVIOUS
  <2>2. QED
    BY <1>1, <2>1, Zenon
<1>3. Increasing(s \o t)
  <2>1. SUFFICES ASSUME NEW i \in DOMAIN (s \o t), NEW j \in DOMAIN (s \o t), i < j
                 PROVE  (s \o t)[i] < (s \o t)[j]
    BY DEF Increasing
  <2>2. \A n \in Nat : i \in Int /\ j \in Int /\ (j <= n => i <= n) /\ i - n < j - n
    BY <1>1, <2>1
  <2>3. CASE j <= Len(s)
    BY <1>1, <1>2, <2>1, <2>2, <2>3, Zenon DEF Increasing
  <2>4. CASE ~(j <= Len(s)) /\ i <= Len(s)
    BY <1>1, <1>2, <2>4, Zenon
  <2>5. CASE ~(j <= Len(s)) /\ ~(i <= Len(s))
    BY <1>1, <1>2, <2>1, <2>2, <2>5, Zenon DEF Increasing
  <2>6. QED
    BY <2>3, <2>4, <2>5, Zenon
<1>4. QED
  BY <1>1, <1>2, <1>3, Zenon

\* What on_new_sample offers first is never seen after what it offers later:
\* read from the GUI's label back through the wire and the publisher to the
\* queue, frame numbers grow.
THEOREM InOrderEndToEnd == Spec => []EndToEndOrder
<1>1. ASSUME IInv PROVE EndToEndOrder
  <2> DEFINE holds == IF publisher = "publish" THEN <<message>> ELSE <<>>
             label == <<shown>>
  <2>1. /\ TypeOK /\ Chain
        /\ Frames \subseteq Int /\ frame \in Int
        /\ shown \in Int /\ message \in Int
        /\ wire \in Seq(Int) /\ detection_queue \in Seq(Int)
    <3>1. /\ wire \in Seq(Frames) /\ detection_queue \in Seq(Frames)
          /\ Frames \subseteq Int /\ frame \in Int /\ shown \in Int /\ message \in Int
          /\ TypeOK /\ Chain
      BY <1>1, BoundsAssumption
         DEF IInv, TypeOK, Frames, DetectionQueue!QueueTypeOK
    <3>2. QED
      BY <3>1, SeqMonotonic
  <2>2. /\ label \in Seq(Int) /\ Increasing(label)
        /\ \A i \in DOMAIN label : label[i] = shown
    BY <2>1 DEF Increasing
  <2>3. /\ holds \in Seq(Int) /\ Increasing(holds)
        /\ \A i \in DOMAIN holds : holds[i] = message /\ publisher = "publish"
    BY <2>1, EmptySeq DEF Increasing
  <2>4. /\ Increasing(detection_queue)
        /\ \A i \in DOMAIN detection_queue : detection_queue[i] \in Int
    <3>1. detection_queue = <<>> \/ detection_queue = <<detection_queue[1]>>
      BY <2>1, Producer, OneOrNone
    <3>2. \A x : Increasing(<<x>>) /\ Increasing(<<>>)
      BY DEF Increasing
    <3>3. QED
      BY <2>1, <3>1, <3>2, LenProperties, ElementOfSeq
  <2>5. /\ Increasing(wire)
        /\ \A i \in DOMAIN wire : wire[i] \in Int
        /\ \A i \in DOMAIN wire : /\ shown < wire[i] /\ wire[i] <= message
                                  /\ publisher = "publish" => wire[i] < message
    BY <2>1, LenProperties, ElementOfSeq DEF Chain
  <2> HIDE DEF label
  <2>6. /\ label \o wire \in Seq(Int)
        /\ Increasing(label \o wire)
        /\ \A k \in DOMAIN (label \o wire) :
              \/ (label \o wire)[k] = shown
              \/ \E i \in DOMAIN wire : (label \o wire)[k] = wire[i]
    <3>1. \A i \in DOMAIN label, j \in DOMAIN wire : label[i] < wire[j]
      BY <2>2, <2>5, Zenon
    <3>2. /\ label \o wire \in Seq(Int)
          /\ Increasing(label \o wire)
          /\ \A k \in DOMAIN (label \o wire) :
                \/ \E i \in DOMAIN label : (label \o wire)[k] = label[i]
                \/ \E j \in DOMAIN wire : (label \o wire)[k] = wire[j]
      BY <2>1, <2>2, <2>5, <3>1, ConcatGrows, Zenon
    <3>3. QED
      BY <2>2, <3>2, Zenon
  <2> DEFINE near == label \o wire
  <2>7. \A k \in DOMAIN near : /\ near[k] <= message /\ near[k] \in Int
                               /\ publisher = "publish" => near[k] < message
    BY <2>1, <2>5, <2>6 DEF Chain
  <2> HIDE DEF near, holds
  <2>8. /\ near \o holds \in Seq(Int)
        /\ Increasing(near \o holds)
        /\ \A k \in DOMAIN (near \o holds) : (near \o holds)[k] <= message
    <3>1. \A i \in DOMAIN near, j \in DOMAIN holds : near[i] < holds[j]
      BY <2>3, <2>7
    <3>2. near \in Seq(Int) /\ Increasing(near)
      BY <2>6 DEF near
    <3>3. /\ near \o holds \in Seq(Int)
          /\ Increasing(near \o holds)
          /\ \A k \in DOMAIN (near \o holds) :
                \/ \E i \in DOMAIN near : (near \o holds)[k] = near[i]
                \/ \E j \in DOMAIN holds : (near \o holds)[k] = holds[j]
      BY <2>3, <3>1, <3>2, ConcatGrows, Zenon
    <3>4. message <= message
      BY <2>1
    <3>5. QED
      BY <2>3, <2>7, <3>3, <3>4, Zenon
  <2>9. Increasing((near \o holds) \o detection_queue)
    <3>1. ASSUME NEW i \in DOMAIN (near \o holds), NEW j \in DOMAIN detection_queue
          PROVE  (near \o holds)[i] < detection_queue[j]
      <4>1. /\ (near \o holds)[i] \in Int /\ (near \o holds)[i] <= message
        BY <2>8, LenProperties, ElementOfSeq
      <4>2. message < detection_queue[j] /\ detection_queue[j] \in Int
        BY <2>1, <2>4 DEF Chain
      <4>3. QED
        BY <2>1, <4>1, <4>2
    <3>2. QED
      BY <2>1, <2>4, <2>8, <3>1, ConcatGrows, Zenon
  <2>10. QED
    BY <2>9, Zenon DEF EndToEndOrder, near, label, holds
<1>2. QED
  BY <1>1, Inductive, PTL

-----------------------------------------------------------------------------
(* The way of a command.                                                   *)

Numbered == Commands \cup {NoCommand}

\* What the numbers and sequences of a state are.
LEMMA CommandFacts ==
  ASSUME CommandTypeOK
  PROVE  /\ command_queue \in Seq(Numbered) /\ Len(command_queue) \in Nat
         /\ DOMAIN command_queue = 1..Len(command_queue)
         /\ \A i \in DOMAIN command_queue : command_queue[i] \in Numbered
         /\ Len(command_queue) <= QueueLength /\ QueueLength \in Nat \ {0}
         /\ channel \in Seq(Commands) /\ Len(channel) \in Nat
         /\ DOMAIN channel = 1..Len(channel)
         /\ \A i \in DOMAIN channel : channel[i] \in Commands
         /\ offer_pc \in [{"subscriber"} -> {"idle", "full", "dropped"}]
         /\ received \in [{"subscriber"} -> Numbered]
         /\ received["subscriber"] \in Numbered
         /\ applying \in Numbered
         /\ \A c \in Numbered : c.n \in Int /\ c.n >= 0
         /\ NoCommand.n = 0 /\ NoCommand.kind = "enable"
         /\ applied \in Int /\ applied >= 0 /\ settled \in Int /\ settled >= 0
         /\ sent \in Int
         /\ DOMAIN Fields = 1..Len(Fields) /\ Len(Fields) \in Nat \ {0}
         /\ next \in 1..Len(Fields)
<1>1. /\ command_queue \in Seq(Numbered) /\ Len(command_queue) <= QueueLength
      /\ channel \in Seq(Commands)
      /\ offer_pc \in [{"subscriber"} -> {"idle", "full", "dropped"}]
      /\ received \in [{"subscriber"} -> Numbered]
      /\ applying \in Numbered
  BY DEF CommandTypeOK, CommandQueue!QueueTypeOK, CommandQueue!Points,
     Numbered
<1>2. /\ Len(command_queue) \in Nat /\ DOMAIN command_queue = 1..Len(command_queue)
      /\ \A i \in DOMAIN command_queue : command_queue[i] \in Numbered
      /\ Len(channel) \in Nat /\ DOMAIN channel = 1..Len(channel)
      /\ \A i \in DOMAIN channel : channel[i] \in Commands
  BY <1>1, LenProperties, ElementOfSeq
<1>3. \A c \in Numbered : c.n \in Int /\ c.n >= 0
  BY CommandAssumption DEF Numbered, Commands, NoCommand, Numbers
<1>4. NoCommand.n = 0 /\ NoCommand.kind = "enable"
  BY DEF NoCommand
<1>5. applied \in Int /\ applied >= 0 /\ settled \in Int /\ settled >= 0 /\ sent \in Int
  BY CommandAssumption DEF CommandTypeOK, Numbers
<1>6. DOMAIN Fields = 1..Len(Fields) /\ Len(Fields) \in Nat \ {0}
  <2>1. Len(Fields) \in Nat /\ DOMAIN Fields = 1..Len(Fields) /\ Len(Fields) > 0
    BY CommandAssumption, LenProperties
  <2>2. QED
    BY <2>1
<1>7. next \in 1..Len(Fields)
  BY <1>6 DEF CommandTypeOK
<1>8. received["subscriber"] \in Numbered /\ QueueLength \in Nat \ {0}
  BY CommandAssumption, <1>1
<1>9. QED
  BY <1>1, <1>2, <1>3, <1>4, <1>5, <1>6, <1>7, <1>8

\* Commands in order stay so with a newer one behind them, and without the
\* oldest.
LEMMA AppendInOrder ==
  ASSUME NEW S, \A c \in S : c.n \in Int, NEW s \in Seq(S), NEW x \in S,
         InOrder(s), \A i \in DOMAIN s : s[i].n < x.n
  PROVE  /\ Append(s, x) \in Seq(S) /\ Len(Append(s, x)) = Len(s) + 1
         /\ InOrder(Append(s, x))
         /\ \A i \in DOMAIN Append(s, x) :
               (i \in DOMAIN s /\ Append(s, x)[i] = s[i]) \/ Append(s, x)[i] = x
         /\ Append(s, x)[Len(Append(s, x))] = x
         /\ Append(s, x) # <<>>
<1>1. /\ Len(s) \in Nat /\ DOMAIN s = 1..Len(s)
      /\ Append(s, x) \in Seq(S) /\ Len(Append(s, x)) = Len(s) + 1
      /\ DOMAIN Append(s, x) = 1..(Len(s) + 1)
      /\ \A i \in 1..Len(s) : Append(s, x)[i] = s[i]
      /\ Append(s, x)[Len(s) + 1] = x
  BY AppendProperties, LenProperties
<1>2. ASSUME NEW i \in DOMAIN Append(s, x), NEW j \in DOMAIN Append(s, x), i < j
      PROVE  Append(s, x)[i].n < Append(s, x)[j].n
  <2>1. i \in 1..Len(s)
    BY <1>1, <1>2
  <2>2. CASE j \in 1..Len(s)
    BY <1>1, <1>2, <2>1, <2>2 DEF InOrder
  <2>3. CASE j = Len(s) + 1
    BY <1>1, <2>1, <2>3
  <2>4. QED
    BY <1>1, <2>2, <2>3
<1>3. InOrder(Append(s, x))
  BY <1>2 DEF InOrder
<1>4. \A i \in DOMAIN Append(s, x) :
         (i \in DOMAIN s /\ Append(s, x)[i] = s[i]) \/ Append(s, x)[i] = x
  BY <1>1
<1>5. Append(s, x) # <<>>
  BY <1>1
<1>6. QED
  BY <1>1, <1>3, <1>4, <1>5

LEMMA TailInOrder ==
  ASSUME NEW S, \A c \in S : c.n \in Int, NEW s \in Seq(S), s # <<>>,
         InOrder(s)
  PROVE  /\ Tail(s) \in Seq(S) /\ Len(Tail(s)) = Len(s) - 1
         /\ InOrder(Tail(s))
         /\ 1 \in DOMAIN s /\ Head(s) = s[1] /\ s[1] \in S
         /\ \A i \in DOMAIN Tail(s) : /\ i + 1 \in DOMAIN s
                                     /\ Tail(s)[i] = s[i + 1]
                                     /\ s[1].n < Tail(s)[i].n
         /\ IF Tail(s) = <<>> THEN s[Len(s)] = s[1]
            ELSE Tail(s)[Len(Tail(s))] = s[Len(s)]
<1>1. /\ Len(s) \in Nat \ {0} /\ DOMAIN s = 1..Len(s)
      /\ Tail(s) \in Seq(S) /\ Len(Tail(s)) = Len(s) - 1
      /\ DOMAIN Tail(s) = 1..(Len(s) - 1)
      /\ \A i \in 1..(Len(s) - 1) : Tail(s)[i] = s[i + 1]
      /\ Head(s) = s[1] /\ s[1] \in S
  BY HeadTailProperties, LenProperties, EmptySeq, ElementOfSeq
<1>2. \A i \in DOMAIN Tail(s) : i + 1 \in DOMAIN s /\ Tail(s)[i] = s[i + 1]
                                /\ s[1].n < Tail(s)[i].n
  <2>1. SUFFICES ASSUME NEW i \in 1..(Len(s) - 1)
                 PROVE  i + 1 \in DOMAIN s /\ Tail(s)[i] = s[i + 1] /\ s[1].n < Tail(s)[i].n
    BY <1>1
  <2>2. 1 \in DOMAIN s /\ i + 1 \in DOMAIN s /\ 1 < i + 1
    BY <1>1
  <2>3. s[1].n < s[i + 1].n
    BY <2>2 DEF InOrder
  <2>4. QED
    BY <1>1, <2>2, <2>3
<1>3. InOrder(Tail(s))
  <2>1. SUFFICES ASSUME NEW i \in 1..(Len(s) - 1), NEW j \in 1..(Len(s) - 1), i < j
                 PROVE  Tail(s)[i].n < Tail(s)[j].n
    BY <1>1 DEF InOrder
  <2>2. i + 1 \in DOMAIN s /\ j + 1 \in DOMAIN s /\ i + 1 < j + 1
    BY <1>1, <2>1
  <2>3. QED
    BY <1>1, <2>2 DEF InOrder
<1>4. CASE Tail(s) = <<>>
  <2>1. Len(s) = 1
    <3>1. Len(Tail(s)) = 0
      BY <1>1, <1>4, EmptySeq, Zenon
    <3>2. \A n \in Nat \ {0} : n - 1 = 0 => n = 1
      OBVIOUS
    <3>3. QED
      BY <1>1, <3>1, <3>2, Zenon
  <2>2. QED
    BY <1>1, <1>2, <1>3, <1>4, <2>1
<1>5. CASE Tail(s) # <<>>
  <2>1. Len(s) - 1 \in 1..(Len(s) - 1)
    BY <1>1, <1>5, EmptySeq
  <2>2. Tail(s)[Len(Tail(s))] = s[Len(s)]
    BY <1>1, <2>1
  <2>3. QED
    BY <1>1, <1>2, <1>3, <1>5, <2>2
<1>6. QED
  BY <1>4, <1>5

\* Before the first command, all is as the command line of the bridge says.
LEMMA CommandStartsEmpty ==
  ASSUME CommandInit
  PROVE  CommandTypeOK /\ CommandIInv
<1> USE DEF CommandInit
<1>1. /\ command_queue \in Seq(Numbered) /\ Len(command_queue) = 0
      /\ DOMAIN command_queue = {}
      /\ channel \in Seq(Commands) /\ Len(channel) = 0 /\ DOMAIN channel = {}
      /\ DOMAIN used = {}
  OBVIOUS
<1>2. /\ NoCommand.n = 0 /\ NoCommand.kind = "enable"
      /\ received["subscriber"] = NoCommand /\ offer_pc["subscriber"] = "idle"
      /\ 0 \in Numbers
  BY CommandAssumption DEF NoCommand, Numbers
<1>3. 1 \in DOMAIN Fields /\ \A i \in DOMAIN Fields : ~(i < 1)
  <2>1. Len(Fields) \in Nat /\ DOMAIN Fields = 1..Len(Fields) /\ Len(Fields) > 0
    BY CommandAssumption, LenProperties
  <2>2. QED
    BY <2>1
<1>4. CommandTypeOK
  <2>1. Len(command_queue) <= QueueLength /\ Len(channel) <= ChannelLength
    BY CommandAssumption, <1>1
  <2>2. /\ threshold \in [Names -> Numbers]
        /\ offer_pc \in [{"subscriber"} -> {"idle", "full", "dropped"}]
        /\ received \in [{"subscriber"} -> Numbered]
        /\ applying \in Numbered
    BY <1>2 DEF Numbered
  <2>3. QED
    BY <1>1, <1>2, <1>3, <2>1, <2>2
       DEF CommandTypeOK, CommandQueue!QueueTypeOK,
           CommandQueue!Points, Numbered
<1>5. CommandChain
  BY <1>1, <1>2 DEF CommandChain, InOrder
<1>6. CommandOffering
  BY <1>2 DEF CommandOffering, CommandQueue!IInv, NewestReceivedKept,
     CommandQueue!RoomAfterDrop, CommandQueue!NeverRefused
<1>7. Setting
  BY <1>3 DEF Setting, Names
<1>8. Reading
  BY <1>1 DEF Reading, FrameThresholdsRecent
<1>9. QED
  BY <1>4, <1>5, <1>6, <1>7, <1>8 DEF CommandIInv

-----------------------------------------------------------------------------
\* The GUI's next command is newer than all others.
LEMMA SendKeeps ==
  ASSUME CommandTypeOK, CommandIInv,
         NEW kind \in Kinds, SendCommand(kind)
  PROVE  CommandTypeOK' /\ CommandIInv'
<1> DEFINE new == [n |-> sent + 1, kind |-> kind]
<1>1. /\ UNCHANGED <<command_queue, offer_pc, received, offer_refused, applying, next,
                     detection_enabled, threshold, applied, settled, transform, used,
                     floor>>
      /\ sent' = sent + 1 /\ sent < MaxCommands /\ sent \in Nat /\ MaxCommands \in Nat
      /\ (Len(channel) < ChannelLength /\ channel' = Append(channel, new)) \/ channel' = channel
  BY CommandAssumption DEF SendCommand, offerVars, applyVars, frameVars,
     CommandTypeOK, Numbers
<1>2. /\ InOrder(channel)
      /\ \A i \in DOMAIN channel : received["subscriber"].n < channel[i].n /\ channel[i].n <= sent
      /\ received["subscriber"].n <= sent
      /\ \A i \in DOMAIN channel : channel[i].n \in Int
      /\ received["subscriber"].n \in Int
      /\ channel \in Seq(Commands) /\ Len(channel) \in Nat
  BY CommandFacts DEF CommandIInv, CommandChain, Numbered
<1>3. /\ channel' \in Seq(Commands) /\ Len(channel') <= ChannelLength
      /\ InOrder(channel')
      /\ \A i \in DOMAIN channel' : received["subscriber"].n < channel'[i].n /\ channel'[i].n <= sent + 1
  <2>1. CASE channel' = channel
    BY <1>1, <1>2, <2>1 DEF CommandTypeOK
  <2>2. CASE Len(channel) < ChannelLength /\ channel' = Append(channel, new)
    <3>1. new \in Commands /\ new.n = sent + 1
      BY <1>1 DEF Commands, Numbers
    <3>2. /\ \A c \in Commands : c.n \in Int
          /\ \A i \in DOMAIN channel : channel[i].n < new.n
      BY <1>1, <1>2, <3>1, CommandFacts DEF Numbered
    <3> HIDE DEF new
    <3>3. /\ Append(channel, new) \in Seq(Commands)
          /\ Len(Append(channel, new)) = Len(channel) + 1
          /\ InOrder(Append(channel, new))
          /\ \A i \in DOMAIN Append(channel, new) :
                (i \in DOMAIN channel /\ Append(channel, new)[i] = channel[i])
                \/ Append(channel, new)[i] = new
      BY <1>2, <3>1, <3>2, AppendInOrder
    <3>4. Len(channel') <= ChannelLength
      BY <1>2, <2>2, <3>3, CommandAssumption
    <3>5. ASSUME NEW i \in DOMAIN channel'
          PROVE  received["subscriber"].n < channel'[i].n /\ channel'[i].n <= sent + 1
      <4>1. CASE i \in DOMAIN channel /\ channel'[i] = channel[i]
        BY <1>1, <1>2, <4>1
      <4>2. CASE channel'[i] = new
        BY <1>1, <1>2, <3>1, <4>2
      <4>3. QED
        BY <2>2, <3>3, <4>1, <4>2
    <3>6. QED
      BY <2>2, <3>3, <3>4, <3>5
  <2>3. QED
    BY <1>1, <2>1, <2>2
<1>4. CommandTypeOK'
  BY <1>1, <1>3 DEF CommandTypeOK, CommandQueue!QueueTypeOK, Numbers
<1>5. CommandChain'
  BY <1>1, <1>2, <1>3 DEF CommandIInv, CommandChain, InOrder
<1>6. CommandOffering' /\ Setting' /\ Reading'
  BY <1>1 DEF CommandIInv, CommandOffering, Setting, Reading,
     CommandQueue!IInv, CommandQueue!RoomAfterDrop,
     CommandQueue!NeverRefused, NewestReceivedKept,
     FrameThresholdsRecent, Newest
<1>7. QED
  BY <1>4, <1>5, <1>6 DEF CommandIInv

\* The next command on the wire is newer than all that were received, and
\* older than those behind it.
LEMMA WireFacts ==
  ASSUME CommandTypeOK, CommandIInv, channel # <<>>
  PROVE  /\ Head(channel) \in Commands /\ Head(channel) \in Numbered
         /\ Head(channel).n \in Int
         /\ received["subscriber"].n < Head(channel).n /\ Head(channel).n <= sent
         /\ Tail(channel) \in Seq(Commands) /\ Len(Tail(channel)) <= ChannelLength
         /\ InOrder(Tail(channel))
         /\ \A i \in DOMAIN Tail(channel) : /\ Head(channel).n < Tail(channel)[i].n
                                            /\ Tail(channel)[i].n <= sent
                                            /\ Tail(channel)[i].n \in Int
<1>1. /\ \A c \in Commands : c.n \in Int
      /\ channel \in Seq(Commands) /\ Len(channel) \in Nat /\ Len(channel) <= ChannelLength
      /\ \A i \in DOMAIN channel : channel[i] \in Commands
      /\ InOrder(channel)
      /\ \A i \in DOMAIN channel : received["subscriber"].n < channel[i].n /\ channel[i].n <= sent
  BY CommandFacts DEF Numbered, CommandTypeOK, CommandIInv, CommandChain
<1>2. /\ Tail(channel) \in Seq(Commands) /\ Len(Tail(channel)) = Len(channel) - 1
      /\ InOrder(Tail(channel))
      /\ 1 \in DOMAIN channel /\ Head(channel) = channel[1] /\ channel[1] \in Commands
      /\ \A i \in DOMAIN Tail(channel) : /\ i + 1 \in DOMAIN channel
                                         /\ Tail(channel)[i] = channel[i + 1]
                                         /\ channel[1].n < Tail(channel)[i].n
  BY <1>1, TailInOrder
<1>3. Len(Tail(channel)) <= ChannelLength
  BY <1>1, <1>2, CommandAssumption
<1>4. \A i \in DOMAIN Tail(channel) : Tail(channel)[i].n <= sent /\ Tail(channel)[i].n \in Int
  BY <1>1, <1>2
<1>5. QED
  BY <1>1, <1>2, <1>3, <1>4 DEF Numbered

\* A payload that cannot be decoded is as if it had never been sent.
LEMMA RefuseKeeps ==
  ASSUME CommandTypeOK, CommandIInv, RefuseCommand
  PROVE  CommandTypeOK' /\ CommandIInv'
<1>1. /\ UNCHANGED <<sent, command_queue, offer_pc, received, offer_refused, applying, next,
                     detection_enabled, threshold, applied, settled, transform, used, floor>>
      /\ channel # <<>> /\ channel' = Tail(channel)
  BY DEF RefuseCommand, offerVars, applyVars, frameVars
<1>2. CommandTypeOK'
  BY <1>1, WireFacts DEF CommandTypeOK, CommandQueue!QueueTypeOK
<1>3. CommandChain'
  <2>1. \A i \in DOMAIN Tail(channel) : received["subscriber"].n < Tail(channel)[i].n
                                        /\ Tail(channel)[i].n <= sent
    BY <1>1, WireFacts, CommandFacts
  <2>2. InOrder(Tail(channel))
    BY <1>1, WireFacts
  <2>3. QED
    BY <1>1, <2>1, <2>2 DEF CommandIInv, CommandChain, InOrder
<1>4. CommandOffering' /\ Setting' /\ Reading'
  BY <1>1 DEF CommandIInv, CommandOffering, Setting, Reading,
     CommandQueue!IInv, CommandQueue!RoomAfterDrop,
     CommandQueue!NeverRefused, NewestReceivedKept,
     FrameThresholdsRecent, Newest
<1>5. QED
  BY <1>2, <1>3, <1>4 DEF CommandIInv

\* Putting a command, newer than all that were put before, keeps their order
\* and makes it the last.
LEMMA PutKeepsOrder ==
  ASSUME CommandTypeOK, CommandIInv,
         NEW x \in Numbered, Len(command_queue) < QueueLength,
         \A i \in DOMAIN command_queue : command_queue[i].n < x.n,
         command_queue' = Append(command_queue, x)
  PROVE  /\ command_queue' \in Seq(Numbered) /\ Len(command_queue') <= QueueLength
         /\ InOrder(command_queue')
         /\ \A i \in DOMAIN command_queue' :
               (i \in DOMAIN command_queue /\ command_queue'[i] = command_queue[i])
               \/ command_queue'[i] = x
         /\ command_queue'[Len(command_queue')] = x /\ command_queue' # <<>>
<1>1. /\ Append(command_queue, x) \in Seq(Numbered)
      /\ Len(Append(command_queue, x)) = Len(command_queue) + 1
      /\ InOrder(Append(command_queue, x))
      /\ \A i \in DOMAIN Append(command_queue, x) :
            (i \in DOMAIN command_queue /\ Append(command_queue, x)[i] = command_queue[i])
            \/ Append(command_queue, x)[i] = x
      /\ Append(command_queue, x)[Len(Append(command_queue, x))] = x
      /\ Append(command_queue, x) # <<>>
  <2>1. /\ command_queue \in Seq(Numbered) /\ InOrder(command_queue)
        /\ \A c \in Numbered : c.n \in Int
    BY CommandFacts DEF CommandIInv, CommandChain
  <2>2. QED
    BY <2>1, AppendInOrder
<1>2. Len(command_queue') <= QueueLength
  <2>1. \A m, n \in Nat : m < n => m + 1 <= n
    OBVIOUS
  <2>2. Len(command_queue) \in Nat /\ QueueLength \in Nat
    BY CommandFacts
  <2>3. QED
    BY <1>1, <2>1, <2>2, Zenon
<1>3. QED
  BY <1>1, <1>2, Zenon

\* The command thread offers what it receives: the first steps of
\* offer_latest.
LEMMA ReceiveKeeps ==
  ASSUME CommandTypeOK, CommandIInv, ReceiveCommand
  PROVE  CommandTypeOK' /\ CommandIInv'
<1> DEFINE x == Head(channel)
<1>1. /\ UNCHANGED <<sent, offer_refused, applying, next, detection_enabled, threshold,
                     applied,
                     settled, transform, used, floor>>
      /\ channel # <<>> /\ channel' = Tail(channel)
      /\ offer_pc["subscriber"] = "idle"
      /\ received' = [received EXCEPT !["subscriber"] = x]
      /\ \/ /\ offer_pc' = offer_pc
            /\ Len(command_queue) < QueueLength
            /\ command_queue' = Append(command_queue, x)
         \/ /\ offer_pc' = [offer_pc EXCEPT !["subscriber"] = "full"]
            /\ command_queue' = command_queue
  BY DEF ReceiveCommand, CommandQueue!Offer, CommandQueue!Put,
     CommandQueue!FindFull, applyVars, frameVars
<1> HIDE DEF x
<1>2. /\ x \in Numbered /\ x.n \in Int
      /\ received["subscriber"].n < x.n /\ x.n <= sent
      /\ channel' \in Seq(Commands) /\ Len(channel') <= ChannelLength
      /\ InOrder(channel')
      /\ \A i \in DOMAIN channel' : x.n < channel'[i].n /\ channel'[i].n <= sent
  BY <1>1, WireFacts DEF x
<1>3. /\ received' \in [{"subscriber"} -> Numbered] /\ received'["subscriber"] = x
      /\ offer_pc' \in [{"subscriber"} -> {"idle", "full", "dropped"}]
      /\ offer_pc'["subscriber"] \in {"idle", "full"}
      /\ offer_pc'["subscriber"] = "idle" => offer_pc' = offer_pc
  BY <1>1, <1>2, CommandFacts
<1>4. /\ applying.n < x.n /\ applied < x.n
      /\ \A i \in DOMAIN command_queue : command_queue[i].n < x.n
  <2>1. /\ applying.n <= received["subscriber"].n /\ applied <= received["subscriber"].n
        /\ \A i \in DOMAIN command_queue : command_queue[i].n <= received["subscriber"].n
    BY DEF CommandIInv, CommandChain
  <2>2. /\ applying.n \in Int /\ applied \in Int /\ received["subscriber"].n \in Int
        /\ \A i \in DOMAIN command_queue : command_queue[i].n \in Int
    BY CommandFacts
  <2>3. QED
    BY <1>2, <2>1, <2>2
<1>5. /\ command_queue' \in Seq(Numbered) /\ Len(command_queue') <= QueueLength
      /\ InOrder(command_queue')
      /\ \A i \in DOMAIN command_queue' :
            (i \in DOMAIN command_queue /\ command_queue'[i] = command_queue[i])
            \/ (offer_pc' = offer_pc /\ command_queue'[i] = x)
      /\ offer_pc' = offer_pc => command_queue' # <<>> /\ command_queue'[Len(command_queue')] = x
  <2>1. CASE offer_pc' = offer_pc
    <3>1. Len(command_queue) < QueueLength /\ command_queue' = Append(command_queue, x)
      BY <1>1, <2>1, CommandFacts
    <3>2. QED
      BY <1>2, <1>4, <2>1, <3>1, PutKeepsOrder
  <2>2. CASE offer_pc' # offer_pc
    BY <1>1, <2>2, CommandFacts DEF CommandIInv, CommandChain
  <2>3. QED
    BY <2>1, <2>2
<1>6. CommandTypeOK'
  BY <1>1, <1>2, <1>3, <1>5 DEF CommandTypeOK, CommandQueue!QueueTypeOK,
     CommandQueue!Points, Numbered
<1>7. CommandChain'
  <2>1. ASSUME NEW i \in DOMAIN command_queue'
        PROVE  /\ applying.n < command_queue'[i].n /\ applied < command_queue'[i].n
               /\ command_queue'[i].n <= x.n
               /\ offer_pc'["subscriber"] # "idle" => command_queue'[i].n < x.n
    <3>1. CASE i \in DOMAIN command_queue /\ command_queue'[i] = command_queue[i]
      <4>1. command_queue[i].n \in Int /\ command_queue[i].n < x.n
        BY <1>4, <3>1, CommandFacts
      <4>2. applying.n < command_queue[i].n /\ applied < command_queue[i].n
        BY <3>1 DEF CommandIInv, CommandChain
      <4>3. QED
        BY <1>2, <3>1, <4>1, <4>2
    <3>2. CASE offer_pc' = offer_pc /\ command_queue'[i] = x
      BY <1>1, <1>2, <1>4, <3>2
    <3>3. QED
      BY <1>5, <3>1, <3>2
  <2>2. applying.n <= x.n /\ applied <= x.n
    BY <1>2, <1>4, CommandFacts
  <2>3. settled <= applied /\ (applying # NoCommand => applied < applying.n)
    BY DEF CommandIInv, CommandChain
  <2>4. InOrder(command_queue)' /\ InOrder(channel)'
    BY <1>2, <1>5 DEF InOrder
  <2>5. QED
    BY <1>1, <1>2, <1>3, <1>4, <2>1, <2>2, <2>3, <2>4, Zenon
       DEF CommandChain, NoCommand
<1>8. CommandOffering'
  BY <1>1, <1>3, <1>5 DEF CommandIInv, CommandOffering, CommandQueue!IInv,
     CommandQueue!RoomAfterDrop, CommandQueue!NeverRefused,
     NewestReceivedKept
<1>9. Setting' /\ Reading'
  BY <1>1 DEF CommandIInv, Setting, Reading,
     FrameThresholdsRecent, Newest
<1>10. QED
  BY <1>6, <1>7, <1>8, <1>9 DEF CommandIInv

\* Its other steps: room is made, and found.
LEMMA DropKeeps ==
  ASSUME CommandTypeOK, CommandIInv,
         CommandQueue!DropOldest("subscriber"),
         UNCHANGED <<sent, channel, applying, next, detection_enabled, threshold, applied,
                     settled, transform, used, floor>>
  PROVE  CommandTypeOK' /\ CommandIInv'
<1>1. /\ UNCHANGED <<received, offer_refused>>
      /\ offer_pc["subscriber"] = "full" /\ offer_pc' = [offer_pc EXCEPT !["subscriber"] = "dropped"]
      /\ command_queue' = IF command_queue = <<>> THEN command_queue ELSE Tail(command_queue)
  BY DEF CommandQueue!DropOldest
<1>2. /\ offer_pc' \in [{"subscriber"} -> {"idle", "full", "dropped"}]
      /\ offer_pc'["subscriber"] = "dropped"
  BY <1>1, CommandFacts
<1>3. /\ command_queue' \in Seq(Numbered) /\ Len(command_queue') < QueueLength
      /\ InOrder(command_queue')
      /\ \A i \in DOMAIN command_queue' : \E j \in DOMAIN command_queue :
            command_queue'[i] = command_queue[j]
  <2>1. CASE command_queue = <<>>
    <3>1. Len(command_queue) = 0
      BY <2>1, CommandFacts, EmptySeq, Zenon
    <3>2. QED
      BY <1>1, <2>1, <3>1, CommandFacts DEF CommandIInv, CommandChain
  <2>2. CASE command_queue # <<>>
    <3>1. /\ command_queue \in Seq(Numbered) /\ InOrder(command_queue)
          /\ \A c \in Numbered : c.n \in Int
          /\ Len(command_queue) \in Nat /\ Len(command_queue) <= QueueLength
          /\ QueueLength \in Nat
      BY CommandFacts DEF CommandIInv, CommandChain
    <3>2. /\ Tail(command_queue) \in Seq(Numbered)
          /\ Len(Tail(command_queue)) = Len(command_queue) - 1
          /\ InOrder(Tail(command_queue))
          /\ \A i \in DOMAIN Tail(command_queue) :
                /\ i + 1 \in DOMAIN command_queue
                /\ Tail(command_queue)[i] = command_queue[i + 1]
      BY <2>2, <3>1, TailInOrder
    <3>3. \A m, n \in Nat : m <= n => m - 1 < n
      OBVIOUS
    <3>4. Len(Tail(command_queue)) < QueueLength
      BY <3>1, <3>2, <3>3, Zenon
    <3>5. QED
      BY <1>1, <2>2, <3>2, <3>4
  <2>3. QED
    BY <2>1, <2>2
<1>4. CommandTypeOK'
  <2>1. Len(command_queue') <= QueueLength
    BY <1>3, CommandFacts, LenProperties
  <2>2. QED
    BY <1>1, <1>2, <1>3, <2>1 DEF CommandTypeOK, CommandQueue!QueueTypeOK,
       CommandQueue!Points, Numbered
<1>5. CommandChain'
  <2>1. \A i \in DOMAIN command_queue' : /\ applying.n < command_queue'[i].n
                                         /\ applied < command_queue'[i].n
                                         /\ command_queue'[i].n <= received["subscriber"].n
                                         /\ command_queue'[i].n < received["subscriber"].n
    BY <1>1, <1>3 DEF CommandIInv, CommandChain
  <2>2. InOrder(command_queue)' /\ InOrder(channel)'
    BY <1>3 DEF CommandIInv, CommandChain, InOrder
  <2>3. QED
    BY <1>1, <2>1, <2>2 DEF CommandIInv, CommandChain, NoCommand
<1>6. CommandOffering'
  BY <1>1, <1>2, <1>3 DEF CommandIInv, CommandOffering, CommandQueue!IInv,
     CommandQueue!RoomAfterDrop, CommandQueue!NeverRefused,
     NewestReceivedKept
<1>7. Setting' /\ Reading'
  BY DEF CommandIInv, Setting, Reading,
     FrameThresholdsRecent, Newest
<1>8. QED
  BY <1>4, <1>5, <1>6, <1>7 DEF CommandIInv

LEMMA PutAgainKeeps ==
  ASSUME CommandTypeOK, CommandIInv,
         CommandQueue!PutAgain("subscriber"),
         UNCHANGED <<sent, channel, applying, next, detection_enabled, threshold, applied,
                     settled, transform, used, floor>>
  PROVE  CommandTypeOK' /\ CommandIInv'
<1> DEFINE x == received["subscriber"]
<1>1. /\ UNCHANGED <<received, offer_refused>>
      /\ offer_pc["subscriber"] = "dropped" /\ offer_pc' = [offer_pc EXCEPT !["subscriber"] = "idle"]
      /\ Len(command_queue) < QueueLength
      /\ command_queue' = Append(command_queue, x)
  BY DEF CommandQueue!PutAgain
<1>2. /\ offer_pc' \in [{"subscriber"} -> {"idle", "full", "dropped"}]
      /\ offer_pc'["subscriber"] = "idle"
      /\ x \in Numbered /\ x.n \in Int
  BY <1>1, CommandFacts
<1>3. /\ applying.n < x.n /\ applied < x.n
      /\ \A i \in DOMAIN command_queue : command_queue[i].n < x.n
  BY <1>1 DEF CommandIInv, CommandChain
<1> HIDE DEF x
<1>4. /\ command_queue' \in Seq(Numbered) /\ Len(command_queue') <= QueueLength
      /\ InOrder(command_queue')
      /\ \A i \in DOMAIN command_queue' :
            (i \in DOMAIN command_queue /\ command_queue'[i] = command_queue[i])
            \/ command_queue'[i] = x
      /\ command_queue' # <<>> /\ command_queue'[Len(command_queue')] = x
  BY <1>1, <1>2, <1>3, PutKeepsOrder
<1>5. CommandTypeOK'
  BY <1>1, <1>2, <1>4 DEF CommandTypeOK, CommandQueue!QueueTypeOK,
     CommandQueue!Points, Numbered
<1>6. CommandChain'
  <2>1. ASSUME NEW i \in DOMAIN command_queue'
        PROVE  /\ applying.n < command_queue'[i].n /\ applied < command_queue'[i].n
               /\ command_queue'[i].n <= x.n
    <3>1. CASE i \in DOMAIN command_queue /\ command_queue'[i] = command_queue[i]
      BY <3>1 DEF CommandIInv, CommandChain, x
    <3>2. CASE command_queue'[i] = x
      BY <1>2, <1>3, <3>2
    <3>3. QED
      BY <1>4, <3>1, <3>2
  <2>2. InOrder(command_queue)' /\ InOrder(channel)'
    BY <1>4 DEF CommandIInv, CommandChain, InOrder
  <2>3. QED
    BY <1>1, <1>2, <2>1, <2>2 DEF CommandIInv, CommandChain, NoCommand, x
<1>7. CommandOffering'
  BY <1>1, <1>2, <1>4 DEF CommandIInv, CommandOffering, CommandQueue!IInv,
     CommandQueue!RoomAfterDrop, CommandQueue!NeverRefused,
     NewestReceivedKept, x
<1>8. Setting' /\ Reading'
  BY DEF CommandIInv, Setting, Reading,
     FrameThresholdsRecent, Newest
<1>9. QED
  BY <1>5, <1>6, <1>7, <1>8 DEF CommandIInv

LEMMA OfferCommandKeeps ==
  ASSUME CommandTypeOK, CommandIInv, OfferCommand
  PROVE  CommandTypeOK' /\ CommandIInv'
<1>1. ~CommandQueue!GiveUp("subscriber")
  <2>1. offer_pc["subscriber"] = "dropped" => Len(command_queue) < QueueLength
    BY DEF CommandIInv, CommandOffering, CommandQueue!IInv,
       CommandQueue!RoomAfterDrop
  <2>2. QED
    BY <2>1, CommandFacts DEF CommandQueue!GiveUp
<1>2. UNCHANGED <<sent, channel, applying, next, detection_enabled, threshold, applied,
                  settled, transform, used, floor>>
  BY DEF OfferCommand, applyVars, frameVars
<1>3. QED
  BY <1>1, <1>2, DropKeeps, PutAgainKeeps
     DEF OfferCommand, CommandQueue!Continue

-----------------------------------------------------------------------------
\* The main loop takes the oldest command, which is newer than what is
\* applied.
LEMMA TakeKeeps ==
  ASSUME CommandTypeOK, CommandIInv, TakeCommand
  PROVE  CommandTypeOK' /\ CommandIInv'
<1> DEFINE x == command_queue[1]
<1>1. /\ UNCHANGED <<sent, channel, offer_pc, received, offer_refused, next,
                     detection_enabled, threshold, applied, settled, transform, used,
                     floor>>
      /\ applying = NoCommand
      /\ command_queue # <<>> /\ command_queue' = Tail(command_queue)
      /\ applying' = Head(command_queue)
  BY DEF TakeCommand, CommandQueue!Take, frameVars
<1>2. /\ command_queue' \in Seq(Numbered) /\ Len(command_queue') = Len(command_queue) - 1
      /\ InOrder(command_queue')
      /\ 1 \in DOMAIN command_queue /\ applying' = x /\ x \in Numbered
      /\ \A i \in DOMAIN command_queue' : /\ i + 1 \in DOMAIN command_queue
                                          /\ command_queue'[i] = command_queue[i + 1]
                                          /\ x.n < command_queue'[i].n
      /\ IF command_queue' = <<>> THEN command_queue[Len(command_queue)] = x
         ELSE command_queue'[Len(command_queue')] = command_queue[Len(command_queue)]
  <2>1. /\ command_queue \in Seq(Numbered) /\ InOrder(command_queue)
        /\ \A c \in Numbered : c.n \in Int
    BY CommandFacts DEF CommandIInv, CommandChain
  <2>2. QED
    BY <1>1, <2>1, TailInOrder
<1> HIDE DEF x
<1>3. /\ applied < x.n /\ x.n <= received["subscriber"].n /\ x.n \in Int
      /\ offer_pc["subscriber"] # "idle" => x.n < received["subscriber"].n
  BY <1>2, CommandFacts DEF CommandIInv, CommandChain, x
<1>4. CommandTypeOK'
  <2>1. Len(command_queue') <= QueueLength
    BY <1>2, CommandFacts
  <2>2. QED
    BY <1>1, <1>2, <2>1 DEF CommandTypeOK, CommandQueue!QueueTypeOK, Numbered
<1>5. CommandChain'
  <2>1. \A i \in DOMAIN command_queue' :
           /\ applied < command_queue'[i].n
           /\ command_queue'[i].n <= received["subscriber"].n
           /\ offer_pc["subscriber"] # "idle" => command_queue'[i].n < received["subscriber"].n
    BY <1>2 DEF CommandIInv, CommandChain
  <2>2. InOrder(command_queue)' /\ InOrder(channel)'
    BY <1>1, <1>2 DEF CommandIInv, CommandChain, InOrder
  <2>3. QED
    BY <1>1, <1>2, <1>3, <2>1, <2>2 DEF CommandIInv, CommandChain, NoCommand
<1>6. CommandOffering'
  <2>1. Len(command_queue) < QueueLength => Len(command_queue') < QueueLength
    BY <1>2, CommandFacts
  <2>2. CommandQueue!IInv'
    BY <1>1, <2>1 DEF CommandIInv, CommandOffering, CommandQueue!IInv,
       CommandQueue!RoomAfterDrop, CommandQueue!NeverRefused
  <2>3. offer_pc["subscriber"] = "idle" => command_queue[Len(command_queue)] = received["subscriber"]
    BY <1>1 DEF CommandIInv, CommandOffering, NewestReceivedKept
  <2>4. NewestReceivedKept'
    BY <1>1, <1>2, <2>3 DEF NewestReceivedKept
  <2>5. QED
    BY <2>2, <2>4 DEF CommandOffering
<1>7. applying.kind # "thresholds" /\ next = 1
  BY <1>1, CommandFacts DEF CommandIInv, Setting
<1>8. Setting'
  BY <1>1, <1>7, CommandFacts DEF CommandIInv, Setting
<1>9. Reading'
  <2>1. \A f \in DOMAIN used : used[f] \in floor..settled
    BY <1>7 DEF CommandIInv, Reading, FrameThresholdsRecent,
       Newest
  <2>2. settled <= x.n
    BY <1>3, CommandFacts DEF CommandIInv, CommandChain
  <2>3. /\ floor \in Int /\ settled \in Int /\ floor <= settled
        /\ Newest' \in {x.n, settled}
    BY <1>1, <1>2, CommandFacts DEF Newest, CommandIInv, Reading,
       CommandTypeOK, Numbers
  <2>4. QED
    BY <1>1, <1>3, <2>1, <2>2, <2>3 DEF Reading, FrameThresholdsRecent
<1>10. QED
  BY <1>4, <1>5, <1>6, <1>8, <1>9 DEF CommandIInv

\* A command that ends becomes the applied one, older than all in the queue.
LEMMA AppliedKeepsChain ==
  ASSUME CommandTypeOK, CommandIInv,
         applying # NoCommand, applying' = NoCommand,
         applied' = applying.n, settled' \in {settled, applying.n},
         UNCHANGED <<sent, channel, command_queue, offer_pc, received, offer_refused>>
  PROVE  CommandChain' /\ CommandOffering'
<1>1. /\ settled <= applied /\ applied < applying.n
      /\ applying.n <= received["subscriber"].n /\ applied <= received["subscriber"].n
      /\ applied \in Int /\ applied >= 0 /\ settled \in Int /\ applying.n \in Int
      /\ received["subscriber"].n \in Int
      /\ applying'.n = 0
      /\ \A i \in DOMAIN command_queue : /\ applying.n < command_queue[i].n
                                         /\ command_queue[i].n \in Int
  BY CommandFacts DEF CommandIInv, CommandChain
<1>2. CommandChain'
  <2>1. /\ settled' <= applied'
        /\ applying'.n <= received["subscriber"].n
        /\ \A i \in DOMAIN command_queue : applying'.n < command_queue[i].n
    BY <1>1
  <2>2. offer_pc["subscriber"] # "idle" => applying.n < received["subscriber"].n
    BY DEF CommandIInv, CommandChain
  <2>3. InOrder(command_queue)' /\ InOrder(channel)'
    BY DEF CommandIInv, CommandChain, InOrder
  <2>4. applying'.n < received["subscriber"].n \/ offer_pc["subscriber"] = "idle"
    BY <1>1, <2>2
  <2>5. QED
    BY <1>1, <2>1, <2>2, <2>3, <2>4 DEF CommandIInv, CommandChain, NoCommand
<1>3. CommandOffering'
  <2>1. received["subscriber"].n # applied
    BY <1>1
  <2>2. QED
    BY <2>1 DEF CommandIInv, CommandOffering, CommandQueue!IInv,
       CommandQueue!RoomAfterDrop, CommandQueue!NeverRefused,
       NewestReceivedKept
<1>4. QED
  BY <1>2, <1>3

LEMMA EnableKeeps ==
  ASSUME CommandTypeOK, CommandIInv, SetDetectionEnabled
  PROVE  CommandTypeOK' /\ CommandIInv'
<1>1. /\ UNCHANGED <<sent, channel, command_queue, offer_pc, received, offer_refused,
                     next, threshold, settled, transform, used, floor>>
      /\ applying # NoCommand /\ applying.kind # "thresholds"
      /\ detection_enabled' \in BOOLEAN
      /\ applied' = applying.n /\ applying' = NoCommand
  BY DEF SetDetectionEnabled, offerVars, frameVars
<1>2. applying.n \in Numbers
  BY CommandAssumption DEF CommandTypeOK, Commands, NoCommand,
     Numbers
<1>3. CommandTypeOK'
  BY <1>1, <1>2 DEF CommandTypeOK, CommandQueue!QueueTypeOK
<1>4. CommandChain' /\ CommandOffering'
  BY <1>1, AppliedKeepsChain
<1>5. next = 1
  BY <1>1, CommandFacts DEF CommandIInv, Setting
<1>6. Setting'
  BY <1>1, <1>5, CommandFacts DEF CommandIInv, Setting
<1>7. Reading'
  BY <1>1, CommandFacts DEF CommandIInv, Reading, FrameThresholdsRecent,
     Newest
<1>8. QED
  BY <1>3, <1>4, <1>6, <1>7 DEF CommandIInv

\* What a threshold is set to is newer than all the thresholds of a command
\* before.
LEMMA ThresholdKeeps ==
  ASSUME CommandTypeOK, CommandIInv, SetThreshold
  PROVE  CommandTypeOK' /\ CommandIInv'
<1>1. /\ UNCHANGED <<sent, channel, command_queue, offer_pc, received, offer_refused,
                     detection_enabled,
                     transform, used, floor>>
      /\ applying.kind = "thresholds"
      /\ threshold' = [threshold EXCEPT ![Fields[next]] = applying.n]
      /\ \/ /\ next < Len(Fields) /\ next' = next + 1
            /\ UNCHANGED <<applying, applied, settled>>
         \/ /\ ~(next < Len(Fields)) /\ next' = 1
            /\ applied' = applying.n /\ settled' = applying.n
            /\ applying' = NoCommand
  BY DEF SetThreshold, offerVars, frameVars
<1>2. /\ applying.n \in Numbers
      /\ applying # NoCommand
  BY CommandAssumption, <1>1 DEF CommandTypeOK, Commands, NoCommand, Numbers
<1>3. /\ threshold \in [Names -> Numbers]
      /\ \A i \in DOMAIN Fields : Fields[i] \in Names
      /\ next \in DOMAIN Fields /\ next \in 1..Len(Fields) /\ DOMAIN Fields = 1..Len(Fields)
  BY CommandFacts DEF CommandTypeOK, Names
<1>4. /\ threshold' \in [Names -> Numbers]
      /\ threshold'[Fields[next]] = applying.n
      /\ \A i \in DOMAIN Fields : i # next => threshold'[Fields[i]] = threshold[Fields[i]]
  <2>1. \A i \in DOMAIN Fields : i # next => Fields[i] # Fields[next]
    BY CommandAssumption, <1>3
  <2>2. QED
    BY <1>1, <1>2, <1>3, <2>1
<1>5. \A i \in DOMAIN Fields :
         threshold'[Fields[i]] = IF i < next + 1 THEN applying.n ELSE settled
  <2>1. \A i \in DOMAIN Fields :
           threshold[Fields[i]] = IF i < next THEN applying.n ELSE settled
    BY DEF CommandIInv, Setting
  <2>2. \A i \in DOMAIN Fields : i < next + 1 <=> (i < next \/ i = next)
    BY <1>3
  <2>3. QED
    BY <1>3, <1>4, <2>1, <2>2
<1>6. CASE next < Len(Fields)
  <2>1. next' = next + 1 /\ UNCHANGED <<applying, applied, settled>>
    BY <1>1, <1>6
  <2>2. CommandTypeOK'
    BY <1>1, <1>3, <1>4, <1>6, <2>1 DEF CommandTypeOK, CommandQueue!QueueTypeOK
  <2>3. CommandChain' /\ CommandOffering'
    BY <1>1, <2>1 DEF CommandIInv, CommandChain, InOrder, CommandOffering,
       CommandQueue!IInv, CommandQueue!RoomAfterDrop,
       CommandQueue!NeverRefused, NewestReceivedKept
  <2>4. Setting'
    BY <1>1, <1>5, <2>1 DEF Setting
  <2>5. Reading'
    BY <1>1, <2>1 DEF CommandIInv, Reading, FrameThresholdsRecent,
       Newest
  <2>6. QED
    BY <2>2, <2>3, <2>4, <2>5 DEF CommandIInv
<1>7. CASE ~(next < Len(Fields))
  <2>1. /\ next' = 1 /\ applied' = applying.n /\ settled' = applying.n
        /\ applying' = NoCommand /\ next = Len(Fields) /\ 1 \in DOMAIN Fields
    BY <1>1, <1>3, <1>7
  <2>2. CommandTypeOK'
    BY <1>1, <1>2, <1>4, <2>1 DEF CommandTypeOK, CommandQueue!QueueTypeOK
  <2>3. CommandChain' /\ CommandOffering'
    BY <1>1, <1>2, <2>1, AppliedKeepsChain
  <2>4. Setting'
    <3>1. \A i \in DOMAIN Fields : i < next + 1 /\ ~(i < 1)
      BY <1>3, <2>1
    <3>2. QED
      BY <1>5, <2>1, <3>1 DEF Setting
  <2>5. Reading'
    <3>1. settled <= applying.n
      BY <1>2, CommandFacts DEF CommandIInv, CommandChain
    <3>2. Newest' = applying.n /\ Newest = applying.n
      BY <1>1, <2>1, CommandFacts DEF Newest
    <3>3. floor \in Int /\ floor <= settled
      BY DEF CommandIInv, Reading, CommandTypeOK, Numbers
    <3>4. floor <= applying.n
      BY <3>1, <3>3, CommandFacts
    <3>5. QED
      BY <1>1, <2>1, <3>2, <3>4 DEF CommandIInv, Reading,
         FrameThresholdsRecent
  <2>6. QED
    BY <2>2, <2>3, <2>4, <2>5 DEF CommandIInv
<1>8. QED
  BY <1>6, <1>7

\* A frame reads thresholds of the last command, or of the one being applied.
LEMMA FrameKeeps ==
  ASSUME CommandTypeOK, CommandIInv,
         \/ BeginFrame
         \/ EndFrame
         \/ \E f \in Names : ReadThreshold(f)
  PROVE  CommandTypeOK' /\ CommandIInv'
<1>1. UNCHANGED <<sent, channel, command_queue, offer_pc, received, offer_refused,
                  applying, next, detection_enabled, threshold, applied, settled>>
  BY DEF BeginFrame, EndFrame, ReadThreshold,
     offerVars, applyVars
<1>2. CommandChain' /\ CommandOffering' /\ Setting'
  BY <1>1 DEF CommandIInv, CommandChain, InOrder, CommandOffering,
     CommandQueue!IInv, CommandQueue!RoomAfterDrop,
     CommandQueue!NeverRefused, NewestReceivedKept, Setting
<1>3. CASE BeginFrame \/ EndFrame
  <2>1. /\ used' = <<>> /\ floor' \in {0, settled} /\ transform' \in {"none", "reading"}
        /\ 0 \in Numbers
    BY CommandAssumption, <1>3 DEF BeginFrame, EndFrame, Numbers
  <2>2. DOMAIN used' = {}
    BY <2>1
  <2>3. CommandTypeOK'
    BY <1>1, <2>1, <2>2 DEF CommandTypeOK, CommandQueue!QueueTypeOK
  <2>4. Reading'
    BY <1>1, <2>1, <2>2, CommandFacts DEF Reading, FrameThresholdsRecent
  <2>5. QED
    BY <1>2, <2>3, <2>4 DEF CommandIInv
<1>4. ASSUME NEW f \in Names, ReadThreshold(f)
      PROVE  CommandTypeOK' /\ CommandIInv'
  <2>1. /\ used' = [g \in DOMAIN used \cup {f} |-> IF g = f THEN threshold[f] ELSE used[g]]
        /\ UNCHANGED <<transform, floor>>
    BY <1>4 DEF ReadThreshold
  <2>2. CommandTypeOK'
    BY <1>1, <2>1 DEF CommandTypeOK, CommandQueue!QueueTypeOK
  <2>3. PICK i \in DOMAIN Fields : f = Fields[i]
    BY DEF Names
  <2>4. threshold[f] = IF i < next THEN applying.n ELSE settled
    BY <2>3 DEF CommandIInv, Setting
  <2>5. /\ floor \in Int /\ floor <= settled
        /\ next > 1 => applying.kind = "thresholds"
        /\ settled <= applied
        /\ applying # NoCommand => applied < applying.n
    BY DEF CommandIInv, CommandChain, Setting, Reading,
       CommandTypeOK, Numbers
  <2>6. threshold[f] \in floor..Newest
    <3>1. CASE i < next
      <4>1. next > 1
        BY <2>3, <3>1, CommandFacts
      <4>2. applying.kind = "thresholds" /\ applied < applying.n
        BY <2>5, <4>1, CommandFacts
      <4>3. QED
        BY <2>4, <2>5, <3>1, <4>2, CommandFacts DEF Newest
    <3>2. CASE ~(i < next) /\ applying.kind = "thresholds"
      <4>1. applied < applying.n
        BY <2>5, <3>2, CommandFacts
      <4>2. QED
        BY <2>4, <2>5, <3>2, <4>1, CommandFacts DEF Newest
    <3>3. CASE ~(i < next) /\ applying.kind # "thresholds"
      BY <2>4, <2>5, <3>3, CommandFacts DEF Newest
    <3>4. QED
      BY <3>1, <3>2, <3>3
  <2>7. Reading'
    <3>1. Newest' = Newest
      BY <1>1 DEF Newest
    <3>2. \A g \in DOMAIN used : used[g] \in floor..Newest
      BY DEF CommandIInv, Reading, FrameThresholdsRecent
    <3>3. QED
      BY <1>1, <2>1, <2>5, <2>6, <3>1, <3>2
         DEF Reading, FrameThresholdsRecent
  <2>8. QED
    BY <1>2, <2>2, <2>7 DEF CommandIInv
<1>5. QED
  BY <1>3, <1>4

\* Every step keeps the invariant,
LEMMA CommandStep ==
  ASSUME CommandTypeOK, CommandIInv,
         [CommandNext]_(commandVars)
  PROVE  CommandTypeOK' /\ CommandIInv'
<1>1. CASE UNCHANGED commandVars
  BY <1>1 DEF commandVars, offerVars, applyVars, frameVars,
     CommandTypeOK, CommandQueue!QueueTypeOK, CommandIInv, CommandChain,
     InOrder, CommandOffering, CommandQueue!IInv,
     CommandQueue!RoomAfterDrop, CommandQueue!NeverRefused,
     NewestReceivedKept, Setting, Reading,
     FrameThresholdsRecent, Newest
<1>2. QED
  BY <1>1, SendKeeps, ReceiveKeeps, RefuseKeeps, OfferCommandKeeps, TakeKeeps, EnableKeeps,
     ThresholdKeeps, FrameKeeps DEF CommandNext

\* and takes no property back to an older command.
LEMMA CommandForward ==
  ASSUME CommandTypeOK, CommandIInv, [CommandNext]_(commandVars)
  PROVE  /\ applied' >= applied
         /\ \A f \in Names : threshold'[f] >= threshold[f]
<1>1. /\ applied \in Int /\ settled \in Int /\ applying.n \in Int
      /\ applying # NoCommand => applied < applying.n
      /\ settled <= applied
      /\ \A f \in Names : threshold[f] \in Int
      /\ threshold \in [Names -> Numbers]
  BY CommandFacts DEF CommandIInv, CommandChain, CommandTypeOK, Numbers
<1>2. CASE SetThreshold
  <2>1. /\ applying.kind = "thresholds" /\ applying # NoCommand
        /\ threshold' = [threshold EXCEPT ![Fields[next]] = applying.n]
        /\ applied' \in {applied, applying.n}
        /\ Fields[next] \in Names
    BY <1>2, CommandFacts DEF SetThreshold, Names
  <2>2. threshold[Fields[next]] = settled
    BY CommandFacts DEF CommandIInv, Setting
  <2>3. QED
    BY <1>1, <2>1, <2>2
<1>3. CASE SetDetectionEnabled
  BY <1>1, <1>3 DEF SetDetectionEnabled
<1>4. CASE UNCHANGED <<applied, threshold>>
  BY <1>1, <1>4
<1>5. QED
  BY <1>2, <1>3, <1>4
     DEF CommandNext, commandVars, applyVars, SendCommand,
         ReceiveCommand, RefuseCommand, OfferCommand,
         TakeCommand, BeginFrame, ReadThreshold,
         EndFrame

\* For any fields, queue, wire and number of commands, the types and the
\* invariant hold.
THEOREM CommandInvariance == CommandSpec => [](CommandTypeOK /\ CommandIInv)
<1>1. CommandInit => CommandTypeOK /\ CommandIInv
  BY CommandStartsEmpty
<1>2. CommandTypeOK /\ CommandIInv /\ [CommandNext]_(commandVars)
         => (CommandTypeOK /\ CommandIInv)'
  BY CommandStep
<1>3. QED
  BY <1>1, <1>2, PTL DEF CommandSpec

\* Commands take effect in the order the GUI sent them: no property returns
\* to the value of an older command.
THEOREM CommandsForward == CommandSpec => CommandsNeverGoBack
<1>1. CommandTypeOK /\ CommandIInv /\ [CommandNext]_(commandVars)
         => [/\ applied' >= applied
             /\ \A f \in Names : threshold'[f] >= threshold[f]]_(commandVars)
  BY CommandForward
<1>2. QED
  BY <1>1, CommandInvariance, PTL DEF CommandSpec, CommandsNeverGoBack

\* A frame judges its pixels by the thresholds of the last command applied
\* before it began, or of later ones, and of no two unless one was being
\* applied.
THEOREM ThresholdsRecent == CommandSpec => []FrameThresholdsRecent
<1>1. CommandIInv => FrameThresholdsRecent
  BY DEF CommandIInv, Reading
<1>2. QED
  BY <1>1, CommandInvariance, PTL

\* The newest command received is in the queue, taken, or applied, and its
\* offer has not been refused: the safety half of "latest wins".
THEOREM NewestCommandKept == CommandSpec => [](NewestReceivedKept /\ CommandsNeverRefused)
<1>1. CommandIInv => NewestReceivedKept /\ CommandsNeverRefused
  BY DEF CommandIInv, CommandOffering, CommandQueue!IInv,
     CommandsNeverRefused
<1>2. QED
  BY <1>1, CommandInvariance, PTL
=============================================================================
