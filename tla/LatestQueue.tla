----------------------------- MODULE LatestQueue -----------------------------
(***************************************************************************)
(* offer_latest (apps/bridge_project/queues.py) on a bounded queue.Queue.  *)
(*                                                                         *)
(* Each call of put_nowait and get_nowait takes the queue's own lock, but  *)
(* offer_latest is three such calls: between them a consumer may take an   *)
(* item and another producer may fill the room just made.                  *)
(***************************************************************************)
EXTENDS Naturals, Sequences

CONSTANTS
    Producers,  \* threads that call offer_latest on this queue
    Items,
    Capacity    \* maxsize, at least 1

VARIABLES
    q,          \* the queue, oldest first
    pc,         \* where each producer is in offer_latest
    held,       \* the item it offers, kept after it returned
    refused     \* history: some call returned False

queueVars == <<q, pc, held, refused>>

Points == {"idle", "full", "dropped"}

QueueTypeOK ==
    /\ q \in Seq(Items)
    /\ Len(q) <= Capacity
    /\ pc \in [Producers -> Points]
    /\ held \in [Producers -> Items]
    /\ refused \in BOOLEAN

QueueInit ==
    /\ q = <<>>
    /\ pc = [p \in Producers |-> "idle"]
    /\ held \in [Producers -> Items]
    /\ refused = FALSE

-----------------------------------------------------------------------------
\* The first put_nowait succeeds and the call returns True.
Put(p, x) ==
    /\ pc[p] = "idle"
    /\ Len(q) < Capacity
    /\ q' = Append(q, x)
    /\ held' = [held EXCEPT ![p] = x]
    /\ UNCHANGED <<pc, refused>>

\* The first put_nowait raises Full.
FindFull(p, x) ==
    /\ pc[p] = "idle"
    /\ Len(q) >= Capacity
    /\ pc' = [pc EXCEPT ![p] = "full"]
    /\ held' = [held EXCEPT ![p] = x]
    /\ UNCHANGED <<q, refused>>

\* Mutant: Full is answered by trying again without making room.
DropNothing(p) ==
    /\ pc[p] = "full"
    /\ pc' = [pc EXCEPT ![p] = "dropped"]
    /\ UNCHANGED <<q, held, refused>>

\* get_nowait removes the oldest item, or raises Empty if consumers have
\* emptied the queue meanwhile.
DropOldest(p) ==
    /\ pc[p] = "full"
    /\ q' = IF q = <<>> THEN q ELSE Tail(q)
    /\ pc' = [pc EXCEPT ![p] = "dropped"]
    /\ UNCHANGED <<held, refused>>

\* The second put_nowait succeeds and the call returns True.
PutAgain(p) ==
    /\ pc[p] = "dropped"
    /\ Len(q) < Capacity
    /\ q' = Append(q, held[p])
    /\ pc' = [pc EXCEPT ![p] = "idle"]
    /\ UNCHANGED <<held, refused>>

\* The second put_nowait raises Full and the call returns False.
GiveUp(p) ==
    /\ pc[p] = "dropped"
    /\ Len(q) >= Capacity
    /\ pc' = [pc EXCEPT ![p] = "idle"]
    /\ refused' = TRUE
    /\ UNCHANGED <<q, held>>

Offer(p, x) == Put(p, x) \/ FindFull(p, x)
Continue(p) == DropOldest(p) \/ PutAgain(p) \/ GiveUp(p)

\* A consumer's get or get_nowait finds an item: Head(q).
Take ==
    /\ q # <<>>
    /\ q' = Tail(q)
    /\ UNCHANGED <<pc, held, refused>>

-----------------------------------------------------------------------------
QueueNext == \/ \E p \in Producers : \/ \E x \in Items : Offer(p, x)
                                     \/ Continue(p)
             \/ Take

QueueSpec == QueueInit /\ [][QueueNext]_queueVars

-----------------------------------------------------------------------------
\* Having dropped an item, the only producer finds room: consumers only take.
RoomAfterDrop == \A p \in Producers : pc[p] = "dropped" => Len(q) < Capacity

\* offer_latest never returns False.  transport.py:100-101 provides for a
\* False; each queue of the bridge has one producer, and then there is none.
\* (BridgeTelemetry checks it, where there is one.)
NeverRefused == ~refused

\* The inductive invariant for one producer.
IInv == RoomAfterDrop /\ NeverRefused
=============================================================================
