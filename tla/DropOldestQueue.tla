--------------------------- MODULE DropOldestQueue ---------------------------
(***************************************************************************)
(* The two bounded packet queues of the relay, one thread step at a time.  *)
(*                                                                         *)
(*   import queue  Process::addPacketCallback, run by the SEEDLink thread, *)
(*                 drained by Process::tabulateMetrics                     *)
(*   export queue  DataLinkClientImpl::enqueue, run by the metrics thread, *)
(*                 drained by DataLinkClientImpl::runWriter                *)
(*                                                                         *)
(* Both are the same algorithm: read the size, pop old packets while the   *)
(* queue is full, then try to enqueue.  Nothing holds a lock, so the       *)
(* consumer runs between any two of those steps.  They differ in what a    *)
(* failed pop does: the import queue leaves the loop, the export queue     *)
(* reads the size again (BreakOnFailedPop).                                *)
(*                                                                         *)
(* The container is external.  Optimistic = TRUE is the default build, the *)
(* moodycamel queue: a dequeue first claims an element, then takes it, the *)
(* size still counts a claimed element, and try_enqueue never allocates,   *)
(* so it may refuse while its blocks hold elements or elements still being *)
(* moved out.  Optimistic = FALSE is the USE_TBB build: a pop is atomic    *)
(* and try_push refuses at the capacity.                                   *)
(***************************************************************************)
EXTENDS Integers, Sequences

CONSTANTS MaxSize,           \* mImportQueueMaximumSize, mMaximumInternalQueueSize
          BreakOnFailedPop,  \* TRUE: import queue, FALSE: export queue
          Optimistic,        \* TRUE: moodycamel, FALSE: TBB
          MaxPackets,        \* bound: packets the producer is handed
          MaxFailedPops      \* bound: failed pops of the export queue

ASSUME QueueAssumption ==
    /\ MaxSize \in Nat \ {0}
    /\ BreakOnFailedPop \in BOOLEAN
    /\ Optimistic \in BOOLEAN
    /\ MaxPackets \in Nat
    /\ MaxFailedPops \in Nat \ {0}

VARIABLES offered,     \* packets 1..offered were handed to the producer
          pc,          \* where the producer is
          queue,       \* the packets in the container, oldest first
          claimed,     \* the consumer has claimed an element and not taken it
          taken,       \* history: the packets the consumer took, in order
          evicted,     \* history: how many pops of the producer succeeded
          popCount,    \* the counter incremented before each pop
          failCount    \* the counter incremented when try_enqueue fails

vars == <<offered, pc, queue, claimed, taken, evicted, popCount, failCount>>

producerVars == <<offered, pc, evicted, popCount, failCount>>

Init ==
    /\ offered = 0
    /\ pc = "idle"
    /\ queue = <<>>
    /\ claimed = FALSE
    /\ taken = <<>>
    /\ evicted = 0
    /\ popCount = 0
    /\ failCount = 0

-----------------------------------------------------------------------------
(* The container. *)

NumClaimed == IF claimed THEN 1 ELSE 0

(* size_approx: an element leaves it when taken, not when claimed. *)
Size == Len(queue)

CanPop == Len(queue) > NumClaimed

MayAccept == Optimistic \/ Len(queue) < MaxSize

MayRefuse == Optimistic \/ Len(queue) >= MaxSize

-----------------------------------------------------------------------------
(* The producer: addPacketCallback or enqueue. *)

(* A new packet is handed to the producer. *)
Arrive ==
    /\ pc = "idle"
    /\ offered < MaxPackets
    /\ offered' = offered + 1
    /\ pc' = "check"
    /\ UNCHANGED <<queue, claimed, taken, evicted, popCount, failCount>>

Goto(place) ==
    /\ pc' = place
    /\ UNCHANGED <<offered, queue, claimed, taken, evicted, popCount, failCount>>

(* Mutant: the limit is off by one. *)
CheckSizeAbove == pc = "check" /\ Goto(IF Size > MaxSize THEN "loop" ELSE "push")

(* The first look at the size: a queue with room skips the loop. *)
CheckSize == pc = "check" /\ Goto(IF Size >= MaxSize THEN "loop" ELSE "push")

(* A full queue is counted as a loss before the pop. *)
CountPop ==
    /\ popCount' = popCount + 1
    /\ pc' = "pop"
    /\ UNCHANGED <<offered, queue, claimed, taken, evicted, failCount>>

(* Mutant: the loop makes room for two. *)
TestLoopOneBelow ==
    /\ pc = "loop"
    /\ IF Size >= MaxSize - 1 /\ Size > 0 THEN CountPop ELSE Goto("push")

(* Mutant: evictions are not counted. *)
TestLoopUncounted == pc = "loop" /\ Goto(IF Size >= MaxSize THEN "pop" ELSE "push")

(* The loop reads the size again.  Bound: a producer that spins on a       *)
(* claimed element is stopped after MaxFailedPops spins until the consumer *)
(* has taken it.                                                           *)
TestLoop ==
    /\ pc = "loop"
    /\ IF Size >= MaxSize
       THEN /\ popCount - evicted < MaxFailedPops \/ CanPop \/ BreakOnFailedPop
            /\ CountPop
       ELSE Goto("push")

Evict(rest) ==
    /\ pc = "pop"
    /\ CanPop
    /\ queue' = rest
    /\ evicted' = evicted + 1
    /\ pc' = "loop"
    /\ UNCHANGED <<offered, claimed, taken, popCount, failCount>>

(* Mutant: the newest packet is thrown away. *)
PopNewest == Evict(SubSeq(queue, 1, Len(queue) - 1))

(* The pop throws away the oldest packet, even when the consumer has made  *)
(* room since the size was read.                                           *)
PopOldest == Evict(Tail(queue))

(* Mutant: a failed pop is retried without reading the size again. *)
PopFailsRetried == pc = "pop" /\ ~CanPop /\ Goto("pop")

(* The consumer was faster: nothing is left to pop. *)
PopFails ==
    pc = "pop" /\ ~CanPop /\ Goto(IF BreakOnFailedPop THEN "push" ELSE "loop")

Store(packet) ==
    /\ pc = "push"
    /\ MayAccept
    /\ queue' = Append(queue, packet)
    /\ pc' = "idle"
    /\ UNCHANGED <<offered, claimed, taken, evicted, popCount, failCount>>

(* Mutant: what enters is the packet after it was moved from. *)
EnqueueMovedFrom == Store(0)

(* try_enqueue: the packet enters at the back ... *)
EnqueueAccepts == Store(offered)

(* Mutant: the failure is not counted. *)
EnqueueRefusesSilently == pc = "push" /\ MayRefuse /\ Goto("idle")

(* ... or is lost, and counted. *)
EnqueueRefuses ==
    /\ pc = "push"
    /\ MayRefuse
    /\ failCount' = failCount + 1
    /\ pc' = "idle"
    /\ UNCHANGED <<offered, queue, claimed, taken, evicted, popCount>>

Producer ==
    CheckSize \/ TestLoop \/ PopOldest \/ PopFails \/ EnqueueAccepts \/ EnqueueRefuses

-----------------------------------------------------------------------------
(* The consumer: try_dequeue of the polling thread.  A poll of an empty    *)
(* queue only sleeps, and is a stuttering step.                            *)

Claim ==
    /\ Optimistic
    /\ ~claimed
    /\ queue # <<>>
    /\ claimed' = TRUE
    /\ UNCHANGED <<queue, taken, producerVars>>

Obtain(packet, rest) ==
    /\ queue # <<>>
    /\ Optimistic => claimed
    /\ claimed' = FALSE
    /\ taken' = Append(taken, packet)
    /\ queue' = rest
    /\ UNCHANGED producerVars

(* Mutant: last in, first out. *)
TakeNewest == Obtain(queue[Len(queue)], SubSeq(queue, 1, Len(queue) - 1))

(* The element leaves the container and is handed to the polling thread. *)
Take == Obtain(Head(queue), Tail(queue))

Consumer == Claim \/ Take

Next == Arrive \/ Producer \/ Consumer

SafeSpec == Init /\ [][Next]_vars

(* A try_dequeue that has claimed an element takes it. *)
FinishTake == claimed /\ Take

(* The producer runs and a started dequeue ends.  The consumer need not    *)
(* poll: a writer may be waiting to reconnect, or be gone.  Nothing        *)
(* obliges SEEDLink to send another packet.                                *)
Spec == SafeSpec /\ WF_vars(Producer) /\ WF_vars(FinishTake)

(* The consumer also keeps polling, as tabulateMetrics does.               *)
PollingSpec == Spec /\ WF_vars(Consumer)

-----------------------------------------------------------------------------
(* Properties. *)

Locations == {"idle", "check", "loop", "pop", "push"}

(* The types of the variables.  Packet 0 would be a packet that was moved  *)
(* from: neither queue ever hands one to the consumer.                     *)
TypeOK ==
    /\ offered \in Nat
    /\ pc \in Locations
    /\ queue \in Seq(Nat \ {0})
    /\ claimed \in BOOLEAN
    /\ taken \in Seq(Nat \ {0})
    /\ evicted \in Nat
    /\ popCount \in Nat
    /\ failCount \in Nat

NumInHand == IF pc = "idle" THEN 0 ELSE 1

Increasing(s) == \A i, j \in 1..Len(s) : i < j => s[i] < s[j]

(* Packets leave in the order they came, whoever removes them: what the    *)
(* consumer took is in order, what is stored is in order and newer, and    *)
(* the packet in the producer's hand is newer still.  The evictions of     *)
(* addPacketCallback and enqueue race the consumer's try_dequeue.          *)
FifoOrder ==
    /\ Increasing(taken)
    /\ Increasing(queue)
    /\ \A i \in 1..Len(taken), j \in 1..Len(queue) : taken[i] < queue[j]
    /\ \A i \in 1..Len(taken) : taken[i] + NumInHand <= offered
    /\ \A j \in 1..Len(queue) : queue[j] + NumInHand <= offered

(* Every packet handed to the producer is in exactly one place: taken,     *)
(* stored, evicted, counted as failed to enqueue, or still in hand.        *)
Accounting ==
    offered = Len(taken) + Len(queue) + evicted + failCount + NumInHand

(* A packet is evicted only when the queue really was full: the k-th       *)
(* eviction comes after MaxSize + k packets at least.  The size is checked *)
(* without a lock, so the queue may no longer be full at the pop itself.   *)
LossAfterFull ==
    /\ evicted > 0 => evicted + MaxSize <= offered
    /\ pc = "pop" => evicted + MaxSize + 1 <= offered

(* The two loss counters the program exports never under-report: they add  *)
(* up to at least the packets that are neither taken, stored nor in hand.  *)
(* (They may over-report: the counter is incremented before the pop, and   *)
(* the pop fails when the consumer was faster.)                            *)
LossReported ==
    offered - Len(taken) - Len(queue) - NumInHand <= popCount + failCount

(* The queue never holds more than its maximum; only an import queue of    *)
(* one packet may exceed it, by a packet the consumer has claimed.         *)
SizeBound ==
    Len(queue) <= MaxSize + (IF BreakOnFailedPop /\ MaxSize = 1
                             THEN NumClaimed ELSE 0)

(* "After this point, the oldest packets are popped from the queue"        *)
(* (dataLinkClientOptions.hpp): with a container that refuses only at its  *)
(* capacity (TBB), the newest packet always gets in.                       *)
NewestAdmitted == ~Optimistic => failCount = 0

(* An offer ends, even if the consumer stops polling for good: the loop of *)
(* enqueue, which ignores a failed pop, does not spin for ever.            *)
OfferEnds == pc # "idle" ~> pc = "idle"

(* The queue implements the abstract one; an offer takes effect when the   *)
(* producer is done with it.                                               *)
Abstract == INSTANCE LossyFifo
    WITH Capacity <- MaxSize,
         offered <- offered - NumInHand,
         buffer <- queue,
         delivered <- taken,
         dropped <- evicted,
         refused <- failCount

(* As a lossy FIFO, under a consumer that keeps polling.                   *)
ImplementsLossyFifo == Abstract!Spec

(* The safety part of the same, whatever the consumer does.                *)
ImplementsLossyFifoSafely == Abstract!SafeSpec

=============================================================================
