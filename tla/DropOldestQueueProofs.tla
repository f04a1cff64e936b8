------------------------ MODULE DropOldestQueueProofs ------------------------
(***************************************************************************)
(* What addPacketCallback and enqueue guarantee for every queue size, every*)
(* number of packets and both containers: the safety properties of         *)
(* DropOldestQueue are invariants, and it implements LossyFifo.            *)
(***************************************************************************)
EXTENDS DropOldestQueue, TLAPS

-----------------------------------------------------------------------------
(* The inductive invariant. *)

(* A claimed element is still stored, and only moodycamel claims. *)
ClaimInv == claimed => Optimistic /\ Len(queue) > 0

(* The producer leaves its loop with room in the queue, or because the pop *)
(* of the import queue failed, which an empty queue alone explains.        *)
RoomInv ==
    pc = "push" => \/ Len(queue) < MaxSize
                   \/ BreakOnFailedPop /\ Len(queue) <= NumClaimed

(* The counter is ahead of the evictions while a pop is due. *)
CountInv ==
    /\ evicted <= popCount
    /\ pc = "pop" => evicted < popCount

IInv ==
    /\ TypeOK
    /\ FifoOrder
    /\ Accounting
    /\ LossAfterFull
    /\ CountInv
    /\ ClaimInv
    /\ RoomInv
    /\ SizeBound
    /\ NewestAdmitted

-----------------------------------------------------------------------------
(* Lemmas on the two sequence steps a queue takes. *)

(* Taking the head off a sequence shifts the rest by one. *)
LEMMA TailIndex ==
    ASSUME NEW S, NEW s \in Seq(S), s # <<>>
    PROVE  /\ Tail(s) \in Seq(S)
           /\ Head(s) \in S
           /\ Head(s) = s[1]
           /\ Len(s) \in Nat \ {0}
           /\ Len(Tail(s)) = Len(s) - 1
           /\ \A i \in 1..Len(Tail(s)) : Tail(s)[i] = s[i + 1]
OBVIOUS

(* Appending leaves the old elements in place. *)
LEMMA AppendIndex ==
    ASSUME NEW S, NEW s \in Seq(S), NEW e \in S
    PROVE  /\ Append(s, e) \in Seq(S)
           /\ Len(Append(s, e)) = Len(s) + 1
           /\ Append(s, e)[Len(s) + 1] = e
           /\ \A i \in 1..Len(s) : Append(s, e)[i] = s[i]
OBVIOUS

(* The tail of an increasing sequence is increasing, and its head is the   *)
(* least element.                                                          *)
LEMMA TailIncreasing ==
    ASSUME NEW s \in Seq(Nat \ {0}), s # <<>>, Increasing(s)
    PROVE  /\ Increasing(Tail(s))
           /\ \A i \in 1..Len(Tail(s)) : Head(s) < Tail(s)[i]
<1>1. /\ Len(s) \in Nat \ {0}
      /\ Head(s) = s[1]
      /\ Len(Tail(s)) = Len(s) - 1
      /\ \A i \in 1..Len(Tail(s)) : Tail(s)[i] = s[i + 1]
  BY TailIndex
<1>2. Increasing(Tail(s))
  BY <1>1 DEF Increasing
<1>3. \A i \in 1..Len(Tail(s)) : Head(s) < Tail(s)[i]
  BY <1>1 DEF Increasing
<1> QED BY <1>2, <1>3

(* A sequence stays increasing when a greater element is appended. *)
LEMMA AppendIncreasing ==
    ASSUME NEW s \in Seq(Nat \ {0}), NEW e \in Nat \ {0}, Increasing(s),
           \A i \in 1..Len(s) : s[i] < e
    PROVE  Increasing(Append(s, e))
<1>1. /\ Len(Append(s, e)) = Len(s) + 1
      /\ Append(s, e)[Len(s) + 1] = e
      /\ \A i \in 1..Len(s) : Append(s, e)[i] = s[i]
      /\ Len(s) \in Nat
  BY AppendIndex
<1> QED BY <1>1 DEF Increasing

-----------------------------------------------------------------------------
(* The steps. *)

(* Every queue starts empty, with its producer idle. *)
LEMMA InitInv == Init => IInv
<1> SUFFICES ASSUME Init PROVE IInv
  OBVIOUS
<1>1. <<>> \in Seq(Nat \ {0})
  OBVIOUS
<1>2. TypeOK
  BY <1>1 DEF Init, TypeOK, Locations
<1>3. Len(queue) = 0 /\ Len(taken) = 0
  BY DEF Init
<1>4. FifoOrder
  BY <1>3 DEF FifoOrder, Increasing
<1>5. Accounting /\ LossAfterFull /\ CountInv /\ ClaimInv /\ RoomInv
  BY <1>3 DEF Init, Accounting, NumInHand, LossAfterFull, CountInv, ClaimInv,
              RoomInv
<1>6. SizeBound /\ NewestAdmitted
  BY <1>3, QueueAssumption DEF Init, SizeBound, NewestAdmitted, NumClaimed
<1> QED BY <1>2, <1>4, <1>5, <1>6 DEF IInv

(* The order survives whoever removes the oldest packet. *)
LEMMA PopKeepsOrder ==
    ASSUME TypeOK, FifoOrder, queue # <<>>, queue' = Tail(queue),
           taken' = taken \/ taken' = Append(taken, Head(queue)),
           pc' = pc \/ (pc # "idle" /\ pc' # "idle"), offered' = offered
    PROVE  FifoOrder'
<1>1. /\ Len(queue) \in Nat \ {0}
      /\ Head(queue) \in Nat \ {0}
      /\ Head(queue) = queue[1]
      /\ Len(queue') = Len(queue) - 1
      /\ \A j \in 1..Len(queue') : queue'[j] = queue[j + 1]
  BY TailIndex DEF TypeOK
<1>2. /\ Increasing(queue')
      /\ \A j \in 1..Len(queue') : Head(queue) < queue'[j]
  BY TailIncreasing DEF TypeOK, FifoOrder
<1>3. NumInHand' = NumInHand
  BY DEF NumInHand
<1>4. \A j \in 1..Len(queue') : queue'[j] + NumInHand' <= offered'
  BY <1>1, <1>3 DEF FifoOrder
<1>5. CASE taken' = taken
  <2>1. \A i \in 1..Len(taken'), j \in 1..Len(queue') : taken'[i] < queue'[j]
    BY <1>1, <1>5 DEF FifoOrder
  <2> QED BY <1>2, <1>3, <1>4, <1>5, <2>1 DEF FifoOrder
<1>6. CASE taken' = Append(taken, Head(queue))
  <2>1. /\ Len(taken) \in Nat
        /\ Len(taken') = Len(taken) + 1
        /\ taken'[Len(taken) + 1] = Head(queue)
        /\ \A i \in 1..Len(taken) : taken'[i] = taken[i]
    BY <1>1, <1>6, AppendIndex DEF TypeOK
  <2>2. \A i \in 1..Len(taken) : taken[i] < Head(queue)
    BY <1>1 DEF FifoOrder
  <2>3. Increasing(taken')
    BY <1>1, <1>6, <2>2, AppendIncreasing DEF TypeOK, FifoOrder
  <2>4. \A i \in 1..Len(taken'), j \in 1..Len(queue') : taken'[i] < queue'[j]
    <3> TAKE i \in 1..Len(taken'), j \in 1..Len(queue')
    <3>1. CASE i = Len(taken) + 1
      BY <1>2, <2>1, <3>1
    <3>2. CASE i # Len(taken) + 1
      <4>1. i \in 1..Len(taken) /\ j + 1 \in 1..Len(queue)
        BY <1>1, <2>1, <3>2
      <4> QED BY <1>1, <2>1, <4>1 DEF FifoOrder
    <3> QED BY <3>1, <3>2
  <2>5. \A i \in 1..Len(taken') : taken'[i] + NumInHand' <= offered'
    <3> TAKE i \in 1..Len(taken')
    <3>1. CASE i = Len(taken) + 1
      BY <1>1, <1>3, <2>1, <3>1 DEF FifoOrder
    <3>2. CASE i # Len(taken) + 1
      BY <1>3, <2>1, <3>2 DEF FifoOrder
    <3> QED BY <3>1, <3>2
  <2> QED BY <1>2, <1>4, <2>3, <2>4, <2>5 DEF FifoOrder
<1> QED BY <1>5, <1>6

(* Steps that leave the queue and what was taken alone keep the order. *)
LEMMA IdleKeepsOrder ==
    ASSUME TypeOK, FifoOrder, queue' = queue, taken' = taken, offered' \in Nat,
           offered - NumInHand <= offered' - NumInHand'
    PROVE  FifoOrder'
<1>1. NumInHand \in {0, 1} /\ NumInHand' \in {0, 1}
  BY DEF NumInHand
<1>2. \A m \in Nat : m + NumInHand <= offered => m + NumInHand' <= offered'
  <2>1. \A m, n, np, o, op \in Int :
          o - n <= op - np /\ m + n <= o => m + np <= op
    OBVIOUS
  <2>2. offered \in Int /\ offered' \in Int /\ NumInHand \in Int /\ NumInHand' \in Int
    BY <1>1 DEF TypeOK
  <2>3. offered - NumInHand <= offered' - NumInHand'
    OBVIOUS
  <2> SUFFICES ASSUME NEW m \in Nat, m + NumInHand <= offered
               PROVE  m + NumInHand' <= offered'
    OBVIOUS
  <2>4. m \in Int
    OBVIOUS
  <2> QED BY <2>1, <2>2, <2>3, <2>4
<1>3. /\ \A i \in 1..Len(taken) : taken[i] \in Nat
      /\ \A j \in 1..Len(queue) : queue[j] \in Nat
  BY DEF TypeOK
<1>4. Increasing(taken') /\ Increasing(queue')
  BY DEF FifoOrder
<1> QED BY <1>2, <1>3, <1>4 DEF FifoOrder

(* Every step of the producer and of the consumer keeps the invariant. *)
LEMMA StepInv == IInv /\ [Next]_vars => IInv'
<1> SUFFICES ASSUME IInv, [Next]_vars PROVE IInv'
  OBVIOUS
<1> USE QueueAssumption
<1> USE DEF IInv
<1>0. Len(queue) \in Nat /\ Len(taken) \in Nat
  BY DEF TypeOK
<1>1. CASE Arrive
  <2>1. TypeOK' /\ FifoOrder'
    BY <1>1, IdleKeepsOrder DEF Arrive, TypeOK, Locations, NumInHand
  <2> QED BY <1>0, <1>1, <2>1
       DEF Arrive, TypeOK, Accounting, NumInHand, LossAfterFull, CountInv,
           ClaimInv, RoomInv, SizeBound, NumClaimed, NewestAdmitted
<1>2. CASE CheckSize
  <2>1. TypeOK' /\ FifoOrder'
    BY <1>2, IdleKeepsOrder DEF CheckSize, Goto, TypeOK, Locations, NumInHand
  <2> QED BY <1>0, <1>2, <2>1
       DEF CheckSize, Goto, Size, TypeOK, Accounting, NumInHand, LossAfterFull,
           CountInv, ClaimInv, RoomInv, SizeBound, NumClaimed, NewestAdmitted
<1>3. CASE TestLoop
  <2>1. TypeOK' /\ FifoOrder'
    BY <1>3, IdleKeepsOrder DEF TestLoop, CountPop, Goto, TypeOK, Locations, NumInHand
  <2>2. CASE Size >= MaxSize
    <3>1. CountPop
      BY <1>3, <2>2 DEF TestLoop
    <3> QED BY <1>0, <1>3, <2>1, <2>2, <3>1
         DEF TestLoop, CountPop, Size, TypeOK, Accounting, NumInHand,
             LossAfterFull, CountInv, ClaimInv, RoomInv, SizeBound, NumClaimed,
             NewestAdmitted
  <2>3. CASE ~(Size >= MaxSize)
    <3>1. Goto("push")
      BY <1>3, <2>3 DEF TestLoop
    <3> QED BY <1>0, <1>3, <2>1, <2>3, <3>1
         DEF TestLoop, Goto, Size, TypeOK, Accounting, NumInHand,
             LossAfterFull, CountInv, ClaimInv, RoomInv, SizeBound, NumClaimed,
             NewestAdmitted
  <2> QED BY <2>2, <2>3
<1>4. CASE PopOldest
  <2>1. queue # <<>>
    BY <1>0, <1>4 DEF PopOldest, Evict, CanPop, NumClaimed
  <2>2. Tail(queue) \in Seq(Nat \ {0}) /\ Len(Tail(queue)) = Len(queue) - 1
    BY <2>1, TailIndex DEF TypeOK
  <2>3. FifoOrder'
    BY <1>4, <2>1, PopKeepsOrder DEF PopOldest, Evict
  <2>4. TypeOK'
    BY <1>4, <2>2 DEF PopOldest, Evict, TypeOK, Locations
  <2> QED BY <1>0, <1>4, <2>2, <2>3, <2>4
       DEF PopOldest, Evict, CanPop, TypeOK, Accounting, NumInHand, LossAfterFull,
           CountInv, ClaimInv, RoomInv, SizeBound, NumClaimed, NewestAdmitted
<1>5. CASE PopFails
  <2>1. TypeOK' /\ FifoOrder'
    BY <1>5, IdleKeepsOrder DEF PopFails, Goto, TypeOK, Locations, NumInHand
  <2> QED BY <1>0, <1>5, <2>1
       DEF PopFails, Goto, CanPop, TypeOK, Accounting, NumInHand, LossAfterFull,
           CountInv, ClaimInv, RoomInv, SizeBound, NumClaimed, NewestAdmitted
<1>6. CASE EnqueueAccepts
  <2>1. offered \in Nat \ {0} /\ NumInHand = 1 /\ NumInHand' = 0
    BY <1>0, <1>6 DEF EnqueueAccepts, Store, NumInHand, TypeOK, Accounting
  <2>2. /\ queue' \in Seq(Nat \ {0})
        /\ Len(queue') = Len(queue) + 1
        /\ queue'[Len(queue) + 1] = offered
        /\ \A j \in 1..Len(queue) : queue'[j] = queue[j]
    BY <1>6, <2>1, AppendIndex DEF EnqueueAccepts, Store, TypeOK
  <2>3. \A j \in 1..Len(queue) : queue[j] \in Nat /\ queue[j] < offered
    BY <2>1 DEF FifoOrder, TypeOK
  <2>4. Increasing(queue')
    BY <1>6, <2>1, <2>3, AppendIncreasing DEF EnqueueAccepts, Store, TypeOK, FifoOrder
  <2>5. taken' = taken /\ offered' = offered
    BY <1>6 DEF EnqueueAccepts, Store
  <2>6. \A i \in 1..Len(taken) : taken[i] \in Nat /\ taken[i] < offered
    BY <2>1 DEF FifoOrder, TypeOK
  <2>7. \A i \in 1..Len(taken'), j \in 1..Len(queue') : taken'[i] < queue'[j]
    <3> TAKE i \in 1..Len(taken'), j \in 1..Len(queue')
    <3>1. CASE j = Len(queue) + 1
      BY <2>2, <2>5, <2>6, <3>1
    <3>2. CASE j # Len(queue) + 1
      BY <1>0, <2>2, <2>5, <3>2 DEF FifoOrder
    <3> QED BY <3>1, <3>2
  <2>8. \A j \in 1..Len(queue') : queue'[j] + NumInHand' <= offered'
    <3> TAKE j \in 1..Len(queue')
    <3>1. CASE j = Len(queue) + 1
      BY <2>1, <2>2, <2>5, <3>1
    <3>2. CASE j # Len(queue) + 1
      BY <1>0, <2>1, <2>2, <2>3, <2>5, <3>2
    <3> QED BY <3>1, <3>2
  <2>9. FifoOrder'
    BY <2>1, <2>4, <2>5, <2>6, <2>7, <2>8 DEF FifoOrder
  <2>10. TypeOK'
    BY <1>6, <2>2 DEF EnqueueAccepts, Store, TypeOK, Locations
  <2> QED BY <1>0, <1>6, <2>2, <2>9, <2>10
       DEF EnqueueAccepts, Store, TypeOK, Accounting, NumInHand, LossAfterFull,
           CountInv, ClaimInv, RoomInv, SizeBound, NumClaimed, NewestAdmitted
<1>7. CASE EnqueueRefuses
  <2>1. TypeOK' /\ FifoOrder'
    BY <1>7, IdleKeepsOrder DEF EnqueueRefuses, TypeOK, Locations, NumInHand
  <2>2. Optimistic
    BY <1>0, <1>7 DEF EnqueueRefuses, MayRefuse, RoomInv, ClaimInv, NumClaimed
  <2> QED BY <1>0, <1>7, <2>1, <2>2
       DEF EnqueueRefuses, TypeOK, Accounting, NumInHand, LossAfterFull,
           CountInv, ClaimInv, RoomInv, SizeBound, NumClaimed, NewestAdmitted
<1>8. CASE Claim
  <2>1. TypeOK' /\ FifoOrder'
    BY <1>8, IdleKeepsOrder DEF Claim, producerVars, TypeOK, NumInHand
  <2>2. Len(queue) > 0
    BY <1>0, <1>8 DEF Claim, TypeOK
  <2> QED BY <1>0, <1>8, <2>1, <2>2
       DEF Claim, producerVars, TypeOK, Accounting, NumInHand, LossAfterFull,
           CountInv, ClaimInv, RoomInv, SizeBound, NumClaimed, NewestAdmitted
<1>9. CASE Take
  <2>1. /\ Tail(queue) \in Seq(Nat \ {0})
        /\ Len(Tail(queue)) = Len(queue) - 1
        /\ Head(queue) \in Nat \ {0}
    BY <1>9, TailIndex DEF Take, Obtain, TypeOK
  <2>2. /\ Append(taken, Head(queue)) \in Seq(Nat \ {0})
        /\ Len(Append(taken, Head(queue))) = Len(taken) + 1
    BY <2>1, AppendIndex DEF TypeOK
  <2>3. FifoOrder'
    BY <1>9, PopKeepsOrder DEF Take, Obtain, producerVars
  <2>4. TypeOK'
    BY <1>9, <2>1, <2>2 DEF Take, Obtain, producerVars, TypeOK, Locations
  <2> QED BY <1>0, <1>9, <2>1, <2>2, <2>3, <2>4
       DEF Take, Obtain, producerVars, TypeOK, Accounting, NumInHand, LossAfterFull,
           CountInv, ClaimInv, RoomInv, SizeBound, NumClaimed, NewestAdmitted
<1>10. CASE UNCHANGED vars
  <2>1. TypeOK' /\ FifoOrder'
    BY <1>10, IdleKeepsOrder DEF vars, TypeOK, NumInHand
  <2> QED BY <1>10, <2>1
       DEF vars, Accounting, NumInHand, LossAfterFull, CountInv, ClaimInv,
           RoomInv, SizeBound, NumClaimed, NewestAdmitted
<1> QED BY <1>1, <1>2, <1>3, <1>4, <1>5, <1>6, <1>7, <1>8, <1>9, <1>10
     DEF Next, Producer, Consumer

-----------------------------------------------------------------------------
(* The theorems. *)

(* The inductive invariant holds of both queues, for every queue size. *)
THEOREM Invariance == SafeSpec => []IInv
<1> QED BY InitInv, StepInv, PTL DEF SafeSpec

(* The variables keep their types: no moved-from packet is ever queued. *)
THEOREM TypeCorrect == SafeSpec => []TypeOK
<1>1. IInv => TypeOK
  BY DEF IInv
<1> QED BY Invariance, <1>1, PTL

(* The consumer obtains packets in the order they were offered. *)
THEOREM OrderKept == SafeSpec => []FifoOrder
<1>1. IInv => FifoOrder
  BY DEF IInv
<1> QED BY Invariance, <1>1, PTL

(* No packet vanishes, and none is lost twice. *)
THEOREM PacketsAccounted == SafeSpec => []Accounting
<1>1. IInv => Accounting
  BY DEF IInv
<1> QED BY Invariance, <1>1, PTL

(* Nothing is evicted before the queue has been full. *)
THEOREM NoEarlyLoss == SafeSpec => []LossAfterFull
<1>1. IInv => LossAfterFull
  BY DEF IInv
<1> QED BY Invariance, <1>1, PTL

(* The exported counters never under-report the loss. *)
THEOREM LossIsReported == SafeSpec => []LossReported
<1>1. IInv => LossReported
  BY DEF IInv, TypeOK, Accounting, CountInv, LossReported, NumInHand
<1> QED BY Invariance, <1>1, PTL

(* The configured maximum bounds the queue. *)
THEOREM SizeBounded == SafeSpec => []SizeBound
<1>1. IInv => SizeBound
  BY DEF IInv
<1> QED BY Invariance, <1>1, PTL

(* With the TBB container the newest packet always gets in. *)
THEOREM NewestGetsIn == SafeSpec => []NewestAdmitted
<1>1. IInv => NewestAdmitted
  BY DEF IInv
<1> QED BY Invariance, <1>1, PTL

-----------------------------------------------------------------------------
(* Refinement. *)

(* Every step of the threads is a step of the lossy FIFO, or none. *)
LEMMA StepRefines ==
    ASSUME IInv, [Next]_vars
    PROVE  [Abstract!Next]_(Abstract!vars)
<1> USE QueueAssumption
<1> USE DEF IInv
<1>0. Len(queue) \in Nat /\ offered \in Nat /\ evicted \in Nat
  BY DEF TypeOK
<1>1. CASE Arrive \/ CheckSize \/ TestLoop \/ PopFails \/ Claim \/ UNCHANGED vars
  <2>1. /\ offered' - NumInHand' = offered - NumInHand
        /\ UNCHANGED <<queue, taken, evicted, failCount>>
    BY <1>0, <1>1
       DEF Arrive, CheckSize, TestLoop, CountPop, Goto, PopFails, Claim, vars,
           producerVars, NumInHand
  <2> QED BY <2>1 DEF Abstract!vars
<1>2. CASE PopOldest
  <2>1. queue # <<>>
    BY <1>0, <1>2 DEF PopOldest, Evict, CanPop, NumClaimed
  <2>2. NumInHand' = NumInHand /\ NumInHand = 1
    BY <1>2 DEF PopOldest, Evict, NumInHand
  <2>3. evicted + MaxSize <= offered - NumInHand
    BY <1>0, <1>2, <2>2 DEF PopOldest, Evict, LossAfterFull
  <2>4. Abstract!DropOldest
    BY <1>2, <2>1, <2>2, <2>3 DEF PopOldest, Evict, Abstract!DropOldest
  <2> QED BY <2>4 DEF Abstract!Next
<1>3. CASE EnqueueAccepts
  <2>1. NumInHand' = 0 /\ NumInHand = 1 /\ offered' = offered
    BY <1>3 DEF EnqueueAccepts, Store, NumInHand
  <2>2. Abstract!Accept
    BY <1>0, <1>3, <2>1 DEF EnqueueAccepts, Store, Abstract!Accept
  <2> QED BY <2>2 DEF Abstract!Next
<1>4. CASE EnqueueRefuses
  <2>1. NumInHand' = 0 /\ NumInHand = 1 /\ offered' = offered
    BY <1>4 DEF EnqueueRefuses, NumInHand
  <2>2. Abstract!Refuse
    BY <1>0, <1>4, <2>1 DEF EnqueueRefuses, Abstract!Refuse
  <2> QED BY <2>2 DEF Abstract!Next
<1>5. CASE Take
  <2>1. NumInHand' = NumInHand /\ offered' = offered
    BY <1>5 DEF Take, Obtain, producerVars, NumInHand
  <2>2. Abstract!Deliver
    BY <1>5, <2>1 DEF Take, Obtain, producerVars, Abstract!Deliver
  <2> QED BY <2>2 DEF Abstract!Next
<1> QED BY <1>1, <1>2, <1>3, <1>4, <1>5 DEF Next, Producer, Consumer

(* addPacketCallback and enqueue implement the abstract lossy FIFO. *)
THEOREM Refinement == SafeSpec => ImplementsLossyFifoSafely
<1>1. Init => Abstract!Init
  BY DEF Init, NumInHand, Abstract!Init
<1>2. IInv /\ [Next]_vars => [Abstract!Next]_(Abstract!vars)
  BY StepRefines
<1> QED BY Invariance, <1>1, <1>2, PTL
     DEF SafeSpec, ImplementsLossyFifoSafely, Abstract!SafeSpec

=============================================================================
