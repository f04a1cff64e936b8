----------------------------- MODULE LossyFifo -----------------------------
(***************************************************************************)
(* What a packet queue of the relay promises, whatever its implementation: *)
(* packets are offered in the order 1, 2, 3, ...; each is stored, refused, *)
(* or dropped later to make room; the consumer obtains stored packets in   *)
(* the order they were offered.  A packet is dropped only as the oldest    *)
(* one stored, and only once Capacity packets have been offered beyond     *)
(* those already dropped.                                                  *)
(***************************************************************************)
EXTENDS Integers, Sequences

CONSTANT Capacity           \* the maximum queue size of the options

VARIABLES offered,          \* packets whose offer is complete
          buffer,           \* the packets stored, oldest first
          delivered,        \* the packets the consumer obtained, in order
          dropped,          \* how many were stored and then thrown away
          refused           \* how many never got in

vars == <<offered, buffer, delivered, dropped, refused>>

Init ==
    /\ offered = 0
    /\ buffer = <<>>
    /\ delivered = <<>>
    /\ dropped = 0
    /\ refused = 0

(* The next packet enters at the back. *)
Accept ==
    /\ offered' = offered + 1
    /\ buffer' = Append(buffer, offered + 1)
    /\ UNCHANGED <<delivered, dropped, refused>>

(* The next packet is lost instead. *)
Refuse ==
    /\ offered' = offered + 1
    /\ refused' = refused + 1
    /\ UNCHANGED <<buffer, delivered, dropped>>

(* The oldest packet makes room for a newer one. *)
DropOldest ==
    /\ buffer # <<>>
    /\ dropped + Capacity <= offered
    /\ buffer' = Tail(buffer)
    /\ dropped' = dropped + 1
    /\ UNCHANGED <<offered, delivered, refused>>

Deliver ==
    /\ buffer # <<>>
    /\ delivered' = Append(delivered, Head(buffer))
    /\ buffer' = Tail(buffer)
    /\ UNCHANGED <<offered, dropped, refused>>

Next == Accept \/ Refuse \/ DropOldest \/ Deliver

(* The safety part of the promise, and the whole of it: a consumer that    *)
(* keeps polling eventually gets something while packets are stored.       *)
SafeSpec == Init /\ [][Next]_vars

Spec == SafeSpec /\ WF_vars(Deliver)

=============================================================================
