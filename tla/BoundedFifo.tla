---------------------------- MODULE BoundedFifo ----------------------------
(***************************************************************************)
(* What a packet queue promises: first in, first out, at most Capacity     *)
(* packets, every call answered; once closed it is empty and takes nothing *)
(* more.                                                                   *)
(***************************************************************************)
EXTENDS Integers, Sequences

CONSTANTS Packet, Refused, Capacity, Nothing

VARIABLES q, closed, ret

vars == <<q, closed, ret>>

\* What a call returns.
pkt_Queue_SUCCESS == [code |-> "success"]
MESSAGE_OVERSIZE  == [code |-> "oversize"]
pkt_Queue_is_free == [code |-> "closed"]
pkt_Queue_FULL    == [code |-> "full"]

Init == q = << >> /\ closed = FALSE /\ ret = Nothing

Put(p) ==
  \/ p \in Refused /\ ret' = MESSAGE_OVERSIZE /\ UNCHANGED <<q, closed>>
  \/ p \notin Refused /\ closed /\ ret' = pkt_Queue_is_free /\ UNCHANGED <<q, closed>>
  \/ /\ p \notin Refused /\ ~closed /\ Len(q) = Capacity
     /\ ret' = pkt_Queue_FULL /\ UNCHANGED <<q, closed>>
  \/ /\ p \notin Refused /\ ~closed /\ Len(q) < Capacity
     /\ q' = Append(q, p) /\ ret' = pkt_Queue_SUCCESS /\ UNCHANGED closed

Get ==
  \/ q = << >> /\ ret' = Nothing /\ UNCHANGED <<q, closed>>
  \/ q # << >> /\ ret' = Head(q) /\ q' = Tail(q) /\ UNCHANGED closed

Close == q' = << >> /\ closed' = TRUE /\ ret' = pkt_Queue_SUCCESS

Next == (\E p \in Packet : Put(p)) \/ Get \/ Close

Spec == Init /\ [][Next]_vars
=============================================================================
