------------------------------ MODULE PktQueue ------------------------------
(***************************************************************************)
(* The packet queue of pkt_Queue.c: a ring of MAX_QUEUE_LENGTH cells with  *)
(* front and rear indices, both -1 when it is empty.  Every operation      *)
(* holds the queue's mutex from its first access to its last, so each is   *)
(* one step.  A cell is Nothing when its is_null is set; delpkt clears the *)
(* rest of the cell with it.  An operator X_Fault is X with one plausible  *)
(* mistake, used by no action.                                             *)
(***************************************************************************)
EXTENDS Integers, Sequences

CONSTANTS
  N,        \* MAX_QUEUE_LENGTH
  Packet,   \* packets the callers pass
  Oversize, \* those longer than MESSAGE_LENGTH
  Nothing   \* a blank packet, is_null set

ASSUME NAssumption == N \in Nat \ {0}
ASSUME PacketAssumption == Oversize \subseteq Packet /\ Nothing \notin Packet

VARIABLES
  front, rear, Queue, is_free,
  ret        \* what the last call returned

ringVars == <<front, rear, Queue, is_free, ret>>

Index == 0..N-1

\* What a call returns.
pkt_Queue_SUCCESS == [code |-> "success"]
MESSAGE_OVERSIZE  == [code |-> "oversize"]
pkt_Queue_is_free == [code |-> "closed"]
pkt_Queue_FULL    == [code |-> "full"]
Codes == {pkt_Queue_SUCCESS, MESSAGE_OVERSIZE, pkt_Queue_is_free, pkt_Queue_FULL}

is_null == front = -1 /\ rear = -1
is_full == front = rear + 1 \/ (front = 0 /\ rear = N - 1)

queue_len ==
  IF is_null THEN 0
  ELSE IF front <= rear THEN rear - front + 1 ELSE N - front + rear + 1

\* init_Packet_Queue.
RingInit ==
  /\ front = -1 /\ rear = -1 /\ is_free = FALSE
  /\ Queue = [i \in Index |-> Nothing]
  /\ ret = Nothing

Refuse(code) == ret' = code /\ UNCHANGED <<front, rear, Queue, is_free>>

\* The cell addpkt fills.
NextRear == IF is_null \/ rear = N - 1 THEN 0 ELSE rear + 1

Store(p, cell) ==
  /\ front' = IF is_null THEN 0 ELSE front
  /\ rear' = cell
  /\ Queue' = [Queue EXCEPT ![cell] = p]
  /\ ret' = pkt_Queue_SUCCESS /\ UNCHANGED is_free

addpkt_FullUnchecked(p) == p \notin Oversize /\ ~is_free /\ Store(p, NextRear)
addpkt(p) ==
  \/ p \in Oversize /\ Refuse(MESSAGE_OVERSIZE)
  \/ p \notin Oversize /\ is_free /\ Refuse(pkt_Queue_is_free)
  \/ p \notin Oversize /\ ~is_free /\ is_full /\ Refuse(pkt_Queue_FULL)
  \/ p \notin Oversize /\ ~is_free /\ ~is_full /\ Store(p, NextRear)

\* delpkt on a queue that is not empty.
delpkt ==
  /\ Queue' = [Queue EXCEPT ![front] = Nothing]
  /\ front' = IF front = rear THEN -1 ELSE IF front = N - 1 THEN 0 ELSE front + 1
  /\ rear' = IF front = rear THEN -1 ELSE rear
  /\ UNCHANGED is_free

get_pkt ==
  \/ is_null /\ Refuse(Nothing)
  \/ ~is_null /\ ret' = Queue[front] /\ delpkt

\* Every packet is deleted in turn, then every cell reset.
Free_Packet_Queue ==
  /\ is_free' = TRUE /\ front' = -1 /\ rear' = -1
  /\ Queue' = [i \in Index |-> Nothing]
  /\ ret' = pkt_Queue_SUCCESS

RingNext == (\E p \in Packet : addpkt(p)) \/ get_pkt \/ Free_Packet_Queue

RingSpec == RingInit /\ [][RingNext]_ringVars

-----------------------------------------------------------------------------
\* The indices are -1 or in the ring, the cells hold packets.
RingTypeOK ==
  /\ front \in Index \cup {-1} /\ rear \in Index \cup {-1}
  /\ Queue \in [Index -> Packet \cup {Nothing}]
  /\ is_free \in BOOLEAN /\ ret \in Packet \cup {Nothing} \cup Codes

\* Cell i lies between front and rear, going round the end of the ring.
InUse(i) ==
  /\ ~is_null
  /\ IF front <= rear THEN front <= i /\ i <= rear ELSE front <= i \/ i <= rear

\* The indices are both -1 or both in the ring, the cells from front to rear
\* hold the packets and no other cell does, and a freed queue stays empty.  So
\* addpkt never overwrites a packet that waits and get_pkt never returns a
\* blank one for it, however the indices have wrapped.
RingInv ==
  /\ front = -1 <=> rear = -1
  /\ \A i \in Index : Queue[i] # Nothing <=> InUse(i)
  /\ is_free => is_null

\* The packets, oldest first.
At(i) == IF front + i - 1 < N THEN front + i - 1 ELSE front + i - 1 - N
Contents == [i \in 1..queue_len |-> Queue[At(i)]]

Fifo == INSTANCE BoundedFifo
          WITH q <- Contents, closed <- is_free, Refused <- Oversize, Capacity <- N

\* The ring is a bounded first-in first-out queue: nothing is lost, reordered
\* or delivered twice, addpkt refuses exactly when N packets wait.
IsBoundedFifo == Fifo!Spec
=============================================================================
