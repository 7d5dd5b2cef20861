--------------------------- MODULE ReportingProofs ---------------------------
(***************************************************************************)
(* The packet queue is a bounded first-in first-out queue, for every       *)
(* length N and every set of packets, also as the reporting pipeline uses  *)
(* it; the message the pipeline writes fits its buffer; and no object is   *)
(* lost between two stages of the pipeline or overtakes another.           *)
(***************************************************************************)
EXTENDS Reporting, FiniteSetTheorems, TLAPS

-----------------------------------------------------------------------------
(* The ring.                                                               *)

RingIInv == RingTypeOK /\ RingInv

\* With the indices in the ring, the next free cell is in the ring and is not in use.
LEMMA NextRearFree ==
  ASSUME RingIInv, ~is_full
  PROVE  NextRear \in Index /\ ~InUse(NextRear)
  BY NAssumption DEF RingIInv, RingTypeOK, RingInv, InUse, NextRear, Index, is_null, is_full

LEMMA RingInitIInv == RingInit => RingIInv
  BY NAssumption DEF RingInit, RingIInv, RingTypeOK, RingInv, InUse, Index, is_null

LEMMA AddKeeps ==
  ASSUME RingIInv, NEW p \in Packet, addpkt(p)
  PROVE  RingIInv'
<1>1. CASE \E c \in Codes : Refuse(c)
  BY <1>1 DEF RingIInv, RingTypeOK, RingInv, InUse, is_null, Refuse, Codes
<1>2. CASE ~is_free /\ ~is_full /\ Store(p, NextRear)
  <2>1. NextRear \in Index /\ ~InUse(NextRear)
    BY <1>2, NextRearFree
  <2>2. RingTypeOK'
    BY <1>2, <2>1, NAssumption DEF RingIInv, RingTypeOK, Store, Index, Codes, is_null
  <2>3. \A i \in Index : InUse(i)' <=> (InUse(i) \/ i = NextRear)
    BY <1>2, <2>1, NAssumption
    DEF RingIInv, RingTypeOK, RingInv, Store, InUse, NextRear, Index, is_null, is_full
  <2>4. \A i \in Index : Queue'[i] # Nothing <=> InUse(i)'
    BY <1>2, <2>1, <2>3, PacketAssumption DEF RingIInv, RingTypeOK, RingInv, Store
  <2>5. (front = -1 <=> rear = -1)' /\ (is_free => is_null)'
    BY <1>2, <2>1, NAssumption DEF RingIInv, RingTypeOK, RingInv, Store, Index, is_null
  <2> QED BY <2>2, <2>4, <2>5 DEF RingIInv, RingInv
<1> QED BY <1>1, <1>2 DEF addpkt, Codes

LEMMA GetKeeps ==
  ASSUME RingIInv, get_pkt
  PROVE  RingIInv'
<1>1. CASE is_null /\ Refuse(Nothing)
  BY <1>1 DEF RingIInv, RingTypeOK, RingInv, InUse, is_null, Refuse
<1>2. CASE ~is_null /\ ret' = Queue[front] /\ delpkt
  <2>1. front \in Index /\ rear \in Index
    BY <1>2 DEF RingIInv, RingTypeOK, RingInv, is_null
  <2>2. RingTypeOK'
    BY <1>2, <2>1, NAssumption DEF RingIInv, RingTypeOK, delpkt, Index
  <2>3. \A i \in Index : InUse(i)' <=> (InUse(i) /\ i # front)
    BY <1>2, <2>1, NAssumption DEF delpkt, InUse, Index, is_null
  <2>4. \A i \in Index : Queue'[i] # Nothing <=> InUse(i)'
    BY <1>2, <2>1, <2>3 DEF RingIInv, RingTypeOK, RingInv, delpkt
  <2>5. (front = -1 <=> rear = -1)' /\ (is_free => is_null)'
    BY <1>2, <2>1, NAssumption DEF RingIInv, RingInv, delpkt, Index, is_null
  <2> QED BY <2>2, <2>4, <2>5 DEF RingIInv, RingInv
<1> QED BY <1>1, <1>2 DEF get_pkt

\* RingInv with the types is inductive as it stands.
LEMMA RingKeeps ==
  ASSUME RingIInv, [RingNext]_ringVars
  PROVE  RingIInv'
<1>1. CASE \E p \in Packet : addpkt(p)
  BY <1>1, AddKeeps
<1>2. CASE get_pkt
  BY <1>2, GetKeeps
<1>3. CASE Free_Packet_Queue
  BY <1>3, NAssumption DEF RingIInv, RingTypeOK, RingInv, InUse, Free_Packet_Queue, Index, is_null, Codes
<1>4. CASE UNCHANGED ringVars
  BY <1>4 DEF RingIInv, RingTypeOK, RingInv, InUse, is_null, ringVars
<1> QED BY <1>1, <1>2, <1>3, <1>4 DEF RingNext

\* The inductive invariant of the ring of pkt_Queue.c, for any caller.
THEOREM RingInvariance == RingSpec => []RingIInv
<1>1. RingIInv /\ [RingNext]_ringVars => RingIInv'
  BY RingKeeps
<1> QED BY RingInitIInv, <1>1, PTL DEF RingSpec

\* The indices are -1 or in the ring, for every N.
THEOREM RingTypeCorrect == RingSpec => []RingTypeOK
<1>1. RingIInv => RingTypeOK
  BY DEF RingIInv
<1> QED BY <1>1, RingInvariance, PTL

\* In every reachable state the cells from front to rear, and only they, hold
\* packets.
THEOREM RingCorrect == RingSpec => []RingInv
<1>1. RingIInv => RingInv
  BY DEF RingIInv
<1> QED BY <1>1, RingInvariance, PTL

-----------------------------------------------------------------------------
\* The number of packets, and the cells they are in.
LEMMA LengthBounds ==
  ASSUME RingIInv
  PROVE  /\ queue_len \in 0..N
         /\ queue_len = 0 <=> is_null
         /\ queue_len = N <=> is_full
         /\ \A i \in 1..queue_len : At(i) \in Index
  BY NAssumption DEF RingIInv, RingTypeOK, RingInv, queue_len, At, Index, is_null, is_full

LEMMA ContentsSeq ==
  ASSUME RingIInv
  PROVE  /\ Contents \in Seq(Packet)
         /\ Len(Contents) = queue_len
         /\ Contents = << >> <=> is_null
<1>1. \A i \in 1..queue_len : InUse(At(i)) /\ At(i) \in Index
  BY LengthBounds, NAssumption DEF RingIInv, RingTypeOK, RingInv, InUse, queue_len, At, Index, is_null
<1>2. \A i \in 1..queue_len : Queue[At(i)] \in Packet
  BY <1>1 DEF RingIInv, RingTypeOK, RingInv
<1>3. queue_len \in Nat
  BY LengthBounds DEF Index
<1>4. Contents \in Seq(Packet) /\ Len(Contents) = queue_len
  BY <1>2, <1>3 DEF Contents
<1> QED BY <1>4, LengthBounds

\* An accepted packet goes to the end.
LEMMA StoreAppends ==
  ASSUME RingIInv, NEW p \in Packet, ~is_full, Store(p, NextRear)
  PROVE  Contents' = Append(Contents, p)
<1>1. NextRear \in Index /\ ~InUse(NextRear)
  BY NextRearFree
<1>2. queue_len' = queue_len + 1
  BY NAssumption, <1>1 DEF RingIInv, RingTypeOK, RingInv, Store, queue_len, NextRear, Index, is_null, is_full
<1>3. \A i \in Nat : i = queue_len + 1 => At(i)' = NextRear
  BY NAssumption, <1>1 DEF RingIInv, RingTypeOK, RingInv, Store, queue_len, At, NextRear, Index, is_null, is_full
<1>4. \A i \in 1..queue_len : At(i)' = At(i) /\ At(i) \in Index /\ At(i) # NextRear
  BY NAssumption, <1>1, LengthBounds
  DEF RingIInv, RingTypeOK, RingInv, Store, InUse, queue_len, At, NextRear, Index, is_null, is_full
<1>5. \A i \in 1..queue_len : Queue'[At(i)'] = Queue[At(i)]
  BY <1>4 DEF Store, RingIInv, RingTypeOK
<1>6. \A i \in Nat : i = queue_len + 1 => Queue'[At(i)'] = p
  BY <1>1, <1>3 DEF Store, RingIInv, RingTypeOK
<1>7. queue_len \in Nat
  BY LengthBounds
<1>8. Contents' = [i \in 1..(queue_len + 1) |-> Queue'[At(i)']]
  BY <1>2 DEF Contents
<1>9. Append(Contents, p) = [i \in 1..(queue_len + 1) |-> IF i = queue_len + 1 THEN p ELSE Queue[At(i)]]
  BY <1>7, ContentsSeq DEF Contents
<1> QED BY <1>5, <1>6, <1>7, <1>8, <1>9

\* The packet that leaves is the oldest.
LEMMA DeleteTakesHead ==
  ASSUME RingIInv, ~is_null, delpkt
  PROVE  Queue[front] = Head(Contents) /\ Contents' = Tail(Contents)
<1>1. front \in Index /\ rear \in Index
  BY DEF RingIInv, RingTypeOK, RingInv, is_null
<1>2. queue_len \in 1..N /\ At(1) = front
  BY <1>1, LengthBounds, NAssumption DEF At, Index
<1>3. queue_len' = queue_len - 1
  BY <1>1, NAssumption DEF delpkt, queue_len, Index, is_null
<1>4. \A i \in 1..(queue_len - 1) : At(i)' = At(i + 1) /\ At(i + 1) \in Index /\ At(i + 1) # front
  BY <1>1, NAssumption DEF delpkt, queue_len, At, Index, is_null
<1>5. \A i \in 1..(queue_len - 1) : Queue'[At(i)'] = Queue[At(i + 1)]
  BY <1>4 DEF delpkt, RingIInv, RingTypeOK
<1>6. Contents' = [i \in 1..(queue_len - 1) |-> Queue[At(i + 1)]]
  BY <1>3, <1>5 DEF Contents
<1>7. Tail(Contents) = [i \in 1..(queue_len - 1) |-> Queue[At(i + 1)]]
  BY <1>2, ContentsSeq DEF Contents
<1>8. Head(Contents) = Queue[front]
  BY <1>2, ContentsSeq DEF Contents
<1> QED BY <1>6, <1>7, <1>8

\* The ring and the queue it implements answer with the same codes.
LEMMA SameCodes ==
  /\ Fifo!pkt_Queue_SUCCESS = pkt_Queue_SUCCESS /\ Fifo!MESSAGE_OVERSIZE = MESSAGE_OVERSIZE
  /\ Fifo!pkt_Queue_is_free = pkt_Queue_is_free /\ Fifo!pkt_Queue_FULL = pkt_Queue_FULL
  BY DEF Fifo!pkt_Queue_SUCCESS, pkt_Queue_SUCCESS, Fifo!MESSAGE_OVERSIZE, MESSAGE_OVERSIZE,
         Fifo!pkt_Queue_is_free, pkt_Queue_is_free, Fifo!pkt_Queue_FULL, pkt_Queue_FULL

\* Every step of the ring is a step, or a stutter, of the queue it implements.
LEMMA StepRefines == RingIInv /\ RingIInv' /\ [RingNext]_ringVars => [Fifo!Next]_(Fifo!vars)
<1> SUFFICES ASSUME RingIInv, RingIInv', [RingNext]_ringVars PROVE [Fifo!Next]_(Fifo!vars)
  OBVIOUS
<1>1. ASSUME NEW p \in Packet, addpkt(p) PROVE Fifo!Put(p)
  <2>1. ASSUME NEW c \in Codes, Refuse(c) PROVE Contents' = Contents /\ UNCHANGED is_free
    BY <2>1 DEF Refuse, Contents, queue_len, At, is_null
  <2>3. CASE p \in Oversize /\ Refuse(MESSAGE_OVERSIZE)
    BY <2>1, <2>3, SameCodes DEF Refuse, Codes, Fifo!Put
  <2>4. CASE p \notin Oversize /\ is_free /\ Refuse(pkt_Queue_is_free)
    BY <2>1, <2>4, SameCodes DEF Refuse, Codes, Fifo!Put
  <2>5. CASE p \notin Oversize /\ ~is_free /\ is_full /\ Refuse(pkt_Queue_FULL)
    <3>1. Len(Contents) = N
      BY <2>5, ContentsSeq, LengthBounds
    <3> QED BY <2>1, <2>5, <3>1, SameCodes DEF Refuse, Codes, Fifo!Put
  <2>2. CASE p \notin Oversize /\ ~is_free /\ ~is_full /\ Store(p, NextRear)
    <3>1. Contents' = Append(Contents, p)
      BY <2>2, StoreAppends
    <3>2. Len(Contents) < N
      BY <2>2, ContentsSeq, LengthBounds, NAssumption
    <3> QED BY <2>2, <3>1, <3>2, SameCodes DEF Store, Fifo!Put
  <2> QED BY <1>1, <2>2, <2>3, <2>4, <2>5 DEF addpkt
<1>2. CASE get_pkt
  <2>1. CASE is_null /\ Refuse(Nothing)
    <3>1. Contents' = Contents
      BY <2>1 DEF Refuse, Contents, queue_len, At, is_null
    <3> QED BY <2>1, <3>1, ContentsSeq DEF Refuse, Fifo!Next, Fifo!Get
  <2>2. CASE ~is_null /\ ret' = Queue[front] /\ delpkt
    BY <2>2, DeleteTakesHead, ContentsSeq DEF delpkt, Fifo!Next, Fifo!Get
  <2> QED BY <1>2, <2>1, <2>2 DEF get_pkt
<1>3. CASE Free_Packet_Queue
  <2>1. Contents' = << >>
    <3>1. is_null'
      BY <1>3 DEF Free_Packet_Queue, is_null
    <3>2. Contents' = [i \in 1..0 |-> Queue'[At(i)']]
      BY <3>1 DEF Contents, queue_len
    <3> QED BY <3>2
  <2> QED BY <1>3, <2>1, SameCodes DEF Free_Packet_Queue, Fifo!Next, Fifo!Close
<1>4. CASE UNCHANGED ringVars
  BY <1>4 DEF ringVars, Fifo!vars, Contents, queue_len, At, is_null
<1> QED BY <1>1, <1>2, <1>3, <1>4 DEF RingNext, Fifo!Next

LEMMA InitRefines == RingInit => Fifo!Init
<1> SUFFICES ASSUME RingInit PROVE Fifo!Init
  OBVIOUS
<1>1. Contents = << >>
  BY RingInitIInv, ContentsSeq DEF RingInit, is_null
<1> QED BY <1>1 DEF RingInit, Fifo!Init

\* The queue loses, reorders and duplicates nothing, for every length N: its
\* behaviours are those of a bounded first-in first-out queue.
THEOREM RingRefinement == RingSpec => IsBoundedFifo
  BY InitRefines, StepRefines, RingInvariance, PTL DEF RingSpec, IsBoundedFifo, Fifo!Spec

-----------------------------------------------------------------------------
(* The pipeline.                                                           *)

\* What the budget loop leaves: 125 bytes for every record taken, 35 spare.
Reserved == base + 125 * Len(local) + 35 <= WIFI_MESSAGE_LENGTH

Budget ==
  /\ pc \in {"idle", "lock"} => local = << >>
  /\ pc = "idle" => size = 0
  /\ pc \in {"lock", "budget", "count"} => size = base
  /\ pc = "lock" => room = WIFI_MESSAGE_LENGTH - base
  /\ pc = "budget" => /\ base + 125 * Len(local) + room <= WIFI_MESSAGE_LENGTH
                      /\ room >= 35
  /\ pc \in {"count", "write"} => Reserved
  /\ pc = "write" => /\ at \in 1..(Len(local) + 1)
                     /\ ~long => size <= base + 5 + 125 * (at - 1)

IInv == TypeOK /\ RingInv /\ Budget

LEMMA InitIInv == Init => IInv
<1> SUFFICES ASSUME Init PROVE IInv
  OBVIOUS
<1>1. RingTypeOK /\ RingInv
  BY RingInitIInv DEF Init, RingIInv
<1>2. TypeOK
  <2>1. Zero \in NodeType
    BY DEF Zero, NodeType
  <2>2. << >> \in Seq(Ids)
    OBVIOUS
  <2>3. node \in [Ids -> NodeType] /\ fate \in [Ids -> Fates]
    BY <2>1 DEF Init, Fates
  <2>4. sending \in Packet \cup {Nothing} /\ list \in Seq(Ids) /\ local \in Seq(Ids)
    BY <2>2 DEF Init
  <2>5. held \in {0} \cup Ids /\ base \in 0..132 /\ room \in 0..WIFI_MESSAGE_LENGTH
        /\ at \in Nat /\ size \in Nat
    BY ReportingAssumption DEF Init
  <2>6. long \in BOOLEAN /\ shutdown \in BOOLEAN /\ sPc \in {"look", "get", "send"}
        /\ pc \in {"idle", "lock", "budget", "count", "write"}
    BY DEF Init
  <2> QED BY <1>1, <2>3, <2>4, <2>5, <2>6 DEF TypeOK
<1>3. Budget
  BY DEF Init, Budget
<1> QED BY <1>1, <1>2, <1>3 DEF IInv

\* What the handler hands over is a message.
LEMMA PackedIsPacket ==
  ASSUME TypeOK
  PROVE  Packed \in Message /\ Packed \in Packet
<1>1. CASE local = << >>
  BY <1>1, ReportingAssumption DEF Packed, Message
<1>2. CASE local # << >>
  <2>1. local \in Seq(Ids) /\ Len(local) \in Nat /\ Len(local) >= 1
    BY <1>2 DEF TypeOK
  <2>2. local[1] \in Ids /\ local[Len(local)] \in Ids
    BY <2>1
  <2> QED BY <1>2, <2>2, ReportingAssumption DEF Packed, Message, Ids
<1> QED BY <1>1, <1>2

\* Every step of the pipeline is a step, or a stutter, of the ring.
LEMMA RingStep ==
  ASSUME TypeOK, [Next]_vars
  PROVE  [RingNext]_ringVars
<1>1. CASE Hand
  BY <1>1, PackedIsPacket DEF Hand, RingNext
<1>2. CASE Other
  BY <1>2, ReportingAssumption DEF Other, RingNext
<1>3. CASE Get
  BY <1>3 DEF Get, RingNext
<1>4. CASE Free
  BY <1>4 DEF Free, RingNext
<1>5. CASE Track \/ Find \/ Update \/ Clean \/ Shutdown \/ UNCHANGED vars
  BY <1>5 DEF Track, Find, Update, Clean, Shutdown, vars, ringVars
<1>6. CASE Poll \/ Lock \/ Take \/ Cut
  BY <1>6 DEF Poll, Lock, Take, TakeLeaving, Cut
<1>7. CASE Count \/ Write \/ Look \/ SendTo
  BY <1>7 DEF Count, Write, Look, LookFor, SendTo
<1> QED BY <1>1, <1>2, <1>3, <1>4, <1>5, <1>6, <1>7 DEF Next, Reporter, Sender

LEMMA RingPart ==
  ASSUME IInv, [Next]_vars
  PROVE  RingTypeOK' /\ RingInv'
  BY RingStep, RingKeeps DEF IInv, TypeOK, RingIInv

-----------------------------------------------------------------------------
\* The steps of the other threads leave the message alone.
LEMMA TrackTypes ==
  ASSUME TypeOK, Track, RingTypeOK'
  PROVE  TypeOK'
<1> PICK i \in Ids, a \in Adverts :
       /\ node' = [node EXCEPT ![i] = a] /\ list' = Linked(i)
       /\ fate' = [fate EXCEPT ![i] = "listed"]
  BY DEF Track
<1>1. a \in NodeType
  BY ReportingAssumption
<1>2. list' \in Seq(Ids)
  BY DEF Linked, TypeOK
<1> QED BY <1>1, <1>2 DEF Track, TypeOK, Fates, messageVars, sendVars

LEMMA UpdateTypes ==
  ASSUME TypeOK, Update, RingTypeOK'
  PROVE  TypeOK'
<1>1. held \in Ids
  BY DEF Update, TypeOK
<1>2. ASSUME NEW n \in NodeType, NEW a \in Adverts PROVE Readvertised(n, a) \in NodeType
  <2>1. a \in NodeType
    BY <1>2, ReportingAssumption
  <2>2. a.shows \in BOOLEAN /\ a.waits \in BOOLEAN /\ a.p \in 0..31 /\ n.p \in 0..31 /\ n.s \in 0..31
    BY <2>1, <1>2 DEF NodeType
  <2>3. (IF a.shows THEN a.p ELSE n.p) \in 0..31
    BY <2>2
  <2> QED BY <2>2, <2>3, Zenon DEF Readvertised, NodeType
<1>3. ASSUME NEW n \in NodeType, NEW s \in Responses PROVE Answered(n, s) \in NodeType
  BY <1>3, ReportingAssumption DEF Answered, NodeType
<1>4. node' \in [Ids -> NodeType]
  BY <1>1, <1>2, <1>3 DEF Update, TypeOK
<1> QED BY <1>4 DEF Update, TypeOK, messageVars, sendVars

LEMMA CleanTypes ==
  ASSUME TypeOK, Clean, RingTypeOK'
  PROVE  TypeOK'
<1>1. Zero \in NodeType
  BY DEF Zero, NodeType
<1>2. node' \in [Ids -> NodeType] /\ fate' \in [Ids -> Fates]
  BY <1>1 DEF Clean, TypeOK, Fates
<1> QED BY <1>2 DEF Clean, TypeOK, messageVars, sendVars

LEMMA SenderTypes ==
  ASSUME TypeOK, RingInv, Sender \/ Shutdown \/ Free, RingTypeOK'
  PROVE  TypeOK'
<1>1. CASE Get
  <2>1. fate' \in [Ids -> Fates]
    BY <1>1 DEF Get, TypeOK, Fates
  <2>2. ret' \in Packet \cup {Nothing}
    BY <1>1 DEF Get, get_pkt, Refuse, TypeOK, RingTypeOK, RingInv, is_null
  <2> QED BY <1>1, <2>1, <2>2 DEF Get, TypeOK, listVars, messageVars
<1>2. CASE SendTo
  BY <1>2 DEF SendTo, TypeOK, Fates, listVars, messageVars
<1>3. CASE Look \/ Shutdown
  BY <1>3 DEF Look, LookFor, Shutdown, TypeOK, listVars, messageVars
<1>4. CASE Free
  BY <1>4 DEF Free, TypeOK, Fates, listVars, messageVars, sendVars
<1> QED BY <1>1, <1>2, <1>3, <1>4 DEF Sender

LEMMA OthersKeep ==
  ASSUME IInv, Track \/ Find \/ Update \/ Clean \/ Other \/ Sender \/ Shutdown \/ Free, [Next]_vars
  PROVE  IInv'
<1>1. RingTypeOK' /\ RingInv'
  BY RingPart
<1>2. TypeOK'
  <2>1. CASE Find
    BY <1>1, <2>1 DEF Find, IInv, TypeOK, messageVars, sendVars
  <2>2. CASE Other
    BY <1>1, <2>2 DEF Other, IInv, TypeOK, listVars, messageVars, sendVars
  <2> QED BY <1>1, <2>1, <2>2, TrackTypes, UpdateTypes, CleanTypes, SenderTypes DEF IInv
<1>3. UNCHANGED messageVars
  BY DEF Track, Find, Update, Clean, Other, Sender, Look, LookFor, Get, SendTo, Shutdown, Free
<1>4. Budget'
  BY <1>3 DEF IInv, Budget, Reserved, messageVars
<1> QED BY <1>1, <1>2, <1>4 DEF IInv

-----------------------------------------------------------------------------
\* The space counted for a record is 125 bytes and its payload.
LEMMA CostBounds ==
  ASSUME NEW n \in NodeType
  PROVE  Cost(n) \in 125..156
  BY DEF Cost, NodeType, MAX_LENGTH_RESP_DEVICE_INFO, LENGTH_OF_ADVERTISEMENT

\* A record whose payload and scan response are short takes no more than 125.
LEMMA RecordBounds ==
  ASSUME NEW n \in NodeType
  PROVE  /\ RecordLength(n) \in Nat
         /\ Short(n) => RecordLength(n) <= 125
  BY DEF RecordLength, Short, NodeType

LEMMA PollKeeps ==
  ASSUME IInv, Poll, RingTypeOK', RingInv'
  PROVE  IInv'
<1> PICK b \in Bases :
      /\ b <= MAX_LENGTH_RESP_BASIC_INFO
      /\ base' = b + 4 /\ size' = b + 4 /\ room' = WIFI_MESSAGE_LENGTH - (b + 4)
  BY DEF Poll
<1>1. base' \in 0..132 /\ size' = base' /\ room' \in 0..WIFI_MESSAGE_LENGTH
      /\ room' = WIFI_MESSAGE_LENGTH - base' /\ size' \in Nat
  BY ReportingAssumption DEF MAX_LENGTH_RESP_BASIC_INFO
<1>2. TypeOK'
  BY <1>1 DEF Poll, IInv, TypeOK, listVars, sendVars
<1>3. Budget'
  BY <1>1 DEF Poll, IInv, Budget
<1> QED BY <1>2, <1>3 DEF IInv

LEMMA LockKeeps ==
  ASSUME IInv, Lock, RingTypeOK', RingInv'
  PROVE  IInv'
<1>1. TypeOK'
  BY DEF Lock, IInv, TypeOK, listVars, sendVars
<1>2. base \in 0..132 /\ room = WIFI_MESSAGE_LENGTH - base /\ Len(local) = 0 /\ size = base
  BY DEF Lock, IInv, TypeOK, Budget
<1>3. Budget'
  BY <1>2, ReportingAssumption DEF Lock, Budget
<1> QED BY <1>1, <1>3 DEF IInv

LEMMA Slack ==
  ASSUME NEW b \in Nat, NEW m \in Nat, NEW r \in Nat, NEW r2 \in Nat, NEW w \in Nat,
         b + 125 * m + r <= w, r2 + 125 <= r
  PROVE  b + 125 * (m + 1) + r2 <= w
  OBVIOUS

LEMMA TakeKeeps ==
  ASSUME IInv, Take, RingTypeOK', RingInv'
  PROVE  IInv'
<1>1. list \in Seq(Ids) /\ list # << >> /\ Head(list) \in Ids /\ Tail(list) \in Seq(Ids)
  BY DEF Take, TakeLeaving, IInv, TypeOK
<1>2. Cost(node[Head(list)]) \in 125..156
  BY <1>1, CostBounds DEF IInv, TypeOK
<1>3. local' \in Seq(Ids) /\ Len(local') = Len(local) + 1 /\ Len(local) \in Nat
  BY <1>1 DEF Take, TakeLeaving, IInv, TypeOK
<1>4. room' \in 0..WIFI_MESSAGE_LENGTH /\ room' \in Nat /\ room' >= 35 /\ room' + 125 <= room
  <2>1. room > 190 /\ room' = room - Cost(node[Head(list)])
    BY DEF Take, TakeLeaving, HasRoom, MAX_LENGTH_RESP_DEVICE_INFO
  <2>2. room \in Nat /\ room <= WIFI_MESSAGE_LENGTH /\ WIFI_MESSAGE_LENGTH \in Nat
    BY ReportingAssumption DEF IInv, TypeOK
  <2> QED BY <1>2, <2>1, <2>2
<1>5. fate' \in [Ids -> Fates]
  BY <1>1 DEF Take, TakeLeaving, IInv, TypeOK, Fates
<1>6. TypeOK'
  BY <1>1, <1>3, <1>4, <1>5 DEF Take, TakeLeaving, IInv, TypeOK, sendVars
<1>7. Budget'
  <2>1. base + 125 * Len(local) + room <= WIFI_MESSAGE_LENGTH /\ size = base
    BY DEF Take, TakeLeaving, IInv, Budget
  <2>2. base \in Nat /\ room \in Nat /\ WIFI_MESSAGE_LENGTH \in Nat
    BY ReportingAssumption DEF IInv, TypeOK
  <2>3. base + 125 * Len(local') + room' <= WIFI_MESSAGE_LENGTH
    <3>1. Len(local') = Len(local) + 1 /\ Len(local) \in Nat
      BY <1>3
    <3> QED BY <1>4, <3>1, <2>1, <2>2, Slack
  <2> QED BY <1>4, <2>1, <2>3 DEF Take, TakeLeaving, Budget
<1> QED BY <1>6, <1>7 DEF IInv

LEMMA CutKeeps ==
  ASSUME IInv, Cut, RingTypeOK', RingInv'
  PROVE  IInv'
<1>1. TypeOK'
  BY DEF Cut, IInv, TypeOK, listVars, sendVars
<1>2. Reserved /\ size = base
  <2>1. base \in Nat /\ room \in Nat /\ Len(local) \in Nat /\ WIFI_MESSAGE_LENGTH \in Nat
    BY ReportingAssumption DEF IInv, TypeOK
  <2> QED BY <2>1 DEF Cut, IInv, Budget, Reserved
<1>3. Budget'
  BY <1>2 DEF Cut, Budget, Reserved
<1> QED BY <1>1, <1>3 DEF IInv

LEMMA CountKeeps ==
  ASSUME IInv, Count, RingTypeOK', RingInv'
  PROVE  IInv'
<1>1. Header(Cardinality(Counted)) \in 4..5
  BY DEF Header
<1>2. size \in Nat /\ base \in Nat /\ Len(local) \in Nat /\ size = base /\ Reserved
  BY DEF Count, IInv, TypeOK, Budget
<1>3. size' \in Nat /\ size' <= base + 5 /\ at' = 1
  BY <1>1, <1>2 DEF Count
<1>4. TypeOK'
  BY <1>3 DEF Count, IInv, TypeOK, listVars, sendVars
<1>5. Budget'
  BY <1>2, <1>3 DEF Count, Budget, Reserved
<1> QED BY <1>4, <1>5 DEF IInv

LEMMA WriteKeeps ==
  ASSUME IInv, Write, RingTypeOK', RingInv'
  PROVE  IInv'
<1> DEFINE i == local[at]
<1>1. at \in 1..Len(local) /\ i \in Ids /\ node[i] \in NodeType /\ at' = at + 1
      /\ Len(local) \in Nat /\ base \in Nat /\ size \in Nat /\ Reserved
      /\ (~long => size <= base + 5 + 125 * (at - 1))
  BY DEF Write, IInv, TypeOK, Budget
<1>2. /\ size' \in Nat /\ long' \in BOOLEAN /\ fate' \in [Ids -> Fates]
      /\ ~long' => ~long /\ size' <= size + 125
  <2>1. CASE Skipped(node[i])
    BY <1>1, <2>1 DEF Write, IInv, TypeOK, Fates
  <2>2. CASE ~Skipped(node[i])
    <3>1. long' = (long \/ ~Short(node[i])) /\ size' = size + RecordLength(node[i]) /\ fate' = fate
      BY <2>2 DEF Write
    <3>2. long' \in BOOLEAN /\ (~long' => ~long /\ Short(node[i]))
      BY <3>1
    <3> QED BY <1>1, <3>1, <3>2, RecordBounds DEF IInv, TypeOK
  <2> QED BY <2>1, <2>2
<1>3. TypeOK'
  BY <1>1, <1>2 DEF Write, IInv, TypeOK, listVars, sendVars
<1>4. ~long' => size' <= base + 5 + 125 * (at' - 1)
  BY <1>1, <1>2
<1>5. Budget'
  BY <1>1, <1>4 DEF Write, Budget, Reserved
<1> QED BY <1>3, <1>5 DEF IInv

LEMMA HandKeeps ==
  ASSUME IInv, Hand, RingTypeOK', RingInv'
  PROVE  IInv'
<1>1. Zero \in NodeType
  BY DEF Zero, NodeType
<1>2. node' \in [Ids -> NodeType] /\ fate' \in [Ids -> Fates]
  BY <1>1 DEF Hand, Release, IInv, TypeOK, Fates
<1>3. << >> \in Seq(Ids)
  OBVIOUS
<1>4. TypeOK'
  <2>1. base' \in 0..132 /\ room' \in 0..WIFI_MESSAGE_LENGTH /\ at' \in Nat /\ size' \in Nat
    BY ReportingAssumption DEF Hand
  <2>2. local' \in Seq(Ids) /\ pc' \in {"idle", "lock", "budget", "count", "write"}
        /\ long' \in BOOLEAN
    BY <1>3 DEF Hand
  <2> QED BY <1>2, <2>1, <2>2 DEF Hand, IInv, TypeOK, sendVars
<1>5. Budget'
  BY DEF Hand, Budget
<1> QED BY <1>4, <1>5 DEF IInv

\* No step of the handler, the lists or the sender breaks the budget of the message.
THEOREM Inductive == IInv /\ [Next]_vars => IInv'
<1> SUFFICES ASSUME IInv, [Next]_vars PROVE IInv'
  OBVIOUS
<1>1. RingTypeOK' /\ RingInv'
  BY RingPart
<1>2. CASE Reporter
  BY <1>1, <1>2, PollKeeps, LockKeeps, TakeKeeps, CutKeeps, CountKeeps, WriteKeeps, HandKeeps
  DEF Reporter
<1>3. CASE Track \/ Find \/ Update \/ Clean \/ Other \/ Sender \/ Shutdown \/ Free
  BY <1>3, OthersKeep
<1>4. CASE UNCHANGED vars
  <2>1. TypeOK'
    BY <1>1, <1>4 DEF IInv, TypeOK, vars, listVars, messageVars, sendVars
  <2> QED BY <1>1, <1>4, <2>1 DEF IInv, Budget, Reserved, vars, messageVars
<1> QED BY <1>2, <1>3, <1>4 DEF Next

\* The types and the budget of a message, for every buffer and ring.
THEOREM Invariance == Spec => []IInv
  BY InitIInv, Inductive, PTL DEF Spec

\* The variables keep their types, for every constant.
THEOREM TypeCorrect == Spec => []TypeOK
<1>1. IInv => TypeOK
  BY DEF IInv
<1> QED BY <1>1, Invariance, PTL

\* The ring stays sound under the pipeline's use of it.
THEOREM RingSound == Spec => []RingInv
<1>1. IInv => RingInv
  BY DEF IInv
<1> QED BY <1>1, Invariance, PTL

\* A message whose records are short fits, for every buffer of 323 to 8192
\* bytes and every content of the nodes.
THEOREM Fits == Spec => []MessageFits
<1>1. IInv => MessageFits
  <2> SUFFICES ASSUME IInv, ~long PROVE size < WIFI_MESSAGE_LENGTH
    BY DEF MessageFits
  <2>1. base \in 0..132 /\ size \in Nat /\ Len(local) \in Nat /\ at \in Nat
        /\ WIFI_MESSAGE_LENGTH \in 323..8192
    BY ReportingAssumption DEF IInv, TypeOK
  <2>2. CASE pc = "idle"
    BY <2>1, <2>2 DEF IInv, Budget
  <2>3. CASE pc \in {"lock", "budget", "count"}
    BY <2>1, <2>3 DEF IInv, Budget
  <2>4. CASE pc = "write"
    <3>1. at - 1 <= Len(local) /\ size <= base + 5 + 125 * (at - 1)
          /\ base + 125 * Len(local) + 35 <= WIFI_MESSAGE_LENGTH
      BY <2>1, <2>4 DEF IInv, Budget, Reserved
    <3> QED BY <2>1, <3>1
  <2> QED BY <2>2, <2>3, <2>4 DEF IInv, TypeOK
<1> QED BY <1>1, Invariance, PTL

\* Seen through the ring, every behaviour of the pipeline is one of a bounded
\* first-in first-out queue.
THEOREM Refinement == Spec => IsBoundedFifo
<1>1. Init => Fifo!Init
  BY InitRefines DEF Init
<1>2. IInv /\ IInv' /\ [Next]_vars => [Fifo!Next]_(Fifo!vars)
  BY RingStep, StepRefines DEF IInv, TypeOK, RingIInv
<1> QED BY <1>1, <1>2, Invariance, PTL DEF Spec, IsBoundedFifo, Fifo!Spec

-----------------------------------------------------------------------------
(* The way of an object.  Objects are filed in the order of their numbers, *)
(* so every list holds consecutive ones, and so does every message.        *)

Row(q) == \A j \in DOMAIN q : q[j] = q[1] + j - 1
Within(q, i) == Len(q) > 0 /\ q[1] <= i /\ i < q[1] + Len(q)

Tracked == \A i, j \in Ids : i < j /\ fate[i] = "none" => fate[j] = "none"

\* list_lock keeps the two lists adjacent while records are taken.
ListFlow ==
  /\ Row(list) /\ Row(local)
  /\ \A i \in Ids : fate[i] = "listed" <=> Within(list, i)
  /\ pc = "budget" /\ Len(local) > 0 /\ Len(list) > 0 => list[1] = local[1] + Len(local)

LocalFlow ==
  \A i \in Ids : /\ fate[i] = "taken" => Within(local, i)
                 /\ Within(local, i) => fate[i] \in {"taken", "omitted"}

\* The messages in the queue, and then the local list, carry ever higher numbers.
QueueFlow ==
  /\ \A i \in Ids : fate[i] = "queued" => \E j \in DOMAIN Contents : Carries(Contents[j], i)
  /\ \A j \in DOMAIN Contents, i \in Ids : Carries(Contents[j], i) => fate[i] \in {"queued", "omitted"}
  /\ \A j, k \in DOMAIN Contents, i, h \in Ids :
       j < k /\ Carries(Contents[j], i) /\ Carries(Contents[k], h) => i < h
  /\ \A j \in DOMAIN Contents, i, h \in Ids :
       Carries(Contents[j], i) /\ Within(local, h) => i < h

SendFlow ==
  /\ sPc # "send" => sending = Nothing
  /\ \A i \in Ids : /\ fate[i] = "sending" => Carries(sending, i)
                    /\ Carries(sending, i) => fate[i] \in {"sending", "omitted"}

FlowInv == Tracked /\ InOrder /\ ListFlow /\ LocalFlow /\ QueueFlow /\ SendFlow

LEMMA IdsNat == Ids \subseteq Nat /\ Ids \subseteq Nat \ {0}
  BY ReportingAssumption DEF Ids

\* Appending the next number, and taking the first away.
LEMMA RowAppend ==
  ASSUME NEW q \in Seq(Ids), Row(q), NEW x \in Ids, Len(q) > 0 => x = q[1] + Len(q)
  PROVE  LET r == Append(q, x)
         IN  /\ r \in Seq(Ids) /\ Row(r) /\ \A i \in Ids : Within(r, i) <=> Within(q, i) \/ i = x
             /\ Len(r) > 0 /\ r[1] + Len(r) = x + 1
<1> DEFINE r == Append(q, x)
<1>1. Len(q) \in Nat /\ DOMAIN q = 1..Len(q) /\ \A j \in 1..Len(q) : q[j] \in Ids
  OBVIOUS
<1>2. /\ r \in Seq(Ids) /\ Len(r) = Len(q) + 1 /\ DOMAIN r = 1..(Len(q) + 1)
      /\ r[Len(q) + 1] = x /\ \A j \in 1..Len(q) : r[j] = q[j]
  OBVIOUS
<1>3. Ids \subseteq Nat
  BY IdsNat
<1> HIDE DEF r
<1>4. CASE Len(q) = 0
  <2>1. Len(r) = 1 /\ r[1] = x /\ DOMAIN r = 1..1
    BY <1>2, <1>4
  <2>2. \A i \in Ids : Within(r, i) <=> i = x
    BY <1>3, <2>1 DEF Within
  <2>3. Row(r) /\ r[1] + Len(r) = x + 1
    BY <1>3, <2>1 DEF Row
  <2> QED BY <1>2, <1>4, <2>1, <2>2, <2>3 DEF Within
<1>5. CASE Len(q) > 0
  <2>1. 1 \in 1..Len(q) /\ r[1] = q[1] /\ q[1] \in Nat /\ x = q[1] + Len(q)
    <3>1. 1 \in 1..Len(q)
      BY <1>1, <1>5
    <3>2. q[1] \in Ids
      BY <1>1, <3>1
    <3> QED BY <1>2, <1>3, <1>5, <3>1, <3>2
  <2>2. \A j \in 1..Len(q) : r[j] = q[1] + j - 1
    BY <1>1, <1>2 DEF Row
  <2>3. Row(r)
    BY <1>1, <1>2, <2>1, <2>2 DEF Row
  <2>4. \A i \in Ids : Within(r, i) <=> Within(q, i) \/ i = x
    BY <1>1, <1>2, <1>3, <1>5, <2>1 DEF Within
  <2>5. Len(r) > 0 /\ r[1] + Len(r) = x + 1
    BY <1>1, <1>2, <2>1
  <2> QED BY <1>2, <2>3, <2>4, <2>5 DEF r
<1> QED BY <1>1, <1>4, <1>5 DEF r

LEMMA RowTail ==
  ASSUME NEW q \in Seq(Ids), Row(q), Len(q) > 0
  PROVE  LET r == Tail(q)
         IN  /\ r \in Seq(Ids) /\ Row(r) /\ \A i \in Ids : Within(r, i) <=> Within(q, i) /\ i # Head(q)
             /\ Len(r) > 0 => r[1] = Head(q) + 1
             /\ Head(q) = q[1] /\ Head(q) \in Ids /\ Within(q, Head(q))
<1> DEFINE r == Tail(q)
<1>1. /\ q # << >> /\ Len(q) \in Nat \ {0} /\ DOMAIN q = 1..Len(q) /\ Head(q) = q[1]
      /\ \A j \in 1..Len(q) : q[j] \in Ids
  OBVIOUS
<1>2. /\ r \in Seq(Ids) /\ Len(r) = Len(q) - 1 /\ DOMAIN r = 1..(Len(q) - 1)
      /\ \A j \in 1..(Len(q) - 1) : r[j] = q[j + 1]
  BY <1>1
<1>3. q[1] \in Ids /\ q[1] \in Nat /\ Ids \subseteq Nat
  <2>1. 1 \in 1..Len(q)
    BY <1>1
  <2>2. q[1] \in Ids
    BY <1>1, <2>1
  <2> QED BY <2>2, IdsNat
<1> HIDE DEF r
<1>4. \A j \in 1..(Len(q) - 1) : r[j] = q[1] + j
  <2>1. \A j \in 1..(Len(q) - 1) : j + 1 \in DOMAIN q /\ q[j + 1] = q[1] + (j + 1) - 1
    BY <1>1 DEF Row
  <2> QED BY <1>2, <1>3, <2>1
<1>5. Len(r) > 0 => r[1] = q[1] + 1
  BY <1>1, <1>2, <1>4
<1>6. Row(r)
  <2> SUFFICES ASSUME NEW j \in 1..(Len(q) - 1) PROVE r[j] = r[1] + j - 1
    BY <1>2 DEF Row
  <2>1. r[1] = q[1] + 1 /\ r[j] = q[1] + j
    BY <1>1, <1>2, <1>4, <1>5
  <2> QED BY <1>1, <1>3, <2>1
<1>7. \A i \in Ids : Within(r, i) <=> Within(q, i) /\ i # q[1]
  <2> SUFFICES ASSUME NEW i \in Ids PROVE Within(r, i) <=> Within(q, i) /\ i # q[1]
    OBVIOUS
  <2>1. i \in Nat
    BY <1>3
  <2>2. CASE Len(q) = 1
    BY <1>2, <1>3, <2>1, <2>2 DEF Within
  <2>3. CASE Len(q) > 1
    BY <1>1, <1>2, <1>3, <1>5, <2>1, <2>3 DEF Within
  <2> QED BY <1>1, <2>2, <2>3
<1>8. Within(q, q[1])
  BY <1>1, <1>3 DEF Within
<1> QED BY <1>1, <1>2, <1>3, <1>5, <1>6, <1>7, <1>8 DEF r

\* What a row holds, and where.
LEMMA RowHas ==
  ASSUME NEW q \in Seq(Ids), Row(q)
  PROVE  /\ \A i \in Ids : Within(q, i) => i - q[1] + 1 \in DOMAIN q /\ q[i - q[1] + 1] = i
         /\ \A j \in DOMAIN q : q[j] \in Ids /\ Within(q, q[j]) /\ j = q[j] - q[1] + 1
<1>1. Len(q) \in Nat /\ DOMAIN q = 1..Len(q) /\ \A j \in 1..Len(q) : q[j] \in Ids /\ q[j] \in Nat
  <2>1. Len(q) \in Nat /\ DOMAIN q = 1..Len(q) /\ \A j \in 1..Len(q) : q[j] \in Ids
    OBVIOUS
  <2> QED BY <2>1, IdsNat
<1>2. \A j \in 1..Len(q) : q[j] = q[1] + j - 1
  BY <1>1 DEF Row
<1>3. ASSUME NEW i \in Ids, Within(q, i)
      PROVE  i - q[1] + 1 \in DOMAIN q /\ q[i - q[1] + 1] = i
  <2>1. i \in Nat /\ q[1] \in Nat /\ Len(q) # 0 /\ q[1] <= i /\ i < q[1] + Len(q)
    BY <1>1, <1>3, IdsNat DEF Within
  <2>2. i - q[1] + 1 \in 1..Len(q)
    BY <1>1, <2>1
  <2>3. q[i - q[1] + 1] = q[1] + (i - q[1] + 1) - 1
    BY <1>2, <2>2
  <2> QED BY <1>1, <2>1, <2>2, <2>3
<1>4. ASSUME NEW j \in DOMAIN q PROVE q[j] \in Ids /\ Within(q, q[j]) /\ j = q[j] - q[1] + 1
  <2>1. j \in 1..Len(q) /\ q[1] \in Nat /\ q[j] = q[1] + j - 1 /\ Len(q) # 0
    BY <1>1, <1>2
  <2> QED BY <1>1, <2>1 DEF Within
<1> QED BY <1>3, <1>4

\* What a call does to the packets in the ring.
LEMMA PutEffect ==
  ASSUME RingIInv, NEW p \in Packet, addpkt(p)
  PROVE  \/ ret' = pkt_Queue_SUCCESS /\ Contents' = Append(Contents, p)
         \/ ret' # pkt_Queue_SUCCESS /\ Contents' = Contents
<1>1. ASSUME NEW c \in Codes, Refuse(c) PROVE Contents' = Contents
  BY <1>1 DEF Refuse, Contents, queue_len, At, is_null
<1>2. \A c \in Codes : c # pkt_Queue_SUCCESS /\ Refuse(c) => ret' # pkt_Queue_SUCCESS
  BY DEF Refuse
<1>3. /\ {MESSAGE_OVERSIZE, pkt_Queue_is_free, pkt_Queue_FULL} \subseteq Codes
      /\ pkt_Queue_SUCCESS \notin {MESSAGE_OVERSIZE, pkt_Queue_is_free, pkt_Queue_FULL}
  BY DEF Codes, pkt_Queue_SUCCESS, MESSAGE_OVERSIZE, pkt_Queue_is_free, pkt_Queue_FULL
<1>4. CASE ~is_full /\ Store(p, NextRear)
  BY <1>4, StoreAppends DEF Store
<1> QED BY <1>1, <1>2, <1>3, <1>4 DEF addpkt

LEMMA GetEffect ==
  ASSUME RingIInv, get_pkt
  PROVE  \/ Contents = << >> /\ ret' = Nothing /\ Contents' = Contents
         \/ Contents # << >> /\ ret' = Head(Contents) /\ ret' \in Packet /\ Contents' = Tail(Contents)
<1>1. CASE is_null /\ Refuse(Nothing)
  <2>1. Contents' = Contents
    BY <1>1 DEF Refuse, Contents, queue_len, At, is_null
  <2> QED BY <1>1, <2>1, ContentsSeq DEF Refuse
<1>2. CASE ~is_null /\ ret' = Queue[front] /\ delpkt
  <2>1. Contents # << >> /\ Contents \in Seq(Packet)
    BY <1>2, ContentsSeq
  <2> QED BY <1>2, <2>1, DeleteTakesHead
<1> QED BY <1>1, <1>2 DEF get_pkt

LEMMA FreeEffect == ASSUME Free_Packet_Queue PROVE Contents' = << >>
<1>1. queue_len' = 0
  BY DEF Free_Packet_Queue, queue_len, is_null
<1>2. Contents' = [i \in 1..0 |-> Queue'[At(i)']]
  BY <1>1 DEF Contents
<1> QED BY <1>2

-----------------------------------------------------------------------------
(* What a change of fates that does not concern it leaves of each part.    *)

LEMMA ListFrame ==
  ASSUME ListFlow, UNCHANGED <<list, local>>, pc' = "budget" => pc = "budget" \/ Len(local) = 0,
         \A i \in Ids : fate'[i] = fate[i] \/ (fate[i] # "listed" /\ fate'[i] # "listed")
  PROVE  ListFlow'
  BY DEF ListFlow, Row, Within

LEMMA LocalFrame ==
  ASSUME LocalFlow, UNCHANGED local,
         \A i \in Ids :
           fate'[i] = fate[i] \/ (fate[i] \notin {"taken", "omitted"} /\ fate'[i] # "taken")
  PROVE  LocalFlow'
  BY DEF LocalFlow, Within

LEMMA QueueFrame ==
  ASSUME QueueFlow, Contents' = Contents,
         \A i \in Ids :
           fate'[i] = fate[i] \/ (fate[i] \notin {"queued", "omitted"} /\ fate'[i] # "queued"),
         \A j \in DOMAIN Contents, i, h \in Ids :
           Carries(Contents[j], i) /\ Within(local', h) => i < h
  PROVE  QueueFlow'
<1> DEFINE C == Contents
<1>1. /\ \A i \in Ids : fate[i] = "queued" => \E j \in DOMAIN C : Carries(C[j], i)
      /\ \A j \in DOMAIN C, i \in Ids : Carries(C[j], i) => fate[i] \in {"queued", "omitted"}
      /\ \A j, k \in DOMAIN C, i, h \in Ids : j < k /\ Carries(C[j], i) /\ Carries(C[k], h) => i < h
  BY DEF QueueFlow
<1>2. \A m, i : Carries(m, i)' = Carries(m, i)
  BY DEF Carries
<1> HIDE DEF C
<1>3. C' = C
  BY DEF C
<1> QED BY <1>1, <1>2, <1>3 DEF QueueFlow, C

LEMMA SendFrame ==
  ASSUME SendFlow, UNCHANGED <<sPc, sending>>,
         \A i \in Ids :
           fate'[i] = fate[i] \/ (fate[i] \notin {"sending", "omitted"} /\ fate'[i] # "sending")
  PROVE  SendFlow'
  BY DEF SendFlow, Carries

-----------------------------------------------------------------------------
(* The steps.                                                              *)

\* A step that moves no object.
LEMMA QuietKeeps ==
  ASSUME FlowInv, UNCHANGED <<fate, list, local, sending>>, Contents' = Contents,
         pc' = "budget" => pc = "budget" \/ Len(local) = 0,
         sPc' # "send" => sPc # "send"
  PROVE  FlowInv'
<1>1. ListFlow' /\ LocalFlow'
  BY ListFrame, LocalFrame DEF FlowInv
<1>2. QueueFlow'
  BY QueueFrame DEF FlowInv, QueueFlow
<1>3. SendFlow'
  BY DEF FlowInv, SendFlow, Carries
<1>4. Tracked' /\ InOrder'
  BY DEF FlowInv, Tracked, InOrder
<1> QED BY <1>1, <1>2, <1>3, <1>4 DEF FlowInv

LEMMA QuietSteps ==
  ASSUME IInv, FlowInv,
         Find \/ Update \/ Poll \/ Lock \/ Cut \/ Count \/ Look \/ Shutdown \/ UNCHANGED vars
  PROVE  FlowInv'
<1>1. UNCHANGED <<fate, list, local, sending, ringVars>>
  BY DEF Find, Update, Poll, Lock, Cut, Count, Look, LookFor, Shutdown,
         vars, listVars, messageVars, sendVars
<1>2. Contents' = Contents
  BY <1>1 DEF ringVars, Contents, queue_len, At, is_null
<1>3. pc' = "budget" => pc = "budget" \/ Len(local) = 0
  BY DEF Find, Update, Poll, Lock, Cut, Count, Look, LookFor, Shutdown, vars, messageVars, IInv, Budget
<1>4. sPc' # "send" => sPc # "send"
  BY DEF Find, Update, Poll, Lock, Cut, Count, Look, LookFor, Shutdown, vars, sendVars
<1> QED BY <1>1, <1>2, <1>3, <1>4, QuietKeeps

\* The next number is filed behind the others.
LEMMA TrackKeeps ==
  ASSUME IInv, FlowInv, Track
  PROVE  FlowInv'
<1>1. PICK x \in Ids :
        /\ fate[x] = "none" /\ (x > 1 => fate[x - 1] # "none")
        /\ list' = Append(list, x) /\ fate' = [fate EXCEPT ![x] = "listed"]
  BY DEF Track, Linked
<1>2. /\ UNCHANGED <<local, sending, sPc, pc, ringVars>> /\ pc # "budget"
      /\ fate \in [Ids -> Fates] /\ list \in Seq(Ids) /\ Row(list)
  BY DEF Track, Unlocked, messageVars, sendVars, IInv, TypeOK, FlowInv, ListFlow
<1>3. fate'[x] = "listed" /\ \A i \in Ids : i # x => fate'[i] = fate[i]
  BY <1>1, <1>2
<1>4. ASSUME Len(list) > 0 PROVE x = list[1] + Len(list)
  <2> DEFINE l == list[1] + Len(list) - 1
  <2>1. l \in Ids /\ fate[l] = "listed" /\ l \in Nat
    <3>1. Len(list) \in DOMAIN list /\ Len(list) \in Nat
      BY <1>2, <1>4
    <3>2. list[Len(list)] = l /\ list[Len(list)] \in Ids /\ Within(list, list[Len(list)])
      BY <1>2, <3>1, RowHas DEF Row
    <3> QED BY <3>2, IdsNat DEF FlowInv, ListFlow
  <2> HIDE DEF l
  <2>2. x \in Nat /\ x > l
    BY <1>1, <2>1, IdsNat DEF FlowInv, Tracked
  <2>3. x - 1 \in Ids /\ fate[x - 1] # "none"
    <3>1. x > 1 /\ x \in Nat /\ x <= MaxReports /\ MaxReports \in Nat
      BY <1>1, <2>1, <2>2, IdsNat, ReportingAssumption DEF Ids
    <3>2. x - 1 \in 1..MaxReports
      BY <3>1
    <3> QED BY <1>1, <3>1, <3>2 DEF Ids
  <2>4. x - 1 > l => fate[x - 1] = "listed"
    BY <2>1, <2>3 DEF FlowInv, InOrder
  <2>7. list[1] \in Nat /\ Len(list) \in Nat
    <3>1. 1 \in 1..Len(list) /\ Len(list) \in Nat
      BY <1>2, <1>4
    <3>2. list[1] \in Ids
      BY <1>2, <3>1
    <3> QED BY <3>1, <3>2, IdsNat
  <2>5. fate[x - 1] = "listed" => x - 1 <= l
    <3>1. fate[x - 1] = "listed" => Within(list, x - 1)
      BY <2>3 DEF FlowInv, ListFlow
    <3> QED BY <2>2, <3>1, <2>7 DEF Within, l
  <2>6. list[1] + Len(list) = l + 1
    BY <2>7 DEF l
  <2> QED BY <2>1, <2>2, <2>4, <2>5, <2>6
<1>5. Row(list') /\ \A i \in Ids : Within(list', i) <=> Within(list, i) \/ i = x
  BY <1>1, <1>2, <1>4, RowAppend
<1>6. ListFlow'
  BY <1>2, <1>3, <1>5 DEF FlowInv, ListFlow, Row, Within
<1>7. LocalFlow'
  BY <1>1, <1>2, <1>3, LocalFrame DEF FlowInv
<1>8. QueueFlow'
  <2>1. Contents' = Contents
    BY <1>2 DEF ringVars, Contents, queue_len, At, is_null
  <2> QED BY <1>1, <1>2, <1>3, <2>1, QueueFrame DEF FlowInv, QueueFlow
<1>9. SendFlow'
  BY <1>1, <1>2, <1>3, SendFrame DEF FlowInv
<1>10. Tracked'
  <2>1. ASSUME NEW i \in Ids, i < x PROVE fate[i] # "none"
    <3>1. CASE i = x - 1
      BY <1>1, <2>1, <3>1, IdsNat
    <3>2. CASE i < x - 1
      <4>1. x \in Nat /\ i \in Nat \ {0} /\ MaxReports \in Nat /\ x <= MaxReports
        BY <1>1, IdsNat, ReportingAssumption DEF Ids
      <4>2. x > 1 /\ x - 1 \in 1..MaxReports
        BY <4>1, <2>1
      <4> QED BY <1>1, <3>2, <4>2 DEF FlowInv, Tracked, Ids
    <3> QED BY <1>1, <2>1, <3>1, <3>2, IdsNat
  <2> QED BY <1>1, <1>3, <2>1 DEF FlowInv, Tracked
<1>11. InOrder'
  <2>1. \A j \in Ids : x < j => fate[j] = "none"
    BY <1>1 DEF FlowInv, Tracked
  <2> QED BY <1>1, <1>3, <2>1, IdsNat DEF FlowInv, InOrder
<1> QED BY <1>6, <1>7, <1>8, <1>9, <1>10, <1>11 DEF FlowInv

\* The cleaner loses what is listed, and nothing else.
LEMMA CleanKeeps ==
  ASSUME IInv, FlowInv, Clean
  PROVE  FlowInv'
<1>1. /\ UNCHANGED <<local, sending, sPc, pc, ringVars>> /\ pc # "budget" /\ list' = << >>
      /\ \A i \in Ids : fate'[i] = IF fate[i] = "listed" THEN "lost" ELSE fate[i]
  BY DEF Clean, Unlocked, messageVars, sendVars
<1>2. Row(<< >>) /\ \A i : ~Within(<< >>, i)
  BY DEF Row, Within
<1>3. ListFlow'
  BY <1>1, <1>2 DEF FlowInv, ListFlow, Row, Within
<1>4. LocalFlow'
  BY <1>1, LocalFrame DEF FlowInv
<1>5. QueueFlow'
  <2>1. Contents' = Contents
    BY <1>1 DEF ringVars, Contents, queue_len, At, is_null
  <2> QED BY <1>1, <2>1, QueueFrame DEF FlowInv, QueueFlow
<1>6. SendFlow'
  BY <1>1, SendFrame DEF FlowInv
<1>7. Tracked' /\ InOrder'
  BY <1>1 DEF FlowInv, Tracked, InOrder
<1> QED BY <1>3, <1>4, <1>5, <1>6, <1>7 DEF FlowInv

\* The lowest listed number goes behind the local ones, which it follows.
LEMMA TakeFlow ==
  ASSUME IInv, FlowInv, Take
  PROVE  FlowInv'
<1> DEFINE x == Head(list)
<1>1. /\ list # << >> /\ pc = "budget" /\ pc' = pc /\ UNCHANGED <<sending, sPc, ringVars>>
      /\ local' = Append(local, x) /\ list' = Tail(list)
      /\ fate' = [fate EXCEPT ![x] = "taken"]
  BY DEF Take, TakeLeaving, sendVars
<1>2. /\ list \in Seq(Ids) /\ local \in Seq(Ids) /\ fate \in [Ids -> Fates]
      /\ Row(list) /\ Row(local) /\ Len(list) > 0 /\ Len(local) \in Nat
  BY <1>1 DEF IInv, TypeOK, FlowInv, ListFlow
<1>3. /\ Row(list') /\ \A i \in Ids : Within(list', i) <=> Within(list, i) /\ i # x
      /\ Len(list') > 0 => list'[1] = x + 1
      /\ x = list[1] /\ x \in Ids /\ Within(list, x)
  BY <1>1, <1>2, RowTail
<1> HIDE DEF x
<1>4. /\ Row(local') /\ \A i \in Ids : Within(local', i) <=> Within(local, i) \/ i = x
      /\ local'[1] + Len(local') = x + 1
  <2>1. Len(local) > 0 => x = local[1] + Len(local)
    BY <1>1, <1>2, <1>3 DEF FlowInv, ListFlow
  <2> QED BY <1>1, <1>2, <1>3, <2>1, RowAppend
<1>5. fate[x] = "listed" /\ fate'[x] = "taken" /\ \A i \in Ids : i # x => fate'[i] = fate[i]
  BY <1>1, <1>2, <1>3 DEF FlowInv, ListFlow
<1>6. ListFlow'
  <2>1. \A i \in Ids : fate'[i] = "listed" <=> Within(list', i)
    BY <1>3, <1>5 DEF FlowInv, ListFlow
  <2>2. Len(list') > 0 => list'[1] = local'[1] + Len(local')
    BY <1>3, <1>4
  <2> QED BY <1>3, <1>4, <2>1, <2>2 DEF ListFlow, Row, Within
<1>7. LocalFlow'
  BY <1>4, <1>5 DEF FlowInv, LocalFlow, Within
<1>8. QueueFlow'
  <2>1. Contents' = Contents
    BY <1>1 DEF ringVars, Contents, queue_len, At, is_null
  <2>2. ASSUME NEW j \in DOMAIN Contents, NEW i \in Ids, NEW h \in Ids,
               Carries(Contents[j], i), Within(local', h)
        PROVE  i < h
    <3>1. CASE Within(local, h)
      BY <2>2, <3>1 DEF FlowInv, QueueFlow
    <3>2. CASE h = x
      <4>1. fate[i] \in {"queued", "omitted"}
        BY <2>2 DEF FlowInv, QueueFlow
      <4> QED BY <1>3, <1>5, <3>2, <4>1, IdsNat DEF FlowInv, InOrder
    <3> QED BY <1>4, <2>2, <3>1, <3>2
  <2> QED BY <1>5, <2>1, <2>2, QueueFrame DEF FlowInv
<1>9. SendFlow'
  BY <1>1, <1>5, SendFrame DEF FlowInv
<1>10. Tracked' /\ InOrder'
  <2>1. \A i \in Ids : fate[i] = "listed" => x <= i
    BY <1>3 DEF FlowInv, ListFlow, Within
  <2> QED BY <1>3, <1>5, <2>1, IdsNat DEF FlowInv, Tracked, InOrder
<1> QED BY <1>6, <1>7, <1>8, <1>9, <1>10 DEF FlowInv

\* A record written, or left out.
LEMMA WriteFlow ==
  ASSUME IInv, FlowInv, Write
  PROVE  FlowInv'
<1> DEFINE x == local[at]
<1>1. /\ UNCHANGED <<list, local, sending, sPc, pc, ringVars>> /\ pc = "write"
      /\ fate' = fate \/ fate' = [fate EXCEPT ![x] = "omitted"]
  BY DEF Write, listVars, sendVars
<1>2. x \in Ids /\ fate[x] \in {"taken", "omitted"} /\ fate \in [Ids -> Fates]
  <2>1. local \in Seq(Ids) /\ Row(local) /\ at \in DOMAIN local /\ fate \in [Ids -> Fates]
    BY DEF Write, IInv, TypeOK, Budget, FlowInv, ListFlow
  <2> QED BY <2>1, RowHas DEF FlowInv, LocalFlow
<1> HIDE DEF x
<1>3. \A i \in Ids : fate'[i] = fate[i] \/ (i = x /\ fate'[i] = "omitted")
  BY <1>1, <1>2
<1>4. Contents' = Contents
  BY <1>1 DEF ringVars, Contents, queue_len, At, is_null
<1>5. ListFlow'
  BY <1>1, <1>2, <1>3, ListFrame DEF FlowInv
<1>6. LocalFlow'
  BY <1>1, <1>2, <1>3 DEF FlowInv, LocalFlow, Within
<1>7. QueueFlow'
  BY <1>1, <1>2, <1>3, <1>4, QueueFrame DEF FlowInv, QueueFlow
<1>8. SendFlow'
  BY <1>1, <1>2, <1>3, SendFrame DEF FlowInv
<1>9. Tracked' /\ InOrder'
  BY <1>2, <1>3 DEF FlowInv, Tracked, InOrder
<1> QED BY <1>5, <1>6, <1>7, <1>8, <1>9 DEF FlowInv

LEMMA QueueIs ==
  ASSUME NEW D, Contents' = D,
         \A i \in Ids : fate'[i] = "queued" => \E j \in DOMAIN D : Carries(D[j], i),
         \A j \in DOMAIN D, i \in Ids : Carries(D[j], i) => fate'[i] \in {"queued", "omitted"},
         \A j, k \in DOMAIN D, i, h \in Ids :
           j < k /\ Carries(D[j], i) /\ Carries(D[k], h) => i < h,
         \A j \in DOMAIN D, i, h \in Ids : Carries(D[j], i) /\ Within(local', h) => i < h
  PROVE  QueueFlow'
<1>1. \A m, i : Carries(m, i)' = Carries(m, i)
  BY DEF Carries
<1> QED BY <1>1 DEF QueueFlow

\* The contents of the ring are packets; one put behind them is the last.
LEMMA Behind ==
  ASSUME RingIInv, NEW p
  PROVE  /\ DOMAIN Append(Contents, p) = 1..(Len(Contents) + 1)
         /\ DOMAIN Contents = 1..Len(Contents) /\ Len(Contents) \in Nat
         /\ \A j \in DOMAIN Contents : Append(Contents, p)[j] = Contents[j]
         /\ Append(Contents, p)[Len(Contents) + 1] = p
<1>1. Contents \in Seq(Packet)
  BY ContentsSeq
<1> QED BY <1>1

\* Another caller's packet carries no object.
LEMMA OtherFlow ==
  ASSUME IInv, FlowInv, Other
  PROVE  FlowInv'
<1>1. PICK p \in Others : addpkt(p)
  BY DEF Other
<1>2. UNCHANGED <<fate, list, local, sending, sPc, pc>> /\ RingIInv /\ p \in Packet
  BY ReportingAssumption DEF Other, listVars, messageVars, sendVars, IInv, TypeOK, RingIInv
<1>3. \A i : ~Carries(p, i)
  BY ReportingAssumption DEF Carries
<1>4. CASE Contents' = Contents
  BY <1>2, <1>4, QuietKeeps
<1>5. CASE Contents' = Append(Contents, p)
  <2> DEFINE D == Append(Contents, p)
  <2>1. \A j \in DOMAIN D, i \in Ids :
          Carries(D[j], i) => j \in DOMAIN Contents /\ Carries(Contents[j], i)
    BY <1>2, <1>3, Behind
  <2>2. DOMAIN Contents \subseteq DOMAIN D /\ \A j \in DOMAIN Contents : D[j] = Contents[j]
    BY <1>2, Behind
  <2>3. Contents' = D /\ \A h : Within(local', h) = Within(local, h)
    BY <1>2, <1>5
  <2> HIDE DEF D
  <2>4. \A i \in Ids : fate'[i] = "queued" => \E j \in DOMAIN D : Carries(D[j], i)
    BY <1>2, <2>2 DEF FlowInv, QueueFlow
  <2>5. \A j \in DOMAIN D, i \in Ids : Carries(D[j], i) => fate'[i] \in {"queued", "omitted"}
    BY <1>2, <2>1 DEF FlowInv, QueueFlow
  <2>6. \A j, k \in DOMAIN D, i, h \in Ids :
          j < k /\ Carries(D[j], i) /\ Carries(D[k], h) => i < h
    BY <2>1 DEF FlowInv, QueueFlow
  <2>7. \A j \in DOMAIN D, i, h \in Ids : Carries(D[j], i) /\ Within(local', h) => i < h
    BY <2>1, <2>3 DEF FlowInv, QueueFlow
  <2>8. QueueFlow'
    BY <2>3, <2>4, <2>5, <2>6, <2>7, QueueIs
  <2> QED BY <1>2, <2>8, ListFrame, LocalFrame, SendFrame DEF FlowInv, Tracked, InOrder
<1> QED BY <1>1, <1>2, <1>4, <1>5, PutEffect

\* A message carries what is on the local list.
LEMMA PackedCarries ==
  ASSUME TypeOK, Row(local), NEW i \in Ids
  PROVE  Carries(Packed, i) <=> Within(local, i)
<1>1. Packed \in Message /\ i \in Nat \ {0}
  BY PackedIsPacket, IdsNat
<1>2. CASE local = << >>
  <2>1. Packed.first = 1 /\ Packed.last = 0 /\ Len(local) = 0
    BY <1>2 DEF Packed
  <2> QED BY <1>1, <2>1 DEF Carries, Within
<1>3. CASE local # << >>
  <2>1. local \in Seq(Ids) /\ Len(local) \in Nat \ {0} /\ Len(local) \in DOMAIN local /\ 1 \in DOMAIN local
    BY <1>3 DEF TypeOK
  <2>2. local[1] \in Ids /\ local[Len(local)] = local[1] + Len(local) - 1
    BY <2>1 DEF Row
  <2>3. local[1] \in Nat
    BY <2>2, IdsNat
  <2>4. Packed.first = local[1] /\ Packed.last = local[1] + Len(local) - 1
    BY <1>3, <2>2 DEF Packed
  <2> QED BY <1>1, <2>1, <2>3, <2>4 DEF Carries, Within
<1> QED BY <1>2, <1>3

\* The message goes behind the queued ones, or is lost with all it carries.
LEMMA HandFlow ==
  ASSUME IInv, FlowInv, Hand
  PROVE  FlowInv'
<1> DEFINE p == Packed
           new == IF ret' = pkt_Queue_SUCCESS THEN "queued" ELSE "lost"
<1>1. /\ addpkt(p) /\ p \in Packet /\ RingIInv /\ UNCHANGED <<list, sending, sPc>>
      /\ local' = << >> /\ pc' = "idle" /\ TypeOK /\ Row(local)
      /\ \A i \in Ids : fate'[i] = IF fate[i] = "taken" THEN new ELSE fate[i]
  BY PackedIsPacket DEF Hand, Release, sendVars, IInv, RingIInv, TypeOK, FlowInv, ListFlow
<1>2. \A i \in Ids : Carries(p, i) <=> Within(local, i)
  BY <1>1, PackedCarries
<1>3. new \in {"queued", "lost"} /\ Row(<< >>) /\ \A h : ~Within(local', h)
  BY <1>1 DEF Row, Within
<1> HIDE DEF p, new
<1>4. ListFlow'
  BY <1>1, <1>3 DEF FlowInv, ListFlow, Row, Within
<1>5. LocalFlow'
  BY <1>1, <1>3 DEF FlowInv, LocalFlow, Within
<1>6. SendFlow'
  BY <1>1, <1>3, SendFrame DEF FlowInv
<1>7. Tracked' /\ InOrder'
  BY <1>1, <1>3 DEF FlowInv, Tracked, InOrder
<1>8. QueueFlow'
  <2>1. CASE new = "lost" /\ Contents' = Contents
    BY <1>1, <1>3, <2>1, QueueFrame DEF FlowInv
  <2>2. CASE new = "queued" /\ Contents' = Append(Contents, p)
    <3> DEFINE D == Append(Contents, p)
               L == Len(Contents) + 1
    <3>1. /\ Contents' = D /\ L \in DOMAIN D /\ D[L] = p
          /\ DOMAIN Contents \subseteq DOMAIN D /\ \A j \in DOMAIN Contents : D[j] = Contents[j]
          /\ \A j \in DOMAIN D : j \in DOMAIN Contents \/ j = L
          /\ \A j \in DOMAIN D : ~(L < j)
      BY <1>1, <2>2, Behind
    <3> HIDE DEF D, L
    <3>2. \A i \in Ids : fate'[i] = "queued" => \E j \in DOMAIN D : Carries(D[j], i)
      BY <1>1, <1>2, <3>1 DEF FlowInv, QueueFlow, LocalFlow
    <3>3. \A j \in DOMAIN D, i \in Ids : Carries(D[j], i) => fate'[i] \in {"queued", "omitted"}
      BY <1>1, <1>2, <2>2, <3>1 DEF FlowInv, QueueFlow, LocalFlow
    <3>4. \A j, k \in DOMAIN D, i, h \in Ids :
            j < k /\ Carries(D[j], i) /\ Carries(D[k], h) => i < h
      BY <1>2, <3>1 DEF FlowInv, QueueFlow
    <3> QED BY <1>3, <3>1, <3>2, <3>3, <3>4, QueueIs
  <2> QED BY <1>1, <2>1, <2>2, PutEffect DEF new
<1> QED BY <1>4, <1>5, <1>6, <1>7, <1>8 DEF FlowInv

\* The oldest message leaves; what it carries goes before all that is queued.
LEMMA GetFlow ==
  ASSUME IInv, FlowInv, Get
  PROVE  FlowInv'
<1> DEFINE m == Head(Contents)
<1>1. UNCHANGED <<list, local, pc>> /\ sPc = "get" /\ RingIInv /\ get_pkt /\ sending = Nothing
  BY DEF Get, listVars, messageVars, IInv, RingIInv, TypeOK, FlowInv, SendFlow
<1>2. CASE ret' = Nothing /\ Contents' = Contents
  BY <1>1, <1>2, QuietKeeps DEF Get
<1>3. CASE Contents # << >> /\ ret' = m /\ ret' \in Packet /\ Contents' = Tail(Contents)
  <2>1. /\ sPc' = "send" /\ sending' = m
        /\ \A i \in Ids : fate'[i] = IF fate[i] = "queued" /\ Carries(m, i) THEN "sending" ELSE fate[i]
    BY <1>3, PacketAssumption DEF Get
  <2>2. \A i \in Ids : fate[i] # "sending"
    <3>1. \A i : ~Carries(Nothing, i)
      BY ReportingAssumption, PacketAssumption DEF Carries
    <3> QED BY <1>1, <3>1 DEF FlowInv, SendFlow
  <2> DEFINE D == Tail(Contents)
  <2>3. /\ Contents' = D /\ DOMAIN Contents = 1..Len(Contents) /\ Len(Contents) \in Nat \ {0}
        /\ DOMAIN D = 1..(Len(Contents) - 1) /\ \A j \in DOMAIN D : D[j] = Contents[j + 1]
        /\ m = Contents[1]
    <3>1. Contents \in Seq(Packet)
      BY <1>1, ContentsSeq
    <3> QED BY <1>3, <3>1
  <2> HIDE DEF D, m
  <2>4. \A j \in DOMAIN D : j + 1 \in DOMAIN Contents /\ 1 < j + 1 /\ 1 \in DOMAIN Contents
    BY <2>3
  <2>5. \A i \in Ids : Carries(m, i) => fate[i] \in {"queued", "omitted"}
    BY <2>3 DEF FlowInv, QueueFlow
  <2>6. \A i, h \in Ids : Carries(m, i) /\ fate[h] = "queued" /\ ~Carries(m, h) => i < h
    <3>1. \A h \in Ids : fate[h] = "queued" /\ ~Carries(m, h)
                         => \E k \in DOMAIN Contents : 1 < k /\ Carries(Contents[k], h)
      BY <2>3 DEF FlowInv, QueueFlow
    <3>2. 1 \in DOMAIN Contents
      BY <2>3
    <3> QED BY <2>3, <3>1, <3>2 DEF FlowInv, QueueFlow
  <2>7. ListFlow' /\ LocalFlow'
    BY <1>1, <2>1, ListFrame, LocalFrame DEF FlowInv
  <2>8. SendFlow'
    BY <2>1, <2>2, <2>5 DEF SendFlow, Carries
  <2>9. Tracked'
    BY <2>1 DEF FlowInv, Tracked
  <2>10. InOrder'
    <3> SUFFICES ASSUME NEW i \in Ids, NEW j \in Ids, i < j
                 PROVE  /\ fate'[i] = "listed" => fate'[j] \in {"none", "listed"}
                        /\ fate'[i] = "taken" => fate'[j] \notin {"queued", "sending", "sent"}
                        /\ fate'[i] = "queued" => fate'[j] \notin {"sending", "sent"}
                        /\ fate'[i] = "sending" => fate'[j] # "sent"
      BY DEF InOrder
    <3>1. ~(Carries(m, j) /\ fate[i] = "queued" /\ ~Carries(m, i))
      BY <2>6, IdsNat
    <3> QED BY <2>1, <2>2, <3>1 DEF FlowInv, InOrder
  <2>11. QueueFlow'
    <3>1. \A j \in DOMAIN D, i \in Ids : Carries(D[j], i) => ~Carries(m, i)
      <4> SUFFICES ASSUME NEW j \in DOMAIN D, NEW i \in Ids, Carries(D[j], i), Carries(m, i)
                   PROVE  FALSE
        OBVIOUS
      <4>1. i < i
        BY <2>3, <2>4 DEF FlowInv, QueueFlow
      <4> QED BY <4>1, IdsNat
    <3>2. \A i \in Ids : fate'[i] = "queued" => \E j \in DOMAIN D : Carries(D[j], i)
      <4> SUFFICES ASSUME NEW i \in Ids, fate'[i] = "queued"
                   PROVE  \E j \in DOMAIN D : Carries(D[j], i)
        OBVIOUS
      <4>1. PICK k \in DOMAIN Contents : Carries(Contents[k], i)
        BY <2>1 DEF FlowInv, QueueFlow
      <4>2. k # 1
        BY <2>1, <2>3, <4>1
      <4>3. k - 1 \in DOMAIN D /\ (k - 1) + 1 = k
        BY <2>3, <4>2
      <4> QED BY <2>3, <4>1, <4>3
    <3>3. \A j \in DOMAIN D, i \in Ids : Carries(D[j], i) => fate'[i] \in {"queued", "omitted"}
      BY <2>1, <2>3, <2>4, <3>1 DEF FlowInv, QueueFlow
    <3>4. \A j, k \in DOMAIN D, i, h \in Ids :
            j < k /\ Carries(D[j], i) /\ Carries(D[k], h) => i < h
      <4>1. \A j, k \in DOMAIN D : j < k => j + 1 < k + 1
        BY <2>3
      <4> QED BY <2>3, <2>4, <4>1 DEF FlowInv, QueueFlow
    <3>5. \A j \in DOMAIN D, i, h \in Ids : Carries(D[j], i) /\ Within(local', h) => i < h
      BY <1>1, <2>3, <2>4 DEF FlowInv, QueueFlow, Within
    <3> QED BY <2>3, <3>2, <3>3, <3>4, <3>5, QueueIs
  <2> QED BY <2>7, <2>8, <2>9, <2>10, <2>11 DEF FlowInv
<1> QED BY <1>1, <1>2, <1>3, GetEffect

\* The packet in hand is sent or lost.
LEMMA SendToFlow ==
  ASSUME IInv, FlowInv, SendTo
  PROVE  FlowInv'
<1>1. /\ UNCHANGED <<list, local, pc, ringVars>> /\ sPc' = "look" /\ sending' = Nothing
      /\ \/ \A i \in Ids : fate'[i] = IF fate[i] = "sending" THEN "sent" ELSE fate[i]
         \/ \A i \in Ids : fate'[i] = IF fate[i] = "sending" THEN "lost" ELSE fate[i]
  BY DEF SendTo, listVars, messageVars
<1>2. Contents' = Contents
  BY <1>1 DEF ringVars, Contents, queue_len, At, is_null
<1>3. ListFlow' /\ LocalFlow'
  BY <1>1, ListFrame, LocalFrame DEF FlowInv
<1>4. QueueFlow'
  BY <1>1, <1>2, QueueFrame DEF FlowInv, QueueFlow
<1>5. SendFlow'
  <2>1. \A i : ~Carries(Nothing, i)
    BY ReportingAssumption, PacketAssumption DEF Carries
  <2> QED BY <1>1, <2>1 DEF SendFlow, Carries
<1>6. Tracked' /\ InOrder'
  BY <1>1 DEF FlowInv, Tracked, InOrder
<1> QED BY <1>3, <1>4, <1>5, <1>6 DEF FlowInv

\* The queue is freed with all that is in it.
LEMMA FreeFlow ==
  ASSUME IInv, FlowInv, Free
  PROVE  FlowInv'
<1>1. /\ UNCHANGED <<list, local, pc, sPc, sending>> /\ Contents' = << >>
      /\ \A i \in Ids : fate'[i] = IF fate[i] = "queued" THEN "lost" ELSE fate[i]
  BY FreeEffect DEF Free, listVars, messageVars, sendVars
<1>2. ListFlow' /\ LocalFlow'
  BY <1>1, ListFrame, LocalFrame DEF FlowInv
<1>3. QueueFlow'
  BY <1>1 DEF QueueFlow
<1>4. SendFlow'
  BY <1>1, SendFrame DEF FlowInv
<1>5. Tracked' /\ InOrder'
  BY <1>1 DEF FlowInv, Tracked, InOrder
<1> QED BY <1>2, <1>3, <1>4, <1>5 DEF FlowInv

LEMMA FlowInit == Init => FlowInv
<1> SUFFICES ASSUME Init PROVE FlowInv
  OBVIOUS
<1>1. Contents = << >>
  BY RingInitIInv, ContentsSeq DEF Init, RingInit, is_null
<1>2. list = << >> /\ local = << >> /\ sending = Nothing /\ \A i \in Ids : fate[i] = "none"
  BY DEF Init
<1>3. \A i : ~Carries(Nothing, i)
  BY ReportingAssumption, PacketAssumption DEF Carries
<1>4. ListFlow /\ LocalFlow
  BY <1>2 DEF ListFlow, LocalFlow, Row, Within
<1>5. QueueFlow
  BY <1>1, <1>2 DEF QueueFlow
<1>6. SendFlow /\ Tracked /\ InOrder
  BY <1>2, <1>3 DEF SendFlow, Tracked, InOrder
<1> QED BY <1>4, <1>5, <1>6 DEF FlowInv

\* The inductive invariant of an object's way from the list to the socket.
THEOREM FlowInvariance == Spec => []FlowInv
<1>1. ASSUME IInv, FlowInv, [Next]_vars PROVE FlowInv'
  <2>1. CASE Find \/ Update \/ Poll \/ Lock \/ Cut \/ Count \/ Look \/ Shutdown \/ UNCHANGED vars
    BY <1>1, <2>1, QuietSteps
  <2>2. CASE Track \/ Clean
    BY <1>1, <2>2, TrackKeeps, CleanKeeps
  <2>3. CASE Take \/ Write \/ Hand
    BY <1>1, <2>3, TakeFlow, WriteFlow, HandFlow
  <2>4. CASE Other \/ Get \/ SendTo \/ Free
    BY <1>1, <2>4, OtherFlow, GetFlow, SendToFlow, FreeFlow
  <2> QED BY <1>1, <2>1, <2>2, <2>3, <2>4 DEF Next, Reporter, Sender
<1> QED BY FlowInit, Invariance, <1>1, PTL DEF Spec

\* Objects leave in the order they were filed, however many there are and
\* however long the queue.
THEOREM Ordered == Spec => []InOrder
<1>1. FlowInv => InOrder
  BY DEF FlowInv
<1> QED BY <1>1, FlowInvariance, PTL

\* No object is lost between two stages: each is in the one place its fate names,
\* for every number of objects and every length of the queue.
THEOREM Conserved == Spec => []NoneVanishes
<1>1. ASSUME IInv, FlowInv, NEW i \in Ids
      PROVE  LET Queued == {j \in DOMAIN Contents : Carries(Contents[j], i)}
             IN  /\ Cardinality({j \in DOMAIN list : list[j] = i}) = IF fate[i] = "listed" THEN 1 ELSE 0
                 /\ fate[i] = "taken" => i \in ToSet(local)
                 /\ fate[i] = "queued" => Cardinality(Queued) = 1
                 /\ Queued # {} => fate[i] \in {"queued", "omitted"}
                 /\ fate[i] = "sending" <=> Carries(sending, i) /\ fate[i] # "omitted"
  <2> DEFINE Queued == {j \in DOMAIN Contents : Carries(Contents[j], i)}
             Listed == {j \in DOMAIN list : list[j] = i}
  <2>1. list \in Seq(Ids) /\ Row(list) /\ local \in Seq(Ids) /\ Row(local) /\ RingIInv
    BY <1>1 DEF IInv, TypeOK, RingIInv, FlowInv, ListFlow
  <2>2. ASSUME fate[i] = "listed" PROVE Cardinality(Listed) = 1
    <3>1. Within(list, i)
      BY <1>1, <2>2 DEF FlowInv, ListFlow
    <3>2. Listed = {i - list[1] + 1}
      BY <2>1, <3>1, RowHas
    <3> QED BY <3>2, FS_Singleton
  <2>3. ASSUME fate[i] # "listed" PROVE Cardinality(Listed) = 0
    <3>1. Listed = {}
      BY <1>1, <2>1, <2>3, RowHas DEF FlowInv, ListFlow
    <3> QED BY <3>1, FS_EmptySet
  <2>4. fate[i] = "taken" => i \in ToSet(local)
    BY <1>1, <2>1, RowHas DEF FlowInv, LocalFlow, ToSet
  <2>5. fate[i] = "queued" => Cardinality(Queued) = 1
    <3> SUFFICES ASSUME fate[i] = "queued" PROVE Cardinality(Queued) = 1
      OBVIOUS
    <3>1. PICK j \in Queued : TRUE
      BY <1>1 DEF FlowInv, QueueFlow
    <3>2. DOMAIN Contents \subseteq Nat
      <4>1. Contents \in Seq(Packet)
        BY <2>1, ContentsSeq
      <4> QED BY <4>1
    <3>3. \A k \in Queued : ~(j < k) /\ ~(k < j)
      <4>1. \A k, l \in Queued : k < l => i < i
        BY <1>1 DEF FlowInv, QueueFlow
      <4>2. ~(i < i)
        BY IdsNat
      <4> QED BY <3>1, <4>1, <4>2
    <3>4. Queued = {j}
      BY <3>1, <3>2, <3>3
    <3> QED BY <3>4, FS_Singleton
  <2>6. /\ Queued # {} => fate[i] \in {"queued", "omitted"}
        /\ fate[i] = "sending" <=> Carries(sending, i) /\ fate[i] # "omitted"
    BY <1>1 DEF FlowInv, QueueFlow, SendFlow
  <2> QED BY <2>2, <2>3, <2>4, <2>5, <2>6
<1>2. IInv /\ FlowInv => NoneVanishes
  BY <1>1 DEF NoneVanishes
<1> QED BY <1>2, Invariance, FlowInvariance, PTL
=============================================================================
