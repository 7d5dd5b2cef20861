------------------------ MODULE CommunicationProofs ------------------------
(***************************************************************************)
(* Proofs about Communication, for queues of every length and whatever     *)
(* strays arrive: what pkt_type holds was received, also when it is left   *)
(* over from an earlier packet or read back from the stack.                *)
(***************************************************************************)
EXTENDS Communication, ListFacts

\* Every place a packet type is kept holds one that was received.
AskInv ==
  /\ comm \in Handled => comm \in asked
  /\ type \in Handled => type \in asked
  /\ built \subseteq asked
  /\ ToSet(sendq) \cap Polls \subseteq asked

IInv == TypeOK /\ AskInv

\* addpkt keeps the bound and adds nothing but the packet.
LEMMA EnqueueKeeps ==
  ASSUME NEW S, NEW q \in Seq(S), Len(q) <= QLen, NEW x \in S
  PROVE  /\ Enqueue(q, x) \in Seq(S) /\ Len(Enqueue(q, x)) <= QLen
         /\ ToSet(Enqueue(q, x)) \subseteq ToSet(q) \cup {x}
<1>1. CASE Len(q) < QLen
  <2>1. Len(Append(q, x)) = Len(q) + 1
    OBVIOUS
  <2> QED BY <1>1, <2>1, AppendList, QLenAssumption, ListElements DEF Enqueue
<1>2. CASE ~(Len(q) < QLen)
  BY <1>2 DEF Enqueue
<1> QED BY <1>1, <1>2

LEMMA InitIInv == Init => IInv
<1> SUFFICES ASSUME Init PROVE IInv
  OBVIOUS
<1>1. sendq = << >> /\ recvq = << >> /\ Len(<< >>) <= QLen
  BY QLenAssumption DEF Init
<1>2. TypeOK
  <2>1. sendq \in Seq(Polls \cup {"request_to_join"}) /\ recvq \in Seq(Packet)
    BY <1>1
  <2>2. air \subseteq FromGateway /\ built \subseteq Polls
    BY DEF Init
  <2>3. asked \subseteq Handled \cup {"request_to_join", "unparsable"}
    BY DEF Init
  <2> QED BY <1>1, <2>1, <2>2, <2>3 DEF Init, TypeOK, Addresses
<1>3. AskInv
  BY <1>1, EmptyList DEF Init, AskInv, Handled, Polls
<1> QED BY <1>2, <1>3 DEF IInv

\* The packets of the gateway, and what may be read from the stack.
LEMMA Texts ==
  /\ FromGateway \subseteq Packet
  /\ built \subseteq Polls => Leftover \subseteq Packet
<1>1. ASSUME NEW d \in {"from_gateway", "from_beacon", "unparsable"},
             NEW t \in Handled \cup {"request_to_join", "unparsable"}
      PROVE  Text(d, t) \in Packet
  BY DEF Text, Packet
<1>2. NoText \in Packet
  BY DEF NoText, Packet
<1> QED BY <1>1, <1>2 DEF FromGateway, Leftover, Handled, Polls

LEMMA SendKeeps == IInv /\ Send => IInv'
<1> SUFFICES ASSUME IInv, Send PROVE IInv'
  OBVIOUS
<1>1. sendq \in Seq(Polls \cup {"request_to_join"}) /\ sendq # << >>
  BY DEF IInv, TypeOK, Send
<1>2. /\ sendq' \in Seq(Polls \cup {"request_to_join"}) /\ Len(sendq') <= QLen
      /\ ToSet(sendq') \subseteq ToSet(sendq)
  BY <1>1, TailList, ListElements, QLenAssumption DEF Send, IInv, TypeOK
<1>3. TypeOK'
  BY <1>2 DEF IInv, TypeOK, Send, commVars, mainVars
<1>4. AskInv'
  BY <1>2 DEF IInv, AskInv, Send, commVars
<1> QED BY <1>3, <1>4 DEF IInv

LEMMA ReceiveKeeps ==
  ASSUME IInv, NEW p \in Packet, Receive(p), air' \subseteq air
  PROVE  IInv'
<1>1. recvq' \in Seq(Packet) /\ Len(recvq') <= QLen
  BY EnqueueKeeps DEF IInv, TypeOK, Receive
<1>2. TypeOK'
  BY <1>1 DEF IInv, TypeOK, Receive, commVars, mainVars
<1>3. AskInv'
  BY DEF IInv, AskInv, Receive, commVars
<1> QED BY <1>2, <1>3 DEF IInv

\* A dispatch stores the packet's type, if it has one, or keeps the old.
LEMMA DispatchKeeps ==
  ASSUME IInv, NEW p \in Packet, Dispatch(p)
  PROVE  /\ comm' \in Handled \cup {"get"}
         /\ dir' \in {"from_gateway", "from_beacon", "undefined"}
         /\ type' \in Handled \cup {"request_to_join", "undefined"}
         /\ comm' \in Handled => comm' = type'
         /\ type' = type \/ (p.fields >= 2 /\ type' = p.type)
<1>1. /\ p.dir \in {"from_gateway", "from_beacon", "unparsable"}
      /\ p.type \in Handled \cup {"request_to_join", "unparsable"}
  BY DEF Packet
<1>2. type' = Parsed(p.fields >= 2, p.type, type)
  BY DEF Dispatch, DispatchAs
<1>3. comm' = IF p.fields = 3 /\ dir' = "from_gateway" /\ type' \in Handled THEN type' ELSE "get"
  BY <1>2 DEF Dispatch, DispatchAs
<1>4. dir' \in {"from_gateway", "from_beacon", "undefined"}
  BY <1>1 DEF Dispatch, DispatchAs, Parsed, IInv, TypeOK
<1>5. type' \in Handled \cup {"request_to_join", "undefined"}
  BY <1>1, <1>2 DEF Parsed, IInv, TypeOK
<1>6. type' = type \/ (p.fields >= 2 /\ type' = p.type)
  BY <1>2 DEF Parsed
<1> QED BY <1>3, <1>4, <1>5, <1>6 DEF Handled, Polls

LEMMA CommGetKeeps == IInv /\ CommGet => IInv'
<1> SUFFICES ASSUME IInv, CommGet PROVE IInv'
  OBVIOUS
<1> DEFINE p == Head(recvq)
<1>1. recvq \in Seq(Packet) /\ recvq # << >>
  BY DEF IInv, TypeOK, CommGet
<1>2. p \in Packet /\ recvq' \in Seq(Packet) /\ Len(recvq') <= QLen
  BY <1>1, TailList, ListElements, QLenAssumption DEF CommGet, IInv, TypeOK
<1>3. UNCHANGED <<sendq, addr, main, req, due, joinAir, air, known, built>>
  BY DEF CommGet, mainVars, netVars
<1>4. /\ asked \subseteq asked' /\ asked' \subseteq asked \cup {p.type}
      /\ p.type \in Handled \cup {"request_to_join", "unparsable"}
  BY <1>2 DEF CommGet, Packet
<1>5. /\ comm' \in Handled \cup {"get"}
      /\ dir' \in {"from_gateway", "from_beacon", "undefined"}
      /\ type' \in Handled \cup {"request_to_join", "undefined"}
      /\ comm' \in Handled => comm' = type'
      /\ type' = type \/ type' \in asked'
  <2>1. CASE p.ok
    <3>1. Dispatch(p) /\ asked' = asked \cup (IF p.fields >= 2 THEN {p.type} ELSE {})
      BY <2>1 DEF CommGet
    <3> QED BY <1>2, <3>1, DispatchKeeps
  <2>2. CASE ~p.ok /\ UNCHANGED <<comm, dir, type>>
    BY <2>2 DEF IInv, TypeOK, CommGet, Handled, Polls
  <2>3. CASE ~p.ok /\ \E q \in Leftover : Dispatch(q)
    <3>1. PICK q \in Leftover : Dispatch(q)
      BY <2>3
    <3>2. q \in Packet
      BY Texts DEF IInv, TypeOK
    <3>3. q.fields >= 2 => q.type \in asked
      BY DEF Leftover, NoText, Text, IInv, AskInv
    <3> QED BY <1>4, <3>1, <3>2, <3>3, DispatchKeeps
  <2> QED BY <2>1, <2>2, <2>3 DEF CommGet
<1>6. TypeOK'
  BY <1>2, <1>3, <1>4, <1>5 DEF IInv, TypeOK
<1>7. AskInv'
  BY <1>3, <1>4, <1>5 DEF IInv, AskInv
<1> QED BY <1>6, <1>7 DEF IInv

LEMMA HandlersKeep == IInv /\ (JoinClear \/ JoinCopy \/ Answer) => IInv'
<1> SUFFICES ASSUME IInv, JoinClear \/ JoinCopy \/ Answer PROVE IInv'
  OBVIOUS
<1>1. CASE JoinClear \/ JoinCopy
  <2>1. TypeOK'
    BY <1>1 DEF IInv, TypeOK, JoinClear, JoinCopy, queues, mainVars, netVars, Addresses
  <2>2. AskInv'
    BY <1>1 DEF IInv, AskInv, JoinClear, JoinCopy, queues, mainVars, netVars, Handled, Polls
  <2> QED BY <2>1, <2>2 DEF IInv
<1>2. CASE Answer
  <2>1. comm \in Polls /\ comm \in asked
    BY <1>2 DEF Answer, IInv, AskInv, Handled
  <2>2. /\ sendq' \in Seq(Polls \cup {"request_to_join"}) /\ Len(sendq') <= QLen
        /\ ToSet(sendq') \subseteq ToSet(sendq) \cup {comm}
    BY <1>2, <2>1, EnqueueKeeps DEF Answer, IInv, TypeOK
  <2>3. built' \subseteq built \cup {comm}
    BY <1>2 DEF Answer
  <2>4. TypeOK'
    BY <1>2, <2>1, <2>2, <2>3 DEF IInv, TypeOK, Answer, mainVars, netVars
  <2>5. AskInv'
    BY <1>2, <2>1, <2>2, <2>3 DEF IInv, AskInv, Answer, Handled, Polls
  <2> QED BY <2>4, <2>5 DEF IInv
<1> QED BY <1>1, <1>2

LEMMA MainKeeps == IInv /\ (Main \/ Elapse) => IInv'
<1> SUFFICES ASSUME IInv, Main \/ Elapse PROVE IInv'
  OBVIOUS
<1>1. CASE MainPrepare
  <2>1. req' \in Addresses
    BY <1>1 DEF MainPrepare, IInv, TypeOK
  <2> QED BY <1>1, <2>1 DEF IInv, TypeOK, AskInv, MainPrepare, queues, commVars, netVars
<1>2. CASE MainAdd
  <2>1. /\ sendq' \in Seq(Polls \cup {"request_to_join"}) /\ Len(sendq') <= QLen
        /\ ToSet(sendq') \subseteq ToSet(sendq) \cup {"request_to_join"}
    BY <1>2, EnqueueKeeps DEF MainAdd, IInv, TypeOK
  <2>2. TypeOK'
    BY <1>2, <2>1 DEF IInv, TypeOK, MainAdd, commVars, netVars, Addresses
  <2>3. AskInv'
    BY <1>2, <2>1 DEF IInv, AskInv, MainAdd, commVars, Polls
  <2> QED BY <2>2, <2>3 DEF IInv
<1>3. CASE Elapse
  BY <1>3 DEF IInv, TypeOK, AskInv, Elapse, ElapseIf, queues, commVars, netVars
<1> QED BY <1>1, <1>2, <1>3 DEF Main

LEMMA NetworkKeeps ==
  ASSUME IInv, LoseJoin \/ Lose \/ GatewayJoin \/ GatewayPoll \/ GatewayRestart
  PROVE  IInv'
<1>1. UNCHANGED <<queues, commVars, mainVars, asked, built>>
  BY DEF LoseJoin, Lose, GatewayJoin, GatewayPoll, GatewayRestart
<1>2. air' \subseteq FromGateway
  BY DEF IInv, TypeOK, LoseJoin, Lose, GatewayJoin, GatewayPoll, GatewayRestart, GatewaySends,
         FromGateway, Handled
<1>3. joinAir' \in BOOLEAN /\ known' \in BOOLEAN
  BY DEF IInv, TypeOK, LoseJoin, Lose, GatewayJoin, GatewayPoll, GatewayRestart
<1>4. TypeOK'
  BY <1>1, <1>2, <1>3 DEF IInv, TypeOK, queues, commVars, mainVars
<1>5. AskInv'
  BY <1>1 DEF IInv, AskInv, queues, commVars
<1> QED BY <1>4, <1>5 DEF IInv

LEMMA StepKeeps == IInv /\ [Next]_vars => IInv'
<1>1. IInv /\ UNCHANGED vars => IInv'
  BY DEF vars, queues, commVars, mainVars, netVars, IInv, TypeOK, AskInv
<1>2. IInv /\ (Stray \/ Deliver) => IInv'
  <2> SUFFICES ASSUME IInv, Stray \/ Deliver PROVE IInv'
    OBVIOUS
  <2>1. PICK p \in Packet : Receive(p) /\ air' \subseteq air
    BY Texts, StraysAssumption DEF Stray, Deliver, IInv, TypeOK
  <2> QED BY <2>1, ReceiveKeeps
<1> QED BY <1>1, <1>2, SendKeeps, CommGetKeeps, HandlersKeep, MainKeeps, NetworkKeeps DEF Next, Comm

\* The inductive invariant: whatever the network does, the types the beacon acts on
\* and those of the answers on its stack were received at some time.
THEOREM Invariance == Spec => []IInv
  BY InitIInv, StepKeeps, PTL DEF Spec

\* Queues stay within their length and all variables within their types.
THEOREM TypeCorrect == Spec => []TypeOK
<1>1. IInv => TypeOK
  BY DEF IInv
<1> QED BY <1>1, Invariance, PTL

\* The beacon answers nothing that nobody asked, whatever arrives: no stale
\* pkt_type and no left-over packet text makes it prepare another answer.
THEOREM NothingUnasked == Spec => []AnswersAsked
<1>1. IInv => AnswersAsked
  BY DEF IInv, AskInv, AnswersAsked
<1> QED BY <1>1, Invariance, PTL
=============================================================================
