--------------------------- MODULE Communication ---------------------------
(***************************************************************************)
(* LBeacon and its gateway: the UDP queues, the two socket threads, the    *)
(* communication thread and the join loop of main, over a network that     *)
(* loses, repeats and reorders packets.  The gateway is external: it polls *)
(* the beacons it knows and may restart without them.                      *)
(*                                                                         *)
(* A queue is the bounded queue PktQueue implements.  A step is a critical *)
(* section of a queue's mutex or an access to g_config.local_addr, which   *)
(* the communication thread writes and main reads, without a lock.         *)
(***************************************************************************)
EXTENDS Naturals, Sequences, SequencesExt

CONSTANTS
  QLen,     \* MAX_QUEUE_LENGTH
  Strays    \* packets that may arrive and are not as the gateway sends them

Polls == {"tracked_object_data", "beacon_health_report"}
Handled == Polls \cup {"join_response"}

\* A packet received: whether it decodes to content that matches its hash, how
\* many of the fields direction, type and version are there, and the first two.
Packet ==
  [ok: BOOLEAN, fields: 0..3,
   dir: {"from_gateway", "from_beacon", "unparsable"},
   type: Handled \cup {"request_to_join", "unparsable"}]

Text(dir, type) == [ok |-> TRUE, fields |-> 3, dir |-> dir, type |-> type]
NoText == [ok |-> TRUE, fields |-> 0, dir |-> "unparsable", type |-> "unparsable"]

ASSUME QLenAssumption == QLen \in Nat \ {0}
ASSUME StraysAssumption == Strays \subseteq Packet

VARIABLES
  sendq, recvq,   \* the packet queues
  comm,           \* the communication thread: "get", a handler, or "copy"
  dir, type,      \* its pkt_direction and pkt_type
  addr,           \* g_config.local_addr
  main, req,      \* the join loop, and the address in the request it prepares
  due,            \* the interval since the last request is over
  joinAir, air,   \* in transit: a join request; packets from the gateway
  known,          \* the gateway has the beacon in its map
  asked,          \* history: the types of the packets received
  built           \* history: the types of the answers prepared

queues == <<sendq, recvq>>
commVars == <<comm, dir, type, addr>>
mainVars == <<main, req, due>>
netVars == <<joinAir, air, known>>
vars == <<queues, commVars, mainVars, netVars, asked, built>>

Addresses == {"none", "partial", "own"}

Init ==
  /\ sendq = << >> /\ recvq = << >>
  /\ comm = "get" /\ dir = "undefined" /\ type = "undefined" /\ addr = "none"
  /\ main = "wait" /\ req = "none" /\ due = TRUE
  /\ joinAir = FALSE /\ air = {} /\ known = FALSE
  /\ asked = {} /\ built = {}

-----------------------------------------------------------------------------
(* The queues and the socket threads.                                      *)

\* addpkt: a full queue refuses, and none of its callers looks.
Enqueue(q, m) == IF Len(q) < QLen THEN Append(q, m) ELSE q

\* The send thread; an answer that leaves is of no concern here.
Send ==
  /\ sendq # << >> /\ sendq' = Tail(sendq)
  /\ joinAir' = (joinAir \/ Head(sendq) = "request_to_join")
  /\ UNCHANGED <<recvq, commVars, mainVars, air, known, asked, built>>

\* The receive thread takes a packet from the socket.
Receive(p) ==
  /\ recvq' = Enqueue(recvq, p)
  /\ UNCHANGED <<sendq, commVars, mainVars, joinAir, known, asked, built>>

Stray == \E p \in Strays : Receive(p) /\ UNCHANGED air

-----------------------------------------------------------------------------
(* The communication thread.                                               *)

\* What a field sets: sscanf leaves the variable alone when it fails.
Parsed(there, field, old) == IF there /\ field # "unparsable" THEN field ELSE old

\* A packet with a field missing is dropped, after the fields before it were
\* stored; one from the gateway goes to the handler of pkt_type.
DispatchAs(p, t) ==
  /\ dir' = Parsed(p.fields >= 1, p.dir, dir)
  /\ type' = t
  /\ comm' = IF p.fields = 3 /\ dir' = "from_gateway" /\ t \in Handled THEN t ELSE "get"

Dispatch_ByDefault(p) == DispatchAs(p, Parsed(p.fields >= 2, p.type, "tracked_object_data"))
Dispatch(p) == DispatchAs(p, Parsed(p.fields >= 2, p.type, type))

\* What udp_getrecv returns for a packet that fails the decoding or the hash is
\* not initialised.  It is where the answers were prepared on the stack: it may
\* pass for no packet, for one without text, or for an answer.
Leftover == {NoText} \cup {Text("from_beacon", t) : t \in built}

CommGet ==
  /\ comm = "get" /\ recvq # << >> /\ recvq' = Tail(recvq)
  /\ LET p == Head(recvq) IN
     IF p.ok
     THEN Dispatch(p) /\ asked' = asked \cup (IF p.fields >= 2 THEN {p.type} ELSE {})
     ELSE /\ UNCHANGED <<comm, dir, type>> \/ \E q \in Leftover : Dispatch(q)
          /\ UNCHANGED asked
  /\ UNCHANGED <<sendq, addr, mainVars, netVars, built>>

\* handle_join_response: memset, then strcpy.
JoinClear ==
  /\ comm = "join_response" /\ addr' = "none" /\ comm' = "copy"
  /\ UNCHANGED <<queues, dir, type, mainVars, netVars, asked, built>>

JoinCopy ==
  /\ comm = "copy" /\ addr' = "own" /\ comm' = "get"
  /\ UNCHANGED <<queues, dir, type, mainVars, netVars, asked, built>>

\* The handler of a poll prepares an answer, or gives up: nothing is tracked,
\* or the text does not fit.
Answer ==
  /\ comm \in Polls /\ comm' = "get"
  /\ \/ sendq' = Enqueue(sendq, comm) /\ built' = built \cup {comm}
     \/ UNCHANGED <<sendq, built>>
  /\ UNCHANGED <<recvq, dir, type, addr, mainVars, netVars, asked>>

Comm == CommGet \/ JoinClear \/ JoinCopy \/ Answer

-----------------------------------------------------------------------------
(* The join loop of main.                                                  *)

\* INTERVAL_FOR_RECONNECT_GATEWAY_IN_SEC have passed since the last request.
ElapseIf(cond) ==
  /\ ~due /\ cond /\ due' = TRUE
  /\ UNCHANGED <<queues, commVars, main, req, netVars, asked, built>>

Elapse_UntilJoined == ElapseIf(addr = "none")
Elapse == ElapseIf(TRUE)

\* beacon_basic_info reads the address; during strcpy, whatever is there.
MainPrepare ==
  /\ main = "wait" /\ due /\ main' = "add"
  /\ req' \in IF comm = "copy" THEN Addresses ELSE {addr}
  /\ UNCHANGED <<queues, commVars, due, netVars, asked, built>>

\* udp_addpkt reports success, whether or not the queue took the request.
MainAdd ==
  /\ main = "add" /\ main' = "wait" /\ req' = "none" /\ due' = FALSE
  /\ sendq' = Enqueue(sendq, "request_to_join")
  /\ UNCHANGED <<recvq, commVars, netVars, asked, built>>

Main == MainPrepare \/ MainAdd

-----------------------------------------------------------------------------
(* The network and the gateway.                                            *)

\* A packet is delivered, and may be delivered again; or it is lost.
Deliver == \E p \in air : Receive(p) /\ air' \in {air, air \ {p}}
LoseJoin ==
  /\ joinAir /\ joinAir' = FALSE
  /\ UNCHANGED <<queues, commVars, mainVars, air, known, asked, built>>
Lose ==
  /\ \E p \in air : air' = air \ {p}
  /\ UNCHANGED <<queues, commVars, mainVars, joinAir, known, asked, built>>

GatewaySends(p) == air' = air \cup {p}

GatewayJoin ==
  /\ joinAir /\ joinAir' \in BOOLEAN /\ known' = TRUE
  /\ GatewaySends(Text("from_gateway", "join_response"))
  /\ UNCHANGED <<queues, commVars, mainVars, asked, built>>

GatewayPoll ==
  /\ known /\ \E t \in Polls : GatewaySends(Text("from_gateway", t))
  /\ UNCHANGED <<queues, commVars, mainVars, joinAir, known, asked, built>>

GatewayRestart ==
  /\ known /\ known' = FALSE
  /\ UNCHANGED <<queues, commVars, mainVars, joinAir, air, asked, built>>

Next ==
  \/ Send \/ Stray \/ Comm \/ Elapse \/ Main
  \/ Deliver \/ LoseJoin \/ Lose \/ GatewayJoin \/ GatewayPoll \/ GatewayRestart

Spec == Init /\ [][Next]_vars

FromGateway == {Text("from_gateway", t) : t \in Handled}
Leaves(p) == p \in air /\ (Deliver \/ Lose) /\ p \notin air'

(* The threads run, time passes, no packet stays in the network for ever,  *)
(* and of join requests sent again and again one arrives.                  *)
Fairness ==
  /\ WF_vars(Send) /\ WF_vars(Comm) /\ WF_vars(Elapse) /\ WF_vars(Main)
  /\ \A p \in FromGateway : WF_vars(Leaves(p))
  /\ SF_vars(GatewayJoin)
FairSpec == Spec /\ Fairness

-----------------------------------------------------------------------------
\* Queues hold packets and no more than they have room for; positions and
\* fields are those of the code.
TypeOK ==
  /\ sendq \in Seq(Polls \cup {"request_to_join"}) /\ Len(sendq) <= QLen
  /\ recvq \in Seq(Packet) /\ Len(recvq) <= QLen
  /\ comm \in Handled \cup {"get", "copy"}
  /\ dir \in {"from_gateway", "from_beacon", "undefined"}
  /\ type \in Handled \cup {"request_to_join", "undefined"}
  /\ addr \in Addresses /\ main \in {"wait", "add"} /\ req \in Addresses
  /\ due \in BOOLEAN /\ joinAir \in BOOLEAN /\ known \in BOOLEAN
  /\ air \subseteq FromGateway
  /\ asked \subseteq Handled \cup {"request_to_join", "unparsable"} /\ built \subseteq Polls

\* The beacon answers only a question somebody asked, though pkt_type is kept
\* from packet to packet, partly parsed packets and uninitialised ones.
AnswersAsked ==
  /\ comm \in Handled => comm \in asked
  /\ ToSet(sendq) \cap Polls \subseteq asked

\* A gateway that forgot the beacon comes to know it again (LBeacon.c:3036-3042),
\* whatever the network loses and the full queue refuses, once strays cease.
Rejoined == <>[][~Stray]_vars => (~known ~> known)
=============================================================================
