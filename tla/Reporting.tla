----------------------------- MODULE Reporting -----------------------------
(***************************************************************************)
(* From the BLE object list to the socket: handle_tracked_object_data      *)
(* takes as many records off the list as the message buffer has room for,  *)
(* writes the message and hands it to the packet queue of UDP_API.c, whose *)
(* ring PktQueue models; the send thread takes it from there.              *)
(*                                                                         *)
(* BleTracking models the same list under the memory pool and the locks    *)
(* with a fixed number of records per message.  Here records have their    *)
(* lengths, a message its size, and a tracked object an id by which it is  *)
(* followed through list, message, queue and socket.                       *)
(***************************************************************************)
EXTENDS PktQueue, FiniteSets, SequencesExt

CONSTANTS
  WIFI_MESSAGE_LENGTH,
  MaxReports,   \* bound: how many objects are filed
  Adverts,      \* what a report of an object brings: see NodeType
  Responses,    \* the lengths of the scan responses that come later
  Bases,        \* the lengths the basic information may have
  Others        \* packets of the other callers of udp_addpkt

MAX_LENGTH_RESP_DEVICE_INFO == 190
LENGTH_OF_ADVERTISEMENT == 65
MAX_LENGTH_RESP_BASIC_INFO == 128

Ids == 1..MaxReports

\* The fields of a ScannedDevice that decide the size of its record.
NodeType ==
  [shows: BOOLEAN,    \* is_payload_needed
   p: 0..31,          \* payload_length
   waits: BOOLEAN,    \* is_scan_rsp_needed
   s: 0..31]          \* scan_rsp_length

Zero == [shows |-> FALSE, p |-> 0, waits |-> FALSE, s |-> 0]

\* A message is known by the first and the last object taken for it.
Message == [first: 1..MaxReports + 1, last: 0..MaxReports]

ASSUME ReportingAssumption ==
  /\ MaxReports \in Nat /\ Adverts \subseteq NodeType /\ Responses \subseteq 0..31
  /\ Bases \subseteq Nat
  \* At least one record fits after the basic information: 132 + 190 < 323.  With
  \* less, the code would unlink the first node and never release it.
  /\ WIFI_MESSAGE_LENGTH \in 323..8192
  /\ Message \cup Others \subseteq Packet
  /\ Message \cap Oversize = {} /\ Message \cap Others = {}

VARIABLES
  node,      \* the content of the node each object was filed in
  list,      \* BLE_object_list
  fate,      \* where each object is
  held,      \* the object check_is_in_list found for the examiner, or 0
  pc,        \* the position in handle_tracked_object_data
  base,      \* the length of the message before the BLE part
  room,      \* msg_remain_size
  local,     \* the local list
  at,        \* the record written next
  size,      \* strlen(message)
  long,      \* a record was written whose payload and response exceed Short
  shutdown, sPc, sending   \* udp_config.shutdown, the send thread, its packet

listVars == <<node, list, held>>
messageVars == <<pc, base, room, local, at, size, long>>
sendVars == <<shutdown, sPc, sending>>
vars == <<listVars, fate, messageVars, sendVars, ringVars>>

Fates == {"none", "listed", "taken", "omitted", "queued", "sending", "sent", "lost"}

Init ==
  /\ node = [i \in Ids |-> Zero]
  /\ list = << >> /\ held = 0 /\ fate = [i \in Ids |-> "none"]
  /\ pc = "idle" /\ base = 0 /\ room = 0 /\ local = << >> /\ at = 0
  /\ size = 0 /\ long = FALSE
  /\ shutdown = FALSE /\ sPc = "look" /\ sending = Nothing
  /\ RingInit

-----------------------------------------------------------------------------
(* The examiner and the cleaner.  list_lock is held while pc = "budget".   *)

Unlocked == pc # "budget"

\* insert_list_tail.
Linked_First(i) == <<i>> \o list
Linked(i) == Append(list, i)

\* A new object: the node is filled, then linked.
Track ==
  /\ Unlocked /\ held = 0
  /\ \E i \in Ids, a \in Adverts :
       /\ fate[i] = "none" /\ (i > 1 => fate[i - 1] # "none")
       /\ node' = [node EXCEPT ![i] = a]
       /\ list' = Linked(i)
       /\ fate' = [fate EXCEPT ![i] = "listed"]
  /\ UNCHANGED <<held, messageVars, sendVars, ringVars>>

\* check_is_in_list returns a node of the list ...
Find ==
  /\ Unlocked /\ held = 0
  /\ \E j \in DOMAIN list : held' = list[j]
  /\ UNCHANGED <<node, list, fate, messageVars, sendVars, ringVars>>

\* ... which is updated without the lock: the payload is copied only if the
\* rule asks for it, a scan response only if the node waits for one.  If the
\* node was freed since, the write falls on a free slot (see BleTracking).
Readvertised(n, a) ==
  [shows |-> a.shows, p |-> IF a.shows THEN a.p ELSE n.p, waits |-> a.waits, s |-> n.s]
Answered(n, s) == IF n.waits THEN [n EXCEPT !.s = s] ELSE n

Live(i) == fate[i] \in {"listed", "taken", "omitted"}

Update ==
  /\ held # 0 /\ held' = 0
  /\ \/ Live(held) /\ \E a \in Adverts : node' = [node EXCEPT ![held] = Readvertised(@, a)]
     \/ Live(held) /\ \E s \in Responses : node' = [node EXCEPT ![held] = Answered(@, s)]
     \/ ~Live(held) /\ UNCHANGED node
  /\ UNCHANGED <<list, fate, messageVars, sendVars, ringVars>>

\* cleanup_lists: the pool is short of slots, every node of the list is freed.
Clean ==
  /\ Unlocked /\ list # << >>
  /\ list' = << >>
  /\ node' = [i \in Ids |-> IF fate[i] = "listed" THEN Zero ELSE node[i]]
  /\ fate' = [i \in Ids |-> IF fate[i] = "listed" THEN "lost" ELSE fate[i]]
  /\ UNCHANGED <<held, messageVars, sendVars, ringVars>>

-----------------------------------------------------------------------------
(* handle_tracked_object_data and consolidate_tracked_data.                *)

\* A poll.  An empty list, or basic information longer than its limit, ends
\* the handler.  The BR part of the message is always empty: 4 bytes.
Poll ==
  /\ pc = "idle" /\ list # << >>
  /\ \E b \in Bases :
       /\ b <= MAX_LENGTH_RESP_BASIC_INFO
       /\ base' = b + 4 /\ size' = b + 4 /\ room' = WIFI_MESSAGE_LENGTH - (b + 4)
  /\ pc' = "lock"
  /\ UNCHANGED <<listVars, fate, local, at, long, sendVars, ringVars>>

Lock ==
  /\ pc = "lock" /\ pc' = "budget"
  /\ UNCHANGED <<listVars, fate, base, room, local, at, size, long, sendVars, ringVars>>

\* The space a record is given.
Cost(n) == MAX_LENGTH_RESP_DEVICE_INFO - (LENGTH_OF_ADVERTISEMENT - n.p)

\* Under list_lock records are taken while there is room for the longest.
HasRoom_Any == room > 0
HasRoom == room > MAX_LENGTH_RESP_DEVICE_INFO

TakeLeaving(rest) ==
  /\ pc = "budget" /\ list # << >> /\ HasRoom
  /\ room' = room - Cost(node[Head(list)])
  /\ local' = Append(local, Head(list)) /\ list' = rest
  /\ fate' = [fate EXCEPT ![Head(list)] = "taken"]
  /\ UNCHANGED <<node, held, pc, base, at, size, long, sendVars, ringVars>>

Take_Leaves == TakeLeaving(list)
Take == TakeLeaving(Tail(list))

\* The list is cut there.
Cut ==
  /\ pc = "budget" /\ (list = << >> \/ ~HasRoom)
  /\ pc' = "count"
  /\ UNCHANGED <<listVars, fate, base, room, local, at, size, long, sendVars, ringVars>>

\* A record that still waits for its scan response is left out of the message.
Skipped(n) == n.waits /\ n.s = 0

\* The header "device_type;number_to_send;".
Header(count) == IF count < 10 THEN 4 ELSE 5

Counted == {j \in DOMAIN local : ~Skipped(node[local[j]])}

\* The first pass, as one step: at most one node changes while it runs.
Count ==
  /\ pc = "count" /\ pc' = "write" /\ at' = 1
  /\ size' = size + Header(Cardinality(Counted))
  /\ UNCHANGED <<listVars, fate, base, room, local, long, sendVars, ringVars>>

\* The most a record takes: 46 characters of fields, 7 separators, and the
\* payload and the scan response in hexadecimal.
RecordLength(n) == 53 + IF n.shows THEN 2 * n.p + 2 * n.s ELSE 0

Short(n) == n.p + n.s <= 36

\* The second pass, a record at a time.
Write ==
  /\ pc = "write" /\ at <= Len(local)
  /\ at' = at + 1
  /\ LET i == local[at] IN
       IF Skipped(node[i])
       THEN fate' = [fate EXCEPT ![i] = "omitted"] /\ UNCHANGED <<size, long>>
       ELSE /\ size' = size + RecordLength(node[i])
            /\ long' = (long \/ ~Short(node[i])) /\ UNCHANGED fate
  /\ UNCHANGED <<listVars, pc, base, room, local, sendVars, ringVars>>

\* The message is handed to udp_addpkt, whose result is ignored.
Packed ==
  IF local = << >> THEN [first |-> 1, last |-> 0]
  ELSE [first |-> local[1], last |-> local[Len(local)]]

\* The objects of a message that are in it.
Carries(m, i) == m \in Message /\ m.first <= i /\ i <= m.last

\* Its nodes have been released before.
Release == node' = [i \in Ids |-> IF i \in ToSet(local) THEN Zero ELSE node[i]]

Hand ==
  /\ pc = "write" /\ at > Len(local)
  /\ addpkt(Packed)
  /\ fate' = [i \in Ids |-> IF fate[i] = "taken"
                            THEN IF ret' = pkt_Queue_SUCCESS THEN "queued" ELSE "lost"
                            ELSE fate[i]]
  /\ Release
  /\ pc' = "idle" /\ base' = 0 /\ room' = 0 /\ local' = << >> /\ at' = 0
  /\ size' = 0 /\ long' = FALSE
  /\ UNCHANGED <<list, held, sendVars>>

Reporter == Poll \/ Lock \/ Take \/ Cut \/ Count \/ Write \/ Hand

\* The other messages of the same thread: join request and health report.
Other ==
  /\ pc = "idle" /\ \E p \in Others : addpkt(p)
  /\ UNCHANGED <<listVars, fate, messageVars, sendVars>>

-----------------------------------------------------------------------------
(* The send thread and udp_release.                                        *)

\* udp_send_pkt_routine looks at the queue without its mutex, ...
LookFor(waiting) ==
  /\ sPc = "look" /\ ~shutdown /\ waiting
  /\ sPc' = "get"
  /\ UNCHANGED <<listVars, fate, messageVars, shutdown, sending, ringVars>>

Look_Front == LookFor(front # rear)
Look == LookFor(~is_null)

\* ... takes a packet, which is blank if the queue has been freed since, ...
Get ==
  /\ sPc = "get" /\ get_pkt
  /\ IF ret' = Nothing
     THEN sPc' = "look" /\ UNCHANGED <<sending, fate>>
     ELSE /\ sPc' = "send" /\ sending' = ret'
          /\ fate' = [i \in Ids |-> IF fate[i] = "queued" /\ Carries(ret', i)
                                    THEN "sending" ELSE fate[i]]
  /\ UNCHANGED <<listVars, messageVars, shutdown>>

\* ... and sends it.  An error of sendto, as on a closed socket, is ignored.
SendTo ==
  /\ sPc = "send" /\ sPc' = "look" /\ sending' = Nothing
  /\ \E outcome \in IF shutdown THEN {"lost"} ELSE {"sent", "lost"} :
       fate' = [i \in Ids |-> IF fate[i] = "sending" THEN outcome ELSE fate[i]]
  /\ UNCHANGED <<listVars, messageVars, shutdown, ringVars>>

Sender == Look \/ Get \/ SendTo

\* udp_release: the sockets are closed, then the queue is freed.
Shutdown ==
  /\ ~shutdown /\ shutdown' = TRUE
  /\ UNCHANGED <<listVars, fate, messageVars, sPc, sending, ringVars>>

Free ==
  /\ shutdown /\ ~is_free /\ Free_Packet_Queue
  /\ fate' = [i \in Ids |-> IF fate[i] = "queued" THEN "lost" ELSE fate[i]]
  /\ UNCHANGED <<listVars, messageVars, sendVars>>

Next ==
  Track \/ Find \/ Update \/ Clean \/ Reporter \/ Other \/ Sender \/ Shutdown \/ Free

Spec == Init /\ [][Next]_vars

\* The threads run on; polls, reports and the shutdown come when they come.
FairSpec ==
  Spec /\ WF_vars(Lock \/ Take \/ Cut \/ Count \/ Write \/ Hand)
       /\ WF_vars(Sender) /\ WF_vars(Free)

-----------------------------------------------------------------------------
TypeOK ==
  /\ node \in [Ids -> NodeType] /\ list \in Seq(Ids) /\ held \in {0} \cup Ids
  /\ fate \in [Ids -> Fates]
  /\ pc \in {"idle", "lock", "budget", "count", "write"}
  /\ base \in 0..132 /\ room \in 0..WIFI_MESSAGE_LENGTH
  /\ local \in Seq(Ids) /\ at \in Nat /\ size \in Nat /\ long \in BOOLEAN
  /\ shutdown \in BOOLEAN /\ sPc \in {"look", "get", "send"}
  /\ sending \in Packet \cup {Nothing}
  /\ RingTypeOK

\* The message fits its buffer, terminator included, whatever mixture of
\* records was taken and however nodes changed after their space was counted,
\* unless a payload and scan response of more than 36 bytes together were written.
MessageFits == ~long => size < WIFI_MESSAGE_LENGTH

\* The message always fits: the space set aside for a record is the most it takes.
BufferHolds == size < WIFI_MESSAGE_LENGTH

\* Every object is where it should be, once: on the list, on the local list, in
\* one queued message, in the packet in hand, or gone.  So the pipeline drops
\* nothing between two of its stages, even if the gateway, the cleaner, the
\* send thread and the shutdown meet.
NoneVanishes ==
  \A i \in Ids :
    LET Queued == {j \in DOMAIN Contents : Carries(Contents[j], i)} IN
    /\ Cardinality({j \in DOMAIN list : list[j] = i}) = IF fate[i] = "listed" THEN 1 ELSE 0
    /\ fate[i] = "taken" => i \in ToSet(local)
    /\ fate[i] = "queued" => Cardinality(Queued) = 1
    /\ Queued # {} => fate[i] \in {"queued", "omitted"}
    /\ fate[i] = "sending" <=> Carries(sending, i) /\ fate[i] # "omitted"

\* Objects leave in the order they were filed.
InOrder ==
  \A i, j \in Ids : i < j =>
    /\ fate[i] = "listed" => fate[j] \in {"none", "listed"}
    /\ fate[i] = "taken" => fate[j] \notin {"queued", "sending", "sent"}
    /\ fate[i] = "queued" => fate[j] \notin {"sending", "sent"}
    /\ fate[i] = "sending" => fate[j] # "sent"

\* What is taken for a message reaches the socket or is known to be lost: a
\* report does not linger in the queue.
TakenIsSettled ==
  \A i \in Ids : fate[i] = "taken" ~> fate[i] \in {"omitted", "sent", "lost"}
=============================================================================
