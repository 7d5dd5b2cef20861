---------------------------- MODULE BleTracking ----------------------------
(***************************************************************************)
(* The BLE tracking pipeline of LBeacon: four threads around two memory    *)
(* pools and two linked lists.                                             *)
(*                                                                         *)
(*   scanner   start_ble_scanning          temp pool -> temp list          *)
(*   examiner  examine_scanned_ble_device  temp list -> BLE object list    *)
(*   reporter  handle_tracked_object_data  BLE object list -> message      *)
(*   cleaner   timeout_cleanup             BLE object list -> mempool      *)
(*                                                                         *)
(* A step is one critical section of list_lock, temp_ble_device_list_lock  *)
(* or mem_lock, or one access to a node made outside every lock.  The      *)
(* BR/EDR lists take no part: main never starts start_br_scanning          *)
(* (LBeacon.c:2937-2952 is commented out), so they stay empty.             *)
(* An operator X_Fault is X with one plausible mistake; no action uses it, *)
(* it stands in for X to show that a property notices the mistake.         *)
(***************************************************************************)
EXTENDS Integers, Sequences, FiniteSets, SequencesExt

CONSTANTS
  Macs,       \* MAC addresses a tracked object is filed under
  NoMac,      \* the bytes of a zeroed address or payload
  TempSlots,  \* slots of temp_ble_device_mempool, all its blocks together
  Slots,      \* slots of mempool, all its blocks together
  NoSlot,     \* the NULL pointer
  BlockOf,    \* the block of mempool a slot belongs to
  MaxBlocks,  \* MAX_EXP_TIME
  BlockSize,  \* SLOTS_IN_MEM_POOL_SCANNED_DEVICE
  Stuck,      \* slots of mempool mp_free refuses (see Mempool)
  TempStuck,  \* slots of temp_ble_device_mempool mp_free refuses
  Reports,    \* the advertising reports the dongle may deliver
  NoReport,   \* the content of a zeroed temp slot
  Batch       \* records that fit in one message

ReportType ==
  [mac: Macs, evt: {"adv", "scan_rsp"},
   strong: BOOLEAN,    \* rssi >= scan_rssi_coverage
   match: BOOLEAN,     \* a MAC or name prefix rule accepts it
   need: BOOLEAN,      \* is_scan_rsp_needed of that rule
   pressed: BOOLEAN,   \* is_button_pressed
   data: BOOLEAN]      \* payload_length > 0

BlockSlots(b) == {s \in Slots : BlockOf[s] = b}

ASSUME NamesAssumption ==
  /\ NoMac \notin Macs /\ NoReport \notin ReportType
  /\ NoSlot \notin Slots \cup TempSlots
  /\ Reports \subseteq ReportType
ASSUME PoolAssumption ==
  /\ IsFiniteSet(Slots) /\ Stuck \subseteq Slots /\ TempStuck \subseteq TempSlots
  /\ MaxBlocks \in Nat \ {0} /\ BlockSize \in Nat \ {0}
  /\ BlockOf \in [Slots -> 1..MaxBlocks]
  /\ \A b \in 1..MaxBlocks : Cardinality(BlockSlots(b)) = BlockSize
ASSUME BatchAssumption == Batch \in Nat \ {0}

VARIABLES
  tfree,     \* free slots of temp_ble_device_mempool
  trep,      \* content of each temp slot
  scanHeld,  \* the temp slot the scanner has not linked yet, or NoSlot
  temp,      \* temp_ble_device_list
  tlocal,    \* the examiner's local list; its head is under examination
  exPc, exPtr,             \* the examiner's position and temp_node
  free, used, blocks,      \* mempool: free slots, used_slots, alloc_time
  node,      \* content of each slot of mempool
  ble,       \* BLE_object_list
  repPc, local, at,        \* the reporter: position, local list, node visited
  hdr, recs,               \* its message
  toPc       \* the cleaner's position

tempVars == <<tfree, trep, scanHeld, temp>>
exVars   == <<tlocal, exPc, exPtr>>
poolVars == <<free, used, blocks>>
repVars  == <<repPc, local, at, hdr, recs>>
vars == <<tempVars, exVars, poolVars, node, ble, repVars, toPc>>

-----------------------------------------------------------------------------
(* Nodes and the pool.                                                     *)

NodeType == [mac: Macs \cup {NoMac}, need: BOOLEAN,
             rsp: Macs \cup {NoMac},    \* whose scan response it holds
             button: BOOLEAN]
Zero == [mac |-> NoMac, need |-> FALSE, rsp |-> NoMac, button |-> FALSE]

\* mp_alloc: take slot s, from a new block when no slot is free; the slot is
\* zeroed.  The order of the free list is left open.
MpAlloc(s) ==
  /\ \/ s \in free /\ free' = free \ {s} /\ blocks' = blocks
     \/ /\ free = {} /\ blocks < MaxBlocks
        /\ s \in BlockSlots(blocks + 1)
        /\ free' = BlockSlots(blocks + 1) \ {s} /\ blocks' = blocks + 1
  /\ used' = used + 1

\* What mp_alloc leaves in a slot: memset(temp, 0, size).
Allocated_Uncleared(s) == node[s]
Allocated(s) == Zero

\* mp_free of every slot of S: those it refuses keep their content.
FreeSlots(F, count) ==
  /\ free' = free \cup F
  /\ used' = used - count
  /\ node' = [s \in Slots |-> IF s \in F THEN Zero ELSE node[s]]
  /\ blocks' = blocks

MpFree_Uncounted(S) == FreeSlots(S \ Stuck, 0)
MpFree(S) == FreeSlots(S \ Stuck, Cardinality(S \ Stuck))

\* mp_free of a temp slot.
TempFree(t) ==
  /\ tfree' = tfree \cup ({t} \ TempStuck)
  /\ trep' = IF t \in TempStuck THEN trep ELSE [trep EXCEPT ![t] = NoReport]

Init ==
  /\ tfree = TempSlots /\ trep = [t \in TempSlots |-> NoReport]
  /\ scanHeld = NoSlot /\ temp = << >>
  /\ tlocal = << >> /\ exPc = "idle" /\ exPtr = NoSlot
  /\ free = BlockSlots(1) /\ used = 0 /\ blocks = 1
  /\ node = [s \in Slots |-> Zero]
  /\ ble = << >>
  /\ repPc = "idle" /\ local = << >> /\ at = 0 /\ hdr = 0 /\ recs = << >>
  /\ toPc = "idle"

-----------------------------------------------------------------------------
(* The scanner.                                                            *)

\* An advertising report is read and a slot obtained and filled.
ScanAlloc ==
  /\ scanHeld = NoSlot
  /\ \E t \in tfree, r \in Reports :
       /\ tfree' = tfree \ {t}
       /\ trep' = [trep EXCEPT ![t] = r]
       /\ scanHeld' = t
  /\ UNCHANGED <<temp, exVars, poolVars, node, ble, repVars, toPc>>

\* No slot: the report is skipped.
ScanDrop == scanHeld = NoSlot /\ tfree = {} /\ UNCHANGED vars

\* The slot goes to the tail of temp_ble_device_list.
ScanLink ==
  /\ scanHeld # NoSlot
  /\ temp' = Append(temp, scanHeld) /\ scanHeld' = NoSlot
  /\ UNCHANGED <<tfree, trep, exVars, poolVars, node, ble, repVars, toPc>>

-----------------------------------------------------------------------------
(* The examiner.                                                           *)

cur == Head(tlocal)
rep == trep[cur]

ExGoto(pc, ptr) == exPc' = pc /\ exPtr' = ptr /\ tlocal' = tlocal

\* The whole temp list moves to the local list.
DetachLeaving(q) ==
  /\ exPc = "idle" /\ temp # << >>
  /\ tlocal' = temp /\ temp' = q /\ exPc' = "loop" /\ exPtr' = NoSlot
  /\ UNCHANGED <<tfree, trep, scanHeld, poolVars, node, ble, repVars, toPc>>

ExDetach_Shared == DetachLeaving(temp)
ExDetach == DetachLeaving(<< >>)

ExDone ==
  /\ exPc = "loop" /\ tlocal = << >> /\ ExGoto("idle", NoSlot)
  /\ UNCHANGED <<tempVars, poolVars, node, ble, repVars, toPc>>

\* A signal below the coverage threshold: the loop continues at once, past
\* the mp_free at its end.
ExWeak ==
  /\ exPc = "loop" /\ tlocal # << >> /\ ~rep.strong
  /\ tlocal' = Tail(tlocal) /\ UNCHANGED <<exPc, exPtr>>
  /\ UNCHANGED <<tempVars, poolVars, node, ble, repVars, toPc>>

\* No rule accepts the advertisement.
ExIgnore ==
  /\ exPc = "loop" /\ tlocal # << >> /\ rep.strong
  /\ rep.evt = "adv" /\ ~rep.match
  /\ ExGoto("release", NoSlot)
  /\ UNCHANGED <<tempVars, poolVars, node, ble, repVars, toPc>>

\* check_is_in_list returns a pointer and gives list_lock back.  Its two
\* critical sections are one step: only this thread inserts, so a list seen
\* empty in the first has no match in the second.
LookupYields(M) ==
  /\ exPc = "loop" /\ tlocal # << >> /\ rep.strong
  /\ rep.evt = "scan_rsp" \/ rep.match
  /\ \/ \E s \in M : ExGoto(IF rep.evt = "adv" THEN "flags" ELSE "check", s)
     \/ M = {} /\ ExGoto(IF rep.evt = "adv" THEN "alloc" ELSE "release", NoSlot)
  /\ UNCHANGED <<tempVars, poolVars, node, ble, repVars, toPc>>

Matches(S) == {s \in S : node[s].mac = rep.mac}

ExLookup_FirstNode == LookupYields(Matches({ble[i] : i \in DOMAIN ble \cap {1}}))
ExLookup_AnyDevice == LookupYields(ToSet(ble))
ExLookup == LookupYields(Matches(ToSet(ble)))

\* The update of a node found, made without list_lock: the flags, ...
ExFlags ==
  /\ exPc = "flags" /\ ExGoto("button", exPtr)
  /\ node' = [node EXCEPT ![exPtr].need = rep.need]
  /\ UNCHANGED <<tempVars, poolVars, ble, repVars, toPc>>

\* ... then a button press, which no later advertisement clears.
SetButton(b) ==
  /\ exPc = "button" /\ ExGoto("release", NoSlot)
  /\ node' = [node EXCEPT ![exPtr].button = b]
  /\ UNCHANGED <<tempVars, poolVars, ble, repVars, toPc>>

ExButton_Overwrites == SetButton(rep.pressed)
ExButton == SetButton(rep.pressed \/ node[exPtr].button)

\* A scan response: is_scan_rsp_needed is read, then the response written.
ExCheckRsp ==
  /\ exPc = "check"
  /\ IF node[exPtr].need THEN ExGoto("scan_rsp", exPtr) ELSE ExGoto("release", NoSlot)
  /\ UNCHANGED <<tempVars, poolVars, node, ble, repVars, toPc>>

ExWriteRsp ==
  /\ exPc = "scan_rsp" /\ ExGoto("release", NoSlot)
  /\ node' = [node EXCEPT ![exPtr].rsp = IF rep.data THEN rep.mac ELSE NoMac]
  /\ UNCHANGED <<tempVars, poolVars, ble, repVars, toPc>>

\* A new address: a slot is obtained and filled before it is linked.
ExAlloc ==
  /\ exPc = "alloc"
  /\ \E s \in Slots :
       /\ MpAlloc(s) /\ ExGoto("link", s)
       /\ node' = [node EXCEPT ![s] =
            [Allocated(s) EXCEPT !.mac = rep.mac, !.need = rep.need, !.button = rep.pressed]]
  /\ UNCHANGED <<tempVars, ble, repVars, toPc>>

\* mp_alloc returns NULL (no block left, or malloc failed): the device is skipped.
ExSkip ==
  /\ exPc = "alloc" /\ ExGoto("release", NoSlot)
  /\ UNCHANGED <<tempVars, poolVars, node, ble, repVars, toPc>>

ExAllocFails_Early == ExSkip
ExAllocFails == free = {} /\ ExSkip

ExLink ==
  /\ exPc = "link" /\ ExGoto("release", NoSlot)
  /\ ble' = Append(ble, exPtr)
  /\ UNCHANGED <<tempVars, poolVars, node, repVars, toPc>>

\* The end of the loop body: the temp slot is returned.
ExRelease ==
  /\ exPc = "release" /\ exPc' = "loop" /\ exPtr' = NoSlot
  /\ TempFree(cur) /\ tlocal' = Tail(tlocal)
  /\ UNCHANGED <<scanHeld, temp, poolVars, node, ble, repVars, toPc>>

Examiner ==
  \/ ExDetach \/ ExDone \/ ExWeak \/ ExIgnore \/ ExLookup \/ ExFlags \/ ExButton
  \/ ExCheckRsp \/ ExWriteRsp \/ ExAlloc \/ ExAllocFails \/ ExLink \/ ExRelease

-----------------------------------------------------------------------------
(* The reporter: a poll by the gateway.                                    *)

\* Both lists empty: the handler returns; otherwise it goes on.
RepPoll ==
  /\ repPc = "idle" /\ ble # << >> /\ repPc' = "detach"
  /\ UNCHANGED <<tempVars, exVars, poolVars, node, ble, local, at, hdr, recs, toPc>>

\* Records that fit in the message; the cleaner may have emptied the list.
TakeCount == IF Len(ble) < Batch THEN Len(ble) ELSE Batch

\* A prefix of the BLE list moves to the local list and hdr is number_to_send,
\* its length; an empty one is reported at once, as zero records.
DetachPrefix(rest) ==
  /\ repPc = "detach"
  /\ local' = SubSeq(ble, 1, TakeCount) /\ hdr' = TakeCount
  /\ ble' = rest
  /\ IF TakeCount = 0 THEN repPc' = "idle" /\ at' = 0 ELSE repPc' = "count" /\ at' = 1
  /\ UNCHANGED <<tempVars, exVars, poolVars, node, recs, toPc>>

RepDetach_TailStays == DetachPrefix(SubSeq(ble, TakeCount, Len(ble)))
RepDetach_Waits == ble # << >> /\ DetachPrefix(SubSeq(ble, TakeCount + 1, Len(ble)))
RepDetach == DetachPrefix(SubSeq(ble, TakeCount + 1, Len(ble)))

\* Two passes over the local list, outside list_lock, a node at a time.
Visit(pc, next) ==
  /\ repPc = pc
  /\ IF at < Len(local) THEN at' = at + 1 /\ repPc' = pc ELSE at' = 1 /\ repPc' = next
  /\ UNCHANGED <<tempVars, exVars, poolVars, node, ble, local, toPc>>

\* A record that still waits for its scan response is left out.
Skipped(s) == node[s].need /\ node[s].rsp = NoMac

\* The first pass takes it off the record count of the header, ...
CountOff(n) == Visit("count", "write") /\ hdr' = hdr - n /\ UNCHANGED recs
RepCount == CountOff(IF Skipped(local[at]) THEN 1 ELSE 0)

\* ... the second makes the same test again and appends the records.
Record(s) == [mac |-> node[s].mac, rsp |-> node[s].rsp]
WriteUnless(omit) ==
  /\ Visit("write", "free") /\ UNCHANGED hdr
  /\ recs' = IF omit THEN recs ELSE Append(recs, Record(local[at]))
RepWrite_Unfiltered == WriteUnless(FALSE)
RepWrite == WriteUnless(Skipped(local[at]))

\* Each node returns to the pool, without list_lock; then the message goes to
\* udp_addpkt, whose result is ignored.
RepFree ==
  /\ repPc = "free" /\ local' = Tail(local) /\ MpFree({Head(local)})
  /\ IF Len(local) > 1
     THEN UNCHANGED <<repPc, at, hdr, recs>>
     ELSE repPc' = "idle" /\ at' = 0 /\ hdr' = 0 /\ recs' = << >>
  /\ UNCHANGED <<tempVars, exVars, ble, toPc>>

Reporter == RepDetach \/ RepCount \/ RepWrite \/ RepFree

-----------------------------------------------------------------------------
(* The cleaner.                                                            *)

\* The least used_slots whose share of b blocks, rounded to a float, is at least
\* 0.70; exactly 70% rounds below it.
Threshold == [b \in 1..MaxBlocks |-> (7 * b * BlockSize) \div 10 + 1]

\* mp_slots_usage_percentage(&mempool) >= 0.70.  It reads used_slots and
\* alloc_time without mem_lock; were an expansion to fall between, the one
\* block was full before it and the check could as well have come first.
HighUsage == used >= Threshold[blocks]

CleanWhen(high) ==
  /\ toPc = "idle" /\ high /\ toPc' = "clean"
  /\ UNCHANGED <<tempVars, exVars, poolVars, node, ble, repVars>>

ToCheck_Above == CleanWhen(HighUsage /\ used # Threshold[blocks])
ToCheck == CleanWhen(HighUsage)

\* cleanup_lists: every node of the list is removed and freed under list_lock.
ToClean ==
  /\ toPc = "clean" /\ toPc' = "idle"
  /\ MpFree(ToSet(ble)) /\ ble' = << >>
  /\ UNCHANGED <<tempVars, exVars, repVars>>

Cleaner == ToCheck \/ ToClean

-----------------------------------------------------------------------------
Next ==
  \/ ScanAlloc \/ ScanDrop \/ ScanLink
  \/ Examiner
  \/ RepPoll \/ Reporter
  \/ Cleaner

Spec == Init /\ [][Next]_vars

(* Threads keep running until shutdown (modelled elsewhere); the radio and *)
(* the gateway owe nothing, so ScanAlloc and RepPoll are not fair.         *)
Fairness == WF_vars(ScanLink) /\ WF_vars(Examiner) /\ WF_vars(Reporter) /\ WF_vars(Cleaner)
FairSpec == Spec /\ Fairness

-----------------------------------------------------------------------------
(* Properties.                                                             *)

ExPcs == {"idle", "loop", "flags", "button", "check", "scan_rsp", "alloc", "link", "release"}
Updating == {"flags", "button", "check", "scan_rsp"}
RepPcs == {"idle", "detach", "count", "write", "free"}

\* Every variable has the type its declaration gives it in the code.
TypeOK ==
  /\ tfree \subseteq TempSlots
  /\ trep \in [TempSlots -> Reports \cup {NoReport}]
  /\ scanHeld \in TempSlots \cup {NoSlot}
  /\ temp \in Seq(TempSlots) /\ tlocal \in Seq(TempSlots)
  /\ exPc \in ExPcs /\ exPtr \in Slots \cup {NoSlot}
  /\ free \subseteq Slots /\ used \in Int /\ blocks \in 1..MaxBlocks
  /\ node \in [Slots -> NodeType]
  /\ ble \in Seq(Slots) /\ local \in Seq(Slots)
  /\ repPc \in RepPcs /\ hdr \in Nat /\ at \in 0..Len(local)
  /\ recs \in Seq([mac: Macs \cup {NoMac}, rsp: Macs \cup {NoMac}])
  /\ toPc \in {"idle", "clean"}

\* The node the examiner has filled and not linked yet.
Held == IF exPc = "link" THEN {exPtr} ELSE {}
Live == {s \in Slots : BlockOf[s] <= blocks}
Owned == free \cup ToSet(ble) \cup ToSet(local) \cup Held

\* A slot of mempool has one owner: the free list, the BLE list, the
\* reporter's list or the examiner; and it is in its list once.  So
\* no slot is freed twice and none is free while a list still links it, though
\* nodes are freed and updated outside list_lock.
OneOwner ==
  /\ \A q \in {ble, local} : \A i, j \in DOMAIN q : i # j => q[i] # q[j]
  /\ ToSet(ble) \cap ToSet(local) = {}
  /\ free \cap (ToSet(ble) \cup ToSet(local)) = {}
  /\ Held \cap (free \cup ToSet(ble) \cup ToSet(local)) = {}

\* No slot of mempool is forgotten, whichever threads raced for it, except
\* those mp_free refuses; and used_slots, which decides on the cleanup, counts
\* exactly the slots that are not free.
NoSlotLost ==
  /\ Owned \subseteq Live /\ Live \ Owned \subseteq Stuck
  /\ used = Cardinality(Live) - Cardinality(free)

\* The MAC addresses in the BLE list are distinct (LBeacon.h:455-459), though
\* check_is_in_list and the insertion are separate critical sections.
DistinctObjects ==
  /\ \A i, j \in DOMAIN ble : i # j => node[ble[i]].mac # node[ble[j]].mac
  /\ exPc \in {"alloc", "link"} => \A s \in ToSet(ble) : node[s].mac # rep.mac

\* A linked or detached node holds no scan response of another device, though
\* the examiner writes through a pointer that may have been freed meanwhile.
OwnData ==
  \A s \in ToSet(ble) \cup ToSet(local) \cup Held :
    node[s].mac \in Macs /\ node[s].rsp \in {NoMac, node[s].mac}

\* The examiner's pointer, possibly stale, leads to the device's own node or to
\* a slot that is free: it never updates the record of another device.
StalePointerHarmless ==
  exPc \in Updating =>
    \/ exPtr \in free
    \/ exPtr \in Slots /\ node[exPtr].mac = rep.mac

\* The record count of a message is off by at most one.
HeaderAlmostExact ==
  repPc = "free" => hdr - Len(recs) \in -1..1

\* A message reports each device once, and only with its own scan response.
RecordsDistinct ==
  /\ \A i, j \in DOMAIN recs : i # j => recs[i].mac # recs[j].mac
  /\ \A i \in DOMAIN recs : recs[i].rsp \in {NoMac, recs[i].mac}

\* A temp slot is free, with the scanner, listed or under examination, in one
\* of these places and there once.
TempOneOwner ==
  LET held == IF scanHeld = NoSlot THEN {} ELSE {scanHeld} IN
  /\ \A q \in {temp, tlocal} : \A i, j \in DOMAIN q : i # j => q[i] # q[j]
  /\ ToSet(temp) \cap ToSet(tlocal) = {}
  /\ tfree \cap (ToSet(temp) \cup ToSet(tlocal)) = {}
  /\ held \cap (tfree \cup ToSet(temp) \cup ToSet(tlocal)) = {}

\* The scanner "scans continuously ... until scanning is cancelled"
\* (LBeacon.h:1006): it never runs out of slots for good, with no report left
\* whose examination would return one.  Weak signals take every slot.
ScanningContinues ==
  scanHeld # NoSlot \/ tfree # {} \/ temp # << >> \/ tlocal # << >>

PressStays ==
  \A s \in ToSet(ble) :
    node[s].button /\ s \in ToSet(ble') \cup ToSet(local') => node'[s].button

\* Once recorded, a button press stays until its node leaves the list for the
\* pool: neither a later advertisement nor a cleanup of other nodes clears it.
PressKept == [][PressStays]_vars

HasObject(m) == \E s \in ToSet(ble) : node[s].mac = m

\* The advertisement of a tag in the temp list, if strong enough and matched by
\* a rule, leads to a node of the tag in the BLE list, unless mempool is dry.
TagTracked ==
  \A t \in TempSlots, m \in Macs :
    (/\ t \in ToSet(temp) /\ trep[t].mac = m
     /\ trep[t].strong /\ trep[t].match /\ trep[t].evt = "adv")
      ~> (HasObject(m) \/ free = {})

\* A poll that found objects ends with a message, whatever the cleaner does.
PollAnswered == (repPc = "detach") ~> (repPc = "idle")

\* Usage at the threshold leads to an empty BLE list or to usage below it.
UsageRelieved == HighUsage ~> (ble = << >> \/ ~HighUsage)
=============================================================================
