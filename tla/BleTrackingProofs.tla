------------------------- MODULE BleTrackingProofs -------------------------
(***************************************************************************)
(* Proofs about BleTracking, for all pools, lists and reports.             *)
(*                                                                         *)
(* IInv is inductive.  Beyond the invariants it yields, it says where each *)
(* thread's local state points: that a listed temp slot holds a report,    *)
(* that the examiner past its detach has a head to examine, how far the    *)
(* reporter's header count may still fall, and that no list holds a slot   *)
(* of a block the pool has not taken yet.  What is counted and what is     *)
(* written add invariants of their own: Account, ErrorInv, RecInv.         *)
(***************************************************************************)
EXTENDS BleTracking, ListFacts, FiniteSetTheorems

ScanHeld == IF scanHeld = NoSlot THEN {} ELSE {scanHeld}
Listed == ToSet(temp) \cup ToSet(tlocal) \cup ScanHeld

\* A temp slot is in one place, and one in use holds a report.
TempInv ==
  /\ NoDup(temp) /\ NoDup(tlocal)
  /\ ToSet(temp) \cap ToSet(tlocal) = {}
  /\ tfree \cap (ToSet(temp) \cup ToSet(tlocal)) = {}
  /\ ScanHeld \cap (tfree \cup ToSet(temp) \cup ToSet(tlocal)) = {}
  /\ \A t \in Listed : trep[t] \in Reports

\* The examiner has a head to examine and, where it uses it, a pointer.
ExInv ==
  /\ exPc \notin {"idle", "loop"} => tlocal # << >>
  /\ exPc \in Updating \cup {"link"} => exPtr \in Slots

\* The reporter's list, the node it visits, and its count of the records left.
RepInv ==
  /\ repPc \in {"idle", "detach"} => local = << >> /\ at = 0 /\ hdr = 0 /\ recs = << >>
  /\ repPc \in {"count", "write", "free"} => local # << >> /\ at \in 1..Len(local)
  /\ repPc = "count" => hdr >= Len(local) - at + 1
  /\ repPc = "free" => at = 1

\* A slot of mempool has one owner, in a block the pool has taken.
PoolInv ==
  /\ NoDup(ble) /\ NoDup(local)
  /\ ToSet(ble) \cap ToSet(local) = {}
  /\ free \cap (ToSet(ble) \cup ToSet(local)) = {}
  /\ Held \cap (free \cup ToSet(ble) \cup ToSet(local)) = {}
  /\ Owned \subseteq Live

\* The list's addresses are distinct, from each other and from the one about to
\* be linked; nodes in use hold their own data; the examiner's pointer is to
\* its device's node or to a free slot.
DataInv ==
  /\ \A s, t \in ToSet(ble) : s # t => node[s].mac # node[t].mac
  /\ exPc \in {"alloc", "link"} => \A s \in ToSet(ble) : node[s].mac # rep.mac
  /\ exPc = "link" => node[exPtr].mac = rep.mac
  /\ OwnData
  /\ StalePointerHarmless

IInv == TypeOK /\ TempInv /\ ExInv /\ RepInv /\ PoolInv /\ DataInv

-----------------------------------------------------------------------------
(* What a step that leaves a part of the state alone keeps.                *)

LEMMA TempFrame == TempInv /\ UNCHANGED <<tempVars, tlocal>> => TempInv'
  BY DEF TempInv, Listed, ScanHeld, NoDup, ToSet, tempVars

LEMMA ExFrame == ExInv /\ UNCHANGED exVars => ExInv'
  BY DEF ExInv, exVars

LEMMA RepFrame == RepInv /\ UNCHANGED repVars => RepInv'
  BY DEF RepInv, repVars

\* The examiner moves on without taking a slot.
LEMMA PoolFrame ==
  PoolInv /\ UNCHANGED <<poolVars, ble, local>> /\ Held' \subseteq Held => PoolInv'
<1> SUFFICES ASSUME PoolInv, UNCHANGED <<poolVars, ble, local>>, Held' \subseteq Held
             PROVE  PoolInv'
  OBVIOUS
<1>1. Live' = Live
  BY DEF Live, poolVars
<1>2. NoDup(ble') /\ NoDup(local')
  BY DEF PoolInv
<1> QED BY <1>1, <1>2 DEF PoolInv, Owned, poolVars

\* The device under examination does not change.
LEMMA DataFrame ==
  /\ DataInv /\ UNCHANGED <<poolVars, node, ble, local, exPc, exPtr>>
  /\ exPc \in Updating \cup {"alloc", "link"} => rep' = rep
  => DataInv'
<1> SUFFICES ASSUME DataInv, UNCHANGED <<poolVars, node, ble, local, exPc, exPtr>>,
                    exPc \in Updating \cup {"alloc", "link"} => rep' = rep
             PROVE  DataInv'
  OBVIOUS
<1>1. OwnData'
  BY DEF DataInv, OwnData, Held
<1>2. StalePointerHarmless'
  BY DEF DataInv, StalePointerHarmless, poolVars
<1> QED BY <1>1, <1>2 DEF DataInv

-----------------------------------------------------------------------------
(* The initial state.                                                      *)

LEMMA InitIInv == Init => IInv
<1> SUFFICES ASSUME Init PROVE IInv
  OBVIOUS
<1>1. TypeOK
  <2>1. BlockSlots(1) \subseteq Slots
    BY DEF BlockSlots
  <2>2. Zero \in NodeType
    BY DEF Zero, NodeType
  <2> QED BY <2>1, <2>2, PoolAssumption DEF Init, TypeOK, ExPcs, RepPcs
<1>2. TempInv
  BY EmptyList DEF Init, TempInv, Listed, ScanHeld
<1>3. ExInv /\ RepInv
  BY DEF Init, ExInv, RepInv, Updating
<1>4. PoolInv
  <2>1. Held = {} /\ ToSet(ble) = {} /\ ToSet(local) = {}
    BY EmptyList DEF Init, Held
  <2>2. Owned \subseteq Live
    <3>1. BlockSlots(1) \subseteq Live
      BY PoolAssumption DEF Init, BlockSlots, Live
    <3> QED BY <2>1, <3>1, PoolAssumption DEF Init, Owned
  <2> QED BY <2>1, <2>2, EmptyList DEF Init, PoolInv
<1>5. DataInv
  BY EmptyList DEF Init, DataInv, OwnData, StalePointerHarmless, Held, Updating
<1> QED BY <1>1, <1>2, <1>3, <1>4, <1>5 DEF IInv

-----------------------------------------------------------------------------
(* The scanner's steps.                                                    *)

LEMMA ScanKeeps == IInv /\ (ScanAlloc \/ ScanDrop \/ ScanLink) => IInv'
<1> SUFFICES ASSUME IInv PROVE (ScanAlloc \/ ScanDrop \/ ScanLink) => IInv'
  OBVIOUS
<1> USE DEF tempVars, exVars, poolVars, repVars
<1>1. ASSUME ScanAlloc PROVE IInv'
  <2>1. PICK t \in tfree, r \in Reports :
           tfree' = tfree \ {t} /\ trep' = [trep EXCEPT ![t] = r] /\ scanHeld' = t
    BY <1>1 DEF ScanAlloc
  <2>2. TypeOK'
    BY <1>1, <2>1 DEF ScanAlloc, IInv, TypeOK
  <2>3. t \in TempSlots /\ t # NoSlot
    BY <2>1, NamesAssumption DEF IInv, TypeOK
  <2>4. TempInv'
    <3>1. ScanHeld = {} /\ ScanHeld' = {t}
      BY <1>1, <2>1, <2>3 DEF ScanAlloc, ScanHeld
    <3>2. UNCHANGED <<temp, tlocal>>
      BY <1>1 DEF ScanAlloc
    <3>3. t \notin ToSet(temp) \cup ToSet(tlocal)
      BY <2>1 DEF IInv, TempInv
    <3>4. NoDup(temp') /\ NoDup(tlocal')
      BY <3>2 DEF IInv, TempInv
    <3>5. \A u \in Listed' : trep'[u] \in Reports
      BY <2>1, <2>3, <3>1, <3>2, <3>3 DEF IInv, TypeOK, TempInv, Listed
    <3> QED BY <2>1, <3>1, <3>2, <3>3, <3>4, <3>5 DEF IInv, TempInv
  <2>5. ExInv' /\ RepInv' /\ PoolInv'
    BY <1>1, ExFrame, RepFrame, PoolFrame DEF ScanAlloc, IInv, Held
  <2>6. DataInv'
    <3>1. exPc \in Updating \cup {"alloc", "link"} => cur \in ToSet(tlocal)
      BY ListElements DEF IInv, ExInv, TypeOK, Updating, cur
    <3>2. exPc \in Updating \cup {"alloc", "link"} => rep' = rep
      BY <1>1, <2>1, <3>1 DEF ScanAlloc, IInv, TypeOK, TempInv, rep, cur
    <3> QED BY <1>1, <3>2, DataFrame DEF ScanAlloc, IInv
  <2> QED BY <2>2, <2>4, <2>5, <2>6 DEF IInv
<1>2. ASSUME ScanDrop PROVE IInv'
  <2>1. TypeOK'
    BY <1>2 DEF ScanDrop, vars, IInv, TypeOK
  <2>2. TempInv' /\ ExInv' /\ RepInv' /\ PoolInv' /\ DataInv'
    BY <1>2, TempFrame, ExFrame, RepFrame, PoolFrame, DataFrame
    DEF ScanDrop, vars, IInv, Held, rep, cur
  <2> QED BY <2>1, <2>2 DEF IInv
<1>3. ASSUME ScanLink PROVE IInv'
  <2>1. scanHeld \in TempSlots /\ temp \in Seq(TempSlots)
    BY <1>3 DEF ScanLink, IInv, TypeOK
  <2>2. /\ temp' \in Seq(TempSlots) /\ ToSet(temp') = ToSet(temp) \cup {scanHeld}
        /\ NoDup(temp) /\ scanHeld \notin ToSet(temp) => NoDup(temp')
    BY <1>3, <2>1, AppendList DEF ScanLink
  <2>3. TypeOK'
    BY <1>3, <2>2 DEF ScanLink, IInv, TypeOK
  <2>4. TempInv'
    <3>1. ScanHeld = {scanHeld} /\ ScanHeld' = {}
      BY <1>3 DEF ScanLink, ScanHeld
    <3>2. UNCHANGED <<tfree, trep, tlocal>> /\ NoDup(tlocal') /\ ToSet(tlocal') = ToSet(tlocal)
      BY <1>3 DEF ScanLink, IInv, TempInv
    <3>3. Listed' = Listed
      BY <2>2, <3>1, <3>2 DEF Listed
    <3> QED BY <2>2, <3>1, <3>2, <3>3 DEF IInv, TempInv
  <2>5. ExInv' /\ RepInv' /\ PoolInv' /\ DataInv'
    BY <1>3, ExFrame, RepFrame, PoolFrame, DataFrame DEF ScanLink, IInv, Held, rep, cur
  <2> QED BY <2>3, <2>4, <2>5 DEF IInv
<1> QED BY <1>1, <1>2, <1>3

-----------------------------------------------------------------------------
(* The examiner's steps between two devices.                               *)

\* The temp list moves over; weak signals are passed.
LEMMA ExPassKeeps == IInv /\ (ExDetach \/ ExDone \/ ExWeak) => IInv'
<1> SUFFICES ASSUME IInv, ExDetach \/ ExDone \/ ExWeak PROVE IInv'
  OBVIOUS
<1> USE DEF tempVars, exVars, poolVars, repVars, DetachLeaving, ExGoto
<1>1. /\ UNCHANGED <<tfree, trep, scanHeld, poolVars, node, ble, repVars, toPc>>
      /\ exPc' \in {"idle", "loop"}
  BY DEF ExDetach, ExDone, ExWeak
<1>2. /\ temp' \in Seq(TempSlots) /\ tlocal' \in Seq(TempSlots)
      /\ NoDup(temp') /\ NoDup(tlocal') /\ ToSet(temp') \cap ToSet(tlocal') = {}
      /\ ToSet(temp') \cup ToSet(tlocal') \subseteq ToSet(temp) \cup ToSet(tlocal)
  <2>1. CASE ExDetach
    BY <2>1, EmptyList DEF ExDetach, IInv, TypeOK, TempInv
  <2>2. CASE ExDone
    BY <2>2 DEF ExDone, IInv, TypeOK, TempInv
  <2>3. CASE ExWeak
    <3>1. tlocal \in Seq(TempSlots) /\ tlocal # << >> /\ temp' = temp /\ tlocal' = Tail(tlocal)
      BY <2>3 DEF ExWeak, IInv, TypeOK
    <3> QED BY <3>1, TailList DEF IInv, TypeOK, TempInv
  <2> QED BY <2>1, <2>2, <2>3
<1>3. TypeOK'
  <2>1. exPc' \in ExPcs /\ exPtr' \in Slots \cup {NoSlot}
    BY DEF ExDetach, ExDone, ExWeak, IInv, TypeOK, ExPcs
  <2> QED BY <1>1, <1>2, <2>1 DEF IInv, TypeOK
<1>4. TempInv'
  BY <1>1, <1>2 DEF IInv, TempInv, Listed, ScanHeld
<1>5. ExInv'
  BY <1>1 DEF ExInv, Updating
<1>6. RepInv' /\ PoolInv'
  BY <1>1, RepFrame, PoolFrame DEF IInv, Held
<1>7. DataInv'
  <2>1. Held' \subseteq Held
    BY <1>1 DEF Held
  <2> QED BY <1>1, <2>1 DEF IInv, DataInv, OwnData, StalePointerHarmless, Updating
<1> QED BY <1>3, <1>4, <1>5, <1>6, <1>7 DEF IInv

\* The device is looked up: its own node, or none.
LEMMA ExLookupKeeps == IInv /\ (ExIgnore \/ ExLookup) => IInv'
<1> SUFFICES ASSUME IInv, ExIgnore \/ ExLookup PROVE IInv'
  OBVIOUS
<1> USE DEF tempVars, exVars, poolVars, repVars, ExLookup, LookupYields, ExIgnore, ExGoto
<1>1. /\ UNCHANGED <<tempVars, tlocal, poolVars, node, ble, repVars, toPc>>
      /\ exPc = "loop" /\ tlocal # << >>
  OBVIOUS
<1>2. \/ exPc' \in {"flags", "check"} /\ exPtr' \in ToSet(ble) /\ node[exPtr'].mac = rep.mac
      \/ exPc' = "alloc" /\ exPtr' = NoSlot /\ Matches(ToSet(ble)) = {}
      \/ exPc' = "release" /\ exPtr' = NoSlot
  BY DEF Matches
<1>3. ToSet(ble) \subseteq Slots
  BY ListElements DEF IInv, TypeOK
<1>4. TypeOK'
  BY <1>1, <1>2, <1>3 DEF IInv, TypeOK, ExPcs
<1>5. TempInv' /\ RepInv' /\ PoolInv'
  BY <1>1, <1>2, TempFrame, RepFrame, PoolFrame DEF IInv, Held
<1>6. ExInv'
  BY <1>1, <1>2, <1>3 DEF ExInv, Updating
<1>7. DataInv'
  <2>1. Held' = {} /\ Held = {} /\ rep' = rep
    BY <1>1, <1>2 DEF Held, rep, cur
  <2>2. OwnData'
    BY <1>1, <2>1 DEF IInv, DataInv, OwnData
  <2>3. StalePointerHarmless'
    BY <1>1, <1>2, <1>3, <2>1 DEF StalePointerHarmless, Updating
  <2>4. exPc' = "alloc" => \A s \in ToSet(ble) : node[s].mac # rep.mac
    BY <1>2, <1>3 DEF Matches
  <2> QED BY <1>1, <1>2, <2>1, <2>2, <2>3, <2>4 DEF IInv, DataInv
<1> QED BY <1>4, <1>5, <1>6, <1>7 DEF IInv

-----------------------------------------------------------------------------
(* The examiner's steps on one device.                                     *)

\* An update through the pointer, stale or not, disturbs no other device.
LEMMA ExUpdateKeeps == IInv /\ (ExFlags \/ ExButton \/ ExCheckRsp \/ ExWriteRsp) => IInv'
<1> SUFFICES ASSUME IInv, ExFlags \/ ExButton \/ ExCheckRsp \/ ExWriteRsp PROVE IInv'
  OBVIOUS
<1> USE DEF tempVars, exVars, poolVars, repVars, ExGoto
<1>1. /\ UNCHANGED <<tempVars, tlocal, poolVars, ble, repVars, toPc>>
      /\ exPc \in Updating
      /\ \/ exPc' \in {"button", "scan_rsp"} /\ exPtr' = exPtr
         \/ exPc' = "release" /\ exPtr' = NoSlot
  BY DEF ExFlags, ExButton, SetButton, ExCheckRsp, ExWriteRsp, Updating
<1>2. exPtr \in Slots /\ rep \in ReportType /\ node[exPtr] \in NodeType
  <2>1. tlocal # << >> /\ exPtr \in Slots
    BY <1>1 DEF IInv, ExInv, Updating
  <2>2. cur \in ToSet(tlocal)
    BY <2>1, ListElements DEF IInv, TypeOK, cur
  <2> QED BY <2>1, <2>2, NamesAssumption DEF IInv, TypeOK, TempInv, Listed, rep
<1>3. /\ node' \in [Slots -> NodeType]
      /\ \A s \in Slots : s # exPtr => node'[s] = node[s]
      /\ node'[exPtr].mac = node[exPtr].mac
      /\ node'[exPtr].rsp \in {node[exPtr].rsp, NoMac, rep.mac}
  <2>1. CASE ExFlags
    BY <1>2, <2>1 DEF ExFlags, IInv, TypeOK, NodeType, ReportType
  <2>2. CASE ExButton
    BY <1>2, <2>2 DEF ExButton, SetButton, IInv, TypeOK, NodeType, ReportType
  <2>3. CASE ExCheckRsp
    BY <2>3 DEF ExCheckRsp, IInv, TypeOK
  <2>4. CASE ExWriteRsp
    BY <1>2, <2>4 DEF ExWriteRsp, IInv, TypeOK, NodeType, ReportType
  <2> QED BY <2>1, <2>2, <2>3, <2>4
<1>4. TypeOK'
  BY <1>1, <1>2, <1>3 DEF IInv, TypeOK, ExPcs
<1>5. TempInv' /\ RepInv' /\ PoolInv'
  BY <1>1, TempFrame, RepFrame, PoolFrame DEF IInv, Held
<1>6. ExInv'
  BY <1>1, <1>2 DEF IInv, ExInv, Updating
<1>7. DataInv'
  <2>1. Held' = {} /\ Held = {} /\ rep' = rep
    BY <1>1 DEF Held, rep, cur, Updating
  <2>2. ToSet(ble) \subseteq Slots /\ ToSet(local) \subseteq Slots
    BY ListElements DEF IInv, TypeOK
  <2>3. \A s \in Slots : node'[s].mac = node[s].mac
    BY <1>3
  <2>4. exPtr \in ToSet(ble) \cup ToSet(local) => node[exPtr].mac = rep.mac
    BY <1>1 DEF IInv, PoolInv, DataInv, StalePointerHarmless
  <2>5. OwnData'
    BY <1>1, <1>3, <2>1, <2>2, <2>3, <2>4 DEF IInv, DataInv, OwnData
  <2>6. StalePointerHarmless'
    BY <1>1, <1>2, <2>1, <2>3, NamesAssumption DEF IInv, DataInv, StalePointerHarmless, Updating
  <2> QED BY <1>1, <2>1, <2>2, <2>3, <2>5, <2>6 DEF IInv, DataInv
<1> QED BY <1>4, <1>5, <1>6, <1>7 DEF IInv

\* A slot of mempool is obtained: one that no list and no earlier step
\* of the examiner holds.
LEMMA AllocFresh ==
  ASSUME IInv, NEW s \in Slots, MpAlloc(s), exPc = "alloc"
  PROVE  /\ s \notin ToSet(ble) \cup ToSet(local)
         /\ s \notin free' /\ free' \subseteq Slots /\ blocks' \in 1..MaxBlocks
         /\ free' \cap (ToSet(ble) \cup ToSet(local)) = {}
         /\ free' \cup {s} \subseteq Live' /\ Live \subseteq Live'
<1>1. blocks \in 1..MaxBlocks /\ blocks' \in blocks..MaxBlocks /\ MaxBlocks \in Nat
  BY PoolAssumption DEF IInv, TypeOK, MpAlloc
<1>2. Live \subseteq Live'
  BY <1>1, PoolAssumption DEF Live
<1>3. CASE s \in free /\ free' = free \ {s} /\ blocks' = blocks
  BY <1>1, <1>2, <1>3 DEF IInv, TypeOK, PoolInv, Owned
<1>4. CASE /\ free = {} /\ blocks < MaxBlocks /\ s \in BlockSlots(blocks + 1)
           /\ free' = BlockSlots(blocks + 1) \ {s} /\ blocks' = blocks + 1
  <2>1. BlockSlots(blocks + 1) \cap Live = {} /\ BlockSlots(blocks + 1) \subseteq Slots
    BY <1>1, PoolAssumption DEF BlockSlots, Live
  <2>2. BlockSlots(blocks + 1) \subseteq Live'
    BY <1>1, <1>4, PoolAssumption DEF BlockSlots, Live
  <2> QED BY <1>1, <1>2, <1>4, <2>1, <2>2 DEF IInv, PoolInv, Owned
<1> QED BY <1>3, <1>4 DEF MpAlloc

LEMMA ExAllocKeeps == IInv /\ ExAlloc => IInv'
<1> SUFFICES ASSUME IInv, ExAlloc PROVE IInv'
  OBVIOUS
<1> USE DEF tempVars, exVars, repVars, ExGoto
<1>1. PICK s \in Slots :
        /\ MpAlloc(s) /\ exPc' = "link" /\ exPtr' = s
        /\ node' = [node EXCEPT ![s] =
             [Allocated(s) EXCEPT !.mac = rep.mac, !.need = rep.need, !.button = rep.pressed]]
  BY DEF ExAlloc
<1>2. UNCHANGED <<tempVars, tlocal, ble, repVars, toPc>> /\ exPc = "alloc" /\ rep' = rep
  BY DEF ExAlloc, rep, cur
<1>3. rep \in ReportType /\ tlocal # << >>
  <2>1. tlocal # << >>
    BY <1>2 DEF IInv, ExInv
  <2>2. cur \in ToSet(tlocal)
    BY <2>1, ListElements DEF IInv, TypeOK, cur
  <2> QED BY <2>1, <2>2, NamesAssumption DEF IInv, TypeOK, TempInv, Listed, rep
<1>4. /\ node' \in [Slots -> NodeType] /\ node'[s].mac = rep.mac /\ node'[s].rsp = NoMac
      /\ \A u \in Slots : u # s => node'[u] = node[u]
  BY <1>1, <1>3 DEF IInv, TypeOK, NodeType, ReportType, Allocated, Zero
<1>5. /\ s \notin ToSet(ble) \cup ToSet(local)
      /\ s \notin free' /\ free' \subseteq Slots /\ blocks' \in 1..MaxBlocks
      /\ free' \cap (ToSet(ble) \cup ToSet(local)) = {}
      /\ free' \cup {s} \subseteq Live' /\ Live \subseteq Live'
  BY <1>1, <1>2, AllocFresh
<1>6. TypeOK'
  <2>1. used' \in Int
    BY <1>1 DEF MpAlloc, IInv, TypeOK
  <2> QED BY <1>1, <1>2, <1>4, <1>5, <2>1 DEF IInv, TypeOK, ExPcs
<1>7. TempInv' /\ RepInv'
  BY <1>2, TempFrame, RepFrame DEF IInv
<1>8. ExInv'
  BY <1>1, <1>2, <1>3 DEF ExInv, Updating
<1>9. PoolInv'
  <2>1. Held' = {s}
    BY <1>1 DEF Held
  <2>2. NoDup(ble') /\ NoDup(local') /\ ToSet(ble') = ToSet(ble) /\ ToSet(local') = ToSet(local)
    BY <1>2 DEF IInv, PoolInv
  <2> QED BY <1>2, <1>5, <2>1, <2>2 DEF IInv, PoolInv, Owned
<1>10. DataInv'
  <2>1. Held = {} /\ Held' = {s}
    BY <1>1, <1>2 DEF Held
  <2>2. ToSet(ble) \subseteq Slots /\ ToSet(local) \subseteq Slots
    BY ListElements DEF IInv, TypeOK
  <2>3. OwnData'
    BY <1>2, <1>3, <1>4, <1>5, <2>1, <2>2 DEF IInv, DataInv, OwnData, ReportType
  <2>4. StalePointerHarmless'
    BY <1>1 DEF StalePointerHarmless, Updating
  <2> QED BY <1>1, <1>2, <1>4, <1>5, <2>2, <2>3, <2>4 DEF IInv, DataInv
<1> QED BY <1>6, <1>7, <1>8, <1>9, <1>10 DEF IInv

LEMMA ExSkipKeeps == IInv /\ ExAllocFails => IInv'
<1> SUFFICES ASSUME IInv, ExAllocFails PROVE IInv'
  OBVIOUS
<1> USE DEF tempVars, exVars, poolVars, repVars, ExGoto, ExAllocFails, ExSkip
<1>1. TypeOK'
  BY DEF IInv, TypeOK, ExPcs
<1>2. TempInv' /\ RepInv' /\ PoolInv'
  BY TempFrame, RepFrame, PoolFrame DEF IInv, Held
<1>3. ExInv'
  BY DEF IInv, ExInv, Updating
<1>4. DataInv'
  BY DEF IInv, DataInv, OwnData, StalePointerHarmless, Held, Updating
<1> QED BY <1>1, <1>2, <1>3, <1>4 DEF IInv

\* The new node joins the list: no other has its address, though list_lock was
\* free since the lookup.
LEMMA ExLinkKeeps == IInv /\ ExLink => IInv'
<1> SUFFICES ASSUME IInv, ExLink PROVE IInv'
  OBVIOUS
<1> USE DEF tempVars, exVars, poolVars, repVars, ExGoto, ExLink
<1>1. exPtr \in Slots /\ Held = {exPtr} /\ Held' = {}
  BY DEF IInv, ExInv, Held
<1>2. exPtr \notin free \cup ToSet(ble) \cup ToSet(local)
  BY <1>1 DEF IInv, PoolInv
<1>3. /\ ble' \in Seq(Slots) /\ NoDup(ble') /\ ToSet(ble') = ToSet(ble) \cup {exPtr}
  BY <1>1, <1>2, AppendList DEF IInv, TypeOK, PoolInv
<1>4. TypeOK'
  BY <1>3 DEF IInv, TypeOK, ExPcs
<1>5. TempInv' /\ RepInv'
  BY TempFrame, RepFrame DEF IInv
<1>6. ExInv'
  BY DEF IInv, ExInv, Updating
<1>7. PoolInv'
  <2>1. Live' = Live /\ NoDup(local') /\ ToSet(local') = ToSet(local) /\ free' = free
    BY DEF Live, IInv, PoolInv
  <2> QED BY <1>1, <1>2, <1>3, <2>1 DEF IInv, PoolInv, Owned
<1>8. DataInv'
  <2>1. OwnData'
    BY <1>1, <1>3 DEF IInv, DataInv, OwnData
  <2>2. node[exPtr].mac = rep.mac /\ \A s \in ToSet(ble) : node[s].mac # rep.mac
    BY DEF IInv, DataInv
  <2> QED BY <1>3, <2>1, <2>2 DEF DataInv, IInv, StalePointerHarmless, Updating
<1> QED BY <1>4, <1>5, <1>6, <1>7, <1>8 DEF IInv

LEMMA ExReleaseKeeps == IInv /\ ExRelease => IInv'
<1> SUFFICES ASSUME IInv, ExRelease PROVE IInv'
  OBVIOUS
<1> USE DEF exVars, poolVars, repVars, ExRelease, TempFree
<1>1. /\ tlocal' \in Seq(TempSlots) /\ cur \in TempSlots /\ ToSet(tlocal) = {cur} \cup ToSet(tlocal')
      /\ NoDup(tlocal') /\ cur \notin ToSet(tlocal')
  BY TailList DEF IInv, TypeOK, TempInv, ExInv, cur
<1>2. TypeOK'
  BY <1>1 DEF IInv, TypeOK, ExPcs
<1>3. TempInv'
  <2>1. UNCHANGED <<scanHeld, temp>> /\ NoDup(temp')
    BY DEF IInv, TempInv
  <2>2. \A t \in Listed' : t \in Listed /\ t # cur /\ t \in TempSlots
    BY <1>1, <2>1, ListElements, NamesAssumption DEF IInv, TypeOK, TempInv, Listed, ScanHeld
  <2>3. \A t \in Listed' : trep'[t] \in Reports
    BY <1>1, <2>2 DEF IInv, TypeOK, TempInv
  <2> QED BY <1>1, <2>1, <2>3 DEF IInv, TempInv, ScanHeld
<1>4. ExInv' /\ RepInv'
  BY RepFrame DEF IInv, ExInv, Updating
<1>5. PoolInv'
  BY PoolFrame DEF IInv, Held
<1>6. DataInv'
  BY DEF IInv, DataInv, OwnData, StalePointerHarmless, Held, Updating
<1> QED BY <1>2, <1>3, <1>4, <1>5, <1>6 DEF IInv

-----------------------------------------------------------------------------
(* The reporter's steps.                                                   *)

LEMMA RepDetachKeeps == IInv /\ (RepPoll \/ RepDetach) => IInv'
<1> SUFFICES ASSUME IInv PROVE RepPoll \/ RepDetach => IInv'
  OBVIOUS
<1> USE DEF exVars, poolVars
<1>1. ASSUME RepPoll PROVE IInv'
  <2>1. TypeOK' /\ TempInv' /\ ExInv' /\ PoolInv' /\ DataInv'
    BY <1>1, TempFrame, ExFrame, PoolFrame, DataFrame
    DEF RepPoll, tempVars, IInv, TypeOK, RepPcs, Held, rep, cur
  <2>2. RepInv'
    BY <1>1 DEF RepPoll, IInv, RepInv
  <2> QED BY <2>1, <2>2 DEF IInv
<1>2. ASSUME RepDetach PROVE IInv'
  <2> USE <1>2 DEF RepDetach, DetachPrefix
  <2>1. ble \in Seq(Slots) /\ TakeCount \in 0..Len(ble) /\ Len(ble) \in Nat
    BY BatchAssumption DEF TakeCount, IInv, TypeOK
  <2>2. /\ local' \in Seq(Slots) /\ ble' \in Seq(Slots) /\ Len(local') = TakeCount
        /\ ToSet(ble) = ToSet(local') \cup ToSet(ble') /\ ToSet(local') \cap ToSet(ble') = {}
        /\ NoDup(local') /\ NoDup(ble')
    BY <2>1, SplitList DEF IInv, PoolInv
  <2>3. local = << >> /\ at = 0 /\ hdr = 0 /\ recs = << >> /\ ToSet(local) = {}
    BY EmptyList DEF IInv, RepInv
  <2>4. TypeOK'
    BY <2>1, <2>2 DEF IInv, TypeOK, RepPcs, tempVars
  <2>5. TempInv' /\ ExInv'
    BY TempFrame, ExFrame DEF IInv
  <2>6. RepInv'
    <3>1. Len(local') = 0 <=> local' = << >>
      BY <2>2, ListElements DEF RepDetach
    <3>2. \/ TakeCount = 0 /\ repPc' = "idle" /\ at' = 0 /\ hdr' = 0
          \/ TakeCount > 0 /\ repPc' = "count" /\ at' = 1 /\ hdr' = TakeCount
      BY <2>1
    <3>3. recs' = << >>
      BY <2>3
    <3> QED BY ONLY <2>1, <2>2, <3>1, <3>2, <3>3 DEF RepInv
  <2>7. PoolInv'
    <3>1. Held' = Held /\ Live' = Live /\ free' = free
      BY DEF Held, Live
    <3> QED BY <2>2, <2>3, <3>1 DEF IInv, PoolInv, Owned
  <2>8. DataInv'
    <3>1. rep' = rep /\ Held' = Held
      BY DEF rep, cur, tempVars, Held
    <3>2. OwnData' /\ StalePointerHarmless'
      BY <2>2, <3>1 DEF IInv, DataInv, OwnData, StalePointerHarmless
    <3> QED BY <2>2, <3>1, <3>2 DEF IInv, DataInv
  <2> QED BY <2>4, <2>5, <2>6, <2>7, <2>8 DEF IInv
<1> QED BY <1>1, <1>2

LEMMA RepVisitKeeps == IInv /\ (RepCount \/ RepWrite) => IInv'
<1> SUFFICES ASSUME IInv, RepCount \/ RepWrite PROVE IInv'
  OBVIOUS
<1> USE DEF exVars, poolVars, RepCount, CountOff, RepWrite, WriteUnless, Visit
<1>1. UNCHANGED <<tempVars, exVars, poolVars, node, ble, local, toPc>>
  OBVIOUS
<1>2. local \in Seq(Slots) /\ at \in 1..Len(local) /\ local[at] \in Slots /\ Len(local) \in Nat
  BY DEF IInv, RepInv, TypeOK
<1>3. at' \in 1..Len(local) /\ repPc' \in {"count", "write", "free"}
  BY <1>2
<1>4. hdr' \in Nat /\ (repPc' = "count" => hdr' >= Len(local') - at' + 1)
  BY <1>2 DEF IInv, TypeOK, RepInv
<1>5. recs' \in Seq([mac: Macs \cup {NoMac}, rsp: Macs \cup {NoMac}])
  <2> DEFINE R == [mac: Macs \cup {NoMac}, rsp: Macs \cup {NoMac}]
             r == Record(local[at])
  <2>1. recs \in Seq(R) /\ r \in R
    BY <1>2 DEF Record, IInv, TypeOK, NodeType
  <2>2. recs' = recs \/ recs' = Append(recs, r)
    OBVIOUS
  <2> HIDE DEF R, r
  <2>3. recs' \in Seq(R)
    BY <2>1, <2>2, AppendList
  <2> QED BY <2>3 DEF R
<1>6. TypeOK'
  BY <1>1, <1>2, <1>3, <1>4, <1>5 DEF IInv, TypeOK, RepPcs, tempVars
<1>7. RepInv'
  <2>1. local # << >> /\ local' = local
    BY <1>1 DEF IInv, RepInv
  <2> QED BY <1>1, <1>3, <1>4, <2>1 DEF RepInv
<1>8. TempInv' /\ ExInv' /\ PoolInv' /\ DataInv'
  BY <1>1, TempFrame, ExFrame, PoolFrame, DataFrame DEF IInv, tempVars, Held, rep, cur
<1> QED BY <1>6, <1>7, <1>8 DEF IInv

\* Slots go back to the pool: their nodes are cleared, or all as it was.
LEMMA FreeTypes ==
  ASSUME IInv, NEW S, S \subseteq Slots, MpFree(S)
  PROVE  /\ free' = free \cup (S \ Stuck) /\ free' \subseteq Slots /\ blocks' = blocks
         /\ used' \in Int /\ node' \in [Slots -> NodeType]
         /\ \A s \in Slots : s \notin S \ Stuck => node'[s] = node[s]
         /\ Live' = Live
<1>1. IsFiniteSet(S \ Stuck)
  BY PoolAssumption, FS_Subset
<1>2. Cardinality(S \ Stuck) \in Int
  BY <1>1, FS_CardinalityType
<1>3. Zero \in NodeType
  BY DEF Zero, NodeType
<1> QED BY <1>2, <1>3 DEF MpFree, FreeSlots, IInv, TypeOK, Live

\* What the steps that free nodes have in common: those nodes, and no others,
\* leave their list.
LEMMA FreeKeepsLists ==
  ASSUME IInv, NEW S, S \subseteq ToSet(ble) \cup ToSet(local), MpFree(S),
         ToSet(ble') \subseteq ToSet(ble) \ S, ToSet(local') \subseteq ToSet(local) \ S,
         NoDup(ble'), NoDup(local'), UNCHANGED <<tempVars, exVars>>
  PROVE  TempInv' /\ ExInv' /\ PoolInv' /\ DataInv'
<1>1. S \subseteq Slots /\ ToSet(ble) \subseteq Slots /\ ToSet(local) \subseteq Slots
  BY ListElements DEF IInv, TypeOK
<1>2. /\ free' = free \cup (S \ Stuck)
      /\ \A s \in Slots : s \notin S \ Stuck => node'[s] = node[s]
      /\ Live' = Live
  BY <1>1, FreeTypes
<1>3. TempInv' /\ ExInv'
  BY TempFrame, ExFrame DEF IInv, exVars
<1>4. Held' = Held /\ Held \cap S = {} /\ Held \subseteq Slots
  BY DEF Held, exVars, IInv, PoolInv, ExInv
<1>5. PoolInv'
  BY <1>2, <1>4 DEF IInv, PoolInv, Owned
<1>6. rep' = rep
  BY DEF rep, cur, tempVars, exVars
<1>7. \A s \in ToSet(ble') \cup ToSet(local') \cup Held' : node'[s] = node[s]
  BY <1>1, <1>2, <1>4
<1>8. OwnData'
  BY <1>4, <1>7 DEF IInv, DataInv, OwnData
<1>9. StalePointerHarmless'
  BY <1>2, <1>6 DEF IInv, DataInv, StalePointerHarmless, exVars
<1>10. exPc = "link" => exPtr \in Held'
  BY <1>4 DEF Held
<1>11. DataInv'
  BY <1>6, <1>7, <1>8, <1>9, <1>10 DEF IInv, DataInv, exVars
<1> QED BY <1>3, <1>5, <1>11

LEMMA RepFreeKeeps == IInv /\ RepFree => IInv'
<1> SUFFICES ASSUME IInv, RepFree PROVE IInv'
  OBVIOUS
<1> DEFINE s == Head(local)
<1>1. MpFree({s}) /\ local' = Tail(local) /\ UNCHANGED <<tempVars, exVars, ble, toPc>>
  BY DEF RepFree
<1>2. /\ local' \in Seq(Slots) /\ s \in Slots /\ Len(local') = Len(local) - 1
      /\ ToSet(local) = {s} \cup ToSet(local')
      /\ NoDup(local') /\ s \notin ToSet(local')
  BY TailList DEF RepFree, IInv, TypeOK, RepInv, PoolInv
<1>3. /\ free' \subseteq Slots /\ blocks' = blocks /\ used' \in Int
      /\ node' \in [Slots -> NodeType]
  BY <1>1, <1>2, FreeTypes
<1>4. Len(local') \in Nat /\ (Len(local') = 0 <=> local' = << >>)
  BY <1>2, ListElements
<1>5. \/ /\ Len(local') >= 1 /\ repPc' = "free" /\ at' = 1 /\ hdr' = hdr /\ recs' = recs
      \/ /\ Len(local') = 0 /\ repPc' = "idle" /\ at' = 0 /\ hdr' = 0 /\ recs' = << >>
  <2>1. at = 1 /\ repPc = "free" /\ Len(local) \in Nat
    BY DEF RepFree, IInv, RepInv, TypeOK
  <2>2. IF Len(local) > 1
        THEN UNCHANGED <<repPc, at, hdr, recs>>
        ELSE repPc' = "idle" /\ at' = 0 /\ hdr' = 0 /\ recs' = << >>
    BY DEF RepFree
  <2> QED BY ONLY <1>2, <1>4, <2>1, <2>2
<1>6. RepInv'
  BY ONLY <1>4, <1>5 DEF RepInv
<1>7. TypeOK'
  <2>1. at' \in 0..Len(local') /\ repPc' \in RepPcs
    BY ONLY <1>4, <1>5 DEF RepPcs
  <2>2. hdr' \in Nat /\ recs' \in Seq([mac: Macs \cup {NoMac}, rsp: Macs \cup {NoMac}])
    <3> DEFINE R == [mac: Macs \cup {NoMac}, rsp: Macs \cup {NoMac}]
    <3>1. hdr \in Nat /\ recs \in Seq(R)
      BY DEF IInv, TypeOK
    <3> HIDE DEF R
    <3>2. hdr' \in {hdr, 0} /\ recs' \in {recs, << >>}
      BY ONLY <1>5
    <3>3. << >> \in Seq(R)
      OBVIOUS
    <3>4. recs' \in Seq(R)
      BY ONLY <3>1, <3>2, <3>3
    <3>5. hdr' \in Nat
      BY <3>1, <3>2
    <3> QED BY <3>4, <3>5 DEF R
  <2> QED BY <1>1, <1>2, <1>3, <2>1, <2>2 DEF IInv, TypeOK, tempVars, exVars
<1>8. TempInv' /\ ExInv' /\ PoolInv' /\ DataInv'
  <2>1. NoDup(ble') /\ ToSet(ble') = ToSet(ble) /\ s \notin ToSet(ble)
    BY <1>1, <1>2 DEF IInv, PoolInv
  <2> QED BY <1>1, <1>2, <2>1, FreeKeepsLists
<1> QED BY <1>6, <1>7, <1>8 DEF IInv

-----------------------------------------------------------------------------
(* The cleaner's steps, and the theorems.                                  *)

LEMMA CleanKeeps == IInv /\ Cleaner => IInv'
<1> SUFFICES ASSUME IInv PROVE ToCheck \/ ToClean => IInv'
  BY DEF Cleaner
<1>1. ASSUME ToCheck PROVE IInv'
  <2>1. TypeOK' /\ TempInv' /\ ExInv' /\ RepInv' /\ PoolInv' /\ DataInv'
    BY <1>1, TempFrame, ExFrame, RepFrame, PoolFrame, DataFrame
    DEF ToCheck, CleanWhen, tempVars, exVars, poolVars, repVars, IInv, TypeOK, Held, rep, cur
  <2> QED BY <2>1 DEF IInv
<1>2. ASSUME ToClean PROVE IInv'
  <2>1. /\ MpFree(ToSet(ble)) /\ ble' = << >> /\ toPc' = "idle"
        /\ UNCHANGED <<tempVars, exVars, repVars>>
    BY <1>2 DEF ToClean
  <2>2. ToSet(ble) \subseteq Slots
    BY ListElements DEF IInv, TypeOK
  <2>3. /\ free' \subseteq Slots /\ blocks' = blocks /\ used' \in Int
        /\ node' \in [Slots -> NodeType]
    BY <2>1, <2>2, FreeTypes
  <2>4. TypeOK'
    BY <2>1, <2>3 DEF IInv, TypeOK, tempVars, exVars, repVars
  <2>5. RepInv'
    BY <2>1, RepFrame DEF IInv
  <2>6. TempInv' /\ ExInv' /\ PoolInv' /\ DataInv'
    <3>1. ToSet(ble') = {} /\ NoDup(ble')
      BY <2>1, EmptyList
    <3>2. NoDup(local') /\ ToSet(local') = ToSet(local) /\ ToSet(local) \cap ToSet(ble) = {}
      BY <2>1 DEF repVars, IInv, PoolInv
    <3> QED BY <2>1, <3>1, <3>2, FreeKeepsLists
  <2> QED BY <2>4, <2>5, <2>6 DEF IInv
<1> QED BY <1>1, <1>2

LEMMA StepKeeps == IInv /\ [Next]_vars => IInv'
<1> SUFFICES ASSUME IInv, [Next]_vars PROVE IInv'
  OBVIOUS
<1>1. CASE ScanAlloc \/ ScanDrop \/ ScanLink
  BY <1>1, ScanKeeps
<1>2. CASE Examiner
  BY <1>2, ExPassKeeps, ExLookupKeeps, ExUpdateKeeps, ExAllocKeeps, ExSkipKeeps,
     ExLinkKeeps, ExReleaseKeeps DEF Examiner
<1>3. CASE RepPoll \/ Reporter
  BY <1>3, RepDetachKeeps, RepVisitKeeps, RepFreeKeeps DEF Reporter
<1>4. CASE Cleaner
  BY <1>4, CleanKeeps
<1>5. CASE UNCHANGED vars
  <2>1. TypeOK'
    BY <1>5 DEF vars, tempVars, exVars, poolVars, repVars, IInv, TypeOK
  <2>2. TempInv' /\ ExInv' /\ RepInv' /\ PoolInv' /\ DataInv'
    BY <1>5, TempFrame, ExFrame, RepFrame, PoolFrame, DataFrame
    DEF vars, tempVars, exVars, poolVars, repVars, IInv, Held, rep, cur
  <2> QED BY <2>1, <2>2 DEF IInv
<1> QED BY <1>1, <1>2, <1>3, <1>4, <1>5 DEF Next

\* IInv holds throughout, however many slots, tags and reports there are.
THEOREM Invariance == Spec => []IInv
  BY InitIInv, StepKeeps, PTL DEF Spec

\* Every variable keeps its type.
THEOREM TypeCorrect == Spec => []TypeOK
<1>1. IInv => TypeOK
  BY DEF IInv
<1> QED BY <1>1, Invariance, PTL

\* A slot of mempool never has two owners: nodes are freed and updated outside
\* list_lock, yet none is freed twice or while a list still links it.
THEOREM SlotsOwnedOnce == Spec => []OneOwner
<1>1. IInv => OneOwner
  BY DEF IInv, PoolInv, OneOwner, NoDup
<1> QED BY <1>1, Invariance, PTL

\* The same for the slots of the temp pool.
THEOREM TempSlotsOwnedOnce == Spec => []TempOneOwner
<1>1. IInv => TempOneOwner
  BY DEF IInv, TempInv, TempOneOwner, NoDup, ScanHeld
<1> QED BY <1>1, Invariance, PTL

\* The list never holds two nodes of one device, although the lookup and the
\* insertion are separate critical sections.
THEOREM ObjectsDistinct == Spec => []DistinctObjects
<1>1. IInv => DistinctObjects
  BY DEF IInv, TypeOK, PoolInv, DataInv, DistinctObjects, NoDup, ToSet
<1> QED BY <1>1, Invariance, PTL

\* No node in use carries another device's scan response, although the examiner
\* writes through a pointer its lock no longer protects, ...
THEOREM DataOwn == Spec => []OwnData
<1>1. IInv => OwnData
  BY DEF IInv, DataInv
<1> QED BY <1>1, Invariance, PTL

\* ... because that pointer leads to its device's node, or to a free slot.
THEOREM PointerHarmless == Spec => []StalePointerHarmless
<1>1. IInv => StalePointerHarmless
  BY DEF IInv, DataInv
<1> QED BY <1>1, Invariance, PTL

-----------------------------------------------------------------------------
(* A property of steps.                                                    *)

LEMMA PressStep == IInv /\ [Next]_vars => [PressStays]_vars
<1> SUFFICES ASSUME IInv, Next, NEW s \in ToSet(ble), node[s].button,
                    s \in ToSet(ble') \cup ToSet(local')
             PROVE  node'[s].button
  BY DEF PressStays
<1>1. s \in Slots /\ ToSet(local) \subseteq Slots
  BY ListElements DEF IInv, TypeOK
<1>2. CASE node' = node
  BY <1>2
<1>3. CASE ExFlags \/ ExWriteRsp \/ ExButton
  <2>1. exPtr \in Slots /\ node[exPtr] \in NodeType
    BY <1>3 DEF ExFlags, ExWriteRsp, ExButton, SetButton, IInv, TypeOK, ExInv, Updating
  <2>2. node'[s] = node[s] \/ (s = exPtr /\ (node'[s].button = node[s].button \/ node'[s].button))
    BY <1>1, <1>3, <2>1 DEF ExFlags, ExWriteRsp, ExButton, SetButton, IInv, TypeOK, NodeType
  <2> QED BY <2>2
<1>4. CASE ExAlloc
  <2>1. PICK u \in Slots : MpAlloc(u) /\ node' = [node EXCEPT ![u] = node'[u]]
    BY <1>4 DEF ExAlloc, IInv, TypeOK
  <2>2. u # s
    BY <1>4, <2>1, AllocFresh DEF ExAlloc
  <2> QED BY <1>1, <2>1, <2>2 DEF IInv, TypeOK
<1>5. CASE RepFree
  <2>1. MpFree({Head(local)}) /\ Head(local) \in ToSet(local)
    BY <1>5, ListElements DEF RepFree, IInv, TypeOK, RepInv
  <2>2. s # Head(local)
    BY <2>1 DEF IInv, PoolInv
  <2> QED BY <1>1, <2>1, <2>2, FreeTypes
<1>6. CASE ToClean
  BY <1>6, EmptyList DEF ToClean, repVars, IInv, PoolInv
<1> QED
  BY <1>2, <1>3, <1>4, <1>5, <1>6
  DEF Next, ScanAlloc, ScanDrop, ScanLink, Examiner, ExDetach, DetachLeaving, ExDone, ExWeak,
      ExIgnore, ExLookup, LookupYields, ExCheckRsp, ExAllocFails, ExSkip, ExLink, ExRelease,
      RepPoll, Reporter, RepDetach, DetachPrefix, RepCount, CountOff, RepWrite, WriteUnless, Visit,
      Cleaner, ToCheck, CleanWhen, vars

\* A recorded button press is not lost while its node is listed or detached.
THEOREM PressesKept == Spec => PressKept
  BY Invariance, PressStep, PTL DEF Spec, PressKept

-----------------------------------------------------------------------------
(* The pool.                                                               *)

\* What NoSlotLost adds to IInv.
Account ==
  /\ Live \ Owned \subseteq Stuck
  /\ used = Cardinality(Live) - Cardinality(free)

LEMMA DisjointUnion ==
  ASSUME NEW S, NEW T, IsFiniteSet(S), IsFiniteSet(T), S \cap T = {}
  PROVE  IsFiniteSet(S \cup T) /\ Cardinality(S \cup T) = Cardinality(S) + Cardinality(T)
<1>1. Cardinality(S) \in Nat /\ Cardinality(T) \in Nat /\ Cardinality(S \cap T) = 0
  BY FS_CardinalityType, FS_EmptySet
<1>2. /\ IsFiniteSet(S \cup T)
      /\ Cardinality(S \cup T) = Cardinality(S) + Cardinality(T) - Cardinality(S \cap T)
  BY FS_Union
<1> QED BY <1>1, <1>2

LEMMA Finite == \A S : S \subseteq Slots => IsFiniteSet(S) /\ Cardinality(S) \in Nat
<1> SUFFICES ASSUME NEW S, S \subseteq Slots PROVE IsFiniteSet(S) /\ Cardinality(S) \in Nat
  OBVIOUS
<1>1. IsFiniteSet(S)
  BY PoolAssumption, FS_Subset
<1> QED BY <1>1, FS_CardinalityType

LEMMA InitAccount == Init => Account
<1> SUFFICES ASSUME Init PROVE Account
  OBVIOUS
<1>1. Live = free /\ free \subseteq Slots
  BY PoolAssumption DEF Init, Live, BlockSlots
<1>2. Live \ Owned \subseteq Stuck
  BY <1>1 DEF Owned
<1>3. Cardinality(free) \in Nat
  BY <1>1, Finite
<1> QED BY <1>1, <1>2, <1>3 DEF Account, Init

\* A step that moves no slot in or out of the pool, and forgets none.
LEMMA AccountFrame ==
  IInv /\ Account /\ UNCHANGED poolVars /\ Owned \subseteq Owned' => Account'
<1> SUFFICES ASSUME IInv, Account, UNCHANGED poolVars, Owned \subseteq Owned' PROVE Account'
  OBVIOUS
<1>1. Live' = Live
  BY DEF Live, poolVars
<1> QED BY <1>1 DEF Account, poolVars

LEMMA AllocAccount ==
  ASSUME IInv, Account, ExAlloc
  PROVE  Account'
<1>1. PICK s \in Slots : MpAlloc(s) /\ exPc' = "link" /\ exPtr' = s
  BY DEF ExAlloc, ExGoto
<1>2. UNCHANGED <<ble, local>> /\ Held = {} /\ Held' = {s}
  BY <1>1 DEF ExAlloc, repVars, Held
<1>3. free \subseteq Slots /\ Live \subseteq Slots /\ blocks \in 1..MaxBlocks /\ MaxBlocks \in Nat
  BY PoolAssumption DEF IInv, TypeOK, Live
<1>4. CASE s \in free /\ free' = free \ {s} /\ blocks' = blocks
  <2>1. Live' = Live
    BY <1>4 DEF Live
  <2>2. Owned' = Owned
    BY <1>2, <1>4 DEF Owned
  <2>3. Cardinality(free') = Cardinality(free) - 1
    BY <1>3, <1>4, Finite, FS_RemoveElement
  <2>4. Cardinality(Live) \in Nat /\ Cardinality(free) \in Nat
    BY <1>3, Finite
  <2> QED BY <1>1, <2>1, <2>2, <2>3, <2>4 DEF Account, MpAlloc
<1>5. CASE /\ free = {} /\ blocks < MaxBlocks /\ s \in BlockSlots(blocks + 1)
           /\ free' = BlockSlots(blocks + 1) \ {s} /\ blocks' = blocks + 1
  <2> DEFINE B == BlockSlots(blocks + 1)
  <2>1. B \subseteq Slots /\ Live \cap B = {} /\ Live' = Live \cup B
    BY <1>3, <1>5, PoolAssumption DEF BlockSlots, Live
  <2>2. B \cup Owned = Owned'
    BY <1>2, <1>5 DEF Owned
  <2>3. Live' \ Owned' \subseteq Stuck
    BY <2>1, <2>2 DEF Account
  <2>4. Cardinality(Live') = Cardinality(Live) + Cardinality(B)
    BY <1>3, <2>1, Finite, DisjointUnion
  <2>5. Cardinality(free') = Cardinality(B) - 1
    BY <1>5, <2>1, Finite, FS_RemoveElement
  <2>6. Cardinality(free) = 0 /\ Cardinality(Live) \in Nat /\ Cardinality(B) \in Nat
    BY <1>3, <1>5, <2>1, Finite, FS_EmptySet
  <2> QED BY <1>1, <2>3, <2>4, <2>5, <2>6 DEF Account, MpAlloc
<1> QED BY <1>1, <1>4, <1>5 DEF MpAlloc

\* Slots are freed: those refused are in Stuck.
LEMMA FreeAccount ==
  ASSUME IInv, Account, NEW S, S \subseteq ToSet(ble) \cup ToSet(local), MpFree(S),
         Owned \ S \subseteq Owned'
  PROVE  Account'
<1>1. S \subseteq Slots /\ free \subseteq Slots /\ free \cap S = {}
  BY ListElements DEF IInv, TypeOK, PoolInv
<1>2. /\ free' = free \cup (S \ Stuck) /\ Live' = Live
      /\ used' = used - Cardinality(S \ Stuck)
  BY <1>1, FreeTypes DEF MpFree, FreeSlots
<1>3. Live' \ Owned' \subseteq Stuck
  BY <1>2 DEF Account, Owned
<1>4. Cardinality(free') = Cardinality(free) + Cardinality(S \ Stuck)
  BY <1>1, <1>2, Finite, DisjointUnion
<1>5. Live \subseteq Slots
  BY DEF Live
<1>6. Cardinality(free) \in Nat /\ Cardinality(S \ Stuck) \in Nat /\ Cardinality(Live) \in Nat
  BY <1>1, <1>5, Finite
<1> QED BY <1>2, <1>3, <1>4, <1>6 DEF Account

LEMMA StepAccount == IInv /\ Account /\ [Next]_vars => Account'
<1> SUFFICES ASSUME IInv, Account, [Next]_vars PROVE Account'
  OBVIOUS
<1>1. CASE UNCHANGED <<poolVars, ble, local>> /\ Held \subseteq Held'
  <2>1. Owned \subseteq Owned'
    BY <1>1 DEF Owned, poolVars
  <2> QED BY <1>1, <2>1, AccountFrame
<1>2. CASE ExAlloc
  BY <1>2, AllocAccount
<1>3. CASE ExLink
  <2>1. ToSet(ble') = ToSet(ble) \cup {exPtr} /\ Held = {exPtr}
    BY <1>3, AppendList DEF ExLink, IInv, TypeOK, ExInv, Held
  <2>2. Owned \subseteq Owned'
    BY <1>3, <2>1 DEF ExLink, Owned, poolVars, repVars
  <2> QED BY <1>3, <2>2, AccountFrame DEF ExLink
<1>4. CASE RepDetach
  <2>1. ble \in Seq(Slots) /\ TakeCount \in 0..Len(ble)
    BY BatchAssumption DEF TakeCount, IInv, TypeOK
  <2>2. ToSet(ble) = ToSet(local') \cup ToSet(ble') /\ ToSet(local) = {}
    BY <1>4, <2>1, SplitList, EmptyList DEF RepDetach, DetachPrefix, IInv, RepInv
  <2>3. Held' = Held /\ free' = free /\ UNCHANGED poolVars
    BY <1>4 DEF RepDetach, DetachPrefix, Held, exVars, poolVars
  <2>4. Owned \subseteq Owned'
    BY <2>2, <2>3 DEF Owned
  <2> QED BY <2>3, <2>4, AccountFrame
<1>5. CASE RepFree
  <2>1. MpFree({Head(local)}) /\ ToSet(local) = {Head(local)} \cup ToSet(local')
    BY <1>5, TailList DEF RepFree, IInv, TypeOK, RepInv
  <2>2. free \subseteq free' /\ ble' = ble /\ Held' = Held
    BY <1>5, <2>1 DEF RepFree, MpFree, FreeSlots, Held, exVars
  <2>3. Owned \ {Head(local)} \subseteq Owned'
    BY <2>1, <2>2 DEF Owned
  <2> QED BY <2>1, <2>3, FreeAccount
<1>6. CASE ToClean
  <2>1. MpFree(ToSet(ble)) /\ local' = local /\ Held' = Held /\ free \subseteq free'
    BY <1>6 DEF ToClean, repVars, exVars, MpFree, FreeSlots, Held
  <2>2. Owned \ ToSet(ble) \subseteq Owned'
    BY <2>1 DEF Owned
  <2> QED BY <2>1, <2>2, FreeAccount
<1> QED
  <2>1. CASE ScanAlloc \/ ScanDrop \/ ScanLink \/ UNCHANGED vars
    BY <1>1, <2>1 DEF ScanAlloc, ScanDrop, ScanLink, vars, poolVars, exVars, repVars, Held
  <2>2. CASE Examiner
    BY <1>1, <1>2, <1>3, <2>2
    DEF Examiner, ExDetach, DetachLeaving, ExDone, ExWeak, ExIgnore, ExLookup, LookupYields,
        ExFlags, ExButton, SetButton, ExCheckRsp, ExWriteRsp, ExAllocFails, ExSkip, ExRelease,
        ExGoto, poolVars, repVars, Held
  <2>3. CASE RepPoll \/ Reporter \/ Cleaner
    BY <1>1, <1>4, <1>5, <1>6, <2>3
    DEF RepPoll, Reporter, RepCount, CountOff, RepWrite, WriteUnless, Visit, Cleaner, ToCheck,
        CleanWhen, poolVars, exVars, repVars, Held
  <2> QED BY <2>1, <2>2, <2>3 DEF Next

\* Whichever threads race for it, no slot of mempool is forgotten but those
\* mp_free refuses, and used_slots counts exactly the slots that are not free.
THEOREM NothingLost == Spec => []NoSlotLost
<1>1. IInv /\ Account => NoSlotLost
  BY DEF IInv, PoolInv, Account, NoSlotLost
<1> QED BY <1>1, Invariance, InitAccount, StepAccount, PTL DEF Spec

-----------------------------------------------------------------------------
(* The message.                                                            *)

\* Indices of the reporter's nodes that are in the message as they stand:
\* those the first pass is done with, and those the second has yet to write.
Seen(k) == {i \in 1..k-1 : ~Skipped(local[i])}
Left(k) == {i \in k..Len(local) : ~Skipped(local[i])}

\* How far the header is from the records, if nothing changes any more.
Error ==
  CASE repPc = "count" -> hdr - (Len(local) - at + 1) - Cardinality(Seen(at))
    [] repPc = "write" -> hdr - Len(recs) - Cardinality(Left(at))
    [] repPc = "free"  -> hdr - Len(recs)
    [] OTHER -> 0

\* The examiner may still change a node of the message.
Pending == exPc \in {"flags", "check", "scan_rsp"} /\ exPtr \in ToSet(local)

ErrorInv ==
  /\ Error \in -1..1 /\ (Pending => Error = 0 \/ repPc = "free")
  /\ repPc = "count" => recs = << >>

LEMMA IndexSets ==
  ASSUME NEW a \in Int, NEW b \in Int, NEW S \in SUBSET (a..b)
  PROVE  IsFiniteSet(S) /\ Cardinality(S) \in Nat
<1>1. IsFiniteSet(a..b)
  BY FS_Interval
<1>2. IsFiniteSet(S)
  BY <1>1, FS_Subset
<1> QED BY <1>2, FS_CardinalityType

\* One index more or less is one element more or less.
LEMMA OneApart ==
  ASSUME NEW S, NEW T, NEW j, IsFiniteSet(S), \A i : i # j => (i \in S <=> i \in T)
  PROVE  IsFiniteSet(T) /\ Cardinality(T) - Cardinality(S) \in -1..1
<1>1. T = S \cup {j} \/ T = S \ {j}
  OBVIOUS
<1>2. Cardinality(S) \in Nat
  BY FS_CardinalityType
<1>3. CASE T = S \cup {j}
  BY <1>2, <1>3, FS_AddElement
<1>4. CASE T = S \ {j}
  BY <1>2, <1>4, FS_RemoveElement
<1> QED BY <1>1, <1>3, <1>4

LEMMA Counts ==
  ASSUME IInv
  PROVE  /\ hdr \in Int /\ Len(recs) \in Nat /\ Len(local) \in Nat /\ at \in Nat
         /\ IsFiniteSet(Seen(at)) /\ Cardinality(Seen(at)) \in Nat
         /\ IsFiniteSet(Left(at)) /\ Cardinality(Left(at)) \in Nat
<1>1. hdr \in Int /\ Len(recs) \in Nat /\ Len(local) \in Nat /\ at \in Nat
  BY DEF IInv, TypeOK
<1>2. Seen(at) \in SUBSET (1..at-1) /\ Left(at) \in SUBSET (at..Len(local))
  BY DEF Seen, Left
<1> HIDE DEF Seen, Left
<1>3. IsFiniteSet(Seen(at)) /\ Cardinality(Seen(at)) \in Nat
  <2>1. 1 \in Int /\ at - 1 \in Int
    BY <1>1
  <2> QED BY <2>1, <1>2, IndexSets
<1>4. IsFiniteSet(Left(at)) /\ Cardinality(Left(at)) \in Nat
  <2>1. at \in Int /\ Len(local) \in Int
    BY <1>1
  <2> QED BY <2>1, <1>2, IndexSets
<1> QED BY <1>1, <1>3, <1>4

\* The reporter stands still and no node of its list changes.
LEMMA ErrorFrame ==
  ASSUME IInv, ErrorInv, UNCHANGED repVars,
         \A s \in ToSet(local) : Skipped(s)' = Skipped(s), Pending' => Pending
  PROVE  ErrorInv'
<1>1. \A i \in 1..Len(local) : local[i] \in ToSet(local)
  BY DEF ToSet, IInv, TypeOK
<1>2. repPc \in {"count", "write"} => at \in 1..Len(local) /\ Len(local) \in Nat
  BY DEF IInv, RepInv, TypeOK
<1>3. repPc \in {"count", "write"} => Seen(at)' = Seen(at) /\ Left(at)' = Left(at)
  BY <1>1, <1>2 DEF Seen, Left, repVars
<1> QED BY <1>3 DEF ErrorInv, Error, repVars

\* The reporter stands still and one node changes, through the pointer.
LEMMA ErrorUpdate ==
  ASSUME IInv, ErrorInv, UNCHANGED repVars, exPc \in {"flags", "scan_rsp"}, ~Pending',
         \A s \in ToSet(local) : s # exPtr => Skipped(s)' = Skipped(s)
  PROVE  ErrorInv'
<1>1. CASE exPtr \notin ToSet(local)
  BY <1>1, ErrorFrame DEF Pending
<1>2. CASE exPtr \in ToSet(local)
  <2>1. PICK j \in 1..Len(local) : local[j] = exPtr
    BY <1>2 DEF ToSet, IInv, TypeOK
  <2>2. /\ \A i \in 1..Len(local) : local[i] \in ToSet(local)
        /\ \A i \in 1..Len(local) : i # j => local[i] # exPtr
    BY <2>1 DEF ToSet, NoDup, IInv, TypeOK, PoolInv
  <2>3. Error = 0 \/ repPc = "free"
    BY <1>2 DEF Pending, ErrorInv
  <2>4. CASE repPc \notin {"count", "write"}
    BY <2>4 DEF ErrorInv, Error, repVars
  <2>5. CASE repPc \in {"count", "write"}
    <3>1. at \in 1..Len(local) /\ Len(local) \in Nat
      BY <2>5 DEF IInv, RepInv, TypeOK
    <3>2. \A i : i # j => (i \in Seen(at) <=> i \in Seen(at)') /\ (i \in Left(at) <=> i \in Left(at)')
      BY <2>2, <3>1 DEF Seen, Left, repVars
    <3>3. /\ Cardinality(Seen(at)') - Cardinality(Seen(at)) \in -1..1
          /\ Cardinality(Left(at)') - Cardinality(Left(at)) \in -1..1
      BY <3>2, Counts, OneApart
    <3>4. IsFiniteSet(Seen(at)') /\ IsFiniteSet(Left(at)')
      BY <3>2, Counts, OneApart
    <3>5. Cardinality(Seen(at)') \in Nat /\ Cardinality(Left(at)') \in Nat
      BY <3>4, FS_CardinalityType
    <3>6. /\ Error = 0
          /\ hdr' = hdr /\ at' = at /\ Len(local)' = Len(local) /\ Len(recs)' = Len(recs)
          /\ repPc' = repPc
      BY <2>3, <2>5 DEF repVars
    <3>7. /\ hdr \in Int /\ Len(recs) \in Nat /\ Len(local) \in Nat /\ at \in Nat
          /\ Cardinality(Seen(at)) \in Nat /\ Cardinality(Left(at)) \in Nat
      BY Counts
    <3> HIDE DEF Seen, Left
    <3>8. CASE repPc = "count"
      <4>1. /\ Error = hdr - (Len(local) - at + 1) - Cardinality(Seen(at))
            /\ Error' = hdr - (Len(local) - at + 1) - Cardinality(Seen(at)')
        BY <3>6, <3>8 DEF Error
      <4>2. Error' \in -1..1
        BY <4>1, <3>3, <3>5, <3>6, <3>7
      <4> QED BY <4>2 DEF ErrorInv, repVars
    <3>9. CASE repPc = "write"
      <4>1. /\ Error = hdr - Len(recs) - Cardinality(Left(at))
            /\ Error' = hdr - Len(recs) - Cardinality(Left(at)')
        BY <3>6, <3>9 DEF Error
      <4>2. Error' \in -1..1
        BY <4>1, <3>3, <3>5, <3>6, <3>7
      <4> QED BY <4>2 DEF ErrorInv, repVars
    <3> QED BY <2>5, <3>8, <3>9
  <2> QED BY <2>4, <2>5
<1> QED BY <1>1, <1>2

-----------------------------------------------------------------------------
(* The other threads' steps.                                               *)

\* Neither the examiner's pointer nor a node of the message changes.
LEMMA OthersKeep ==
  IInv /\ ErrorInv /\ (ScanAlloc \/ ScanDrop \/ ScanLink \/ ToCheck \/ ToClean \/ RepPoll)
    => ErrorInv'
<1> SUFFICES ASSUME IInv, ErrorInv,
                    ScanAlloc \/ ScanDrop \/ ScanLink \/ ToCheck \/ ToClean \/ RepPoll
             PROVE  ErrorInv'
  OBVIOUS
<1>1. CASE ScanAlloc \/ ScanDrop \/ ScanLink \/ ToCheck
  <2>1. UNCHANGED <<repVars, node, exPc, exPtr>>
    BY <1>1 DEF ScanAlloc, ScanDrop, ScanLink, ToCheck, CleanWhen, exVars, repVars, vars
  <2>2. \A s \in ToSet(local) : Skipped(s)' = Skipped(s)
    BY <2>1 DEF Skipped
  <2>3. Pending' => Pending
    BY <2>1 DEF Pending, repVars
  <2> QED BY <2>1, <2>2, <2>3, ErrorFrame
<1>2. CASE ToClean
  <2>1. UNCHANGED <<repVars, exPc, exPtr>>
    BY <1>2 DEF ToClean, exVars
  <2>2. \A s \in ToSet(local) : s \in Slots /\ s \notin ToSet(ble)
    BY ListElements DEF IInv, TypeOK, PoolInv
  <2>3. \A s \in ToSet(local) : node'[s] = node[s]
    BY <1>2, <2>2 DEF ToClean, MpFree, FreeSlots
  <2>4. \A s \in ToSet(local) : Skipped(s)' = Skipped(s)
    BY <2>3 DEF Skipped
  <2>5. Pending' => Pending
    BY <2>1 DEF Pending, repVars
  <2> QED BY <2>1, <2>4, <2>5, ErrorFrame
<1>3. CASE RepPoll
  <2>1. repPc = "idle" /\ repPc' = "detach" /\ local' = local /\ local = << >>
    BY <1>3 DEF RepPoll, IInv, RepInv
  <2>2. Error' = 0
    BY <2>1 DEF Error
  <2> QED BY <2>1, <2>2 DEF ErrorInv
<1> QED BY <1>1, <1>2, <1>3

\* The examiner takes a pointer from the BLE list only, moves on without one,
\* or changes a node through the one it holds.
LEMMA ExaminerKeeps == IInv /\ ErrorInv /\ Examiner => ErrorInv'
<1> SUFFICES ASSUME IInv, ErrorInv, Examiner PROVE ErrorInv'
  OBVIOUS
<1>1. CASE ExDetach \/ ExDone \/ ExWeak \/ ExIgnore \/ ExAllocFails \/ ExLink
  <2>1. UNCHANGED <<repVars, node>> /\ exPc' \notin {"flags", "check", "scan_rsp"}
    BY <1>1 DEF ExDetach, DetachLeaving, ExDone, ExWeak, ExIgnore, ExAllocFails, ExSkip, ExLink, ExGoto
  <2>2. \A s \in ToSet(local) : Skipped(s)' = Skipped(s)
    BY <2>1 DEF Skipped
  <2> QED BY <2>1, <2>2, ErrorFrame DEF Pending
<1>2. CASE ExLookup
  <2>1. UNCHANGED <<repVars, node>>
    BY <1>2 DEF ExLookup, LookupYields
  <2>2. ~Pending'
    <3>1. exPc' \in {"flags", "check"} => exPtr' \in ToSet(ble)
      BY <1>2 DEF ExLookup, LookupYields, Matches, ExGoto
    <3>2. exPc' # "scan_rsp" /\ local' = local
      BY <1>2, <2>1 DEF ExLookup, LookupYields, ExGoto, repVars
    <3> QED BY <3>1, <3>2 DEF Pending, IInv, PoolInv
  <2>3. \A s \in ToSet(local) : Skipped(s)' = Skipped(s)
    BY <2>1 DEF Skipped
  <2> QED BY <2>1, <2>2, <2>3, ErrorFrame
<1>3. CASE ExFlags \/ ExWriteRsp
  <2>1. UNCHANGED repVars /\ exPc \in {"flags", "scan_rsp"} /\ exPc' \in {"button", "release"}
    BY <1>3 DEF ExFlags, ExWriteRsp, ExGoto
  <2>2. \A s \in ToSet(local) : s # exPtr => node'[s] = node[s]
    BY <1>3, ListElements DEF ExFlags, ExWriteRsp, IInv, TypeOK
  <2>3. \A s \in ToSet(local) : s # exPtr => Skipped(s)' = Skipped(s)
    BY <2>2 DEF Skipped
  <2> QED BY <2>1, <2>3, ErrorUpdate DEF Pending
<1>4. CASE ExButton
  <2>1. UNCHANGED repVars /\ exPc' = "release"
    BY <1>4 DEF ExButton, SetButton, ExGoto
  <2>2. \A s \in ToSet(local) : node'[s].need = node[s].need /\ node'[s].rsp = node[s].rsp
    BY <1>4, ListElements DEF ExButton, SetButton, IInv, TypeOK, NodeType
  <2>3. \A s \in ToSet(local) : Skipped(s)' = Skipped(s)
    BY <2>2 DEF Skipped
  <2> QED BY <2>1, <2>3, ErrorFrame DEF Pending
<1>5. CASE ExCheckRsp
  <2>1. UNCHANGED <<repVars, node>>
    BY <1>5 DEF ExCheckRsp
  <2>2. Pending' => Pending
    BY <1>5, <2>1 DEF ExCheckRsp, ExGoto, Pending, repVars
  <2>3. \A s \in ToSet(local) : Skipped(s)' = Skipped(s)
    BY <2>1 DEF Skipped
  <2> QED BY <2>1, <2>2, <2>3, ErrorFrame
<1>6. CASE ExAlloc
  <2>1. PICK s \in Slots : MpAlloc(s) /\ ExGoto("link", s) /\
          node' = [node EXCEPT ![s] =
            [Allocated(s) EXCEPT !.mac = rep.mac, !.need = rep.need, !.button = rep.pressed]]
    BY <1>6 DEF ExAlloc
  <2>2. s \notin ToSet(local)
    <3>1. exPc = "alloc" /\ MpAlloc(s)
      BY <1>6, <2>1 DEF ExAlloc
    <3> QED BY <3>1, AllocFresh
  <2>3. UNCHANGED repVars /\ exPc' = "link"
    BY <1>6 DEF ExAlloc, ExGoto
  <2>4. \A t \in ToSet(local) : node'[t] = node[t]
    BY <2>1, <2>2, ListElements DEF IInv, TypeOK
  <2>5. \A t \in ToSet(local) : Skipped(t)' = Skipped(t)
    BY <2>4 DEF Skipped
  <2> QED BY <2>3, <2>5, ErrorFrame DEF Pending
<1>7. CASE ExRelease
  <2>1. UNCHANGED <<repVars, node>> /\ exPc' = "loop"
    BY <1>7 DEF ExRelease
  <2>2. \A s \in ToSet(local) : Skipped(s)' = Skipped(s)
    BY <2>1 DEF Skipped
  <2> QED BY <2>1, <2>2, ErrorFrame DEF Pending
<1> QED BY <1>1, <1>2, <1>3, <1>4, <1>5, <1>6, <1>7 DEF Examiner

-----------------------------------------------------------------------------
(* The reporter's steps.                                                   *)

LEMMA DetachKeeps == IInv /\ ErrorInv /\ RepDetach => ErrorInv'
<1> SUFFICES ASSUME IInv, RepDetach PROVE ErrorInv'
  OBVIOUS
<1>1. TakeCount \in 0..Len(ble) /\ ble \in Seq(Slots)
  BY ListElements, BatchAssumption DEF IInv, TypeOK, TakeCount
<1>2. /\ local' = SubSeq(ble, 1, TakeCount) /\ hdr' = TakeCount /\ recs' = recs
      /\ IF TakeCount = 0 THEN repPc' = "idle" ELSE repPc' = "count" /\ at' = 1
  BY DEF RepDetach, DetachPrefix
<1>3. Len(local') = TakeCount
  BY <1>1, <1>2, SplitList
<1>4. recs' = << >>
  BY <1>2 DEF RepDetach, DetachPrefix, IInv, RepInv
<1>5. CASE TakeCount = 0
  BY <1>2, <1>4, <1>5 DEF ErrorInv, Error
<1>6. CASE TakeCount # 0
  <2>1. Cardinality(Seen(at)') = 0
    <3>1. Seen(at)' = {}
      BY <1>2, <1>6 DEF Seen
    <3> QED BY <3>1, FS_EmptySet
  <2>2. Error' = hdr' - (Len(local') - at' + 1) - Cardinality(Seen(at)')
    BY <1>2, <1>6 DEF Error
  <2>3. Error' = 0
    BY <1>1, <1>2, <1>3, <1>6, <2>1, <2>2
  <2> QED BY <1>4, <2>3 DEF ErrorInv
<1> QED BY <1>5, <1>6

\* A pass over a node leaves the error as it was.
LEMMA CountKeeps == IInv /\ ErrorInv /\ RepCount => ErrorInv'
<1> SUFFICES ASSUME IInv, ErrorInv, RepCount PROVE ErrorInv'
  OBVIOUS
<1>1. /\ repPc = "count" /\ recs' = << >> /\ UNCHANGED <<local, node, exPc, exPtr>>
      /\ IF at < Len(local) THEN at' = at + 1 /\ repPc' = "count"
                            ELSE at' = 1 /\ repPc' = "write"
      /\ hdr' = hdr - (IF Skipped(local[at]) THEN 1 ELSE 0)
  BY DEF RepCount, CountOff, Visit, exVars, ErrorInv
<1>2. at \in 1..Len(local) /\ Len(local) \in Nat /\ hdr \in Int
  BY <1>1, Counts DEF IInv, RepInv
<1>3. IsFiniteSet(Seen(at)) /\ Cardinality(Seen(at)) \in Nat
  BY Counts
<1>4. Cardinality(Seen(at + 1)) = Cardinality(Seen(at)) + (IF Skipped(local[at]) THEN 0 ELSE 1)
  <2>1. CASE Skipped(local[at])
    <3>1. Seen(at + 1) = Seen(at)
      BY <1>2, <2>1 DEF Seen
    <3> QED BY <1>3, <2>1, <3>1
  <2>2. CASE ~Skipped(local[at])
    <3>1. Seen(at + 1) = Seen(at) \cup {at} /\ at \notin Seen(at)
      BY <1>2, <2>2 DEF Seen
    <3> QED BY <1>3, <2>2, <3>1, FS_AddElement
  <2> QED BY <2>1, <2>2
<1>5. Error = hdr - (Len(local) - at + 1) - Cardinality(Seen(at))
  BY <1>1 DEF Error
<1>6. Error' = Error
  <2>1. CASE at < Len(local)
    <3>1. Seen(at)' = Seen(at + 1)
      BY <1>1, <2>1 DEF Seen, Skipped
    <3>2. Error' = hdr' - (Len(local) - (at + 1) + 1) - Cardinality(Seen(at + 1))
      BY <1>1, <2>1, <3>1 DEF Error
    <3> HIDE DEF Seen
    <3> QED BY <1>1, <1>2, <1>3, <1>4, <1>5, <3>2
  <2>2. CASE at = Len(local)
    <3>1. Left(at)' = Seen(at + 1)
      BY <1>1, <1>2, <2>2 DEF Left, Seen, Skipped
    <3>2. Error' = hdr' - Len(recs') - Cardinality(Seen(at + 1))
      BY <1>1, <1>2, <2>2, <3>1 DEF Error
    <3>3. Len(recs') = 0
      BY <1>1
    <3> HIDE DEF Seen
    <3> QED BY <1>1, <1>2, <1>3, <1>4, <1>5, <2>2, <3>2, <3>3
  <2> QED BY <1>2, <2>1, <2>2
<1>7. Pending' => Pending
  BY <1>1 DEF Pending
<1> QED BY <1>1, <1>6, <1>7 DEF ErrorInv

LEMMA WriteKeeps == IInv /\ ErrorInv /\ RepWrite => ErrorInv'
<1> SUFFICES ASSUME IInv, ErrorInv, RepWrite PROVE ErrorInv'
  OBVIOUS
<1>1. /\ repPc = "write" /\ UNCHANGED <<local, node, hdr, exPc, exPtr>>
      /\ IF at < Len(local) THEN at' = at + 1 /\ repPc' = "write" ELSE repPc' = "free"
  BY DEF RepWrite, WriteUnless, Visit, exVars
<1>2. at \in 1..Len(local) /\ Len(local) \in Nat /\ hdr \in Int /\ Len(recs) \in Nat
  BY <1>1, Counts DEF IInv, RepInv
<1>3. IsFiniteSet(Left(at)) /\ Cardinality(Left(at)) \in Nat
  BY Counts
<1>4. Len(recs') = Len(recs) + (IF Skipped(local[at]) THEN 0 ELSE 1)
  BY <1>2 DEF RepWrite, WriteUnless, IInv, TypeOK
<1>5. Cardinality(Left(at)) = Cardinality(Left(at + 1)) + (IF Skipped(local[at]) THEN 0 ELSE 1)
      /\ Cardinality(Left(at + 1)) \in Nat
  <2>1. CASE Skipped(local[at])
    <3>1. Left(at + 1) = Left(at)
      BY <1>2, <2>1 DEF Left
    <3> QED BY <1>3, <2>1, <3>1
  <2>2. CASE ~Skipped(local[at])
    <3>1. Left(at + 1) = Left(at) \ {at} /\ at \in Left(at)
      BY <1>2, <2>2 DEF Left
    <3>2. IsFiniteSet(Left(at + 1)) /\ Cardinality(Left(at + 1)) = Cardinality(Left(at)) - 1
      BY <1>3, <3>1, FS_RemoveElement
    <3>3. Cardinality(Left(at + 1)) \in Nat
      BY <3>2, FS_CardinalityType
    <3> QED BY <1>3, <2>2, <3>2, <3>3
  <2> QED BY <2>1, <2>2
<1>6. Error = hdr - Len(recs) - Cardinality(Left(at))
  BY <1>1 DEF Error
<1>7. Error' = Error
  <2>1. CASE at < Len(local)
    <3>1. Left(at)' = Left(at + 1)
      BY <1>1, <2>1 DEF Left, Skipped
    <3>2. Error' = hdr - Len(recs') - Cardinality(Left(at + 1))
      BY <1>1, <2>1, <3>1 DEF Error
    <3> HIDE DEF Left
    <3> QED BY <1>2, <1>3, <1>4, <1>5, <1>6, <3>2
  <2>2. CASE at = Len(local)
    <3>1. Cardinality(Left(at + 1)) = 0
      <4>1. Left(at + 1) = {}
        BY <1>2, <2>2 DEF Left
      <4> QED BY <4>1, FS_EmptySet
    <3>2. Error' = hdr - Len(recs')
      BY <1>1, <1>2, <2>2 DEF Error
    <3> HIDE DEF Left
    <3> QED BY <1>2, <1>3, <1>4, <1>5, <1>6, <3>1, <3>2
  <2> QED BY <1>2, <2>1, <2>2
<1>8. Pending' => Pending
  BY <1>1 DEF Pending
<1> QED BY <1>1, <1>7, <1>8 DEF ErrorInv

LEMMA FreeKeepsError == IInv /\ ErrorInv /\ RepFree => ErrorInv'
<1> SUFFICES ASSUME ErrorInv, RepFree PROVE ErrorInv'
  OBVIOUS
<1>1. \/ UNCHANGED <<repPc, hdr, recs>> /\ repPc = "free"
      \/ repPc' = "idle"
  BY DEF RepFree
<1>2. Error' \in {Error, 0}
  BY <1>1 DEF Error
<1> QED BY <1>1, <1>2 DEF ErrorInv, Error

-----------------------------------------------------------------------------
LEMMA ErrorStep == IInv /\ ErrorInv /\ [Next]_vars => ErrorInv'
<1> SUFFICES ASSUME IInv, ErrorInv, [Next]_vars PROVE ErrorInv'
  OBVIOUS
<1>1. ASSUME UNCHANGED vars PROVE ErrorInv'
  <2>1. UNCHANGED <<repVars, node, exPc, exPtr>>
    BY <1>1 DEF vars, exVars
  <2>2. \A s \in ToSet(local) : Skipped(s)' = Skipped(s)
    BY <2>1 DEF Skipped
  <2>3. Pending' => Pending
    BY <2>1 DEF Pending, repVars
  <2> QED BY <2>1, <2>2, <2>3, ErrorFrame
<1> QED BY <1>1, OthersKeep, ExaminerKeeps, DetachKeeps, CountKeeps, WriteKeeps, FreeKeepsError
      DEF Next, Reporter, Cleaner

\* The record count of a message is off by at most one, whatever the length of
\* the message: consolidate_tracked_data visits its nodes twice outside
\* list_lock, but only the pointer held at the detach reaches one of them.
THEOREM CountAlmostExact == Spec => []HeaderAlmostExact
<1>1. Init => ErrorInv
  BY DEF Init, ErrorInv, Error, Pending
<1>2. ErrorInv => HeaderAlmostExact
  BY DEF ErrorInv, Error, HeaderAlmostExact
<1> QED BY <1>1, <1>2, ErrorStep, Invariance, PTL DEF Spec
-----------------------------------------------------------------------------
(* The records of a message.                                               *)

\* What RecordsDistinct adds to IInv: the nodes of the reporter's list, and
\* those among them still to be written and the records, are of different
\* devices.
RecInv ==
  /\ \A s, t \in ToSet(local) : s # t => node[s].mac # node[t].mac
  /\ RecordsDistinct
  /\ repPc = "count" => recs = << >>
  /\ repPc = "write" =>
       \A i \in DOMAIN recs, j \in at..Len(local) : recs[i].mac # node[local[j]].mac

\* What the others do leaves the addresses of the reporter's nodes alone.
LEMMA RecFrame ==
  ASSUME IInv, RecInv, UNCHANGED repVars,
         \A s \in ToSet(local) : node'[s].mac = node[s].mac
  PROVE  RecInv'
<1>1. local' = local /\ recs' = recs /\ at' = at /\ repPc' = repPc
  BY DEF repVars
<1>2. RecordsDistinct'
  BY <1>1 DEF RecInv, RecordsDistinct
<1>3. \A s, t \in ToSet(local) : s # t => node'[s].mac # node'[t].mac
  BY DEF RecInv
<1>4. ASSUME repPc = "write", NEW i \in DOMAIN recs, NEW j \in at..Len(local)
      PROVE  recs[i].mac # node'[local[j]].mac
  <2>1. local[j] \in ToSet(local)
    <3>1. local \in Seq(Slots) /\ j \in 1..Len(local)
      BY <1>4 DEF IInv, TypeOK, RepInv
    <3> QED BY <3>1 DEF ToSet
  <2> QED BY <1>4, <2>1 DEF RecInv
<1> QED BY <1>1, <1>2, <1>3, <1>4 DEF RecInv

\* No step of another thread changes the address of a node the reporter holds.
LEMMA MacsStay ==
  ASSUME IInv, ScanAlloc \/ ScanDrop \/ ScanLink \/ Examiner \/ RepPoll \/ Cleaner,
         NEW s \in ToSet(local)
  PROVE  node'[s].mac = node[s].mac
<1>1. s \in Slots /\ s \notin ToSet(ble)
  BY ListElements DEF IInv, TypeOK, PoolInv
<1>2. CASE ExFlags \/ ExButton \/ ExWriteRsp
  <2>1. node[s] \in NodeType /\ node \in [Slots -> NodeType]
    BY <1>1 DEF IInv, TypeOK
  <2>2. \/ \E b : node' = [node EXCEPT ![exPtr].need = b]
        \/ \E b : node' = [node EXCEPT ![exPtr].button = b]
        \/ \E m : node' = [node EXCEPT ![exPtr].rsp = m]
    BY <1>2 DEF ExFlags, ExWriteRsp, ExButton, SetButton
  <2> QED BY <1>1, <2>1, <2>2 DEF NodeType
<1>3. CASE ExAlloc
  <2>1. PICK u \in Slots : MpAlloc(u) /\ node' = [node EXCEPT ![u] = node'[u]]
    BY <1>3 DEF ExAlloc, IInv, TypeOK
  <2>2. u # s
    BY <1>3, <2>1, AllocFresh DEF ExAlloc
  <2> QED BY <1>1, <2>1, <2>2 DEF IInv, TypeOK
<1>4. CASE ToClean
  BY <1>1, <1>4 DEF ToClean, MpFree, FreeSlots
<1> QED
  BY <1>2, <1>3, <1>4
  DEF ScanAlloc, ScanDrop, ScanLink, Examiner, ExDetach, DetachLeaving, ExDone, ExWeak, ExIgnore,
      ExLookup, LookupYields, ExCheckRsp, ExAllocFails, ExSkip, ExLink, ExRelease, RepPoll,
      Cleaner, ToCheck, CleanWhen, vars

LEMMA OthersKeepRec ==
  ASSUME IInv, RecInv, ScanAlloc \/ ScanDrop \/ ScanLink \/ Examiner \/ Cleaner
  PROVE  RecInv'
<1>1. UNCHANGED repVars
  BY DEF ScanAlloc, ScanDrop, ScanLink, Examiner, ExDetach, DetachLeaving, ExDone, ExWeak, ExIgnore,
         ExLookup, LookupYields, ExFlags, ExButton, SetButton, ExCheckRsp, ExWriteRsp, ExAlloc,
         ExAllocFails, ExSkip, ExLink, ExRelease, Cleaner, ToCheck, CleanWhen, ToClean, vars
<1> QED BY <1>1, MacsStay, RecFrame

\* The list the reporter detaches is a part of the BLE list, whose devices differ.
LEMMA DetachKeepsRec == ASSUME IInv, RepPoll \/ RepDetach PROVE RecInv'
<1>1. CASE RepPoll
  <2>1. repPc' = "detach" /\ local' = << >> /\ recs' = << >>
    BY <1>1 DEF RepPoll, IInv, RepInv
  <2> QED BY <2>1, EmptyList DEF RecInv, RecordsDistinct
<1>2. CASE RepDetach
  <2>1. TakeCount \in 0..Len(ble) /\ ble \in Seq(Slots)
    BY ListElements, BatchAssumption DEF IInv, TypeOK, TakeCount
  <2>2. /\ local' = SubSeq(ble, 1, TakeCount) /\ node' = node
        /\ recs' = << >> /\ repPc' \in {"idle", "count"}
    BY <1>2 DEF RepDetach, DetachPrefix, IInv, RepInv
  <2>3. ToSet(local') \subseteq ToSet(ble)
    BY <2>1, <2>2, SplitList
  <2>4. \A s, t \in ToSet(local') : s # t => node'[s].mac # node'[t].mac
    BY <2>2, <2>3 DEF IInv, DataInv
  <2> QED BY <2>2, <2>4 DEF RecInv, RecordsDistinct
<1> QED BY <1>1, <1>2

LEMMA CountKeepsRec == ASSUME IInv, RecInv, RepCount PROVE RecInv'
<1>1. recs = << >> /\ UNCHANGED <<recs, local, node>>
  BY DEF RepCount, CountOff, Visit, RecInv
<1> QED BY <1>1 DEF RecInv, RecordsDistinct

\* A node is written once, and none written before is of its device.
LEMMA WriteKeepsRec == ASSUME IInv, RecInv, RepWrite PROVE RecInv'
<1>1. /\ repPc = "write" /\ UNCHANGED <<local, node>>
      /\ IF at < Len(local) THEN at' = at + 1 /\ repPc' = "write" ELSE repPc' = "free"
      /\ recs' = IF Skipped(local[at]) THEN recs ELSE Append(recs, Record(local[at]))
  BY DEF RepWrite, WriteUnless, Visit
<1>2. /\ local \in Seq(Slots) /\ Len(local) \in Nat /\ DOMAIN local = 1..Len(local)
      /\ at \in 1..Len(local)
  BY <1>1 DEF IInv, TypeOK, RepInv
<1>3. \A j \in 1..Len(local) : local[j] \in ToSet(local) /\ local[j] \in Slots
  BY <1>2 DEF ToSet
<1>4. \A j \in 1..Len(local) : j # at => node[local[j]].mac # node[local[at]].mac
  <2>1. \A j \in 1..Len(local) : j # at => local[j] # local[at]
    BY <1>2 DEF IInv, PoolInv, NoDup
  <2> QED BY <1>2, <1>3, <2>1 DEF RecInv
<1> DEFINE r == Record(local[at])
<1>5. r.mac = node[local[at]].mac /\ r.rsp \in {NoMac, r.mac}
  BY <1>2, <1>3 DEF Record, IInv, DataInv, OwnData
<1> HIDE DEF r
<1>6. CASE recs' = recs
  <2>1. RecordsDistinct'
    BY <1>6 DEF RecInv, RecordsDistinct
  <2>2. repPc' = "write" => \A j \in at'..Len(local) : j \in at..Len(local)
    BY <1>1, <1>2
  <2> QED BY <1>1, <1>6, <2>1, <2>2 DEF RecInv
<1>7. CASE recs' = Append(recs, r)
  <2>1. /\ Len(recs) \in Nat /\ DOMAIN recs = 1..Len(recs)
        /\ DOMAIN recs' = 1..(Len(recs) + 1) /\ recs'[Len(recs) + 1] = r
        /\ \A i \in 1..Len(recs) : recs'[i] = recs[i]
    BY <1>7 DEF IInv, TypeOK
  <2>2. \A i \in 1..Len(recs), j \in at..Len(local) : recs[i].mac # node[local[j]].mac
    BY <1>1, <2>1 DEF RecInv
  <2>3. \A i \in 1..Len(recs) : recs[i].mac # r.mac
    BY <1>2, <1>5, <2>2
  <2>4. 1..(Len(recs) + 1) = 1..Len(recs) \cup {Len(recs) + 1}
    BY <2>1
  <2>5. RecordsDistinct'
    <3>1. \A i, j \in 1..Len(recs) : i # j => recs[i].mac # recs[j].mac
      BY <2>1 DEF RecInv, RecordsDistinct
    <3>2. \A i, j \in DOMAIN recs' : i # j => recs'[i].mac # recs'[j].mac
      BY <2>1, <2>3, <2>4, <3>1
    <3>3. \A i \in DOMAIN recs' : recs'[i].rsp \in {NoMac, recs'[i].mac}
      BY <1>5, <2>1, <2>4 DEF RecInv, RecordsDistinct
    <3> QED BY <3>2, <3>3 DEF RecordsDistinct
  <2>6. ASSUME repPc' = "write", NEW i \in DOMAIN recs', NEW j \in at'..Len(local)
        PROVE  recs'[i].mac # node[local[j]].mac
    <3>1. j \in at..Len(local) /\ j \in 1..Len(local) /\ j # at
      BY <1>1, <1>2, <2>6
    <3>2. CASE i \in 1..Len(recs)
      BY <2>1, <2>2, <3>1, <3>2
    <3>3. CASE i = Len(recs) + 1
      BY <1>4, <1>5, <2>1, <3>1, <3>3
    <3> QED BY <2>1, <2>4, <3>2, <3>3
  <2> QED BY <1>1, <2>5, <2>6 DEF RecInv
<1> QED BY <1>1, <1>6, <1>7 DEF r

\* The nodes go, the records stay until the last is freed.
LEMMA FreeKeepsRec == ASSUME IInv, RecInv, RepFree PROVE RecInv'
<1>1. /\ repPc = "free" /\ local' = Tail(local) /\ MpFree({Head(local)})
      /\ \/ recs' = recs /\ repPc' = "free"
         \/ recs' = << >> /\ repPc' = "idle"
  BY DEF RepFree
<1>2. local # << >> /\ local \in Seq(Slots) /\ NoDup(local)
  BY <1>1 DEF IInv, TypeOK, RepInv, PoolInv
<1>3. /\ ToSet(local') \subseteq ToSet(local) /\ Head(local) \notin ToSet(local')
      /\ ToSet(local') \subseteq Slots
  <2>1. Tail(local) \in Seq(Slots)
    BY <1>2, TailList
  <2> QED BY <1>1, <1>2, <2>1, TailList, ListElements
<1>4. \A s \in ToSet(local') : node'[s] = node[s]
  BY <1>1, <1>3 DEF MpFree, FreeSlots
<1>5. \A s, t \in ToSet(local') : s # t => node'[s].mac # node'[t].mac
  BY <1>3, <1>4 DEF RecInv
<1>6. RecordsDistinct'
  BY <1>1 DEF RecInv, RecordsDistinct
<1> QED BY <1>1, <1>5, <1>6 DEF RecInv

LEMMA RecStep == IInv /\ RecInv /\ [Next]_vars => RecInv'
<1> SUFFICES ASSUME IInv, RecInv, [Next]_vars PROVE RecInv'
  OBVIOUS
<1>1. ASSUME UNCHANGED vars PROVE RecInv'
  BY <1>1, RecFrame DEF vars
<1> QED BY <1>1, OthersKeepRec, DetachKeepsRec, CountKeepsRec, WriteKeepsRec, FreeKeepsRec
        DEF Next, Reporter

\* A message reports each device once, with no scan response but its own, however
\* often its node is updated, cleaned away or reallocated around the message.
THEOREM EachOnce == Spec => []RecordsDistinct
<1>1. Init => RecInv
  BY EmptyList DEF Init, RecInv, RecordsDistinct
<1>2. RecInv => RecordsDistinct
  BY DEF RecInv
<1> QED BY <1>1, <1>2, RecStep, Invariance, PTL DEF Spec
=============================================================================
