---------------------------- MODULE MemoryProofs ----------------------------
(***************************************************************************)
(* Proofs about Mempool, for slots and blocks of any size, any number of   *)
(* blocks and whatever addresses malloc returns; and about ListPointers,   *)
(* the lists through those slots, for any number of nodes.                 *)
(*                                                                         *)
(* IInv is inductive for Mempool.  It adds to the invariants that no two   *)
(* blocks overlap: then a slot other than the first of its block has no    *)
(* block that starts between the start of its own and itself, mp_free      *)
(* finds a distance that is a multiple of the slot size, and accepts it.   *)
(*                                                                         *)
(* LinkInv is inductive for ListPointers.  In the middle of an operation   *)
(* no list is whole, so it speaks of the pointers After(t): those there    *)
(* will be when t has done the writes it has begun.  In these the list of  *)
(* the thread that holds list_lock is a ring, the reporter's part a chain  *)
(* and then a ring, and no write of one thread is to an entry the list of  *)
(* another goes through, so that After of the one survives the other.      *)
(***************************************************************************)
EXTENDS Mempool, ListPointers, ListFacts, FiniteSetTheorems

Bytes == PerBlock * Size

BlocksApart ==
  \A i, j \in DOMAIN memory :
    i # j => memory[i] + Bytes <= memory[j] \/ memory[j] + Bytes <= memory[i]

IInv ==
  /\ PoolTypeOK /\ SlotsAccounted /\ OnlyFirstSlotsLeak
  /\ BlocksApart
  /\ IsFiniteSet(held \cup leaked)

-----------------------------------------------------------------------------
(* Slots and blocks.                                                       *)

LEMMA Constants == Size \in Nat \ {0} /\ PerBlock \in Nat \ {0} /\ Bytes \in Nat /\ Bases \subseteq Nat \ {0}
  BY SizeAssumption, BasesAssumption DEF Bytes

\* Slot n of a block lies within it.
LEMMA Offset ==
  ASSUME NEW n \in 0..PerBlock - 1
  PROVE  n * Size \in Nat /\ n * Size + Size <= Bytes
<1>1. ASSUME NEW i \in Nat, NEW k \in Nat, i < k, NEW s \in Nat \ {0}
      PROVE  i * s \in Nat /\ i * s + s <= k * s
  BY <1>1
<1>2. n \in Nat /\ n < PerBlock
  BY Constants
<1> QED BY <1>1, <1>2, Constants DEF Bytes

\* A distance of n slots is a multiple of the slot size.
LEMMA Multiple == ASSUME NEW n \in Nat PROVE (n * Size) % Size = 0
<1>1. ASSUME NEW k \in Nat, NEW s \in Nat \ {0} PROVE (k * s) % s = 0
  OBVIOUS
<1> QED BY <1>1, Constants

LEMMA SlotBounds ==
  ASSUME NEW base \in Bases, NEW s \in SlotsAt(base)
  PROVE  s \in Nat /\ base <= s /\ s + Size <= base + Bytes
<1>1. PICK n \in 0..PerBlock - 1 : s = base + n * Size
  BY DEF SlotsAt
<1>2. base \in Nat
  BY Constants
<1> HIDE DEF Bytes
<1> DEFINE d == n * Size
<1>3. d \in Nat /\ d + Size <= Bytes
  BY Offset
<1> HIDE DEF d
<1> QED BY <1>1, <1>2, <1>3, Constants DEF d

\* The first slot of a block is where the block starts.
LEMMA FirstSlot == \A base \in Bases : base \in SlotsAt(base)
<1> SUFFICES ASSUME NEW base \in Bases PROVE base \in SlotsAt(base)
  OBVIOUS
<1>1. 0 \in 0..PerBlock - 1 /\ base = base + 0 * Size
  BY Constants
<1> QED BY <1>1 DEF SlotsAt

\* A block malloc returns has no slot in common with those obtained before.
LEMMA FreshSlots ==
  ASSUME PoolTypeOK, NEW base \in Bases, Fresh(base)
  PROVE  SlotsAt(base) \cap AllSlots = {}
<1> SUFFICES ASSUME NEW s \in SlotsAt(base), NEW i \in DOMAIN memory, s \in SlotsAt(memory[i])
             PROVE  FALSE
  BY DEF AllSlots
<1>1. memory[i] \in Bases
  BY DEF PoolTypeOK
<1>2. base + Bytes <= memory[i] \/ memory[i] + Bytes <= base
  BY DEF Fresh, Bytes
<1>3. s \in Nat /\ base <= s /\ s + Size <= base + Bytes
  BY SlotBounds
<1>4. memory[i] <= s /\ s + Size <= memory[i] + Bytes
  BY <1>1, SlotBounds
<1>5. base \in Nat /\ memory[i] \in Nat /\ Bytes \in Nat /\ Size \in Nat \ {0}
  BY <1>1, Constants
<1> HIDE DEF Bytes
<1> QED BY <1>2, <1>3, <1>4, <1>5

\* mp_expand links each slot of the new block, once.
LEMMA PushedBlock ==
  ASSUME NEW base \in Bases
  PROVE  LET q == Pushed(base, << >>)
         IN  /\ q \in Seq(SlotsAt(base)) /\ q # << >> /\ Len(q) = PerBlock
             /\ ToSet(q) = SlotsAt(base) /\ NoDup(q)
<1> DEFINE q == [i \in 1..PerBlock |-> base + (PerBlock - i) * Size]
<1>1. DOMAIN q = 1..PerBlock /\ \A i \in 1..PerBlock : q[i] = base + (PerBlock - i) * Size
  OBVIOUS
<1>2. \A i \in 1..PerBlock : PerBlock - i \in 0..PerBlock - 1
  BY Constants
<1>3. \A n \in 0..PerBlock - 1 : PerBlock - n \in 1..PerBlock /\ PerBlock - (PerBlock - n) = n
  BY Constants
<1>4. ToSet(q) = SlotsAt(base)
  BY <1>1, <1>2, <1>3 DEF ToSet, SlotsAt
<1>5. \A i \in 1..PerBlock : q[i] \in SlotsAt(base)
  BY <1>1, <1>2 DEF SlotsAt
<1>6. q \in Seq(SlotsAt(base)) /\ Len(q) = PerBlock
  BY <1>1, <1>5, Constants
<1>7. Pushed(base, << >>) = q
  <2> HIDE DEF q
  <2>1. q \o << >> = q
    BY <1>6
  <2> QED BY <2>1 DEF Pushed, q
<1>8. NoDup(q)
  <2> SUFFICES ASSUME NEW i \in 1..PerBlock, NEW j \in 1..PerBlock, i # j PROVE q[i] # q[j]
    BY <1>1 DEF NoDup
  <2>1. ASSUME NEW b \in Nat, NEW k \in Nat, NEW n \in Nat, k # n, NEW s \in Nat \ {0}
        PROVE  b + k * s # b + n * s
    <3>1. k * s # n * s /\ k * s \in Nat /\ n * s \in Nat
      BY <2>1
    <3> QED BY <3>1
  <2>2. PerBlock - i \in Nat /\ PerBlock - j \in Nat /\ PerBlock - i # PerBlock - j
    BY Constants
  <2> QED BY <2>1, <2>2, <1>1, Constants
<1>9. q # << >>
  BY <1>6, Constants
<1> QED BY <1>7, <1>4, <1>6, <1>8, <1>9

\* SlotsAccounted, with the names of ListFacts.
LEMMA AccountedParts ==
  SlotsAccounted <=>
    /\ NoDup(head)
    /\ ToSet(head) \cup held \cup leaked = AllSlots
    /\ ToSet(head) \cap (held \cup leaked) = {} /\ held \cap leaked = {}
    /\ blocks = Len(head) /\ used_slots = Cardinality(held \cup leaked)
  BY DEF SlotsAccounted, NoDup

-----------------------------------------------------------------------------
LEMMA InitInv == PoolInit => IInv
<1> SUFFICES ASSUME PoolInit PROVE IInv
  OBVIOUS
<1>1. PICK base \in Bases :
        /\ head = Pushed(base, << >>) /\ memory = <<base>>
        /\ used_slots = 0 /\ blocks = PerBlock /\ held = {} /\ leaked = {}
  BY DEF PoolInit
<1>2. /\ head \in Seq(SlotsAt(base)) /\ Len(head) = PerBlock
      /\ ToSet(head) = SlotsAt(base) /\ NoDup(head)
  BY <1>1, PushedBlock
<1>3. memory \in Seq(Bases) /\ DOMAIN memory = {1} /\ memory[1] = base
  BY <1>1
<1>4. AllSlots = SlotsAt(base)
  BY <1>3 DEF AllSlots
<1>5. held \cup leaked = {} /\ IsFiniteSet({}) /\ Cardinality({}) = 0
  BY <1>1, FS_EmptySet
<1>6. PoolTypeOK
  BY <1>1, <1>2, <1>3, <1>4, Constants DEF PoolTypeOK
<1>7. SlotsAccounted
  BY <1>1, <1>2, <1>4, <1>5, AccountedParts
<1>8. BlocksApart /\ OnlyFirstSlotsLeak
  BY <1>1, <1>3 DEF BlocksApart, OnlyFirstSlotsLeak
<1> QED BY <1>5, <1>6, <1>7, <1>8 DEF IInv

\* Handing out the head of a free of free slots that, with those that are out,
\* are all slots of the blocks.
LEMMA HandOutInv ==
  ASSUME IInv, NEW free \in Seq(AllSlots'), free # << >>, NoDup(free),
         ToSet(free) \cup held \cup leaked = AllSlots',
         ToSet(free) \cap (held \cup leaked) = {},
         memory' \in Seq(Bases), BlocksApart', ToSet(memory) \subseteq ToSet(memory'),
         HandOut(free, Tail(free), memory')
  PROVE  IInv'
<1> DEFINE s == Head(free)
<1>1. /\ Tail(free) \in Seq(AllSlots') /\ s \in AllSlots' /\ Len(Tail(free)) = Len(free) - 1
      /\ ToSet(free) = {s} \cup ToSet(Tail(free))
      /\ NoDup(Tail(free)) /\ s \notin ToSet(Tail(free))
  BY TailList
<1>2. /\ head' = Tail(free) /\ blocks' = Len(free) - 1 /\ used_slots' = used_slots + 1
      /\ held' = held \cup {s} /\ leaked' = leaked
  BY DEF HandOut
<1> HIDE DEF s
<1>3. s \notin held \cup leaked /\ held' \cup leaked' = (held \cup leaked) \cup {s}
  BY <1>1, <1>2
<1>4. /\ IsFiniteSet(held' \cup leaked')
      /\ Cardinality(held' \cup leaked') = Cardinality(held \cup leaked) + 1
  BY <1>3, FS_AddElement DEF IInv
<1>5. Len(free) \in Nat /\ Len(Tail(free)) \in Nat
  BY <1>1, ListElements
<1>6. /\ ToSet(head') \cup held' \cup leaked' = AllSlots'
      /\ ToSet(head') \cap (held' \cup leaked') = {} /\ held' \cap leaked' = {}
  BY <1>1, <1>2, <1>3 DEF IInv, SlotsAccounted
<1>7. PoolTypeOK'
  BY <1>1, <1>2, <1>5, <1>6 DEF IInv, PoolTypeOK
<1>8. SlotsAccounted'
  <2>1. NoDup(head') /\ blocks' = Len(head')
    BY <1>1, <1>2
  <2>2. used_slots' = Cardinality(held' \cup leaked')
    BY <1>2, <1>4 DEF IInv, SlotsAccounted
  <2> QED BY <1>6, <2>1, <2>2 DEF SlotsAccounted, NoDup
<1>9. OnlyFirstSlotsLeak'
  BY <1>2 DEF IInv, OnlyFirstSlotsLeak
<1> QED BY <1>4, <1>7, <1>8, <1>9 DEF IInv

\* A slot of the free list is handed out.
LEMMA AllocInv == ASSUME IInv, head # << >>, HandOut(head, Tail(head), memory) PROVE IInv'
<1>1. memory' = memory
  BY DEF HandOut
<1>2. AllSlots' = AllSlots /\ BlocksApart'
  BY <1>1 DEF AllSlots, IInv, BlocksApart
<1>3. HandOut(head, Tail(head), memory')
  BY <1>1
<1> QED BY <1>1, <1>2, <1>3, HandOutInv, AccountedParts DEF IInv, PoolTypeOK

\* What a new block adds.
LEMMA GrownParts ==
  ASSUME IInv, NEW base \in Bases, Grown(base), memory' = Append(memory, base)
  PROVE  /\ AllSlots' = AllSlots \cup SlotsAt(base) /\ AllSlots \cap SlotsAt(base) = {}
         /\ ToSet(memory') = ToSet(memory) \cup {base} /\ memory' \in Seq(Bases)
         /\ BlocksApart'
<1>1. /\ DOMAIN memory = 1..Len(memory) /\ Len(memory) \in Nat
      /\ DOMAIN memory' = 1..Len(memory) + 1 /\ memory'[Len(memory) + 1] = base
      /\ \A i \in 1..Len(memory) : memory'[i] = memory[i] /\ memory[i] \in Nat
  <2>1. memory \in Seq(Bases)
    BY DEF IInv, PoolTypeOK
  <2>2. /\ DOMAIN memory = 1..Len(memory) /\ Len(memory) \in Nat
        /\ \A i \in 1..Len(memory) : memory[i] \in Bases
    BY <2>1
  <2>3. /\ DOMAIN memory' = 1..Len(memory) + 1 /\ memory'[Len(memory) + 1] = base
        /\ \A i \in 1..Len(memory) : memory'[i] = memory[i]
    BY <2>1
  <2> QED BY <2>2, <2>3, Constants
<1>2. DOMAIN memory' = DOMAIN memory \cup {Len(memory) + 1}
  BY <1>1
<1>3. AllSlots' = AllSlots \cup SlotsAt(base)
  <2>1. AllSlots' = UNION {SlotsAt(memory'[i]) : i \in DOMAIN memory'}
    BY DEF AllSlots, SlotsAt
  <2> QED BY <1>1, <1>2, <2>1 DEF AllSlots
<1>4. ToSet(memory') = ToSet(memory) \cup {base} /\ memory' \in Seq(Bases)
  BY AppendList DEF IInv, PoolTypeOK
<1>5. BlocksApart'
  <2> SUFFICES ASSUME NEW i \in DOMAIN memory', NEW j \in DOMAIN memory', i # j
               PROVE  memory'[i] + Bytes <= memory'[j] \/ memory'[j] + Bytes <= memory'[i]
    BY DEF BlocksApart, Bytes
  <2>1. CASE i \in DOMAIN memory /\ j \in DOMAIN memory
    BY <1>1, <2>1 DEF IInv, BlocksApart
  <2>2. CASE i \notin DOMAIN memory
    BY <1>1, <1>2, <2>2 DEF Grown, Fresh, Bytes
  <2>3. CASE j \notin DOMAIN memory
    BY <1>1, <1>2, <2>3 DEF Grown, Fresh, Bytes
  <2> QED BY <2>1, <2>2, <2>3
<1>6. AllSlots \cap SlotsAt(base) = {}
  BY FreshSlots DEF IInv, Grown
<1> QED BY <1>3, <1>4, <1>5, <1>6

\* The pool grows, and the first free slot of the new block is handed out.
LEMMA GrowInv ==
  ASSUME IInv, NEW base \in Bases, Grown(base),
         HandOut(Pushed(base, << >>), Tail(Pushed(base, << >>)), Append(memory, base))
  PROVE  IInv'
<1> DEFINE q == Pushed(base, << >>)
<1>1. memory' = Append(memory, base)
  BY DEF HandOut
<1>2. /\ q \in Seq(SlotsAt(base)) /\ q # << >> /\ ToSet(q) = SlotsAt(base) /\ NoDup(q)
  BY PushedBlock
<1>3. /\ AllSlots' = AllSlots \cup SlotsAt(base) /\ AllSlots \cap SlotsAt(base) = {}
      /\ ToSet(memory') = ToSet(memory) \cup {base} /\ memory' \in Seq(Bases) /\ BlocksApart'
  BY <1>1, GrownParts
<1>4. ToSet(head) = {}
  BY EmptyList DEF Grown
<1>5. HandOut(q, Tail(q), memory')
  BY <1>1
<1> HIDE DEF q
<1>6. q \in Seq(AllSlots')
  BY <1>2, <1>3
<1>7. /\ ToSet(q) \cup held \cup leaked = AllSlots'
      /\ ToSet(q) \cap (held \cup leaked) = {}
  BY <1>2, <1>3, <1>4 DEF IInv, SlotsAccounted
<1> QED BY <1>2, <1>3, <1>5, <1>6, <1>7, HandOutInv

-----------------------------------------------------------------------------
(* mp_free.                                                                *)

LEMMA AcceptInv ==
  ASSUME IInv, NEW mem \in held, Accept(mem, <<mem>> \o head)
  PROVE  IInv'
<1>1. /\ head' = <<mem>> \o head /\ blocks' = blocks + 1 /\ used_slots' = used_slots - 1
      /\ held' = held \ {mem} /\ memory' = memory /\ leaked' = leaked
  BY DEF Accept
<1>2. AllSlots' = AllSlots /\ BlocksApart' /\ OnlyFirstSlotsLeak'
  BY <1>1 DEF AllSlots, IInv, BlocksApart, OnlyFirstSlotsLeak
<1>3. mem \in AllSlots /\ mem \notin ToSet(head) /\ mem \notin leaked
  BY DEF IInv, PoolTypeOK, SlotsAccounted
<1>4. head' \in Seq(AllSlots) /\ Len(head') = Len(head) + 1 /\ Len(head) \in Nat
  BY <1>1, <1>3 DEF IInv, PoolTypeOK
<1>5. ToSet(head') = {mem} \cup ToSet(head) /\ NoDup(head')
  BY <1>1, <1>3, PrependList, AccountedParts DEF IInv, PoolTypeOK
<1>6. /\ held' \cup leaked' = (held \cup leaked) \ {mem}
      /\ IsFiniteSet(held' \cup leaked')
      /\ Cardinality(held' \cup leaked') = Cardinality(held \cup leaked) - 1
      /\ Cardinality(held' \cup leaked') \in Nat
  <2>1. held' \cup leaked' = (held \cup leaked) \ {mem}
    BY <1>1, <1>3
  <2>2. mem \in held \cup leaked /\ IsFiniteSet(held \cup leaked)
    BY DEF IInv
  <2>3. /\ IsFiniteSet(held' \cup leaked')
        /\ Cardinality(held' \cup leaked') = Cardinality(held \cup leaked) - 1
    BY <2>1, <2>2, FS_RemoveElement
  <2> QED BY <2>1, <2>3, FS_CardinalityType
<1>7. /\ ToSet(head') \cup held' \cup leaked' = AllSlots'
      /\ ToSet(head') \cap (held' \cup leaked') = {} /\ held' \cap leaked' = {}
  BY <1>1, <1>2, <1>3, <1>5 DEF IInv, SlotsAccounted
<1>8. blocks' = Len(head') /\ used_slots' = Cardinality(held' \cup leaked') /\ blocks' \in Nat
  BY <1>1, <1>4, <1>6 DEF IInv, SlotsAccounted
<1>9. PoolTypeOK'
  BY <1>1, <1>2, <1>4, <1>6, <1>8 DEF IInv, PoolTypeOK
<1>10. SlotsAccounted'
  BY <1>5, <1>7, <1>8 DEF SlotsAccounted, NoDup
<1> QED BY <1>2, <1>6, <1>9, <1>10 DEF IInv

\* The least distance is found when there is one of a block that starts below.
LEMMA ClosestOf ==
  ASSUME NEW mem, NEW d \in Below(mem, DOMAIN memory),
         Below(mem, DOMAIN memory) \subseteq Nat,
         \A e \in Below(mem, DOMAIN memory) : d <= e
  PROVE  Closest(mem) = d
<1> DEFINE B == Below(mem, DOMAIN memory)
<1>1. B # {}
  OBVIOUS
<1>2. \A c \in B : (\A e \in B : c <= e) => c = d
  OBVIOUS
<1> HIDE DEF B
<1>3. (CHOOSE c \in B : \A e \in B : c <= e) = d
  BY <1>2 DEF B
<1> QED BY <1>1, <1>3 DEF Closest, ClosestIn, B

\* mp_free accepts every slot that is not the first of its block.
LEMMA InnerSlots ==
  ASSUME IInv, NEW mem \in AllSlots, mem \notin ToSet(memory)
  PROVE  IsSlot(mem)
<1>1. PICK k \in DOMAIN memory : mem \in SlotsAt(memory[k])
  BY DEF AllSlots
<1>2. \A i \in DOMAIN memory : memory[i] \in Bases /\ memory[i] \in Nat /\ memory[i] # mem
  <2>1. memory \in Seq(Bases) /\ \A i \in DOMAIN memory : memory[i] # mem
    BY DEF IInv, PoolTypeOK, ToSet
  <2>2. \A i \in DOMAIN memory : memory[i] \in Bases
    BY <2>1
  <2> QED BY <2>1, <2>2, Constants
<1>3. PICK n \in 0..PerBlock - 1 : mem = memory[k] + n * Size
  BY <1>1 DEF SlotsAt
<1>4. mem \in Nat /\ memory[k] < mem /\ mem < memory[k] + Bytes
  <2>1. mem \in Nat /\ memory[k] <= mem /\ mem + Size <= memory[k] + Bytes
    BY <1>1, <1>2, SlotBounds
  <2> HIDE DEF Bytes
  <2> QED BY <1>2, <2>1, Constants
<1> DEFINE B == Below(mem, DOMAIN memory)
           d == mem - memory[k]
<1>5. B \subseteq Nat
  BY <1>2, <1>4 DEF Below
<1>6. d \in B
  BY <1>4 DEF Below
<1>7. \A e \in B : d <= e
  <2> SUFFICES ASSUME NEW i \in DOMAIN memory, memory[i] < mem PROVE d <= mem - memory[i]
    BY DEF Below
  <2>1. i # k => memory[i] + Bytes <= memory[k] \/ memory[k] + Bytes <= memory[i]
    BY DEF IInv, BlocksApart
  <2> HIDE DEF Bytes
  <2> QED BY <1>2, <1>4, <2>1, Constants
<1>8. Closest(mem) = d
  BY <1>5, <1>6, <1>7, ClosestOf
<1>9. d # -1 /\ d % Size = 0
  <2>1. n \in Nat /\ n * Size \in Nat
    BY Offset
  <2>2. d = n * Size
    BY <1>2, <1>3, <2>1
  <2> QED BY <2>1, <2>2, Multiple
<1> QED BY <1>8, <1>9 DEF IsSlot

LEMMA RefuseInv ==
  ASSUME IInv, NEW mem \in held, Refuse(mem)
  PROVE  IInv' /\ held' \cup leaked' = held \cup leaked
<1>1. /\ ~IsSlot(mem) /\ held' = held \ {mem} /\ leaked' = leaked \cup {mem}
      /\ head' = head /\ memory' = memory /\ used_slots' = used_slots /\ blocks' = blocks
  BY DEF Refuse
<1>2. AllSlots' = AllSlots /\ BlocksApart'
  BY <1>1 DEF AllSlots, IInv, BlocksApart
<1>3. mem \in AllSlots /\ mem \in ToSet(memory)
  BY <1>1, InnerSlots DEF IInv, PoolTypeOK
<1>4. held' \cup leaked' = held \cup leaked
  BY <1>1
<1>5. PoolTypeOK'
  BY <1>1, <1>2, <1>3 DEF IInv, PoolTypeOK
<1>6. SlotsAccounted'
  <2>1. ToSet(head') = ToSet(head) /\ NoDup(head')
    BY <1>1, AccountedParts DEF IInv
  <2>2. /\ ToSet(head') \cup held' \cup leaked' = AllSlots'
        /\ ToSet(head') \cap (held' \cup leaked') = {} /\ held' \cap leaked' = {}
    BY <1>1, <1>2, <1>4, <2>1 DEF IInv, SlotsAccounted
  <2>3. blocks' = Len(head') /\ used_slots' = Cardinality(held' \cup leaked')
    BY <1>1, <1>4 DEF IInv, SlotsAccounted
  <2> QED BY <2>1, <2>2, <2>3 DEF SlotsAccounted, NoDup
<1>7. OnlyFirstSlotsLeak'
  BY <1>1, <1>3 DEF IInv, OnlyFirstSlotsLeak
<1> QED BY <1>2, <1>4, <1>5, <1>6, <1>7 DEF IInv

-----------------------------------------------------------------------------
LEMMA PoolStep == IInv /\ [PoolNext]_poolVars => IInv'
<1> SUFFICES ASSUME IInv, [PoolNext]_poolVars PROVE IInv'
  OBVIOUS
<1>1. CASE mp_alloc
  BY <1>1, AllocInv, GrowInv DEF mp_alloc
<1>2. CASE UNCHANGED poolVars
  <2>1. AllSlots' = AllSlots
    BY <1>2 DEF poolVars, AllSlots
  <2> QED BY <1>2, <2>1
          DEF poolVars, IInv, PoolTypeOK, SlotsAccounted, OnlyFirstSlotsLeak, BlocksApart
<1>3. ASSUME NEW mem \in held, mp_free(mem) PROVE IInv'
  BY <1>3, AcceptInv, RefuseInv DEF mp_free
<1> QED BY <1>1, <1>2, <1>3 DEF PoolNext, mp_alloc_fails

\* The inductive invariant of mp_alloc and mp_free: the slots are accounted for, and
\* no two blocks overlap.
THEOREM Invariance == PoolSpec => []IInv
  BY InitInv, PoolStep, PTL DEF PoolSpec

\* Addresses and counters have their types.
THEOREM TypeCorrect == PoolSpec => []PoolTypeOK
<1>1. IInv => PoolTypeOK
  BY DEF IInv
<1> QED BY <1>1, Invariance, PTL

\* Each slot of each block is free, with a caller or leaked, once, and blocks
\* and used_slots are exact: mp_expand links a slot no more than once, and
\* mp_alloc and mp_free change the free and the counters together.
THEOREM Accounted == PoolSpec => []SlotsAccounted
<1>1. IInv => SlotsAccounted
  BY DEF IInv
<1> QED BY <1>1, Invariance, PTL

\* mp_free refuses only slots that are the first of their block: the search
\* for the closest block below finds the slot's own for every other.
THEOREM LeakBounded == PoolSpec => []OnlyFirstSlotsLeak
<1>1. IInv => OnlyFirstSlotsLeak
  BY DEF IInv
<1> QED BY <1>1, Invariance, PTL

-----------------------------------------------------------------------------
(* The pool implements SlotPool.                                           *)

LEMMA InitRefines == PoolInit => Pool!Init
<1> SUFFICES ASSUME PoolInit PROVE Pool!Init
  OBVIOUS
<1>1. PICK base \in Bases : head = Pushed(base, << >>) /\ held = {} /\ leaked = {}
  BY DEF PoolInit
<1>2. ToSet(head) = SlotsAt(base)
  BY <1>1, PushedBlock
<1> QED BY <1>1, <1>2 DEF Pool!Init

LEMMA StepRefines == IInv /\ IInv' /\ [PoolNext]_poolVars => [Pool!Next]_(Pool!vars)
<1> SUFFICES ASSUME IInv, [PoolNext]_poolVars PROVE Pool!Next \/ UNCHANGED Pool!vars
  OBVIOUS
<1>1. CASE head # << >> /\ HandOut(head, Tail(head), memory)
  <2>1. /\ Head(head) \in ToSet(head) /\ ToSet(Tail(head)) = ToSet(head) \ {Head(head)}
    BY <1>1, TailList, ListElements, AccountedParts DEF IInv, PoolTypeOK
  <2>2. Pool!Give(Head(head))
    BY <1>1, <2>1 DEF HandOut, Pool!Give
  <2> QED BY <2>1, <2>2 DEF Pool!Next
<1>2. ASSUME NEW base \in Bases, Grown(base),
             HandOut(Pushed(base, << >>), Tail(Pushed(base, << >>)), Append(memory, base))
      PROVE  Pool!Next
  <2> DEFINE q == Pushed(base, << >>)
             B == SlotsAt(base)
  <2>1. q \in Seq(B) /\ q # << >> /\ ToSet(q) = B /\ NoDup(q)
    BY PushedBlock
  <2>2. Head(q) \in B /\ ToSet(Tail(q)) = B \ {Head(q)}
    BY <2>1, TailList
  <2>3. ToSet(head) = {}
    BY <1>2, EmptyList DEF Grown
  <2>4. B \cap (held \cup leaked) = {}
    BY <1>2, FreshSlots DEF IInv, Grown, PoolTypeOK
  <2>5. head' = Tail(q) /\ held' = held \cup {Head(q)} /\ leaked' = leaked
    BY <1>2 DEF HandOut
  <2> HIDE DEF q, B
  <2>6. Pool!GiveNew(Head(q), B)
    BY <2>2, <2>3, <2>4, <2>5 DEF Pool!GiveNew
  <2>7. B \in {SlotsAt(b) : b \in Bases}
    BY DEF B
  <2> QED BY <2>2, <2>6, <2>7 DEF Pool!Next
<1>3. ASSUME NEW mem \in held, mp_free(mem) PROVE Pool!Next \/ UNCHANGED Pool!vars
  <2>1. CASE Accept(mem, <<mem>> \o head)
    <3>1. mem \in AllSlots /\ mem \notin ToSet(head) /\ mem \notin leaked
      BY DEF IInv, PoolTypeOK, SlotsAccounted
    <3>2. ToSet(head') = {mem} \cup ToSet(head)
      BY <2>1, <3>1, PrependList DEF Accept, IInv, PoolTypeOK
    <3>3. Pool!Take(mem)
      BY <2>1, <3>1, <3>2 DEF Accept, Pool!Take
    <3> QED BY <3>3 DEF Pool!Next
  <2>2. CASE Refuse(mem)
    BY <2>2, RefuseInv DEF Refuse, Pool!vars
  <2> QED BY <1>3, <2>1, <2>2 DEF mp_free
<1>4. CASE UNCHANGED poolVars
  BY <1>4 DEF poolVars, Pool!vars
<1> QED BY <1>1, <1>2, <1>3, <1>4 DEF PoolNext, mp_alloc, mp_alloc_fails

\* No slot is handed out while it is out, and the pool grows only when none is
\* free: mp_alloc and mp_free implement SlotPool.
THEOREM Refinement == PoolSpec => IsSlotPool
  BY InitRefines, StepRefines, Invariance, PTL DEF PoolSpec, IsSlotPool, Pool!Spec

-----------------------------------------------------------------------------
(* Walking along pointers.                                                 *)

\* The first m steps from h along s.
Walk(w, s, h, m) == w = [i \in 0..m |-> IF i = 0 THEN h ELSE s[w[i - 1]]]

\* What follows a pointer again and again is defined, as long as one likes.
LEMMA Iterated ==
  ASSUME NEW s, NEW h, NEW m \in Nat
  PROVE  \E v : Walk(v, s, h, m)
<1> DEFINE T == {n \in Nat : \E v : Walk(v, s, h, n)}
<1>1. 0 \in T
  <2>1. Walk([i \in 0..0 |-> h], s, h, 0)
    BY DEF Walk
  <2> QED BY <2>1
<1>2. ASSUME NEW n \in Nat, n \in T PROVE n + 1 \in T
  <2>1. PICK v : Walk(v, s, h, n)
    BY <1>2
  <2> DEFINE w == [i \in 0..n + 1 |-> IF i = n + 1 THEN s[v[n]] ELSE v[i]]
  <2>2. \A i \in 0..n : v[i] = IF i = 0 THEN h ELSE s[v[i - 1]]
    BY <2>1 DEF Walk
  <2>3. \A i \in 0..n + 1 : w[i] = IF i = 0 THEN h ELSE s[w[i - 1]]
    <3> SUFFICES ASSUME NEW i \in 0..n + 1 PROVE w[i] = IF i = 0 THEN h ELSE s[w[i - 1]]
      OBVIOUS
    <3>1. CASE i = 0
      BY <2>2, <3>1
    <3>2. CASE i \in 1..n
      <4>1. i \in 0..n /\ i - 1 \in 0..n /\ i # n + 1 /\ i - 1 # n + 1 /\ i # 0
        BY <3>2
      <4>2. w[i] = v[i] /\ w[i - 1] = v[i - 1]
        BY <4>1
      <4> QED BY <2>2, <4>1, <4>2
    <3>3. CASE i = n + 1
      BY <3>3
    <3> QED BY <3>1, <3>2, <3>3
  <2>4. Walk(w, s, h, n + 1)
    <3> HIDE DEF w
    <3>1. DOMAIN w = 0..n + 1 /\ w = [i \in 0..n + 1 |-> w[i]]
      BY DEF w
    <3> QED BY <2>3, <3>1 DEF Walk
  <2>5. \E u : Walk(u, s, h, n + 1)
    <3> HIDE DEF w
    <3> QED BY <2>4
  <2> QED BY <2>5
<1>3. Nat \subseteq T
  <2> HIDE DEF T
  <2> QED BY <1>1, <1>2, SetInduction
<1> QED BY <1>3

\* Once around: the head, the nodes, and the head again.
Around(h, q) == [i \in 0..Len(q) + 1 |-> IF i \in 1..Len(q) THEN q[i] ELSE h]

\* A loop over a list visits its nodes, in the order of the pointers it follows.
LEMMA Loop ==
  ASSUME NEW field, NEW h, h \notin Nodes, NEW q \in Seq(Nodes), NoDup(q),
         \A i \in 0..Len(q) : ptr[field][Around(h, q)[i]] = Around(h, q)[i + 1]
  PROVE  Visited(field, h) = q
<1> DEFINE N == Cardinality(Nodes) + 1
           s == ptr[field]
           A == Around(h, q)
           v == CHOOSE w : Walk(w, s, h, N)
<1>1. N \in Nat /\ Len(q) \in Nat /\ Len(q) + 1 <= N
  <2>1. DOMAIN q = 1..Len(q) /\ Len(q) \in Nat /\ q \in [1..Len(q) -> Nodes]
    OBVIOUS
  <2>2. q \in Injection(1..Len(q), Nodes)
    BY <2>1 DEF NoDup, Injection, IsInjective
  <2>3. Cardinality(1..Len(q)) = Len(q)
    <3>1. Cardinality(1..Len(q)) = IF 1 > Len(q) THEN 0 ELSE Len(q) - 1 + 1
      BY <2>1, FS_Interval
    <3> QED BY <2>1, <3>1
  <2> QED BY <2>1, <2>2, <2>3, EntriesAssumption, FS_Injection, FS_CardinalityType
<1>2. A[0] = h /\ A[Len(q) + 1] = h /\ \A i \in 1..Len(q) : A[i] = q[i] /\ q[i] \in Nodes
  BY <1>1 DEF Around
<1> HIDE DEF N, A, s
<1>3. Walk(v, s, h, N)
  BY <1>1, Iterated
<1> HIDE DEF v
<1>4. \A i \in 0..N : v[i] = IF i = 0 THEN h ELSE s[v[i - 1]]
  BY <1>3 DEF Walk
<1>5. \A i \in 0..Len(q) + 1 : v[i] = A[i]
  <2> DEFINE T == {i \in Nat : i <= Len(q) + 1 => v[i] = A[i]}
  <2>1. 0 \in T
    BY <1>1, <1>2, <1>4
  <2>2. ASSUME NEW n \in Nat, n \in T PROVE n + 1 \in T
    <3> SUFFICES ASSUME n + 1 <= Len(q) + 1 PROVE v[n + 1] = A[n + 1]
      OBVIOUS
    <3>1. n \in 0..Len(q) /\ n + 1 \in 0..N /\ n + 1 # 0 /\ (n + 1) - 1 = n /\ v[n] = A[n]
      BY <1>1, <2>2
    <3> QED BY <1>4, <3>1 DEF s, A
  <2>3. Nat \subseteq T
    <3> HIDE DEF T
    <3> QED BY <2>1, <2>2, SetInduction
  <2> QED BY <1>1, <2>3
<1> DEFINE back == {i \in 1..N : v[i] = h}
<1>6. Len(q) + 1 \in back /\ \A i \in back : Len(q) + 1 <= i
  BY <1>1, <1>2, <1>5
<1> DEFINE first == CHOOSE i \in back : \A j \in back : i <= j
<1>7. first = Len(q) + 1
  <2>1. first \in back /\ \A j \in back : first <= j
    BY <1>6, Zenon
  <2> HIDE DEF first
  <2> QED BY <1>1, <1>6, <2>1
<1>8. SubSeq([i \in 1..N |-> v[i]], 1, Len(q)) = q
  BY <1>1, <1>2, <1>5
<1> DEFINE row == [i \in 1..N |-> v[i]]
<1>9. Visited(field, h) =
        IF back = {} THEN <<h>>
        ELSE SubSeq(row, 1, first - 1)
  BY Zenon DEF Visited, Walk, N, s, v
<1>10. first - 1 = Len(q)
  <2> HIDE DEF first
  <2> QED BY <1>1, <1>7
<1>11. SubSeq(row, 1, Len(q)) = q /\ back # {}
  BY <1>6, <1>8
<1> HIDE DEF first, row, back
<1> QED BY <1>9, <1>10, <1>11

-----------------------------------------------------------------------------
(* Pointers and the writes to them that are still to be done.              *)

Fields == {"next", "prev"}
Pointers == [Fields -> [Entries -> Entries]]
WriteType == [field: Fields, entry: Entries, value: Entries]

\* The writes of q to a pointer; the pointers once the writes of q are done.
Late(q, f, e) == {i \in DOMAIN q : q[i].field = f /\ q[i].entry = e}
Over(p, q) ==
  [f \in Fields |-> [e \in Entries |->
     IF Late(q, f, e) = {} THEN p[f][e]
     ELSE q[CHOOSE i \in Late(q, f, e) : \A j \in Late(q, f, e) : j <= i].value]]
\* One write done.
Apply(p, w) == [p EXCEPT ![w.field][w.entry] = w.value]

\* A pointer no write is to stays.
LEMMA OverKept ==
  ASSUME NEW p, NEW q, NEW f \in Fields, NEW e \in Entries,
         \A i \in DOMAIN q : q[i].field # f \/ q[i].entry # e
  PROVE  Over(p, q)[f][e] = p[f][e]
<1>1. Late(q, f, e) = {}
  BY DEF Late
<1> QED BY <1>1 DEF Over

\* The last write to a pointer is what it becomes.
LEMMA OverWritten ==
  ASSUME NEW p, NEW q \in Seq(WriteType), NEW f \in Fields, NEW e \in Entries,
         NEW i \in DOMAIN q, q[i].field = f, q[i].entry = e,
         \A j \in DOMAIN q : q[j].field = f /\ q[j].entry = e => j <= i
  PROVE  Over(p, q)[f][e] = q[i].value
<1> DEFINE L == Late(q, f, e)
           m == CHOOSE k \in L : \A j \in L : j <= k
<1>1. i \in L /\ \A j \in L : j <= i
  BY DEF Late
<1>2. Over(p, q)[f][e] = q[m].value
  <2>1. Over(p, q)[f][e] = IF L = {} THEN p[f][e] ELSE q[m].value
    BY DEF Over
  <2> HIDE DEF m, L
  <2> QED BY <1>1, <2>1
<1>3. m \in L /\ \A j \in L : j <= m
  BY <1>1, Zenon
<1>4. L \subseteq Nat
  BY DEF Late
<1> HIDE DEF m, L
<1>5. m \in Nat /\ i \in Nat /\ m <= i /\ i <= m
  BY <1>1, <1>3, <1>4
<1>6. m = i
  BY <1>5
<1> QED BY <1>2, <1>6

\* Which pointer the others are is no matter.
LEMMA OverFrame ==
  ASSUME NEW p, NEW r, NEW q, NEW f \in Fields, NEW e \in Entries, p[f][e] = r[f][e]
  PROVE  Over(p, q)[f][e] = Over(r, q)[f][e]
<1> DEFINE m == CHOOSE i \in Late(q, f, e) : \A j \in Late(q, f, e) : j <= i
<1> HIDE DEF m
<1>1. Over(p, q)[f][e] = IF Late(q, f, e) = {} THEN p[f][e] ELSE q[m].value
  BY DEF Over, m
<1>2. Over(r, q)[f][e] = IF Late(q, f, e) = {} THEN r[f][e] ELSE q[m].value
  BY DEF Over, m
<1> QED BY <1>1, <1>2

\* They are a function of fields and entries.
LEMMA OverType ==
  ASSUME NEW p, NEW q
  PROVE  Over(p, q) = [f \in Fields |-> [e \in Entries |-> Over(p, q)[f][e]]]
  BY DEF Over

\* With nothing left to write they are what they are.
LEMMA OverNone == ASSUME NEW p \in Pointers PROVE Over(p, << >>) = p
<1>1. << >> \in Seq(WriteType) /\ DOMAIN << >> = {}
  OBVIOUS
<1>2. \A f \in Fields : \A e \in Entries : Over(p, << >>)[f][e] = p[f][e]
  BY <1>1, OverKept
<1>3. Over(p, << >>) = [f \in Fields |-> [e \in Entries |-> Over(p, << >>)[f][e]]]
  BY OverType
<1>4. p = [f \in Fields |-> [e \in Entries |-> p[f][e]]]
  BY DEF Pointers
<1> QED BY <1>2, <1>3, <1>4

\* To do a write is to have one less to do: what the pointers will be is the same.
LEMMA OverCons ==
  ASSUME NEW p \in Pointers, NEW q \in Seq(WriteType), q # << >>
  PROVE  Over(Apply(p, q[1]), Tail(q)) = Over(p, q)
<1> DEFINE w == q[1]
           s == Tail(q)
           r == Apply(p, w)
<1>1. /\ DOMAIN q = 1..Len(q) /\ Len(q) \in Nat \ {0} /\ s \in Seq(WriteType)
      /\ DOMAIN s = 1..Len(q) - 1 /\ \A i \in 1..Len(q) - 1 : s[i] = q[i + 1]
  OBVIOUS
<1>2. w \in WriteType
  <2>1. 1 \in 1..Len(q)
    BY <1>1
  <2> QED BY <2>1
<1>3. \A f \in Fields : \A e \in Entries :
        r[f][e] = IF f = w.field /\ e = w.entry THEN w.value ELSE p[f][e]
  <2>1. w.field \in Fields /\ w.entry \in Entries
    BY <1>2 DEF WriteType
  <2> HIDE DEF w
  <2> QED BY <2>1 DEF Apply, Pointers
<1> HIDE DEF w, s, r
<1>4. ASSUME NEW f \in Fields, NEW e \in Entries PROVE Over(r, s)[f][e] = Over(p, q)[f][e]
  <2> DEFINE L == Late(s, f, e)
             M(i) == q[i].field = f /\ q[i].entry = e
  <2>1. \A i \in L : i \in 1..Len(q) - 1 /\ i + 1 \in DOMAIN q /\ M(i + 1)
    BY <1>1 DEF Late
  <2>2. \A i \in DOMAIN q : M(i) => i = 1 \/ i - 1 \in L
    <3> SUFFICES ASSUME NEW i \in DOMAIN q, M(i), i # 1 PROVE i - 1 \in L
      OBVIOUS
    <3>1. i - 1 \in 1..Len(q) - 1 /\ (i - 1) + 1 = i
      BY <1>1
    <3> QED BY <1>1, <3>1 DEF Late
  <2>3. CASE L = {}
    <3>1. Over(r, s)[f][e] = r[f][e]
      <4>1. \A i \in DOMAIN s : s[i].field # f \/ s[i].entry # e
        BY <2>3 DEF Late
      <4> QED BY <4>1, OverKept
    <3>2. CASE M(1)
      <4>1. 1 \in DOMAIN q /\ \A j \in DOMAIN q : M(j) => j <= 1
        BY <1>1, <2>2, <2>3
      <4>2. Over(p, q)[f][e] = q[1].value
        BY <3>2, <4>1, OverWritten
      <4> QED BY <1>3, <3>1, <3>2, <4>2 DEF w
    <3>3. CASE ~M(1)
      <4>1. \A i \in DOMAIN q : q[i].field # f \/ q[i].entry # e
        BY <2>2, <2>3, <3>3
      <4>2. Over(p, q)[f][e] = p[f][e]
        BY <4>1, OverKept
      <4> QED BY <1>3, <3>1, <3>3, <4>2 DEF w
    <3> QED BY <3>2, <3>3
  <2>4. CASE L # {}
    <3>1. PICK m \in L : \A j \in L : j <= m
      <4>1. L \in SUBSET (1..Len(q) - 1) /\ Len(q) - 1 \in Nat
        BY <1>1, <2>1
      <4> HIDE DEF L
      <4> QED BY <2>4, <4>1, MaxExists
    <3>2. Over(r, s)[f][e] = s[m].value
      <4>1. m \in DOMAIN s /\ s[m].field = f /\ s[m].entry = e
            /\ \A j \in DOMAIN s : s[j].field = f /\ s[j].entry = e => j <= m
        BY <3>1 DEF Late
      <4> QED BY <1>1, <4>1, OverWritten
    <3>3. m + 1 \in DOMAIN q /\ M(m + 1) /\ \A j \in DOMAIN q : M(j) => j <= m + 1
      <4>1. \A j \in DOMAIN q : M(j) => j <= m + 1
        <5> SUFFICES ASSUME NEW j \in DOMAIN q, M(j) PROVE j <= m + 1
          OBVIOUS
        <5>1. m \in Nat /\ j \in Nat /\ m >= 1
          BY <1>1, <2>1, <3>1
        <5>2. CASE j = 1
          BY <5>1, <5>2
        <5>3. CASE j - 1 \in L
          <6>1. j - 1 <= m
            BY <3>1, <5>3
          <6> QED BY <5>1, <6>1
        <5> QED BY <2>2, <5>2, <5>3
      <4> QED BY <2>1, <3>1, <4>1
    <3>4. Over(p, q)[f][e] = q[m + 1].value
      BY <3>3, OverWritten
    <3> QED BY <1>1, <2>1, <3>1, <3>2, <3>4
  <2> QED BY <2>3, <2>4
<1>5. Over(p, q) = [f \in Fields |-> [e \in Entries |-> Over(p, q)[f][e]]]
  BY OverType
<1>6. Over(r, s) = [f \in Fields |-> [e \in Entries |-> Over(r, s)[f][e]]]
  BY OverType
<1>7. Over(r, s) = Over(p, q)
  BY <1>4, <1>5, <1>6
<1> QED BY <1>7 DEF r, s, w

-----------------------------------------------------------------------------
(* Lists: the ring of a list through its head, the chain of a part of one. *)

\* From the head, along q, and back: forward and backward.
Ring(p, h, q) ==
  \A i \in 0..Len(q) : /\ p["next"][Around(h, q)[i]] = Around(h, q)[i + 1]
                       /\ p["prev"][Around(h, q)[i + 1]] = Around(h, q)[i]

\* Nodes that follow one another, out of any list.
Chain(p, q) ==
  \A i \in 1..Len(q) - 1 : p["next"][q[i]] = q[i + 1] /\ p["prev"][q[i + 1]] = q[i]

\* What Around(h, q) is at each place, and that it is at no two places the same.
LEMMA AroundIs ==
  ASSUME NEW S, NEW h, NEW q \in Seq(S)
  PROVE  /\ Around(h, q)[0] = h /\ Around(h, q)[Len(q) + 1] = h
         /\ \A i \in 1..Len(q) : Around(h, q)[i] = q[i] /\ q[i] \in ToSet(q)
         /\ \A i \in 0..Len(q) + 1 : Around(h, q)[i] \in {h} \cup ToSet(q)
         /\ (NoDup(q) /\ h \notin ToSet(q) =>
               /\ \A i, j \in 0..Len(q) : i # j => Around(h, q)[i] # Around(h, q)[j]
               /\ \A i, j \in 1..Len(q) + 1 : i # j => Around(h, q)[i] # Around(h, q)[j])
<1> DEFINE A == Around(h, q)
<1>1. DOMAIN q = 1..Len(q) /\ Len(q) \in Nat
  OBVIOUS
<1>2. \A i \in 0..Len(q) + 1 : A[i] = IF i \in 1..Len(q) THEN q[i] ELSE h
  BY <1>1 DEF Around
<1> HIDE DEF A
<1>3. \A i \in 1..Len(q) : A[i] = q[i] /\ q[i] \in ToSet(q)
  BY <1>1, <1>2 DEF ToSet
<1>4. A[0] = h /\ A[Len(q) + 1] = h
  BY <1>1, <1>2
<1>5. \A i \in 0..Len(q) + 1 : A[i] \in {h} \cup ToSet(q)
  BY <1>2, <1>3
<1>6. ASSUME NoDup(q), h \notin ToSet(q)
      PROVE  /\ \A i, j \in 0..Len(q) : i # j => A[i] # A[j]
             /\ \A i, j \in 1..Len(q) + 1 : i # j => A[i] # A[j]
  <2>1. \A i, j \in 1..Len(q) : i # j => A[i] # A[j]
    BY <1>1, <1>3, <1>6 DEF NoDup
  <2>2. \A i \in 1..Len(q) : A[i] # h
    BY <1>3, <1>6
  <2> QED BY <1>1, <1>4, <2>1, <2>2
<1> QED BY <1>3, <1>4, <1>5, <1>6 DEF A

\* Rings and chains are no matter of the pointers of other entries.
LEMMA FrameRing ==
  ASSUME NEW p, NEW r, NEW h, NEW S, NEW q \in Seq(S), Ring(p, h, q),
         \A e \in {h} \cup ToSet(q) : \A f \in Fields : r[f][e] = p[f][e]
  PROVE  Ring(r, h, q)
<1>1. \A i \in 0..Len(q) : i \in 0..Len(q) + 1 /\ i + 1 \in 0..Len(q) + 1
  OBVIOUS
<1>2. \A i \in 0..Len(q) : /\ Around(h, q)[i] \in {h} \cup ToSet(q)
                           /\ Around(h, q)[i + 1] \in {h} \cup ToSet(q)
  BY <1>1, AroundIs
<1> QED BY <1>2 DEF Ring, Fields

LEMMA FrameChain ==
  ASSUME NEW p, NEW r, NEW S, NEW q \in Seq(S), Chain(p, q),
         \A e \in ToSet(q) : \A f \in Fields : r[f][e] = p[f][e]
  PROVE  Chain(r, q)
<1>1. \A i \in 1..Len(q) - 1 : q[i] \in ToSet(q) /\ q[i + 1] \in ToSet(q)
  <2>1. \A i \in 1..Len(q) - 1 : i \in DOMAIN q /\ i + 1 \in DOMAIN q
    OBVIOUS
  <2> QED BY <2>1 DEF ToSet
<1> QED BY <1>1 DEF Chain, Fields

\* insert_list_tail.
LEMMA AppendRing ==
  ASSUME NEW p, NEW r, NEW h, NEW S, NEW q \in Seq(S), NEW x,
         h \notin ToSet(q), NoDup(q), x \notin ToSet(q), x # h, Ring(p, h, q),
         r["prev"][h] = x, r["next"][x] = h, r["prev"][x] = p["prev"][h], r["next"][p["prev"][h]] = x,
         \A e \in {h} \cup ToSet(q) : e # h => r["prev"][e] = p["prev"][e],
         \A e \in {h} \cup ToSet(q) : e # p["prev"][h] => r["next"][e] = p["next"][e]
  PROVE  Ring(r, h, Append(q, x))
<1> DEFINE A == Around(h, q)
           s == Append(q, x)
           B == Around(h, s)
           n == Len(q)
<1>1. n \in Nat /\ s \in Seq(S \cup {x}) /\ Len(s) = n + 1 /\ s[n + 1] = x
      /\ \A i \in 1..n : s[i] = q[i]
  OBVIOUS
<1>2. /\ A[0] = h /\ A[n + 1] = h /\ \A i \in 1..n : A[i] = q[i]
      /\ \A i \in 0..n + 1 : A[i] \in {h} \cup ToSet(q)
      /\ \A i, j \in 0..n : i # j => A[i] # A[j]
      /\ \A i, j \in 1..n + 1 : i # j => A[i] # A[j]
  BY AroundIs
<1>3. \A i \in 0..n : p["next"][A[i]] = A[i + 1] /\ p["prev"][A[i + 1]] = A[i]
  BY DEF Ring
<1> HIDE DEF s, A
<1>4. B[0] = h /\ B[n + 2] = h /\ \A i \in 1..n + 1 : B[i] = s[i]
  <2>1. Len(s) + 1 = n + 2
    BY <1>1
  <2> QED BY <1>1, <2>1, AroundIs
<1> HIDE DEF n, B
<1>5. p["prev"][h] = A[n]
  BY <1>1, <1>2, <1>3
<1>6. \A i \in 0..n : B[i] = A[i]
  BY <1>1, <1>2, <1>4
<1>7. B[n + 1] = x /\ B[n + 2] = h
  BY <1>1, <1>4
<1>8. ASSUME NEW i \in 0..n + 1 PROVE r["next"][B[i]] = B[i + 1] /\ r["prev"][B[i + 1]] = B[i]
  <2>1. CASE i \in 0..n - 1
    <3>1. i \in 0..n /\ n \in 0..n /\ i # n /\ i + 1 \in 0..n /\ i + 1 \in 1..n + 1 /\ n + 1 \in 1..n + 1 /\ i + 1 # n + 1
      BY <1>1, <2>1
    <3>2. A[i] # A[n] /\ A[i + 1] # h /\ A[i] \in {h} \cup ToSet(q) /\ A[i + 1] \in {h} \cup ToSet(q)
      BY <1>1, <1>2, <3>1
    <3> QED BY <1>3, <1>5, <1>6, <3>1, <3>2
  <2>2. CASE i = n
    BY <1>1, <1>5, <1>6, <1>7, <2>2
  <2>3. CASE i = n + 1
    <3>1. i + 1 = n + 2
      BY <1>1, <2>3
    <3> QED BY <1>7, <2>3, <3>1
  <2> QED BY <1>1, <2>1, <2>2, <2>3
<1>9. \A i \in 0..Len(s) : r["next"][B[i]] = B[i + 1] /\ r["prev"][B[i + 1]] = B[i]
  BY <1>1, <1>8
<1> QED BY <1>9 DEF Ring, B, s

\* What is left of a list the first n nodes of which are cut off.
LEMMA CutRing ==
  ASSUME NEW p, NEW r, NEW h, NEW S, NEW q \in Seq(S), NEW n \in 0..Len(q),
         h \notin ToSet(q), NoDup(q), Ring(p, h, q),
         r["next"][h] = Around(h, q)[n + 1], r["prev"][Around(h, q)[n + 1]] = h,
         \A i \in n + 1..Len(q) : r["next"][q[i]] = p["next"][q[i]],
         \A i \in n + 2..Len(q) + 1 : r["prev"][Around(h, q)[i]] = p["prev"][Around(h, q)[i]]
  PROVE  Ring(r, h, SubSeq(q, n + 1, Len(q)))
<1> DEFINE A == Around(h, q)
           s == SubSeq(q, n + 1, Len(q))
           B == Around(h, s)
           m == Len(q)
<1>1. m \in Nat /\ n \in Nat /\ n <= m /\ s \in Seq(S) /\ Len(s) = m - n
      /\ \A i \in 1..m - n : s[i] = q[n + i]
  OBVIOUS
<1>2. A[0] = h /\ A[m + 1] = h /\ \A i \in 1..m : A[i] = q[i]
  BY AroundIs
<1>3. \A i \in 0..m : p["next"][A[i]] = A[i + 1] /\ p["prev"][A[i + 1]] = A[i]
  BY DEF Ring
<1> HIDE DEF s, A
<1>4. B[0] = h /\ B[(m - n) + 1] = h /\ \A i \in 1..m - n : B[i] = s[i]
  BY <1>1, AroundIs
<1> HIDE DEF m, B
<1>5. \A i \in 1..(m - n) + 1 : B[i] = A[n + i]
  <2> SUFFICES ASSUME NEW i \in 1..(m - n) + 1 PROVE B[i] = A[n + i]
    OBVIOUS
  <2>1. CASE i \in 1..m - n
    <3>1. n + i \in 1..m
      BY <1>1, <2>1
    <3> QED BY <1>1, <1>2, <1>4, <2>1, <3>1
  <2>2. CASE i = (m - n) + 1
    <3>1. n + i = m + 1
      BY <1>1, <2>2
    <3> QED BY <1>2, <1>4, <2>2, <3>1
  <2> QED BY <1>1, <2>1, <2>2
<1>6. ASSUME NEW i \in 0..m - n PROVE r["next"][B[i]] = B[i + 1] /\ r["prev"][B[i + 1]] = B[i]
  <2>1. CASE i = 0
    <3>1. i + 1 \in 1..(m - n) + 1 /\ n + (i + 1) = n + 1 /\ i + 1 = 1
      BY <1>1, <2>1
    <3>2. B[i + 1] = A[n + 1]
      BY <1>5, <3>1
    <3> QED BY <1>4, <2>1, <3>2 DEF A
  <2>2. CASE i \in 1..m - n
    <3>1. i + 1 \in 1..(m - n) + 1 /\ i \in 1..(m - n) + 1 /\ n + (i + 1) = (n + i) + 1
          /\ n + i \in n + 1..m /\ (n + i) + 1 \in n + 2..m + 1 /\ n + i \in 1..m /\ n + i \in 0..m
      <4>1. m \in Nat /\ n \in Nat /\ i \in Nat /\ n <= m /\ 1 <= i /\ i <= m - n
        BY <1>1, <2>2
      <4> HIDE DEF m
      <4>2. n + i \in Nat /\ n + i <= m /\ n + 1 <= n + i /\ 1 <= n + i
        BY <4>1
      <4>3. (n + i) + 1 <= m + 1 /\ n + 2 <= (n + i) + 1
        BY <4>1
      <4>4. n + i \in n + 1..m /\ n + i \in 1..m /\ n + i \in 0..m
        BY <4>1, <4>2
      <4>5. (n + i) + 1 \in n + 2..m + 1
        BY <4>1, <4>2, <4>3
      <4>6. i + 1 \in 1..(m - n) + 1 /\ i \in 1..(m - n) + 1 /\ n + (i + 1) = (n + i) + 1
        BY <4>1
      <4> QED BY <4>4, <4>5, <4>6
    <3>2. B[i + 1] = A[(n + i) + 1] /\ B[i] = A[n + i] /\ A[n + i] = q[n + i]
      BY <1>2, <1>5, <3>1
    <3>3. r["next"][q[n + i]] = p["next"][q[n + i]] /\ r["prev"][A[(n + i) + 1]] = p["prev"][A[(n + i) + 1]]
      BY <3>1 DEF A, m
    <3> QED BY <1>3, <3>1, <3>2, <3>3
  <2> QED BY <1>1, <2>1, <2>2
<1>7. \A i \in 0..Len(s) : r["next"][B[i]] = B[i + 1] /\ r["prev"][B[i + 1]] = B[i]
  BY <1>1, <1>6
<1> QED BY <1>7 DEF Ring, B, s, m

\* The nodes that were cut off still follow one another.
LEMMA CutChain ==
  ASSUME NEW p, NEW r, NEW h, NEW S, NEW q \in Seq(S), NEW n \in 0..Len(q), Ring(p, h, q),
         \A i \in 1..n - 1 : r["next"][q[i]] = p["next"][q[i]] /\ r["prev"][q[i + 1]] = p["prev"][q[i + 1]]
  PROVE  Chain(r, SubSeq(q, 1, n))
<1> DEFINE A == Around(h, q)
           s == SubSeq(q, 1, n)
           m == Len(q)
<1>1. m \in Nat /\ n \in Nat /\ n <= m /\ Len(s) = n /\ \A i \in 1..n : s[i] = q[i]
  OBVIOUS
<1>2. \A i \in 1..m : A[i] = q[i]
  BY AroundIs
<1>3. \A i \in 0..m : p["next"][A[i]] = A[i + 1] /\ p["prev"][A[i + 1]] = A[i]
  BY DEF Ring
<1> HIDE DEF s, A, m
<1>4. ASSUME NEW i \in 1..n - 1 PROVE r["next"][s[i]] = s[i + 1] /\ r["prev"][s[i + 1]] = s[i]
  <2>1. i \in 1..n /\ i + 1 \in 1..n /\ i \in 1..m /\ i + 1 \in 1..m /\ i \in 0..m
    BY <1>1
  <2>2. s[i] = A[i] /\ s[i] = q[i] /\ s[i + 1] = A[i + 1] /\ s[i + 1] = q[i + 1]
    BY <1>1, <1>2, <2>1
  <2>3. p["next"][A[i]] = A[i + 1] /\ p["prev"][A[i + 1]] = A[i]
    BY <1>3, <2>1
  <2> QED BY <2>2, <2>3
<1> QED BY <1>1, <1>4 DEF Chain, s

\* The last statements of consolidate_tracked_data close the chain into a ring.
LEMMA CloseRing ==
  ASSUME NEW p, NEW r, NEW h, NEW S, NEW q \in Seq(S), Len(q) > 0, NoDup(q), h \notin ToSet(q), Chain(p, q),
         r["next"][h] = q[1], r["prev"][q[1]] = h, r["prev"][h] = q[Len(q)], r["next"][q[Len(q)]] = h,
         \A e \in ToSet(q) : e # q[1] => r["prev"][e] = p["prev"][e],
         \A e \in ToSet(q) : e # q[Len(q)] => r["next"][e] = p["next"][e]
  PROVE  Ring(r, h, q)
<1> DEFINE A == Around(h, q)
           n == Len(q)
<1>1. n \in Nat /\ n > 0 /\ DOMAIN q = 1..n
  OBVIOUS
<1>2. A[0] = h /\ A[n + 1] = h /\ \A i \in 1..n : A[i] = q[i] /\ q[i] \in ToSet(q)
  BY AroundIs
<1>3. \A i \in 1..n - 1 : p["next"][q[i]] = q[i + 1] /\ p["prev"][q[i + 1]] = q[i]
  BY DEF Chain
<1> HIDE DEF A, n
<1>4. ASSUME NEW i \in 0..n PROVE r["next"][A[i]] = A[i + 1] /\ r["prev"][A[i + 1]] = A[i]
  <2>1. CASE i = 0
    BY <1>1, <1>2, <2>1
  <2>2. CASE i \in 1..n - 1
    <3>1. i \in 1..n /\ i + 1 \in 1..n /\ n \in 1..n /\ 1 \in 1..n /\ i # n /\ i + 1 # 1
      BY <1>1, <2>2
    <3>2. q[i] # q[n] /\ q[i + 1] # q[1]
      BY <1>1, <3>1 DEF NoDup
    <3> QED BY <1>2, <1>3, <2>2, <3>1, <3>2 DEF n
  <2>3. CASE i = n
    <3>1. n \in 1..n
      BY <1>1
    <3> QED BY <1>2, <2>3, <3>1 DEF n
  <2> QED BY <1>1, <2>1, <2>2, <2>3
<1> QED BY <1>4 DEF Ring, A, n

-----------------------------------------------------------------------------
(* What the writes of each operation of LinkedList.h make of the pointers. *)

LEMMA WriteIs ==
  ASSUME NEW f \in Fields, NEW e \in Entries, NEW v \in Entries
  PROVE  /\ Write(f, e, v) \in WriteType
         /\ Write(f, e, v).field = f /\ Write(f, e, v).entry = e /\ Write(f, e, v).value = v
  BY DEF Write, WriteType

\* The writes of q are to entries of S only; in r, e points to x; r is p but for
\* entries of S.
WritesTo(q, S) == \A i \in DOMAIN q : q[i].entry \in S
Points(r, f, e, x) == r[f][e] = x
Elsewhere(r, p, f, S) == \A e \in Entries : e \notin S => r[f][e] = p[f][e]

\* The writes of insert_list_tail: x, after z, before the head h.
LEMMA InsertWrites ==
  ASSUME NEW p, NEW x \in Entries, NEW h \in Entries, NEW z \in Entries, x # h, x # z
  PROVE  LET q == <<Write("prev", h, x), Write("next", x, h), Write("prev", x, z), Write("next", z, x)>> IN
         /\ q \in Seq(WriteType) /\ WritesTo(q, {h, x, z})
         /\ Points(Over(p, q), "prev", h, x) /\ Points(Over(p, q), "next", x, h)
         /\ Points(Over(p, q), "prev", x, z) /\ Points(Over(p, q), "next", z, x)
         /\ Elsewhere(Over(p, q), p, "prev", {h, x})
         /\ Elsewhere(Over(p, q), p, "next", {x, z})
<1> DEFINE q == <<Write("prev", h, x), Write("next", x, h), Write("prev", x, z), Write("next", z, x)>>
<1>1. "next" \in Fields /\ "prev" \in Fields
  BY DEF Fields
<1>2. /\ q \in Seq(WriteType) /\ DOMAIN q = {1, 2, 3, 4}
      /\ q[1] = Write("prev", h, x) /\ q[2] = Write("next", x, h)
      /\ q[3] = Write("prev", x, z) /\ q[4] = Write("next", z, x)
  <2>1. DOMAIN q = 1..4 /\ 1..4 = {1, 2, 3, 4}
    OBVIOUS
  <2>2. /\ Write("prev", h, x) \in WriteType /\ Write("next", x, h) \in WriteType
        /\ Write("prev", x, z) \in WriteType /\ Write("next", z, x) \in WriteType
    BY <1>1, WriteIs
  <2> QED BY <2>1, <2>2
<1> HIDE DEF q
<1>3. /\ q[1].field = "prev" /\ q[1].entry = h /\ q[1].value = x
      /\ q[2].field = "next" /\ q[2].entry = x /\ q[2].value = h
      /\ q[3].field = "prev" /\ q[3].entry = x /\ q[3].value = z
      /\ q[4].field = "next" /\ q[4].entry = z /\ q[4].value = x
  BY <1>1, <1>2, WriteIs
<1>4. Over(p, q)["prev"][h] = x
  <2>1. 1 \in DOMAIN q /\ \A j \in DOMAIN q : q[j].field = "prev" /\ q[j].entry = h => j <= 1
    BY <1>2, <1>3
  <2> QED BY <1>1, <1>2, <1>3, <2>1, OverWritten
<1>5. Over(p, q)["next"][x] = h
  <2>1. 2 \in DOMAIN q /\ \A j \in DOMAIN q : q[j].field = "next" /\ q[j].entry = x => j <= 2
    BY <1>2, <1>3
  <2> QED BY <1>1, <1>2, <1>3, <2>1, OverWritten
<1>6. Over(p, q)["prev"][x] = z
  <2>1. 3 \in DOMAIN q /\ \A j \in DOMAIN q : q[j].field = "prev" /\ q[j].entry = x => j <= 3
    BY <1>2, <1>3
  <2> QED BY <1>1, <1>2, <1>3, <2>1, OverWritten
<1>7. Over(p, q)["next"][z] = x
  <2>1. 4 \in DOMAIN q /\ \A j \in DOMAIN q : q[j].field = "next" /\ q[j].entry = z => j <= 4
    BY <1>2, <1>3
  <2> QED BY <1>1, <1>2, <1>3, <2>1, OverWritten
<1>8. ASSUME NEW e \in Entries, e \notin {h, x} PROVE Over(p, q)["prev"][e] = p["prev"][e]
  <2>1. \A i \in DOMAIN q : q[i].field # "prev" \/ q[i].entry # e
    BY <1>2, <1>3, <1>8
  <2> QED BY <1>1, <2>1, OverKept
<1>9. ASSUME NEW e \in Entries, e \notin {x, z} PROVE Over(p, q)["next"][e] = p["next"][e]
  <2>1. \A i \in DOMAIN q : q[i].field # "next" \/ q[i].entry # e
    BY <1>2, <1>3, <1>9
  <2> QED BY <1>1, <2>1, OverKept
<1>10. \A i \in DOMAIN q : q[i].entry \in {h, x, z}
  BY <1>2, <1>3
<1> QED BY <1>2, <1>4, <1>5, <1>6, <1>7, <1>8, <1>9, <1>10 DEF q, WritesTo, Points, Elsewhere

\* The writes of remove_list_node: x, between b and a.
LEMMA RemoveWrites ==
  ASSUME NEW p, NEW a \in Entries, NEW b \in Entries, NEW x \in Entries, x # a, x # b
  PROVE  LET q == <<Write("prev", a, b), Write("next", b, a), Write("prev", x, x), Write("next", x, x)>> IN
         /\ q \in Seq(WriteType) /\ WritesTo(q, {a, b, x})
         /\ Points(Over(p, q), "prev", a, b) /\ Points(Over(p, q), "next", b, a)
         /\ Elsewhere(Over(p, q), p, "prev", {a, x})
         /\ Elsewhere(Over(p, q), p, "next", {b, x})
<1> DEFINE q == <<Write("prev", a, b), Write("next", b, a), Write("prev", x, x), Write("next", x, x)>>
<1>1. "next" \in Fields /\ "prev" \in Fields
  BY DEF Fields
<1>2. /\ q \in Seq(WriteType) /\ DOMAIN q = {1, 2, 3, 4}
      /\ q[1] = Write("prev", a, b) /\ q[2] = Write("next", b, a)
      /\ q[3] = Write("prev", x, x) /\ q[4] = Write("next", x, x)
  <2>1. DOMAIN q = 1..4 /\ 1..4 = {1, 2, 3, 4}
    OBVIOUS
  <2>2. /\ Write("prev", a, b) \in WriteType /\ Write("next", b, a) \in WriteType
        /\ Write("prev", x, x) \in WriteType /\ Write("next", x, x) \in WriteType
    BY <1>1, WriteIs
  <2> QED BY <2>1, <2>2
<1> HIDE DEF q
<1>3. /\ q[1].field = "prev" /\ q[1].entry = a /\ q[1].value = b
      /\ q[2].field = "next" /\ q[2].entry = b /\ q[2].value = a
      /\ q[3].field = "prev" /\ q[3].entry = x /\ q[4].field = "next" /\ q[4].entry = x
  BY <1>1, <1>2, WriteIs
<1>4. Over(p, q)["prev"][a] = b
  <2>1. 1 \in DOMAIN q /\ \A j \in DOMAIN q : q[j].field = "prev" /\ q[j].entry = a => j <= 1
    BY <1>2, <1>3
  <2> QED BY <1>1, <1>2, <1>3, <2>1, OverWritten
<1>5. Over(p, q)["next"][b] = a
  <2>1. 2 \in DOMAIN q /\ \A j \in DOMAIN q : q[j].field = "next" /\ q[j].entry = b => j <= 2
    BY <1>2, <1>3
  <2> QED BY <1>1, <1>2, <1>3, <2>1, OverWritten
<1>6. ASSUME NEW e \in Entries, e \notin {a, x} PROVE Over(p, q)["prev"][e] = p["prev"][e]
  <2>1. \A i \in DOMAIN q : q[i].field # "prev" \/ q[i].entry # e
    BY <1>2, <1>3, <1>6
  <2> QED BY <1>1, <2>1, OverKept
<1>7. ASSUME NEW e \in Entries, e \notin {b, x} PROVE Over(p, q)["next"][e] = p["next"][e]
  <2>1. \A i \in DOMAIN q : q[i].field # "next" \/ q[i].entry # e
    BY <1>2, <1>3, <1>7
  <2> QED BY <1>1, <2>1, OverKept
<1>8. \A i \in DOMAIN q : q[i].entry \in {a, b, x}
  BY <1>2, <1>3
<1> QED BY <1>2, <1>4, <1>5, <1>6, <1>7, <1>8 DEF q, WritesTo, Points, Elsewhere

\* The writes of RepCut, a being what follows the node cut at.
CutAt(h, a) == <<Write("next", h, a), Write("prev", a, h)>>

LEMMA CutWritesDo ==
  ASSUME NEW p, NEW h \in Entries, NEW a \in Entries, NEW q, q = CutAt(h, a)
  PROVE  /\ q \in Seq(WriteType) /\ WritesTo(q, {h, a})
         /\ Points(Over(p, q), "next", h, a) /\ Points(Over(p, q), "prev", a, h)
         /\ Elsewhere(Over(p, q), p, "prev", {a})
         /\ Elsewhere(Over(p, q), p, "next", {h})
<1>1. "next" \in Fields /\ "prev" \in Fields
  BY DEF Fields
<1>2. /\ q \in Seq(WriteType) /\ DOMAIN q = {1, 2}
      /\ q[1] = Write("next", h, a) /\ q[2] = Write("prev", a, h)
  <2>1. DOMAIN q = 1..2 /\ 1..2 = {1, 2}
    BY DEF CutAt
  <2>2. Write("next", h, a) \in WriteType /\ Write("prev", a, h) \in WriteType
    BY <1>1, WriteIs
  <2> QED BY <2>1, <2>2 DEF CutAt
<1>3. /\ q[1].field = "next" /\ q[1].entry = h /\ q[1].value = a
      /\ q[2].field = "prev" /\ q[2].entry = a /\ q[2].value = h
  BY <1>1, <1>2, WriteIs
<1>4. Over(p, q)["next"][h] = a
  <2>1. 1 \in DOMAIN q /\ \A j \in DOMAIN q : q[j].field = "next" /\ q[j].entry = h => j <= 1
    BY <1>2, <1>3
  <2> QED BY <1>1, <1>2, <1>3, <2>1, OverWritten
<1>5. Over(p, q)["prev"][a] = h
  <2>1. 2 \in DOMAIN q /\ \A j \in DOMAIN q : q[j].field = "prev" /\ q[j].entry = a => j <= 2
    BY <1>2, <1>3
  <2> QED BY <1>1, <1>2, <1>3, <2>1, OverWritten
<1>6. ASSUME NEW e \in Entries, e # a PROVE Over(p, q)["prev"][e] = p["prev"][e]
  <2>1. \A i \in DOMAIN q : q[i].field # "prev" \/ q[i].entry # e
    BY <1>2, <1>3, <1>6
  <2> QED BY <1>1, <2>1, OverKept
<1>7. ASSUME NEW e \in Entries, e # h PROVE Over(p, q)["next"][e] = p["next"][e]
  <2>1. \A i \in DOMAIN q : q[i].field # "next" \/ q[i].entry # e
    BY <1>2, <1>3, <1>7
  <2> QED BY <1>1, <2>1, OverKept
<1>8. \A i \in DOMAIN q : q[i].entry \in {h, a}
  BY <1>2, <1>3
<1> QED BY <1>2, <1>4, <1>5, <1>6, <1>7, <1>8 DEF WritesTo, Points, Elsewhere

\* The writes of RepClose: the local head before x and after z.
LEMMA CloseWritesDo ==
  ASSUME NEW p, NEW x \in Nodes, NEW z \in Nodes, NEW q, q = CloseWrites(x, z)
  PROVE  /\ q \in Seq(WriteType) /\ WritesTo(q, {LocalHead, x, z})
         /\ Points(Over(p, q), "next", LocalHead, x) /\ Points(Over(p, q), "prev", x, LocalHead)
         /\ Points(Over(p, q), "prev", LocalHead, z) /\ Points(Over(p, q), "next", z, LocalHead)
         /\ Elsewhere(Over(p, q), p, "prev", {LocalHead, x})
         /\ Elsewhere(Over(p, q), p, "next", {LocalHead, z})
<1> DEFINE h == LocalHead
<1>1. /\ "next" \in Fields /\ "prev" \in Fields /\ h \in Entries /\ x \in Entries /\ z \in Entries
      /\ x # h /\ z # h
  BY EntriesAssumption DEF Fields, Entries
<1> DEFINE u == <<Write("next", h, h), Write("prev", h, h)>>
           v == <<Write("next", h, x), Write("prev", x, h), Write("prev", h, z), Write("next", z, h)>>
<1>2. q = u \o v
  BY DEF CloseWrites, init_entry
<1> HIDE DEF h
<1>3. /\ q \in Seq(WriteType) /\ DOMAIN q = {1, 2, 3, 4, 5, 6}
      /\ q[1] = Write("next", h, h) /\ q[2] = Write("prev", h, h) /\ q[3] = Write("next", h, x)
      /\ q[4] = Write("prev", x, h) /\ q[5] = Write("prev", h, z) /\ q[6] = Write("next", z, h)
  <2>1. /\ Write("next", h, h) \in WriteType /\ Write("prev", h, h) \in WriteType
        /\ Write("next", h, x) \in WriteType /\ Write("prev", x, h) \in WriteType
        /\ Write("prev", h, z) \in WriteType /\ Write("next", z, h) \in WriteType
    BY <1>1, WriteIs
  <2>2. u \in Seq(WriteType) /\ v \in Seq(WriteType) /\ Len(u) = 2 /\ Len(v) = 4
    BY <2>1
  <2>3. /\ u[1] = Write("next", h, h) /\ u[2] = Write("prev", h, h) /\ v[1] = Write("next", h, x)
        /\ v[2] = Write("prev", x, h) /\ v[3] = Write("prev", h, z) /\ v[4] = Write("next", z, h)
    OBVIOUS
  <2> HIDE DEF u, v
  <2>4. ASSUME NEW y \in Seq(WriteType), NEW w \in Seq(WriteType), Len(y) = 2, Len(w) = 4, q = y \o w
        PROVE  /\ q \in Seq(WriteType) /\ Len(q) = 6
               /\ \A i \in 1..6 : q[i] = IF i <= 2 THEN y[i] ELSE w[i - 2]
    <3>1. Len(y \o w) = Len(y) + Len(w) /\ y \o w \in Seq(WriteType)
      OBVIOUS
    <3>2. \A i \in 1..Len(y) + Len(w) : (y \o w)[i] = IF i <= Len(y) THEN y[i] ELSE w[i - Len(y)]
      OBVIOUS
    <3> QED BY <2>4, <3>1, <3>2
  <2>5. /\ q \in Seq(WriteType) /\ Len(q) = 6
        /\ \A i \in 1..6 : q[i] = IF i <= 2 THEN u[i] ELSE v[i - 2]
    BY <1>2, <2>2, <2>4
  <2>6. DOMAIN q = 1..6 /\ 1..6 = {1, 2, 3, 4, 5, 6}
    BY <2>5
  <2>7. q[1] = u[1] /\ q[2] = u[2] /\ q[3] = v[1] /\ q[4] = v[2] /\ q[5] = v[3] /\ q[6] = v[4]
    BY <2>5
  <2> QED BY <2>3, <2>5, <2>6, <2>7
<1>4. /\ q[1].field = "next" /\ q[1].entry = h
      /\ q[2].field = "prev" /\ q[2].entry = h
      /\ q[3].field = "next" /\ q[3].entry = h /\ q[3].value = x
      /\ q[4].field = "prev" /\ q[4].entry = x /\ q[4].value = h
      /\ q[5].field = "prev" /\ q[5].entry = h /\ q[5].value = z
      /\ q[6].field = "next" /\ q[6].entry = z /\ q[6].value = h
  BY <1>1, <1>3, WriteIs
<1>5. Over(p, q)["next"][h] = x
  <2>1. 3 \in DOMAIN q /\ \A j \in DOMAIN q : q[j].field = "next" /\ q[j].entry = h => j <= 3
    BY <1>1, <1>3, <1>4
  <2>2. q[3].field = "next" /\ q[3].entry = h /\ q[3].value = x /\ "next" \in Fields /\ h \in Entries
    BY <1>1, <1>4
  <2> QED BY <1>3, <2>1, <2>2, OverWritten
<1>6. Over(p, q)["prev"][x] = h
  <2>1. 4 \in DOMAIN q /\ \A j \in DOMAIN q : q[j].field = "prev" /\ q[j].entry = x => j <= 4
    BY <1>1, <1>3, <1>4
  <2>2. q[4].field = "prev" /\ q[4].entry = x /\ q[4].value = h /\ "prev" \in Fields /\ x \in Entries
    BY <1>1, <1>4
  <2> QED BY <1>3, <2>1, <2>2, OverWritten
<1>7. Over(p, q)["prev"][h] = z
  <2>1. 5 \in DOMAIN q /\ \A j \in DOMAIN q : q[j].field = "prev" /\ q[j].entry = h => j <= 5
    BY <1>1, <1>3, <1>4
  <2>2. q[5].field = "prev" /\ q[5].entry = h /\ q[5].value = z /\ "prev" \in Fields /\ h \in Entries
    BY <1>1, <1>4
  <2> QED BY <1>3, <2>1, <2>2, OverWritten
<1>8. Over(p, q)["next"][z] = h
  <2>1. 6 \in DOMAIN q /\ \A j \in DOMAIN q : q[j].field = "next" /\ q[j].entry = z => j <= 6
    BY <1>1, <1>3, <1>4
  <2>2. q[6].field = "next" /\ q[6].entry = z /\ q[6].value = h /\ "next" \in Fields /\ z \in Entries
    BY <1>1, <1>4
  <2> QED BY <1>3, <2>1, <2>2, OverWritten
<1>9. ASSUME NEW e \in Entries, e \notin {h, x} PROVE Over(p, q)["prev"][e] = p["prev"][e]
  <2>1. \A i \in DOMAIN q : q[i].field # "prev" \/ q[i].entry # e
    BY <1>3, <1>4, <1>9
  <2> QED BY <1>1, <2>1, OverKept
<1>10. ASSUME NEW e \in Entries, e \notin {h, z} PROVE Over(p, q)["next"][e] = p["next"][e]
  <2>1. \A i \in DOMAIN q : q[i].field # "next" \/ q[i].entry # e
    BY <1>3, <1>4, <1>10
  <2> QED BY <1>1, <2>1, OverKept
<1>11. \A i \in DOMAIN q : q[i].entry \in {h, x, z}
  BY <1>3, <1>4
<1> QED BY <1>3, <1>5, <1>6, <1>7, <1>8, <1>9, <1>10, <1>11 DEF h, WritesTo, Points, Elsewhere

\* The writes of init_entry.
LEMMA InitWritesDo ==
  ASSUME NEW e \in Entries
  PROVE  /\ init_entry(e) \in Seq(WriteType)
         /\ \A i \in DOMAIN init_entry(e) : init_entry(e)[i].entry = e
<1>1. "next" \in Fields /\ "prev" \in Fields
  BY DEF Fields
<1>2. Write("next", e, e) \in WriteType /\ Write("prev", e, e) \in WriteType
      /\ Write("next", e, e).entry = e /\ Write("prev", e, e).entry = e
  BY <1>1, WriteIs
<1> QED BY <1>2 DEF init_entry

-----------------------------------------------------------------------------
(* The inductive invariant.                                                *)

\* A list without its first k nodes; what follows its head h.
Rest(q, k) == SubSeq(q, k + 1, Len(q))
First(h, q) == IF Len(q) = 0 THEN h ELSE q[1]

\* The pointers there will be when t has done what it has begun.
After(t) == Over(ptr, todo[t])
WritesOnly(t, S) == \A i \in DOMAIN todo[t] : todo[t][i].entry \in S

\* Where the threads are and what they have: types.
PcType == {"idle", "init", "append", "cut", "close", "closing", "free", "freeing", "clean", "cleaning"}
Types ==
  /\ ptr \in Pointers /\ todo \in [Threads -> Seq(WriteType)]
  /\ pc \in [Threads -> PcType] /\ at \in [Threads -> Entries]
  /\ lock \in Threads \cup {"nobody"}
  /\ list \in Seq(Nodes) /\ mine \in Seq(Nodes) /\ NoDup(list) /\ NoDup(mine)

\* list_lock is held in the critical sections and nowhere else; between two
\* operations nothing is left to write.
LockInv ==
  /\ pc["examiner"] \in {"idle", "init", "append"} /\ (lock = "examiner" <=> pc["examiner"] = "append")
  /\ pc["reporter"] \in {"idle", "cut", "close", "closing", "free", "freeing"}
  /\ (lock = "reporter" <=> pc["reporter"] = "cut")
  /\ pc["cleaner"] \in {"idle", "clean", "cleaning"}
  /\ (lock = "cleaner" <=> pc["cleaner"] \in {"clean", "cleaning"})
  /\ \A t \in Threads : pc[t] \in {"idle", "close", "free", "clean"} => todo[t] = << >>

\* The entries a thread has still to write.
OwnInv ==
  /\ WritesOnly("examiner", IF pc["examiner"] = "init" THEN {at["examiner"]}
                            ELSE {ListHead, at["examiner"]} \cup ToSet(list))
  /\ WritesOnly("reporter", IF pc["reporter"] = "cut" THEN {ListHead} \cup ToSet(list)
                            ELSE {LocalHead} \cup ToSet(mine))
  /\ WritesOnly("cleaner", {ListHead} \cup ToSet(list))

\* A node is in one list: in list, in mine, or with the examiner.
NodesInv ==
  /\ pc["examiner"] # "idle" => at["examiner"] \in Nodes \ (ToSet(list) \cup ToSet(mine))
  /\ pc["reporter"] = "cut" => Len(mine) <= Len(list) /\ mine = SubSeq(list, 1, Len(mine))
  /\ pc["reporter"] # "cut" => ToSet(list) \cap ToSet(mine) = {}
  /\ pc["reporter"] \in {"cut", "close", "closing", "freeing"} => Len(mine) > 0

\* The list of BLE objects, once the holder of list_lock is done with it.
ListInv ==
  /\ lock = "nobody" => Ring(ptr, ListHead, list)
  /\ lock = "examiner" => Ring(After("examiner"), ListHead, Append(list, at["examiner"]))
  /\ lock = "reporter" => Ring(After("reporter"), ListHead, Rest(list, Len(mine)))
  /\ pc["cleaner"] = "clean" =>
       at["cleaner"] = First(ListHead, list) /\ Ring(After("cleaner"), ListHead, list)
  /\ pc["cleaner"] = "cleaning" =>
       /\ Len(list) > 0 /\ at["cleaner"] = First(ListHead, Rest(list, 1))
       /\ Ring(After("cleaner"), ListHead, Rest(list, 1))

\* The reporter's nodes: a chain until it closes the ring, a ring from there on.
LocalInv ==
  /\ pc["reporter"] = "idle" => mine = << >>
  /\ pc["reporter"] \in {"cut", "close"} => Chain(After("reporter"), mine)
  /\ pc["reporter"] \in {"closing", "free"} => Ring(After("reporter"), LocalHead, mine)
  /\ pc["reporter"] = "freeing" => Ring(After("reporter"), LocalHead, Rest(mine, 1))
  /\ pc["reporter"] = "free" => at["reporter"] = First(LocalHead, mine)
  /\ pc["reporter"] = "freeing" => at["reporter"] = First(LocalHead, Rest(mine, 1))

LinkInv == Types /\ LockInv /\ OwnInv /\ NodesInv /\ ListInv /\ LocalInv

\* Facts on what is left of a list without its first nodes.
LEMMA RestIs ==
  ASSUME NEW S, NEW q \in Seq(S), NEW k \in 0..Len(q)
  PROVE  /\ Rest(q, k) \in Seq(S) /\ Len(Rest(q, k)) = Len(q) - k
         /\ ToSet(Rest(q, k)) \subseteq ToSet(q)
         /\ NoDup(q) => NoDup(Rest(q, k))
         /\ Rest(q, 0) = q /\ (Len(q) = k => Rest(q, k) = << >>)
         /\ k < Len(q) => Rest(Rest(q, k), 1) = Rest(q, k + 1) /\ k + 1 \in 0..Len(q)
<1> DEFINE r == Rest(q, k)
<1>1. r \in Seq(S) /\ Len(r) = Len(q) - k /\ \A i \in 1..Len(q) - k : r[i] = q[k + i]
  BY DEF Rest
<1>2. ToSet(r) \subseteq ToSet(q) /\ (NoDup(q) => NoDup(r))
  BY SplitList DEF Rest
<1>3. Rest(q, 0) = q
  BY DEF Rest
<1>4. Len(q) = k => r = << >>
  BY <1>1
<1> HIDE DEF r
<1>5. ASSUME k < Len(q) PROVE Rest(r, 1) = Rest(q, k + 1) /\ k + 1 \in 0..Len(q)
  <2>1. k + 1 \in 0..Len(q) /\ Len(q) \in Nat /\ k \in Nat /\ Len(r) \in Nat /\ Len(r) >= 1
    BY <1>1, <1>5
  <2>2. /\ Rest(r, 1) \in Seq(S) /\ Len(Rest(r, 1)) = Len(r) - 1
        /\ \A i \in 1..Len(r) - 1 : Rest(r, 1)[i] = r[1 + i]
    BY <1>1, <2>1 DEF Rest
  <2>3. /\ Rest(q, k + 1) \in Seq(S) /\ Len(Rest(q, k + 1)) = Len(q) - (k + 1)
        /\ \A i \in 1..Len(q) - (k + 1) : Rest(q, k + 1)[i] = q[(k + 1) + i]
    BY <2>1 DEF Rest
  <2>4. \A i \in 1..Len(r) - 1 : r[1 + i] = q[(k + 1) + i] /\ i \in 1..Len(q) - (k + 1)
    <3> SUFFICES ASSUME NEW i \in 1..Len(r) - 1 PROVE r[1 + i] = q[(k + 1) + i] /\ i \in 1..Len(q) - (k + 1)
      OBVIOUS
    <3>1. 1 + i \in 1..Len(q) - k /\ k + (1 + i) = (k + 1) + i /\ i \in 1..Len(q) - (k + 1)
      BY <1>1, <2>1
    <3> QED BY <1>1, <3>1
  <2>5. Len(Rest(r, 1)) = Len(Rest(q, k + 1)) /\ Len(Rest(r, 1)) = Len(r) - 1
    <3>1. ASSUME NEW m \in Nat, NEW j \in Nat PROVE (m - j) - 1 = m - (j + 1)
      BY <3>1
    <3> QED BY <1>1, <2>1, <2>2, <2>3, <3>1
  <2>6. \A i \in 1..Len(Rest(r, 1)) : Rest(r, 1)[i] = Rest(q, k + 1)[i]
    BY <2>2, <2>3, <2>4, <2>5
  <2>7. ASSUME NEW a \in Seq(S), NEW b \in Seq(S), Len(a) = Len(b), \A i \in 1..Len(a) : a[i] = b[i]
        PROVE  a = b
    BY <2>7
  <2> QED BY <2>1, <2>2, <2>3, <2>5, <2>6, <2>7
<1> QED BY <1>1, <1>2, <1>3, <1>4, <1>5 DEF r

LEMMA FirstIs ==
  ASSUME NEW S, NEW h, NEW q \in Seq(S)
  PROVE  /\ Around(h, q)[1] = First(h, q)
         /\ Len(q) > 0 => First(h, q) = q[1] /\ q[1] \in ToSet(q) /\ Around(h, q)[2] = First(h, Rest(q, 1))
         /\ Len(q) = 0 => First(h, q) = h /\ q = << >>
<1>1. Len(q) \in Nat
  OBVIOUS
<1>2. CASE Len(q) = 0
  <2>1. Around(h, q)[1] = h
    <3>1. Around(h, q)[Len(q) + 1] = h
      BY AroundIs
    <3> QED BY <1>2, <3>1
  <2>2. q = << >>
    BY <1>2
  <2>3. First(h, q) = h /\ ~(Len(q) > 0)
    BY <1>2 DEF First
  <2> QED BY <2>1, <2>2, <2>3
<1>3. CASE Len(q) > 0
  <2>1. 1 \in 1..Len(q) /\ 1 \in 0..Len(q)
    BY <1>1, <1>3
  <2>2. Around(h, q)[1] = q[1] /\ q[1] \in ToSet(q) /\ First(h, q) = q[1]
    BY <1>3, <2>1, AroundIs DEF First
  <2>3. Len(Rest(q, 1)) = Len(q) - 1 /\ (Len(q) > 1 => Rest(q, 1)[1] = q[2])
    <3>1. Len(Rest(q, 1)) = Len(q) - 1
      BY <2>1, RestIs
    <3>2. ASSUME Len(q) > 1 PROVE Rest(q, 1)[1] = q[2]
      <4>1. 2 \in 1..Len(q) /\ 1 + 1 = 2
        BY <1>1, <3>2
      <4>2. SubSeq(q, 2, Len(q))[1] = q[2]
        BY <4>1
      <4> QED BY <4>1, <4>2 DEF Rest
    <3> QED BY <3>1, <3>2
  <2>4. ASSUME Len(q) = 1 PROVE Around(h, q)[2] = First(h, Rest(q, 1))
    <3>1. Len(Rest(q, 1)) = 0 /\ 2 = Len(q) + 1
      BY <2>3, <2>4
    <3>0. Around(h, q)[Len(q) + 1] = h
      BY AroundIs
    <3>2. Around(h, q)[2] = h
      BY <3>0, <3>1
    <3> QED BY <3>1, <3>2 DEF First
  <2>5. ASSUME Len(q) > 1 PROVE Around(h, q)[2] = First(h, Rest(q, 1))
    <3>1. Len(Rest(q, 1)) # 0 /\ 2 \in 1..Len(q)
      BY <1>1, <2>3, <2>5
    <3>2. Around(h, q)[2] = q[2]
      BY <3>1, AroundIs
    <3> QED BY <2>3, <2>5, <3>1, <3>2 DEF First
  <2>6. Len(q) = 1 \/ Len(q) > 1
    <3>1. ASSUME NEW n \in Nat, n > 0 PROVE n = 1 \/ n > 1
      BY <3>1
    <3> QED BY <1>1, <1>3, <3>1
  <2>7. Around(h, q)[2] = First(h, Rest(q, 1))
    BY <2>4, <2>5, <2>6
  <2> QED BY <1>3, <2>2, <2>7
<1> QED BY <1>1, <1>2, <1>3

\* remove_list_node, of whatever pointers.
Unlink(p, e) ==
  <<Write("prev", p["next"][e], p["prev"][e]), Write("next", p["prev"][e], p["next"][e]),
    Write("prev", e, e), Write("next", e, e)>>

\* remove_list_node of the first node of a list.
LEMMA UnlinkFirst ==
  ASSUME NEW p \in Pointers, NEW h \in Entries, h \notin Nodes, NEW q \in Seq(Nodes), Len(q) > 0, NoDup(q),
         Ring(p, h, q)
  PROVE  /\ p["next"][q[1]] = First(h, Rest(q, 1)) /\ p["next"][q[1]] \in Entries
         /\ Unlink(p, q[1]) \in Seq(WriteType)
         /\ \A i \in DOMAIN Unlink(p, q[1]) : Unlink(p, q[1])[i].entry \in {h} \cup ToSet(q)
         /\ Ring(Over(p, Unlink(p, q[1])), h, Rest(q, 1))
<1> DEFINE x == q[1]
           a == p["next"][x]
           b == p["prev"][x]
           w == Unlink(p, x)
           A == Around(h, q)
           n == Len(q)
<1>1. n \in Nat /\ n > 0 /\ DOMAIN q = 1..n /\ ToSet(q) \subseteq Nodes
  BY ListElements
<1>2. /\ A[0] = h /\ A[n + 1] = h /\ \A i \in 1..n : A[i] = q[i] /\ q[i] \in ToSet(q)
      /\ \A i \in 0..n + 1 : A[i] \in {h} \cup ToSet(q)
      /\ \A i, j \in 0..n : i # j => A[i] # A[j]
      /\ \A i, j \in 1..n + 1 : i # j => A[i] # A[j]
  BY <1>1, AroundIs
<1>3. \A i \in 0..n : p["next"][A[i]] = A[i + 1] /\ p["prev"][A[i + 1]] = A[i]
  BY DEF Ring
<1>4. A[2] = First(h, Rest(q, 1))
  BY FirstIs
<1>5. x = A[1] /\ 0 \in 0..n /\ 1 \in 0..n /\ 1 \in 1..n + 1 /\ 2 \in 1..n + 1 /\ 1 \in 1..n /\ 2 \in 0..n + 1
  <2> HIDE DEF A
  <2> QED BY <1>1, <1>2
<1> HIDE DEF A, n
<1>6. p["next"][x] = A[2] /\ p["prev"][x] = A[0]
  <2>1. 1 + 1 = 2 /\ 0 + 1 = 1
    OBVIOUS
  <2> QED BY <1>3, <1>5, <2>1
<1>7. a = A[2] /\ b = h
  BY <1>2, <1>6
<1>8. x \in ToSet(q) /\ x # a /\ x # b /\ a \in {h} \cup ToSet(q)
  <2>1. A[1] # A[2] /\ A[1] # A[0]
    BY <1>2, <1>5
  <2> QED BY <1>2, <1>5, <1>7, <2>1
<1>9. a \in Entries /\ b \in Entries /\ x \in Entries /\ h \in Entries
  BY <1>1, <1>7, <1>8 DEF Entries
<1> DEFINE r == Over(p, w)
<1>10. /\ w \in Seq(WriteType) /\ \A i \in DOMAIN w : w[i].entry \in {a, b, x}
       /\ r["prev"][a] = b /\ r["next"][b] = a
       /\ \A e \in Entries : e \notin {a, x} => r["prev"][e] = p["prev"][e]
       /\ \A e \in Entries : e \notin {b, x} => r["next"][e] = p["next"][e]
  <2>1. w = <<Write("prev", a, b), Write("next", b, a), Write("prev", x, x), Write("next", x, x)>>
    BY DEF Unlink
  <2> HIDE DEF x, a, b, w
  <2>2. /\ w \in Seq(WriteType) /\ WritesTo(w, {a, b, x})
        /\ Points(r, "prev", a, b) /\ Points(r, "next", b, a)
        /\ Elsewhere(r, p, "prev", {a, x}) /\ Elsewhere(r, p, "next", {b, x})
    BY <1>8, <1>9, <2>1, RemoveWrites
  <2> HIDE DEF r
  <2> QED BY <2>2 DEF WritesTo, Points, Elsewhere
<1> HIDE DEF w, r, a, b, x
<1>11. Ring(r, h, SubSeq(q, 1 + 1, n))
  <2>1. r["next"][h] = A[1 + 1] /\ r["prev"][A[1 + 1]] = h
    BY <1>7, <1>10
  <2>2. \A i \in 1 + 1..n : r["next"][q[i]] = p["next"][q[i]]
    <3> SUFFICES ASSUME NEW i \in 1 + 1..n PROVE r["next"][q[i]] = p["next"][q[i]]
      OBVIOUS
    <3>1. i \in 1..n /\ i \in 0..n /\ i # 0 /\ i # 1
      BY <1>1
    <3>2. q[i] = A[i] /\ A[i] # h /\ A[i] # x /\ q[i] \in Entries
      BY <1>1, <1>2, <1>5, <3>1 DEF Entries
    <3> QED BY <1>7, <1>10, <3>2
  <2>3. \A i \in 1 + 2..n + 1 : r["prev"][A[i]] = p["prev"][A[i]]
    <3> SUFFICES ASSUME NEW i \in 1 + 2..n + 1 PROVE r["prev"][A[i]] = p["prev"][A[i]]
      OBVIOUS
    <3>1. i \in 1..n + 1 /\ i \in 0..n + 1 /\ i # 1 /\ i # 2
      BY <1>1
    <3>2. A[i] # A[1] /\ A[i] # A[2] /\ A[i] \in Entries
      BY <1>1, <1>2, <1>5, <3>1 DEF Entries
    <3> QED BY <1>5, <1>7, <1>10, <3>2
  <2>4. h \notin ToSet(q) /\ 1 \in 0..Len(q)
    BY <1>1, <1>5 DEF n
  <2> QED BY <2>1, <2>2, <2>3, <2>4, CutRing DEF A, n
<1>12. Rest(q, 1) = SubSeq(q, 1 + 1, n)
  BY DEF Rest, n
<1>13. \A i \in DOMAIN w : w[i].entry \in {h} \cup ToSet(q)
  BY <1>7, <1>8, <1>10
<1>14. /\ a = First(h, Rest(q, 1)) /\ a \in Entries
       /\ w \in Seq(WriteType) /\ \A i \in DOMAIN w : w[i].entry \in {h} \cup ToSet(q)
       /\ Ring(r, h, Rest(q, 1))
  BY <1>4, <1>7, <1>9, <1>10, <1>11, <1>12, <1>13
<1> QED BY <1>14 DEF x, a, w, r

-----------------------------------------------------------------------------
(* Its first state, and one write.                                         *)

LEMMA Heads ==
  /\ ListHead \in Entries /\ LocalHead \in Entries /\ Nodes \subseteq Entries
  /\ ListHead \notin Nodes /\ LocalHead \notin Nodes /\ ListHead # LocalHead
  BY EntriesAssumption DEF Entries

LEMMA InitLinks == Init => LinkInv
<1> SUFFICES ASSUME Init PROVE LinkInv
  OBVIOUS
<1> USE DEF Init
<1>1. Types
  <2>1. ptr \in Pointers
    BY DEF Pointers, Fields
  <2>2. << >> \in Seq(WriteType) /\ << >> \in Seq(Nodes) /\ NoDup(<< >>)
    BY EmptyList
  <2> QED BY <2>1, <2>2, Heads DEF Types, PcType
<1>2. LockInv /\ NodesInv
  <2>1. ToSet(<< >>) = {}
    BY EmptyList
  <2> QED BY <2>1 DEF LockInv, NodesInv, Threads
<1>3. OwnInv
  BY DEF OwnInv, WritesOnly, Threads
<1>4. Ring(ptr, ListHead, << >>)
  <2>1. ASSUME NEW q \in Seq(Nodes), Len(q) = 0 PROVE Ring(ptr, ListHead, q)
    <3>1. Around(ListHead, q)[0] = ListHead /\ Around(ListHead, q)[Len(q) + 1] = ListHead
      BY AroundIs
    <3>2. Around(ListHead, q)[0 + 1] = ListHead /\ 0..Len(q) = {0}
      BY <2>1, <3>1
    <3>3. ptr["next"][ListHead] = ListHead /\ ptr["prev"][ListHead] = ListHead
      BY Heads
    <3> QED BY <3>1, <3>2, <3>3 DEF Ring
  <2>2. << >> \in Seq(Nodes) /\ Len(<< >>) = 0
    OBVIOUS
  <2> QED BY <2>1, <2>2
<1>5. ListInv /\ LocalInv
  BY <1>4 DEF ListInv, LocalInv, Threads
<1> QED BY <1>1, <1>2, <1>3, <1>5 DEF LinkInv

\* Whose entries the next write of t is not to.
LEMMA Apart ==
  ASSUME LinkInv, NEW t \in Threads, todo[t] # << >>
  PROVE  /\ todo[t][1] \in WriteType
         /\ lock # t => todo[t][1].entry \notin {ListHead} \cup ToSet(list)
         /\ lock = "examiner" /\ t # "examiner" => todo[t][1].entry # at["examiner"]
         /\ t # "reporter" => todo[t][1].entry \notin {LocalHead} \cup ToSet(mine)
<1> DEFINE e == todo[t][1].entry
<1>1. 1 \in DOMAIN todo[t] /\ todo[t][1] \in WriteType
  <2>1. ASSUME NEW q \in Seq(WriteType), q # << >> PROVE 1 \in DOMAIN q /\ q[1] \in WriteType
    <3>1. Len(q) \in Nat \ {0} /\ DOMAIN q = 1..Len(q)
      BY <2>1
    <3>2. 1 \in 1..Len(q)
      BY <3>1
    <3> QED BY <3>1, <3>2
  <2> QED BY <2>1 DEF LinkInv, Types
<1>2. ToSet(list) \subseteq Nodes /\ ToSet(mine) \subseteq Nodes
  BY ListElements DEF LinkInv, Types
<1>3. pc[t] \notin {"idle", "close", "free", "clean"}
  BY DEF LinkInv, LockInv
<1> HIDE DEF e
<1>4. CASE t = "examiner"
  <2>1. at["examiner"] \in Nodes \ (ToSet(list) \cup ToSet(mine))
    BY <1>3, <1>4 DEF LinkInv, NodesInv
  <2>2. pc["examiner"] = "init" => e = at["examiner"]
    BY <1>1, <1>4 DEF LinkInv, OwnInv, WritesOnly, e
  <2>3. e \in {ListHead, at["examiner"]} \cup ToSet(list)
    BY <1>1, <1>4 DEF LinkInv, OwnInv, WritesOnly, e
  <2>4. lock # "examiner" => pc["examiner"] = "init"
    BY <1>3, <1>4 DEF LinkInv, LockInv
  <2>5. lock # t => e \notin {ListHead} \cup ToSet(list)
    BY <1>4, <2>1, <2>2, <2>4, Heads
  <2>6. e \notin {LocalHead} \cup ToSet(mine)
    <3>1. CASE pc["reporter"] = "cut"
      <4>1. lock = "reporter" /\ mine = SubSeq(list, 1, Len(mine)) /\ Len(mine) \in 0..Len(list)
        BY <3>1 DEF LinkInv, LockInv, NodesInv, Types
      <4>2. ToSet(mine) \subseteq ToSet(list)
        <5>1. \A n \in 0..Len(list) : ToSet(SubSeq(list, 1, n)) \subseteq ToSet(list)
          BY SplitList DEF LinkInv, Types
        <5> QED BY <4>1, <5>1
      <4> QED BY <1>4, <2>1, <2>2, <2>4, <4>1, <4>2, Heads
    <3>2. CASE pc["reporter"] # "cut"
      <4>1. ToSet(list) \cap ToSet(mine) = {}
        BY <3>2 DEF LinkInv, NodesInv
      <4> QED BY <1>2, <2>1, <2>3, <4>1, Heads
    <3> QED BY <3>1, <3>2
  <2> QED BY <1>1, <1>4, <2>5, <2>6 DEF e
<1>5. CASE t = "reporter"
  <2>1. lock # "reporter" => pc["reporter"] # "cut"
    BY DEF LinkInv, LockInv
  <2>2. pc["reporter"] # "cut" => e \in {LocalHead} \cup ToSet(mine) /\ ToSet(list) \cap ToSet(mine) = {}
    BY <1>1, <1>5 DEF LinkInv, OwnInv, WritesOnly, NodesInv, e
  <2>3. lock # t => e \notin {ListHead} \cup ToSet(list)
    BY <1>2, <1>5, <2>1, <2>2, Heads
  <2>4. ASSUME lock = "examiner" PROVE e # at["examiner"]
    <3>1. at["examiner"] \in Nodes \ (ToSet(list) \cup ToSet(mine)) /\ lock # "reporter"
      BY <2>4 DEF LinkInv, LockInv, NodesInv
    <3> QED BY <2>1, <2>2, <3>1, Heads
  <2> QED BY <1>1, <1>5, <2>3, <2>4 DEF e
<1>6. CASE t = "cleaner"
  <2>1. lock = "cleaner" /\ pc["reporter"] # "cut"
    BY <1>3, <1>6 DEF LinkInv, LockInv
  <2>2. e \in {ListHead} \cup ToSet(list) /\ ToSet(list) \cap ToSet(mine) = {}
    BY <1>1, <1>6, <2>1 DEF LinkInv, OwnInv, WritesOnly, NodesInv, e
  <2> QED BY <1>1, <1>2, <1>6, <2>1, <2>2, Heads DEF e
<1> QED BY <1>4, <1>5, <1>6 DEF Threads

\* A write of one thread, and what it is to the pending writes of the threads.
LEMMA StepIs ==
  ASSUME LinkInv, NEW t \in Threads, Step(t)
  PROVE  /\ todo[t] # << >> /\ ptr' \in Pointers /\ After(t)' = After(t)
         /\ todo' = [todo EXCEPT ![t] = Tail(todo[t])]
         /\ todo'[t] \in Seq(WriteType) /\ Len(todo'[t]) = Len(todo[t]) - 1
         /\ \A i \in DOMAIN todo'[t] : i + 1 \in DOMAIN todo[t] /\ todo'[t][i] = todo[t][i + 1]
         /\ \A u \in Threads \ {t} : todo'[u] = todo[u]
         /\ \A e \in Entries \ {todo[t][1].entry} : \A f \in Fields :
              /\ ptr'[f][e] = ptr[f][e]
              /\ \A u \in Threads \ {t} : After(u)'[f][e] = After(u)[f][e]
<1> DEFINE q == todo[t]
           w == q[1]
<1>1. q \in Seq(WriteType) /\ q # << >> /\ ptr \in Pointers
  BY DEF Step, LinkInv, Types
<1>2. /\ todo' = [todo EXCEPT ![t] = Tail(todo[t])] /\ todo'[t] = Tail(q)
      /\ \A u \in Threads \ {t} : todo'[u] = todo[u]
  BY DEF Step, LinkInv, Types
<1>3. ptr' = Apply(ptr, w)
  BY DEF Step, Apply
<1>4. w \in WriteType
  BY Apart, <1>1
<1>5. /\ Tail(q) \in Seq(WriteType) /\ Len(Tail(q)) = Len(q) - 1
      /\ \A i \in DOMAIN Tail(q) : i + 1 \in DOMAIN q /\ Tail(q)[i] = q[i + 1]
  <2> HIDE DEF q
  <2> QED BY <1>1
<1>6. Over(ptr', todo'[t]) = Over(ptr, todo[t])
  <2>1. Over(Apply(ptr, q[1]), Tail(q)) = Over(ptr, q)
    <3> HIDE DEF q
    <3> QED BY <1>1, OverCons
  <2> QED BY <1>2, <1>3, <2>1
<1>7. ptr' \in Pointers
  <2>1. w.field \in Fields /\ w.entry \in Entries /\ w.value \in Entries
    BY <1>4 DEF WriteType
  <2> HIDE DEF w
  <2> QED BY <1>1, <1>3, <2>1 DEF Apply, Pointers
<1>8. ASSUME NEW e \in Entries \ {w.entry}, NEW f \in Fields
      PROVE  /\ ptr'[f][e] = ptr[f][e]
             /\ \A u \in Threads \ {t} : After(u)'[f][e] = After(u)[f][e]
  <2>1. ptr'[f][e] = ptr[f][e]
    <3> HIDE DEF w
    <3> QED BY <1>1, <1>3 DEF Apply, Pointers
  <2>2. ASSUME NEW u \in Threads \ {t} PROVE Over(ptr', todo'[u])[f][e] = Over(ptr, todo[u])[f][e]
    <3>1. Over(ptr', todo[u])[f][e] = Over(ptr, todo[u])[f][e]
      BY <2>1, OverFrame
    <3> QED BY <1>2, <3>1
  <2> QED BY <2>1, <2>2 DEF After
<1> QED BY <1>1, <1>2, <1>5, <1>6, <1>7, <1>8 DEF After

LEMMA StepLinks == ASSUME LinkInv, NEW t \in Threads, Step(t) PROVE LinkInv'
<1> DEFINE e == todo[t][1].entry
<1>0. UNCHANGED <<pc, lock, at, list, mine>>
  BY DEF Step
<1>1. /\ todo[t] # << >> /\ ptr' \in Pointers /\ After(t)' = After(t)
      /\ todo' = [todo EXCEPT ![t] = Tail(todo[t])]
      /\ todo'[t] \in Seq(WriteType)
      /\ \A i \in DOMAIN todo'[t] : i + 1 \in DOMAIN todo[t] /\ todo'[t][i] = todo[t][i + 1]
      /\ \A u \in Threads \ {t} : todo'[u] = todo[u]
      /\ \A x \in Entries \ {e} : \A f \in Fields :
           /\ ptr'[f][x] = ptr[f][x]
           /\ \A u \in Threads \ {t} : After(u)'[f][x] = After(u)[f][x]
  BY StepIs
<1>2. /\ lock # t => e \notin {ListHead} \cup ToSet(list)
      /\ lock = "examiner" /\ t # "examiner" => e # at["examiner"]
      /\ t # "reporter" => e \notin {LocalHead} \cup ToSet(mine)
  BY <1>1, Apart
<1>3. list \in Seq(Nodes) /\ mine \in Seq(Nodes) /\ at \in [Threads -> Entries] /\ lock \in Threads \cup {"nobody"}
  BY DEF LinkInv, Types
<1>4. ToSet(list) \subseteq Entries /\ ToSet(mine) \subseteq Entries /\ ListHead \in Entries /\ LocalHead \in Entries
  BY <1>3, Heads, ListElements
<1> HIDE DEF e
<1>5. Types'
  <2>1. todo' \in [Threads -> Seq(WriteType)]
    BY <1>1 DEF LinkInv, Types
  <2> QED BY <1>0, <1>1, <2>1 DEF LinkInv, Types
<1>6. LockInv'
  <2>1. pc[t] \notin {"idle", "close", "free", "clean"}
    BY <1>1 DEF LinkInv, LockInv
  <2>2. \A u \in Threads : pc'[u] \in {"idle", "close", "free", "clean"} => todo'[u] = << >>
    BY <1>0, <1>1, <2>1 DEF LinkInv, LockInv
  <2> QED BY <1>0, <2>2 DEF LinkInv, LockInv
<1>7. OwnInv'
  <2>1. ASSUME NEW u \in Threads, NEW S, WritesOnly(u, S) PROVE \A i \in DOMAIN todo'[u] : todo'[u][i].entry \in S
    BY <1>1, <2>1 DEF WritesOnly
  <2> QED BY <1>0, <2>1 DEF LinkInv, OwnInv, WritesOnly, Threads
<1>8. NodesInv'
  BY <1>0 DEF LinkInv, NodesInv
<1>9. ListInv'
  <2>1. ASSUME lock = "nobody" PROVE Ring(ptr', ListHead, list)
    <3>1. \A x \in {ListHead} \cup ToSet(list) : \A f \in Fields : ptr'[f][x] = ptr[f][x]
      BY <1>1, <1>2, <1>4, <2>1 DEF Threads
    <3>2. Ring(ptr, ListHead, list)
      BY <2>1 DEF LinkInv, ListInv
    <3> QED BY <1>3, <3>1, <3>2, FrameRing
  <2>2. ASSUME lock = "examiner" PROVE Ring(After("examiner")', ListHead, Append(list, at["examiner"]))
    <3> DEFINE r == Append(list, at["examiner"])
    <3>1. Ring(After("examiner"), ListHead, r) /\ r \in Seq(Entries) /\ ToSet(r) = ToSet(list) \cup {at["examiner"]}
      <4>1. list \in Seq(Entries) /\ at["examiner"] \in Entries
        BY <1>3, Heads DEF Threads
      <4> QED BY <2>2, <4>1, AppendList DEF LinkInv, ListInv
    <3>2. CASE t = "examiner"
      BY <1>1, <3>1, <3>2
    <3>3. CASE t # "examiner"
      <4>1. \A x \in {ListHead} \cup ToSet(r) : \A f \in Fields : After("examiner")'[f][x] = After("examiner")[f][x]
        BY <1>1, <1>2, <1>3, <1>4, <2>2, <3>1, <3>3 DEF Threads
      <4> HIDE DEF r
      <4> QED BY <3>1, <4>1, FrameRing DEF r
    <3> QED BY <3>2, <3>3
  <2>3. ASSUME lock # t, NEW u \in Threads \ {t}, NEW k \in 0..Len(list), Ring(After(u), ListHead, Rest(list, k))
        PROVE  Ring(After(u)', ListHead, Rest(list, k))
    <3>1. Rest(list, k) \in Seq(Nodes) /\ ToSet(Rest(list, k)) \subseteq ToSet(list)
      BY <1>3, RestIs
    <3>2. \A x \in {ListHead} \cup ToSet(Rest(list, k)) : \A f \in Fields : After(u)'[f][x] = After(u)[f][x]
      BY <1>1, <1>2, <1>4, <2>3, <3>1
    <3> QED BY <2>3, <3>1, <3>2, FrameRing
  <2>4. ASSUME lock = "reporter" PROVE Ring(After("reporter")', ListHead, Rest(list, Len(mine)))
    <3>1. Ring(After("reporter"), ListHead, Rest(list, Len(mine)))
      BY <2>4 DEF LinkInv, ListInv
    <3>2. Len(mine) \in 0..Len(list)
      BY <2>4 DEF LinkInv, NodesInv, LockInv, Types
    <3>3. CASE t = "reporter"
      BY <1>1, <3>1, <3>3
    <3>4. CASE t # "reporter"
      BY <2>3, <2>4, <3>1, <3>2, <3>4 DEF Threads
    <3> QED BY <3>3, <3>4
  <2>5. ASSUME lock = "cleaner", NEW k \in 0..Len(list), Ring(After("cleaner"), ListHead, Rest(list, k))
        PROVE  Ring(After("cleaner")', ListHead, Rest(list, k))
    <3>1. CASE t = "cleaner"
      BY <1>1, <2>5, <3>1
    <3>2. CASE t # "cleaner"
      BY <2>3, <2>5, <3>2 DEF Threads
    <3> QED BY <3>1, <3>2
  <2>6. ASSUME pc["cleaner"] = "clean" PROVE Ring(After("cleaner")', ListHead, list)
    <3>1. 0 \in 0..Len(list) /\ Rest(list, 0) = list
      <4>1. 0 \in 0..Len(list)
        BY <1>3
      <4> QED BY <1>3, <4>1, RestIs
    <3>2. lock = "cleaner" /\ Ring(After("cleaner"), ListHead, list)
      BY <2>6 DEF LinkInv, LockInv, ListInv
    <3> QED BY <2>5, <3>1, <3>2
  <2>7. ASSUME pc["cleaner"] = "cleaning" PROVE Ring(After("cleaner")', ListHead, Rest(list, 1))
    <3>1. Len(list) > 0
      BY <2>7 DEF LinkInv, ListInv
    <3>2. 1 \in 0..Len(list)
      BY <1>3, <3>1
    <3>3. lock = "cleaner" /\ Ring(After("cleaner"), ListHead, Rest(list, 1))
      BY <2>7 DEF LinkInv, LockInv, ListInv
    <3> QED BY <2>5, <3>2, <3>3
  <2>8. UNCHANGED <<pc, lock, at, list, mine>>
    BY <1>0
  <2> QED BY <2>1, <2>2, <2>4, <2>6, <2>7, <2>8 DEF LinkInv, ListInv
<1>10. LocalInv'
  <2>1. CASE t = "reporter"
    BY <1>0, <1>1, <2>1 DEF LinkInv, LocalInv
  <2>2. CASE t # "reporter"
    <3>1. \A x \in {LocalHead} \cup ToSet(mine) : \A f \in Fields : After("reporter")'[f][x] = After("reporter")[f][x]
      BY <1>1, <1>2, <1>4, <2>2 DEF Threads
    <3>2. ASSUME Chain(After("reporter"), mine) PROVE Chain(After("reporter")', mine)
      BY <1>3, <3>1, <3>2, FrameChain
    <3>3. ASSUME Ring(After("reporter"), LocalHead, mine) PROVE Ring(After("reporter")', LocalHead, mine)
      BY <1>3, <3>1, <3>3, FrameRing
    <3>4. ASSUME pc["reporter"] = "freeing" PROVE Ring(After("reporter")', LocalHead, Rest(mine, 1))
      <4>1. Ring(After("reporter"), LocalHead, Rest(mine, 1))
        BY <3>4 DEF LinkInv, LocalInv
      <4>2. 1 \in 0..Len(mine)
        BY <1>3, <3>4 DEF LinkInv, NodesInv
      <4>3. Rest(mine, 1) \in Seq(Nodes) /\ ToSet(Rest(mine, 1)) \subseteq ToSet(mine)
        BY <1>3, <4>2, RestIs
      <4> QED BY <3>1, <4>1, <4>3, FrameRing
    <3> QED BY <1>0, <3>2, <3>3, <3>4 DEF LinkInv, LocalInv
  <2> QED BY <2>1, <2>2
<1> QED BY <1>5, <1>6, <1>7, <1>8, <1>9, <1>10 DEF LinkInv

-----------------------------------------------------------------------------
(* send_to_push_dongle.                                                    *)

\* An action of t changes neither the pointers nor what the others have yet to write.
LEMMA ActionIs ==
  ASSUME NEW t \in Threads, UNCHANGED ptr, \A u \in Threads \ {t} : todo'[u] = todo[u]
  PROVE  /\ \A u \in Threads \ {t} : After(u)' = After(u) /\ \A S : WritesOnly(u, S) => WritesOnly(u, S)'
         /\ todo'[t] = << >> => After(t)' = Over(ptr, << >>)
  BY DEF After, WritesOnly

LEMMA ExAllocLinks == ASSUME LinkInv, ExAlloc PROVE LinkInv'
<1>1. PICK n \in Nodes \ (ToSet(list) \cup ToSet(mine)) :
        /\ todo["examiner"] = << >> /\ pc["examiner"] = "idle"
        /\ pc' = [pc EXCEPT !["examiner"] = "init"]
        /\ todo' = [todo EXCEPT !["examiner"] = init_entry(n)]
        /\ at' = [at EXCEPT !["examiner"] = n]
        /\ UNCHANGED <<ptr, lock, list, mine>>
  BY DEF ExAlloc, Ready, Goto, Do, Move
<1>2. /\ n \in Entries /\ init_entry(n) \in Seq(WriteType)
      /\ \A i \in DOMAIN init_entry(n) : init_entry(n)[i].entry = n
  BY Heads, InitWritesDo
<1>3. Types'
  BY <1>1, <1>2 DEF LinkInv, Types, PcType, Threads
<1>4. /\ pc'["examiner"] = "init" /\ at'["examiner"] = n /\ todo'["examiner"] = init_entry(n)
      /\ \A u \in Threads \ {"examiner"} : pc'[u] = pc[u] /\ at'[u] = at[u] /\ todo'[u] = todo[u]
  BY <1>1 DEF LinkInv, Types, Threads
<1>5. \A u \in Threads \ {"examiner"} : After(u)' = After(u) /\ \A S : WritesOnly(u, S) => WritesOnly(u, S)'
  BY <1>1, <1>4, ActionIs DEF Threads
<1>6. LockInv'
  BY <1>1, <1>4 DEF LinkInv, LockInv, Threads
<1>7. OwnInv'
  BY <1>1, <1>2, <1>4 DEF LinkInv, OwnInv, WritesOnly, Threads
<1>8. NodesInv'
  BY <1>1, <1>4 DEF LinkInv, NodesInv, Threads
<1>9. ListInv'
  BY <1>1, <1>4, <1>5 DEF LinkInv, ListInv, LockInv, Threads
<1>10. LocalInv'
  BY <1>1, <1>4, <1>5 DEF LinkInv, LocalInv, Threads
<1> QED BY <1>3, <1>6, <1>7, <1>8, <1>9, <1>10 DEF LinkInv

LEMMA ExAppendLinks == ASSUME LinkInv, ExAppend PROVE LinkInv'
<1> DEFINE x == at["examiner"]
           w == insert_list_tail(x, ListHead)
           z == ptr["prev"][ListHead]
<1>1. /\ todo["examiner"] = << >> /\ pc["examiner"] = "init" /\ lock = "nobody" /\ lock' = "examiner"
      /\ pc' = [pc EXCEPT !["examiner"] = "append"]
      /\ todo' = [todo EXCEPT !["examiner"] = w]
      /\ UNCHANGED <<ptr, at, list, mine>>
  BY DEF ExAppend, Ready, Goto, Do, Acquire
<1>2. /\ x \in Nodes \ (ToSet(list) \cup ToSet(mine)) /\ Ring(ptr, ListHead, list)
      /\ list \in Seq(Nodes) /\ NoDup(list) /\ ToSet(list) \subseteq Nodes
  BY <1>1, ListElements DEF LinkInv, NodesInv, ListInv, Types
<1>3. z \in {ListHead} \cup ToSet(list)
  <2>1. Around(ListHead, list)[Len(list) + 1] = ListHead
    BY <1>2, AroundIs
  <2>2. Len(list) \in 0..Len(list) /\ Len(list) \in 0..Len(list) + 1
    BY <1>2
  <2>3. Around(ListHead, list)[Len(list)] \in {ListHead} \cup ToSet(list)
    BY <1>2, <2>2, AroundIs
  <2> QED BY <1>2, <2>1, <2>2, <2>3 DEF Ring
<1>4. x # ListHead /\ x # z /\ x \in Entries /\ z \in Entries /\ ListHead \in Entries
  BY <1>2, <1>3, Heads
<1> DEFINE r == Over(ptr, w)
<1>5. /\ w \in Seq(WriteType) /\ \A i \in DOMAIN w : w[i].entry \in {ListHead, x, z}
      /\ r["prev"][ListHead] = x /\ r["next"][x] = ListHead
      /\ r["prev"][x] = z /\ r["next"][z] = x
      /\ \A e \in Entries : e \notin {ListHead, x} => r["prev"][e] = ptr["prev"][e]
      /\ \A e \in Entries : e \notin {x, z} => r["next"][e] = ptr["next"][e]
  <2>1. w = <<Write("prev", ListHead, x), Write("next", x, ListHead), Write("prev", x, z), Write("next", z, x)>>
    BY DEF insert_list_tail
  <2> HIDE DEF x, z, w
  <2>2. /\ w \in Seq(WriteType) /\ WritesTo(w, {ListHead, x, z})
        /\ Points(r, "prev", ListHead, x) /\ Points(r, "next", x, ListHead)
        /\ Points(r, "prev", x, z) /\ Points(r, "next", z, x)
        /\ Elsewhere(r, ptr, "prev", {ListHead, x}) /\ Elsewhere(r, ptr, "next", {x, z})
    BY <1>4, <2>1, InsertWrites
  <2> HIDE DEF r
  <2> QED BY <2>2 DEF WritesTo, Points, Elsewhere
<1>6. Ring(r, ListHead, Append(list, x))
  <2> HIDE DEF r, w, x
  <2>1. \A e \in {ListHead} \cup ToSet(list) : e # ListHead => r["prev"][e] = ptr["prev"][e]
    BY <1>2, <1>5, Heads
  <2>2. \A e \in {ListHead} \cup ToSet(list) : e # z => r["next"][e] = ptr["next"][e]
    BY <1>2, <1>4, <1>5, Heads
  <2>3. ListHead \notin ToSet(list) /\ x \notin ToSet(list)
    BY <1>2, Heads
  <2> QED BY <1>2, <1>4, <1>5, <2>1, <2>2, <2>3, AppendRing
<1> HIDE DEF w, z
<1>7. Types'
  BY <1>1, <1>5 DEF LinkInv, Types, PcType, Threads
<1>8. /\ pc'["examiner"] = "append" /\ todo'["examiner"] = w
      /\ \A u \in Threads \ {"examiner"} : pc'[u] = pc[u] /\ todo'[u] = todo[u]
  BY <1>1 DEF LinkInv, Types, Threads
<1>9. \A u \in Threads \ {"examiner"} : After(u)' = After(u) /\ \A S : WritesOnly(u, S) => WritesOnly(u, S)'
  BY <1>1, <1>8, ActionIs DEF Threads
<1>10. LockInv'
  BY <1>1, <1>8 DEF LinkInv, LockInv, Threads
<1>11. OwnInv'
  BY <1>1, <1>3, <1>5, <1>8 DEF LinkInv, OwnInv, WritesOnly, Threads
<1>12. NodesInv'
  BY <1>1, <1>2, <1>8 DEF LinkInv, NodesInv, Threads
<1>13. ListInv'
  <2>1. After("examiner")' = r
    BY <1>1, <1>8 DEF After
  <2> HIDE DEF r
  <2> QED BY <1>1, <1>6, <1>10, <2>1 DEF ListInv, LockInv
<1>14. LocalInv'
  BY <1>1, <1>8, <1>9 DEF LinkInv, LocalInv, Threads
<1> QED BY <1>7, <1>10, <1>11, <1>12, <1>13, <1>14 DEF LinkInv

LEMMA ExUnlockLinks == ASSUME LinkInv, ExUnlock PROVE LinkInv'
<1> DEFINE x == at["examiner"]
<1>1. /\ todo["examiner"] = << >> /\ pc["examiner"] = "append" /\ lock' = "nobody"
      /\ pc' = [pc EXCEPT !["examiner"] = "idle"]
      /\ list' = Append(list, x)
      /\ UNCHANGED <<ptr, todo, at, mine>>
  BY DEF ExUnlock, Ready, Goto, Release
<1>2. lock = "examiner" /\ x \in Nodes \ (ToSet(list) \cup ToSet(mine))
  BY <1>1 DEF LinkInv, LockInv, NodesInv
<1>3. Append(list, x) \in Seq(Nodes) /\ NoDup(Append(list, x)) /\ ToSet(Append(list, x)) = ToSet(list) \cup {x}
  BY <1>2, AppendList DEF LinkInv, Types
<1>4. Types'
  BY <1>1, <1>3 DEF LinkInv, Types, PcType, Threads
<1>5. /\ pc'["examiner"] = "idle" /\ \A u \in Threads \ {"examiner"} : pc'[u] = pc[u]
      /\ pc["reporter"] # "cut" /\ pc["cleaner"] = "idle"
  BY <1>1, <1>2 DEF LinkInv, Types, LockInv, Threads
<1>6. LockInv'
  BY <1>1, <1>5 DEF LinkInv, LockInv, Threads
<1>7. OwnInv'
  BY <1>1, <1>3, <1>5 DEF LinkInv, OwnInv, WritesOnly, Threads
<1>8. NodesInv'
  <2> HIDE DEF x
  <2> QED BY <1>1, <1>2, <1>3, <1>5 DEF LinkInv, NodesInv, Threads
<1>9. ListInv'
  <2>1. After("examiner") = ptr
    BY <1>1, OverNone DEF LinkInv, Types, After
  <2> QED BY <1>1, <1>2, <1>6, <2>1 DEF LinkInv, ListInv, LockInv
<1>10. LocalInv'
  BY <1>1, <1>5 DEF LinkInv, LocalInv, After, Threads
<1> QED BY <1>4, <1>6, <1>7, <1>8, <1>9, <1>10 DEF LinkInv

-----------------------------------------------------------------------------
(* consolidate_tracked_data and cleanup_lists.                             *)

\* A thread that gets list_lock finds the list whole, forward.
LEMMA ListVisited == ASSUME LinkInv, lock = "nobody" PROVE Visited("next", ListHead) = list
<1>1. list \in Seq(Nodes) /\ NoDup(list) /\ Ring(ptr, ListHead, list)
  BY DEF LinkInv, Types, ListInv
<1> QED BY <1>1, Heads, Loop DEF Ring

LEMMA RepCutLinks == ASSUME LinkInv, RepCut PROVE LinkInv'
<1>1. lock = "nobody" /\ Visited("next", ListHead) = list
  BY ListVisited DEF RepCut, Acquire
<1>2. PICK n \in 1..Len(list) :
        /\ todo["reporter"] = << >> /\ pc["reporter"] = "idle" /\ lock' = "reporter"
        /\ pc' = [pc EXCEPT !["reporter"] = "cut"]
        /\ todo' = [todo EXCEPT !["reporter"] = CutWrites(list[n])]
        /\ mine' = SubSeq(list, 1, n)
        /\ UNCHANGED <<ptr, at, list>>
  BY <1>1 DEF RepCut, Ready, Goto, Do, Acquire
<1> DEFINE A == Around(ListHead, list)
           a == ptr["next"][list[n]]
           w == CutWrites(list[n])
           r == Over(ptr, w)
           m == Len(list)
<1>3. /\ list \in Seq(Nodes) /\ NoDup(list) /\ ToSet(list) \subseteq Nodes /\ Ring(ptr, ListHead, list)
      /\ m \in Nat /\ n \in 0..m /\ ListHead \notin ToSet(list)
  BY <1>1, <1>2, Heads, ListElements DEF LinkInv, Types, ListInv
<1>4. /\ A[0] = ListHead /\ A[m + 1] = ListHead /\ \A i \in 1..m : A[i] = list[i] /\ list[i] \in ToSet(list)
      /\ \A i \in 0..m + 1 : A[i] \in {ListHead} \cup ToSet(list)
      /\ \A i, j \in 0..m : i # j => A[i] # A[j]
      /\ \A i, j \in 1..m + 1 : i # j => A[i] # A[j]
  BY <1>3, AroundIs
<1>5. \A i \in 0..m : ptr["next"][A[i]] = A[i + 1]
  BY <1>3 DEF Ring
<1>6. a = A[n + 1] /\ n + 1 \in 1..m + 1 /\ n + 1 \in 0..m + 1
  <2> HIDE DEF A
  <2> QED BY <1>2, <1>3, <1>4, <1>5
<1> HIDE DEF A, m
<1>7. a \in {ListHead} \cup ToSet(list) /\ a \in Entries /\ ListHead \in Entries
  BY <1>3, <1>4, <1>6, Heads
<1>8. /\ w \in Seq(WriteType) /\ \A i \in DOMAIN w : w[i].entry \in {ListHead, a}
      /\ r["next"][ListHead] = a /\ r["prev"][a] = ListHead
      /\ \A e \in Entries : e # a => r["prev"][e] = ptr["prev"][e]
      /\ \A e \in Entries : e # ListHead => r["next"][e] = ptr["next"][e]
  <2>1. w = CutAt(ListHead, a)
    BY DEF CutWrites, CutAt
  <2>2. a \in Entries /\ ListHead \in Entries
    BY <1>7
  <2> HIDE DEF a, w
  <2>3. /\ w \in Seq(WriteType) /\ WritesTo(w, {ListHead, a})
        /\ Points(r, "next", ListHead, a) /\ Points(r, "prev", a, ListHead)
        /\ Elsewhere(r, ptr, "prev", {a}) /\ Elsewhere(r, ptr, "next", {ListHead})
    BY <2>1, <2>2, CutWritesDo
  <2> HIDE DEF r
  <2> QED BY <2>3 DEF WritesTo, Points, Elsewhere
<1> HIDE DEF a, w, r
<1>9. Ring(r, ListHead, Rest(list, n))
  <2>1. \A i \in n + 1..m : r["next"][list[i]] = ptr["next"][list[i]]
    <3> SUFFICES ASSUME NEW i \in n + 1..m PROVE r["next"][list[i]] = ptr["next"][list[i]]
      OBVIOUS
    <3>1. i \in 1..m
      BY <1>2, <1>3 DEF m
    <3> QED BY <1>3, <1>4, <1>8, <3>1, Heads
  <2>2. \A i \in n + 2..m + 1 : r["prev"][A[i]] = ptr["prev"][A[i]]
    <3> SUFFICES ASSUME NEW i \in n + 2..m + 1 PROVE r["prev"][A[i]] = ptr["prev"][A[i]]
      OBVIOUS
    <3>1. i \in 1..m + 1 /\ i \in 0..m + 1 /\ i # n + 1
      BY <1>2, <1>3
    <3>2. A[i] # a /\ A[i] \in Entries
      BY <1>3, <1>4, <1>6, <3>1, Heads
    <3> QED BY <1>8, <3>2
  <2> QED BY <1>3, <1>6, <1>8, <2>1, <2>2, CutRing DEF A, m, Rest
<1>10. Chain(r, SubSeq(list, 1, n))
  <2>1. \A i \in 1..n - 1 : r["next"][list[i]] = ptr["next"][list[i]] /\ r["prev"][list[i + 1]] = ptr["prev"][list[i + 1]]
    <3> SUFFICES ASSUME NEW i \in 1..n - 1
                 PROVE  r["next"][list[i]] = ptr["next"][list[i]] /\ r["prev"][list[i + 1]] = ptr["prev"][list[i + 1]]
      OBVIOUS
    <3>1. i \in 1..m /\ i + 1 \in 1..m /\ i + 1 \in 1..m + 1 /\ i + 1 # n + 1
      <4>1. n \in Nat /\ i \in Nat /\ 1 <= i /\ i <= n - 1 /\ n <= m
        BY <1>2, <1>3 DEF m
      <4> QED BY <1>3, <4>1
    <3>2. A[i + 1] # a /\ list[i + 1] = A[i + 1] /\ list[i] \in Nodes /\ list[i + 1] \in Nodes
      BY <1>3, <1>4, <1>6, <3>1
    <3> QED BY <1>8, <3>2, Heads
  <2> QED BY <1>3, <2>1, CutChain DEF m
<1>11. /\ SubSeq(list, 1, n) \in Seq(Nodes) /\ NoDup(SubSeq(list, 1, n)) /\ Len(SubSeq(list, 1, n)) = n
       /\ ToSet(SubSeq(list, 1, n)) \subseteq ToSet(list) /\ n > 0 /\ n <= Len(list) /\ n \in Nat
  BY <1>2, <1>3, SplitList DEF m
<1>12. /\ pc'["reporter"] = "cut" /\ todo'["reporter"] = w
       /\ \A u \in Threads \ {"reporter"} : pc'[u] = pc[u] /\ todo'[u] = todo[u]
  BY <1>2 DEF LinkInv, Types, Threads, w
<1>13. \A u \in Threads \ {"reporter"} : After(u)' = After(u) /\ \A S : WritesOnly(u, S) => WritesOnly(u, S)'
  BY <1>2, <1>12, ActionIs DEF Threads
<1>14. After("reporter")' = r
  BY <1>2, <1>12 DEF After, r
<1>15. Types'
  BY <1>2, <1>8, <1>11 DEF LinkInv, Types, PcType, Threads, w
<1>16. LockInv'
  BY <1>1, <1>2, <1>12 DEF LinkInv, LockInv, Threads
<1>17. OwnInv'
  <2>1. WritesOnly("reporter", {ListHead} \cup ToSet(list))'
    BY <1>2, <1>7, <1>8, <1>12 DEF WritesOnly
  <2> QED BY <1>2, <1>12, <1>13, <2>1 DEF LinkInv, OwnInv, WritesOnly, Threads
<1>18. NodesInv'
  BY <1>1, <1>2, <1>11, <1>12 DEF LinkInv, NodesInv, Threads
<1>19. ListInv'
  BY <1>2, <1>9, <1>11, <1>14, <1>16 DEF ListInv, LockInv
<1>20. LocalInv'
  BY <1>2, <1>10, <1>12, <1>14 DEF LocalInv
<1> QED BY <1>15, <1>16, <1>17, <1>18, <1>19, <1>20 DEF LinkInv

LEMMA RepUnlockLinks == ASSUME LinkInv, RepUnlock PROVE LinkInv'
<1> DEFINE n == Len(mine)
<1>1. /\ todo["reporter"] = << >> /\ pc["reporter"] = "cut" /\ lock' = "nobody"
      /\ pc' = [pc EXCEPT !["reporter"] = "close"]
      /\ list' = Rest(list, n)
      /\ UNCHANGED <<ptr, todo, at, mine>>
  BY DEF RepUnlock, Ready, Goto, Release, Rest
<1>2. lock = "reporter" /\ n \in 0..Len(list) /\ mine = SubSeq(list, 1, n) /\ list \in Seq(Nodes)
  BY <1>1 DEF LinkInv, LockInv, NodesInv, Types
<1>3. /\ Rest(list, n) \in Seq(Nodes) /\ NoDup(Rest(list, n)) /\ ToSet(Rest(list, n)) \subseteq ToSet(list)
      /\ ToSet(Rest(list, n)) \cap ToSet(mine) = {}
  <2>1. NoDup(list)
    BY DEF LinkInv, Types
  <2> QED BY <1>2, <2>1, RestIs, SplitList DEF Rest
<1>4. /\ pc'["reporter"] = "close" /\ \A u \in Threads \ {"reporter"} : pc'[u] = pc[u]
      /\ pc["examiner"] # "append" /\ pc["cleaner"] = "idle" /\ todo["cleaner"] = << >>
  BY <1>1, <1>2 DEF LinkInv, Types, LockInv, Threads
<1> HIDE DEF n
<1>5. Types'
  BY <1>1, <1>3 DEF LinkInv, Types, PcType, Threads
<1>6. LockInv'
  BY <1>1, <1>4 DEF LinkInv, LockInv, Threads
<1>7. OwnInv'
  <2>1. WritesOnly("examiner", IF pc["examiner"] = "init" THEN {at["examiner"]}
                               ELSE {ListHead, at["examiner"]} \cup ToSet(Rest(list, n)))
    BY <1>4 DEF LinkInv, LockInv, OwnInv, WritesOnly, Threads
  <2> QED BY <1>1, <1>4, <2>1 DEF OwnInv, WritesOnly, Threads
<1>8. NodesInv'
  BY <1>1, <1>3, <1>4 DEF LinkInv, NodesInv, Threads
<1>9. ListInv'
  <2>1. After("reporter") = ptr
    BY <1>1, OverNone DEF LinkInv, Types, After
  <2> QED BY <1>1, <1>2, <1>6, <2>1 DEF LinkInv, ListInv, LockInv, n
<1>10. LocalInv'
  BY <1>1, <1>4 DEF LinkInv, LocalInv, After
<1> QED BY <1>5, <1>6, <1>7, <1>8, <1>9, <1>10 DEF LinkInv

LEMMA RepCloseLinks == ASSUME LinkInv, RepClose PROVE LinkInv'
<1> DEFINE x == mine[1]
           z == mine[Len(mine)]
           w == CloseWrites(x, z)
           r == Over(ptr, w)
<1>1. /\ todo["reporter"] = << >> /\ pc["reporter"] = "close"
      /\ pc' = [pc EXCEPT !["reporter"] = "closing"]
      /\ todo' = [todo EXCEPT !["reporter"] = w]
      /\ UNCHANGED <<ptr, lock, at, list, mine>>
  BY DEF RepClose, Ready, Goto, Do
<1>2. /\ mine \in Seq(Nodes) /\ NoDup(mine) /\ Len(mine) > 0 /\ ToSet(mine) \subseteq Nodes
      /\ Chain(ptr, mine) /\ LocalHead \notin ToSet(mine)
  <2>1. After("reporter") = ptr
    BY <1>1, OverNone DEF LinkInv, Types, After
  <2> QED BY <1>1, <2>1, Heads, ListElements DEF LinkInv, Types, NodesInv, LocalInv
<1>3. x \in ToSet(mine) /\ z \in ToSet(mine)
  <2>1. 1 \in DOMAIN mine /\ Len(mine) \in DOMAIN mine
    BY <1>2
  <2> QED BY <2>1 DEF ToSet
<1>4. /\ w \in Seq(WriteType) /\ \A i \in DOMAIN w : w[i].entry \in {LocalHead, x, z}
      /\ r["next"][LocalHead] = x /\ r["prev"][x] = LocalHead
      /\ r["prev"][LocalHead] = z /\ r["next"][z] = LocalHead
      /\ \A e \in Entries : e \notin {LocalHead, x} => r["prev"][e] = ptr["prev"][e]
      /\ \A e \in Entries : e \notin {LocalHead, z} => r["next"][e] = ptr["next"][e]
  <2>1. x \in Nodes /\ z \in Nodes
    BY <1>2, <1>3
  <2>2. w = CloseWrites(x, z)
    OBVIOUS
  <2> HIDE DEF x, z, w
  <2>3. /\ w \in Seq(WriteType) /\ WritesTo(w, {LocalHead, x, z})
        /\ Points(r, "next", LocalHead, x) /\ Points(r, "prev", x, LocalHead)
        /\ Points(r, "prev", LocalHead, z) /\ Points(r, "next", z, LocalHead)
        /\ Elsewhere(r, ptr, "prev", {LocalHead, x}) /\ Elsewhere(r, ptr, "next", {LocalHead, z})
    BY <2>1, <2>2, CloseWritesDo
  <2> HIDE DEF r
  <2> QED BY <2>3 DEF WritesTo, Points, Elsewhere
<1>5. Ring(r, LocalHead, mine)
  <2> HIDE DEF w, r
  <2>1. \A e \in ToSet(mine) : e # x => r["prev"][e] = ptr["prev"][e]
    BY <1>2, <1>4, Heads
  <2>2. \A e \in ToSet(mine) : e # z => r["next"][e] = ptr["next"][e]
    BY <1>2, <1>4, Heads
  <2> QED BY <1>2, <1>4, <2>1, <2>2, CloseRing
<1> HIDE DEF x, z, w, r
<1>6. /\ pc'["reporter"] = "closing" /\ todo'["reporter"] = w
      /\ \A u \in Threads \ {"reporter"} : pc'[u] = pc[u] /\ todo'[u] = todo[u]
  BY <1>1 DEF LinkInv, Types, Threads
<1>7. \A u \in Threads \ {"reporter"} : After(u)' = After(u) /\ \A S : WritesOnly(u, S) => WritesOnly(u, S)'
  BY <1>1, <1>6, ActionIs DEF Threads
<1>8. After("reporter")' = r
  BY <1>1, <1>6 DEF After, r
<1>9. Types'
  BY <1>1, <1>4 DEF LinkInv, Types, PcType, Threads
<1>10. LockInv'
  BY <1>1, <1>6 DEF LinkInv, LockInv, Threads
<1>11. OwnInv'
  <2>1. WritesOnly("reporter", {LocalHead} \cup ToSet(mine))'
    BY <1>1, <1>3, <1>4, <1>6 DEF WritesOnly
  <2> QED BY <1>1, <1>6, <1>7, <2>1 DEF LinkInv, OwnInv, WritesOnly, Threads
<1>12. NodesInv'
  BY <1>1, <1>2, <1>6 DEF LinkInv, NodesInv, Threads
<1>13. ListInv'
  BY <1>1, <1>7 DEF LinkInv, ListInv, LockInv, Threads
<1>14. LocalInv'
  BY <1>1, <1>5, <1>6, <1>8 DEF LocalInv
<1> QED BY <1>9, <1>10, <1>11, <1>12, <1>13, <1>14 DEF LinkInv

LEMMA RepBeginLinks == ASSUME LinkInv, RepBegin PROVE LinkInv'
<1>1. /\ todo["reporter"] = << >> /\ pc["reporter"] = "closing"
      /\ pc' = [pc EXCEPT !["reporter"] = "free"]
      /\ at' = [at EXCEPT !["reporter"] = ptr["next"][LocalHead]]
      /\ UNCHANGED <<ptr, todo, lock, list, mine>>
  BY DEF RepBegin, Ready, Goto, Move
<1>2. After("reporter") = ptr /\ Ring(ptr, LocalHead, mine) /\ mine \in Seq(Nodes)
  <2>1. After("reporter") = ptr
    BY <1>1, OverNone DEF LinkInv, Types, After
  <2> QED BY <1>1, <2>1 DEF LinkInv, LocalInv, Types
<1>3. ptr["next"][LocalHead] = First(LocalHead, mine) /\ ptr["next"][LocalHead] \in Entries
  <2>1. Around(LocalHead, mine)[0] = LocalHead /\ Around(LocalHead, mine)[1] = First(LocalHead, mine)
    BY <1>2, AroundIs, FirstIs
  <2>2. 0 \in 0..Len(mine) /\ 0 + 1 = 1
    BY <1>2
  <2>3. ptr["next"][LocalHead] \in Entries
    BY Heads DEF LinkInv, Types, Pointers, Fields
  <2> QED BY <1>2, <2>1, <2>2, <2>3 DEF Ring
<1>4. /\ pc'["reporter"] = "free" /\ at'["reporter"] = First(LocalHead, mine)
      /\ \A u \in Threads \ {"reporter"} : pc'[u] = pc[u] /\ at'[u] = at[u]
  BY <1>1, <1>3 DEF LinkInv, Types, Threads
<1>5. Types'
  BY <1>1, <1>3 DEF LinkInv, Types, PcType, Threads
<1>6. LockInv'
  BY <1>1, <1>4 DEF LinkInv, LockInv, Threads
<1>7. OwnInv'
  BY <1>1, <1>4 DEF LinkInv, OwnInv, WritesOnly, Threads
<1>8. NodesInv'
  BY <1>1, <1>4 DEF LinkInv, NodesInv, Threads
<1>9. ListInv'
  BY <1>1, <1>4 DEF LinkInv, ListInv, After, Threads
<1>10. LocalInv'
  BY <1>1, <1>4 DEF LinkInv, LocalInv, After
<1> QED BY <1>5, <1>6, <1>7, <1>8, <1>9, <1>10 DEF LinkInv

\* A list the first entry of which is its head is empty.
LEMMA NoFirst ==
  ASSUME NEW h, h \notin Nodes, NEW q \in Seq(Nodes), First(h, q) = h
  PROVE  q = << >>
<1>1. Len(q) \in Nat /\ (Len(q) = 0 <=> q = << >>)
  BY ListElements
<1>2. ASSUME Len(q) # 0 PROVE FALSE
  <2>1. 1 \in 1..Len(q)
    BY <1>1, <1>2
  <2>2. q[1] \in Nodes
    BY <2>1
  <2> QED BY <1>2, <2>2 DEF First
<1> QED BY <1>1, <1>2

LEMMA RepRemoveLinks == ASSUME LinkInv, RepRemove PROVE LinkInv'
<1> DEFINE x == at["reporter"]
           w == remove_list_node(x)
           r == Over(ptr, w)
<1>1. /\ todo["reporter"] = << >> /\ pc["reporter"] = "free" /\ x # LocalHead
      /\ pc' = [pc EXCEPT !["reporter"] = "freeing"]
      /\ todo' = [todo EXCEPT !["reporter"] = w]
      /\ at' = [at EXCEPT !["reporter"] = ptr["next"][x]]
      /\ UNCHANGED <<ptr, lock, list, mine>>
  BY DEF RepRemove, RemoveThen, Ready, Goto, Do, Move
<1>2. ptr \in Pointers /\ mine \in Seq(Nodes) /\ NoDup(mine) /\ Ring(ptr, LocalHead, mine)
  <2>1. After("reporter") = ptr
    BY <1>1, OverNone DEF LinkInv, Types, After
  <2> QED BY <1>1, <2>1 DEF LinkInv, LocalInv, Types
<1>3. Len(mine) > 0 /\ x = mine[1]
  <2>1. x = First(LocalHead, mine) /\ Len(mine) \in Nat
    BY <1>1, <1>2 DEF LinkInv, LocalInv
  <2> QED BY <1>1, <2>1 DEF First
<1>4. w = Unlink(ptr, mine[1])
  BY <1>3 DEF remove_list_node, Unlink
<1>5. /\ ptr["next"][x] = First(LocalHead, Rest(mine, 1)) /\ ptr["next"][x] \in Entries
      /\ w \in Seq(WriteType) /\ WritesTo(w, {LocalHead} \cup ToSet(mine))
      /\ Ring(r, LocalHead, Rest(mine, 1))
  BY <1>2, <1>3, <1>4, Heads, UnlinkFirst DEF WritesTo
<1> HIDE DEF w, r, x
<1>6. /\ pc'["reporter"] = "freeing" /\ todo'["reporter"] = w /\ at'["reporter"] = First(LocalHead, Rest(mine, 1))
      /\ \A u \in Threads \ {"reporter"} : pc'[u] = pc[u] /\ todo'[u] = todo[u] /\ at'[u] = at[u]
  BY <1>1, <1>5 DEF LinkInv, Types, Threads
<1>7. \A u \in Threads \ {"reporter"} : After(u)' = After(u) /\ \A S : WritesOnly(u, S) => WritesOnly(u, S)'
  BY <1>1, <1>6, ActionIs DEF Threads
<1>8. After("reporter")' = r
  BY <1>1, <1>6 DEF After, r
<1>9. Types'
  BY <1>1, <1>5 DEF LinkInv, Types, PcType, Threads
<1>10. LockInv'
  BY <1>1, <1>6 DEF LinkInv, LockInv, Threads
<1>11. OwnInv'
  <2>1. WritesOnly("reporter", {LocalHead} \cup ToSet(mine))'
    BY <1>1, <1>5, <1>6 DEF WritesOnly, WritesTo
  <2> QED BY <1>1, <1>6, <1>7, <2>1 DEF LinkInv, OwnInv, WritesOnly, Threads
<1>12. NodesInv'
  BY <1>1, <1>3, <1>6 DEF LinkInv, NodesInv, Threads
<1>13. ListInv'
  BY <1>1, <1>6, <1>7 DEF LinkInv, ListInv, LockInv, Threads
<1>14. LocalInv'
  BY <1>1, <1>5, <1>6, <1>8 DEF LocalInv
<1> QED BY <1>9, <1>10, <1>11, <1>12, <1>13, <1>14 DEF LinkInv

LEMMA RepFreeLinks == ASSUME LinkInv, RepFree PROVE LinkInv'
<1>1. /\ todo["reporter"] = << >> /\ pc["reporter"] = "freeing"
      /\ pc' = [pc EXCEPT !["reporter"] = "free"] /\ mine' = Rest(mine, 1)
      /\ UNCHANGED <<ptr, todo, lock, at, list>>
  BY DEF RepFree, Ready, Goto, Rest
<1>2. mine \in Seq(Nodes) /\ NoDup(mine) /\ 1 \in 0..Len(mine)
  BY <1>1 DEF LinkInv, Types, NodesInv
<1>3. Rest(mine, 1) \in Seq(Nodes) /\ NoDup(Rest(mine, 1)) /\ ToSet(Rest(mine, 1)) \subseteq ToSet(mine)
  BY <1>2, RestIs
<1>4. pc'["reporter"] = "free" /\ \A u \in Threads \ {"reporter"} : pc'[u] = pc[u]
  BY <1>1 DEF LinkInv, Types, Threads
<1>5. Types'
  BY <1>1, <1>3 DEF LinkInv, Types, PcType, Threads
<1>6. LockInv'
  BY <1>1, <1>4 DEF LinkInv, LockInv, Threads
<1>7. OwnInv'
  BY <1>1, <1>4 DEF LinkInv, OwnInv, WritesOnly, Threads
<1>8. NodesInv'
  BY <1>1, <1>3, <1>4 DEF LinkInv, NodesInv, Threads
<1>9. ListInv'
  BY <1>1, <1>4 DEF LinkInv, ListInv, LockInv, After, Threads
<1>10. LocalInv'
  BY <1>1, <1>4 DEF LinkInv, LocalInv, After
<1> QED BY <1>5, <1>6, <1>7, <1>8, <1>9, <1>10 DEF LinkInv

LEMMA RepEndLinks == ASSUME LinkInv, RepEnd PROVE LinkInv'
<1>1. /\ todo["reporter"] = << >> /\ pc["reporter"] = "free" /\ at["reporter"] = LocalHead
      /\ pc' = [pc EXCEPT !["reporter"] = "idle"]
      /\ UNCHANGED <<ptr, todo, lock, at, list, mine>>
  BY DEF RepEnd, Ready, Goto
<1>2. mine = << >>
  <2>1. First(LocalHead, mine) = LocalHead /\ mine \in Seq(Nodes)
    BY <1>1 DEF LinkInv, LocalInv, Types
  <2> QED BY <2>1, NoFirst, Heads
<1>3. pc'["reporter"] = "idle" /\ \A u \in Threads \ {"reporter"} : pc'[u] = pc[u]
  BY <1>1 DEF LinkInv, Types, Threads
<1>4. Types'
  BY <1>1 DEF LinkInv, Types, PcType, Threads
<1>5. LockInv'
  BY <1>1, <1>3 DEF LinkInv, LockInv, Threads
<1>6. OwnInv'
  BY <1>1, <1>3 DEF LinkInv, OwnInv, WritesOnly, Threads
<1>7. NodesInv'
  BY <1>1, <1>3 DEF LinkInv, NodesInv, Threads
<1>8. ListInv'
  BY <1>1, <1>3 DEF LinkInv, ListInv, After
<1>9. LocalInv'
  BY <1>1, <1>2, <1>3 DEF LocalInv
<1> QED BY <1>4, <1>5, <1>6, <1>7, <1>8, <1>9 DEF LinkInv

LEMMA ClLockLinks == ASSUME LinkInv, ClLock PROVE LinkInv'
<1>1. /\ todo["cleaner"] = << >> /\ pc["cleaner"] = "idle" /\ lock = "nobody" /\ lock' = "cleaner"
      /\ pc' = [pc EXCEPT !["cleaner"] = "clean"]
      /\ at' = [at EXCEPT !["cleaner"] = ptr["next"][ListHead]]
      /\ UNCHANGED <<ptr, todo, list, mine>>
  BY DEF ClLock, Ready, Goto, Acquire, Move
<1>2. After("cleaner") = ptr /\ Ring(ptr, ListHead, list) /\ list \in Seq(Nodes)
  BY <1>1, OverNone DEF LinkInv, Types, ListInv, After
<1>3. ptr["next"][ListHead] = First(ListHead, list) /\ ptr["next"][ListHead] \in Entries
  <2>1. Around(ListHead, list)[0] = ListHead /\ Around(ListHead, list)[1] = First(ListHead, list)
    BY <1>2, AroundIs, FirstIs
  <2>2. 0 \in 0..Len(list) /\ 0 + 1 = 1
    BY <1>2
  <2>3. ptr["next"][ListHead] \in Entries
    BY Heads DEF LinkInv, Types, Pointers, Fields
  <2> QED BY <1>2, <2>1, <2>2, <2>3 DEF Ring
<1>4. /\ pc'["cleaner"] = "clean" /\ at'["cleaner"] = First(ListHead, list)
      /\ \A u \in Threads \ {"cleaner"} : pc'[u] = pc[u] /\ at'[u] = at[u]
  BY <1>1, <1>3 DEF LinkInv, Types, Threads
<1>5. Types'
  BY <1>1, <1>3 DEF LinkInv, Types, PcType, Threads
<1>6. LockInv'
  BY <1>1, <1>4 DEF LinkInv, LockInv, Threads
<1>7. OwnInv'
  BY <1>1, <1>4 DEF LinkInv, OwnInv, WritesOnly, Threads
<1>8. NodesInv'
  BY <1>1, <1>4 DEF LinkInv, NodesInv, Threads
<1>9. ListInv'
  <2>1. After("cleaner")' = ptr
    BY <1>1, <1>2 DEF After
  <2> QED BY <1>1, <1>2, <1>4, <2>1 DEF ListInv
<1>10. LocalInv'
  BY <1>1, <1>4 DEF LinkInv, LocalInv, After, Threads
<1> QED BY <1>5, <1>6, <1>7, <1>8, <1>9, <1>10 DEF LinkInv

LEMMA ClRemoveLinks == ASSUME LinkInv, ClRemove PROVE LinkInv'
<1> DEFINE x == at["cleaner"]
           w == remove_list_node(x)
           r == Over(ptr, w)
<1>1. /\ todo["cleaner"] = << >> /\ pc["cleaner"] = "clean" /\ x # ListHead
      /\ pc' = [pc EXCEPT !["cleaner"] = "cleaning"]
      /\ todo' = [todo EXCEPT !["cleaner"] = w]
      /\ at' = [at EXCEPT !["cleaner"] = ptr["next"][x]]
      /\ UNCHANGED <<ptr, lock, list, mine>>
  BY DEF ClRemove, Ready, Goto, Do, Move
<1>2. /\ lock = "cleaner" /\ After("cleaner") = ptr /\ ptr \in Pointers
      /\ list \in Seq(Nodes) /\ NoDup(list)
  BY <1>1, OverNone DEF LinkInv, Types, LockInv, After
<1>3. x = First(ListHead, list) /\ Ring(ptr, ListHead, list)
  BY <1>1, <1>2 DEF LinkInv, ListInv
<1>4. Len(list) > 0 /\ x = list[1]
  <2>1. Len(list) \in Nat
    BY <1>2
  <2> QED BY <1>1, <1>3, <2>1 DEF First
<1>5. w = Unlink(ptr, list[1])
  BY <1>4 DEF remove_list_node, Unlink
<1>6. /\ ptr["next"][x] = First(ListHead, Rest(list, 1)) /\ ptr["next"][x] \in Entries
      /\ w \in Seq(WriteType) /\ WritesTo(w, {ListHead} \cup ToSet(list))
      /\ Ring(r, ListHead, Rest(list, 1))
  BY <1>2, <1>3, <1>4, <1>5, Heads, UnlinkFirst DEF WritesTo
<1> HIDE DEF w, r, x
<1>7. /\ pc'["cleaner"] = "cleaning" /\ todo'["cleaner"] = w
      /\ at'["cleaner"] = First(ListHead, Rest(list, 1))
      /\ \A u \in Threads \ {"cleaner"} : pc'[u] = pc[u] /\ todo'[u] = todo[u] /\ at'[u] = at[u]
  BY <1>1, <1>6 DEF LinkInv, Types, Threads
<1>8. \A u \in Threads \ {"cleaner"} : After(u)' = After(u) /\ \A S : WritesOnly(u, S) => WritesOnly(u, S)'
  BY <1>1, <1>7, ActionIs DEF Threads
<1>9. After("cleaner")' = r
  BY <1>1, <1>7 DEF After, r
<1>10. Types'
  BY <1>1, <1>6 DEF LinkInv, Types, PcType, Threads
<1>11. LockInv'
  BY <1>1, <1>7 DEF LinkInv, LockInv, Threads
<1>12. OwnInv'
  <2>1. WritesOnly("cleaner", {ListHead} \cup ToSet(list))'
    BY <1>1, <1>6, <1>7 DEF WritesOnly, WritesTo
  <2> QED BY <1>1, <1>7, <1>8, <2>1 DEF LinkInv, OwnInv, Threads
<1>13. NodesInv'
  BY <1>1, <1>7 DEF LinkInv, NodesInv, Threads
<1>14. ListInv'
  BY <1>1, <1>2, <1>4, <1>6, <1>7, <1>9 DEF ListInv
<1>15. LocalInv'
  BY <1>1, <1>7, <1>8 DEF LinkInv, LocalInv, Threads
<1> QED BY <1>10, <1>11, <1>12, <1>13, <1>14, <1>15 DEF LinkInv

LEMMA ClFreeLinks == ASSUME LinkInv, ClFree PROVE LinkInv'
<1>1. /\ todo["cleaner"] = << >> /\ pc["cleaner"] = "cleaning"
      /\ pc' = [pc EXCEPT !["cleaner"] = "clean"] /\ list' = Rest(list, 1)
      /\ UNCHANGED <<ptr, todo, lock, at, mine>>
  BY DEF ClFree, Ready, Goto, Rest
<1>2. /\ lock = "cleaner" /\ list \in Seq(Nodes) /\ NoDup(list) /\ Len(list) > 0
      /\ at["cleaner"] = First(ListHead, Rest(list, 1))
      /\ Ring(After("cleaner"), ListHead, Rest(list, 1))
  BY <1>1 DEF LinkInv, Types, LockInv, ListInv
<1>3. 1 \in 0..Len(list)
  BY <1>2
<1>4. Rest(list, 1) \in Seq(Nodes) /\ NoDup(Rest(list, 1)) /\ ToSet(Rest(list, 1)) \subseteq ToSet(list)
  BY <1>2, <1>3, RestIs
<1>5. /\ pc'["cleaner"] = "clean" /\ \A u \in Threads \ {"cleaner"} : pc'[u] = pc[u]
      /\ pc["examiner"] # "append" /\ pc["reporter"] # "cut"
  BY <1>1, <1>2 DEF LinkInv, Types, LockInv, Threads
<1>6. Types'
  BY <1>1, <1>4 DEF LinkInv, Types, PcType, Threads
<1>7. LockInv'
  BY <1>1, <1>2, <1>5 DEF LinkInv, LockInv, Threads
<1>8. OwnInv'
  <2>1. WritesOnly("examiner", IF pc["examiner"] = "init" THEN {at["examiner"]}
                               ELSE {ListHead, at["examiner"]} \cup ToSet(Rest(list, 1)))
    BY <1>5 DEF LinkInv, LockInv, OwnInv, WritesOnly, Threads
  <2>2. WritesOnly("cleaner", {ListHead} \cup ToSet(Rest(list, 1)))
    BY <1>1 DEF WritesOnly
  <2> QED BY <1>1, <1>5, <2>1, <2>2 DEF LinkInv, OwnInv, WritesOnly, Threads
<1>9. NodesInv'
  BY <1>1, <1>4, <1>5 DEF LinkInv, NodesInv, Threads
<1>10. ListInv'
  <2>1. After("cleaner")' = After("cleaner")
    BY <1>1 DEF After
  <2> QED BY <1>1, <1>2, <1>5, <2>1 DEF ListInv
<1>11. LocalInv'
  BY <1>1, <1>5 DEF LinkInv, LocalInv, After, Threads
<1> QED BY <1>6, <1>7, <1>8, <1>9, <1>10, <1>11 DEF LinkInv

LEMMA ClUnlockLinks == ASSUME LinkInv, ClUnlock PROVE LinkInv'
<1>1. /\ todo["cleaner"] = << >> /\ pc["cleaner"] = "clean" /\ at["cleaner"] = ListHead
      /\ pc' = [pc EXCEPT !["cleaner"] = "idle"] /\ lock' = "nobody"
      /\ UNCHANGED <<ptr, todo, at, list, mine>>
  BY DEF ClUnlock, Ready, Goto, Release
<1>2. /\ lock = "cleaner" /\ After("cleaner") = ptr
      /\ Ring(ptr, ListHead, list)
  BY <1>1, OverNone DEF LinkInv, Types, LockInv, ListInv, After
<1>3. /\ pc'["cleaner"] = "idle" /\ \A u \in Threads \ {"cleaner"} : pc'[u] = pc[u]
      /\ pc["examiner"] # "append" /\ pc["reporter"] # "cut"
  BY <1>1, <1>2 DEF LinkInv, Types, LockInv, Threads
<1>4. Types'
  BY <1>1 DEF LinkInv, Types, PcType, Threads
<1>5. LockInv'
  BY <1>1, <1>3 DEF LinkInv, LockInv, Threads
<1>6. OwnInv'
  BY <1>1, <1>3 DEF LinkInv, OwnInv, WritesOnly, Threads
<1>7. NodesInv'
  BY <1>1, <1>3 DEF LinkInv, NodesInv, Threads
<1>8. ListInv'
  BY <1>1, <1>2, <1>3 DEF ListInv
<1>9. LocalInv'
  BY <1>1, <1>3 DEF LinkInv, LocalInv, After, Threads
<1> QED BY <1>4, <1>5, <1>6, <1>7, <1>8, <1>9 DEF LinkInv

LEMMA StutterLinks == ASSUME LinkInv, UNCHANGED vars PROVE LinkInv'
<1>1. UNCHANGED <<ptr, todo, pc, lock, at, list, mine>>
  BY DEF vars
<1>2. \A t \in Threads : After(t)' = After(t)
  BY <1>1 DEF After
<1> QED BY <1>1, <1>2 DEF LinkInv, Types, LockInv, OwnInv, WritesOnly, NodesInv, ListInv, LocalInv, Threads

LEMMA NextLinks == ASSUME LinkInv, [Next]_vars PROVE LinkInv'
<1>1. CASE \E t \in Threads : Step(t)
  BY <1>1, StepLinks
<1>2. CASE ExAlloc \/ ExAppend \/ ExUnlock
  BY <1>2, ExAllocLinks, ExAppendLinks, ExUnlockLinks
<1>3. CASE Reporter
  BY <1>3, RepCutLinks, RepUnlockLinks, RepCloseLinks, RepBeginLinks, RepRemoveLinks, RepFreeLinks, RepEndLinks
     DEF Reporter
<1>4. CASE Cleaner
  BY <1>4, ClLockLinks, ClRemoveLinks, ClFreeLinks, ClUnlockLinks DEF Cleaner
<1>5. CASE UNCHANGED vars
  BY <1>5, StutterLinks
<1> QED BY <1>1, <1>2, <1>3, <1>4, <1>5 DEF Next

\* Whatever the steps of the three threads, LinkInv holds: what each of them has
\* begun, done to the end, leaves rings and chains of the nodes it should.
THEOREM LinksInductive == Spec => []LinkInv
  BY InitLinks, NextLinks, PTL DEF Spec

-----------------------------------------------------------------------------
(* What the lists are to those who walk along them.                        *)

LEMMA Reversed ==
  ASSUME NEW S, NEW q \in Seq(S)
  PROVE  /\ Reverse(q) \in Seq(S) /\ Len(Reverse(q)) = Len(q)
         /\ \A i \in 1..Len(q) : Reverse(q)[i] = q[Len(q) - i + 1]
         /\ NoDup(q) => NoDup(Reverse(q))
<1> DEFINE r == Reverse(q)
<1>1. Len(q) \in Nat /\ DOMAIN q = 1..Len(q) /\ \A i \in 1..Len(q) : Len(q) - i + 1 \in 1..Len(q)
  <2>1. Len(q) \in Nat /\ DOMAIN q = 1..Len(q)
    OBVIOUS
  <2> QED BY <2>1
<1>2. r = [i \in 1..Len(q) |-> q[Len(q) - i + 1]]
  BY DEF Reverse
<1>3. r \in Seq(S) /\ Len(r) = Len(q) /\ DOMAIN r = 1..Len(q)
  BY <1>1, <1>2
<1>4. \A i \in 1..Len(q) : r[i] = q[Len(q) - i + 1]
  BY <1>2
<1> HIDE DEF r
<1>5. ASSUME NoDup(q) PROVE NoDup(r)
  <2> SUFFICES ASSUME NEW i \in 1..Len(q), NEW j \in 1..Len(q), i # j PROVE r[i] # r[j]
    BY <1>3 DEF NoDup
  <2>1. Len(q) - i + 1 # Len(q) - j + 1
    BY <1>1
  <2> QED BY <1>1, <1>4, <1>5, <2>1 DEF NoDup
<1> QED BY <1>3, <1>4, <1>5 DEF r

\* A ring is visited forward as the list and backward as its reverse.
LEMMA RingVisited ==
  ASSUME NEW h, h \notin Nodes, NEW q \in Seq(Nodes), NoDup(q), Ring(ptr, h, q)
  PROVE  Visited("next", h) = q /\ Visited("prev", h) = Reverse(q)
<1>1. Visited("next", h) = q
  BY Loop DEF Ring
<1> DEFINE r == Reverse(q)
           A == Around(h, q)
           B == Around(h, r)
           n == Len(q)
<1>2. r \in Seq(Nodes) /\ Len(r) = n /\ NoDup(r) /\ \A i \in 1..n : r[i] = q[n - i + 1]
  BY Reversed
<1>3. A[0] = h /\ A[n + 1] = h /\ \A i \in 1..n : A[i] = q[i]
  BY AroundIs
<1>4. \A i \in 0..n : ptr["prev"][A[i + 1]] = A[i]
  BY DEF Ring
<1>5. n \in Nat
  OBVIOUS
<1> HIDE DEF r, A
<1>6. B[0] = h /\ B[n + 1] = h /\ \A i \in 1..n : B[i] = r[i]
  <2>1. B[0] = h /\ B[Len(r) + 1] = h /\ \A i \in 1..Len(r) : B[i] = r[i]
    <3> HIDE DEF n
    <3> QED BY <1>2, AroundIs
  <2>2. Len(r) = n
    BY <1>2
  <2> QED BY <2>1, <2>2
<1> HIDE DEF n, B
<1>7. \A i \in 0..n + 1 : B[i] = A[(n + 1) - i]
  <2> SUFFICES ASSUME NEW i \in 0..n + 1 PROVE B[i] = A[(n + 1) - i]
    OBVIOUS
  <2>1. CASE i = 0
    BY <1>3, <1>5, <1>6, <2>1
  <2>2. CASE i = n + 1
    BY <1>3, <1>5, <1>6, <2>2
  <2>3. CASE i \in 1..n
    <3>1. (n + 1) - i \in 1..n /\ (n + 1) - i = n - i + 1
      BY <1>5, <2>3
    <3> QED BY <1>2, <1>3, <1>6, <2>3, <3>1
  <2> QED BY <1>5, <2>1, <2>2, <2>3
<1>8. \A i \in 0..n : ptr["prev"][B[i]] = B[i + 1]
  <2> SUFFICES ASSUME NEW i \in 0..n PROVE ptr["prev"][B[i]] = B[i + 1]
    OBVIOUS
  <2>1. n - i \in 0..n /\ (n - i) + 1 = (n + 1) - i /\ (n + 1) - (i + 1) = n - i
        /\ i \in 0..n + 1 /\ i + 1 \in 0..n + 1
    BY <1>5
  <2>2. B[i] = A[(n + 1) - i] /\ B[i + 1] = A[(n + 1) - (i + 1)]
    BY <1>7, <2>1
  <2>3. ptr["prev"][A[(n - i) + 1]] = A[n - i]
    BY <1>4, <2>1
  <2> QED BY <2>1, <2>2, <2>3
<1>9. \A i \in 0..Len(r) : ptr["prev"][Around(h, r)[i]] = Around(h, r)[i + 1]
  BY <1>2, <1>8 DEF B
<1>10. Visited("prev", h) = r
  BY <1>2, <1>9, Loop
<1> QED BY <1>1, <1>10 DEF r

LEMMA LinksImply == LinkInv => TypeOK /\ ListWhole /\ LocalWhole
<1> SUFFICES ASSUME LinkInv PROVE TypeOK /\ ListWhole /\ LocalWhole
  OBVIOUS
<1>1. TypeOK
  <2>1. ToSet(list) \cup ToSet(mine) \subseteq Nodes
    BY ListElements DEF LinkInv, Types
  <2>2. lock \in {t \in Threads : pc[t] \in Critical[t]} \cup {"nobody"}
    BY DEF LinkInv, Types, LockInv, Threads, Critical
  <2> QED BY <2>1, <2>2 DEF LinkInv, Types, Pointers, Fields, TypeOK
<1>2. ListWhole
  <2> SUFFICES ASSUME lock = "nobody"
               PROVE  Visited("next", ListHead) = list /\ Visited("prev", ListHead) = Reverse(list)
    BY DEF ListWhole
  <2>1. list \in Seq(Nodes) /\ NoDup(list) /\ Ring(ptr, ListHead, list)
    BY DEF LinkInv, Types, ListInv
  <2> QED BY <2>1, Heads, RingVisited
<1>3. LocalWhole
  <2> SUFFICES ASSUME Ready("reporter", "free")
               PROVE  Visited("next", LocalHead) = mine /\ Visited("prev", LocalHead) = Reverse(mine)
    BY DEF LocalWhole
  <2>1. After("reporter") = ptr /\ pc["reporter"] = "free"
    BY OverNone DEF LinkInv, Types, After, Ready
  <2>2. mine \in Seq(Nodes) /\ NoDup(mine) /\ Ring(ptr, LocalHead, mine)
    BY <2>1 DEF LinkInv, Types, LocalInv
  <2> QED BY <2>2, Heads, RingVisited
<1> QED BY <1>1, <1>2, <1>3

\* Pointers point to entries, and list_lock is held only in critical sections.
THEOREM PointersTyped == Spec => []TypeOK
  BY LinksInductive, LinksImply, PTL

\* Whoever gets list_lock finds the nodes appended and not yet detached, forward
\* and backward, whatever the reporter does to its part without the lock: for any
\* number of nodes.
THEOREM ListAlwaysWhole == Spec => []ListWhole
  BY LinksInductive, LinksImply, PTL

\* Each time around its loops consolidate_tracked_data finds the nodes it detached
\* and has not freed, all of them and no others, forward and backward.
THEOREM LocalAlwaysWhole == Spec => []LocalWhole
  BY LinksInductive, LinksImply, PTL

\* A thread without list_lock writes no pointer of the list or of its head, and
\* none but the reporter writes one of the nodes the reporter detached.
THEOREM WritesOwn == Spec => OwnWrites
<1> DEFINE A == \A t \in Threads : Step(t) /\ lock # t =>
       \A e \in {ListHead} \cup ToSet(list) \cup (IF t = "reporter" THEN {} ELSE ToSet(mine)) :
         \A f \in {"next", "prev"} : ptr'[f][e] = ptr[f][e]
<1>1. ASSUME LinkInv PROVE A
  <2> SUFFICES ASSUME NEW t \in Threads, Step(t), lock # t,
                      NEW e \in {ListHead} \cup ToSet(list) \cup (IF t = "reporter" THEN {} ELSE ToSet(mine)),
                      NEW f \in {"next", "prev"}
               PROVE  ptr'[f][e] = ptr[f][e]
    OBVIOUS
  <2>1. todo[t] # << >>
    BY DEF Step
  <2>2. e # todo[t][1].entry
    BY <1>1, <2>1, Apart
  <2>3. e \in Entries
    <3>1. ToSet(list) \subseteq Nodes /\ ToSet(mine) \subseteq Nodes
      BY <1>1, ListElements DEF LinkInv, Types
    <3> QED BY <3>1, Heads
  <2> QED BY <1>1, <2>2, <2>3, StepIs DEF Fields
<1>2. LinkInv => [A]_vars
  BY <1>1
<1>3. []LinkInv => [][A]_vars
  BY <1>2, PTL
<1> QED BY <1>3, LinksInductive DEF OwnWrites
=============================================================================
