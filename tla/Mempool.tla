------------------------------ MODULE Mempool ------------------------------
(***************************************************************************)
(* A memory pool of Mempool.c, with addresses: blocks of slots obtained    *)
(* from malloc as needed, and one free list through the free slots.  Every *)
(* operation holds mem_lock throughout.  mp_free looks for the block that  *)
(* starts closest below the address it is given and asks that the distance *)
(* be a multiple of the slot size; a block that starts AT the address does *)
(* not count.                                                              *)
(*                                                                         *)
(* The callers are any threads; they free only what they were given, each  *)
(* slot once (BleTracking's OneOwner), and never after mp_destroy.  An     *)
(* operator X_Fault is X with one plausible mistake, used by no action.    *)
(***************************************************************************)
EXTENDS Integers, Sequences, FiniteSets, SequencesExt

CONSTANTS
  Size,         \* bytes of a slot
  PerBlock,     \* slots of a block
  MAX_EXP_TIME, \* blocks at most
  Bases         \* addresses malloc may return

ASSUME SizeAssumption ==
  Size \in Nat \ {0, 1} /\ PerBlock \in Nat \ {0} /\ MAX_EXP_TIME \in Nat \ {0}
ASSUME BasesAssumption == Bases \subseteq Nat \ {0}

NULL == 0

VARIABLES
  head,       \* the free list, head first
  memory,     \* the blocks' addresses
  used_slots, blocks,
  held,       \* slots the callers have and may free
  leaked      \* slots they tried to free and the pool refused

poolVars == <<head, memory, used_slots, blocks, held, leaked>>

SlotsAt(base) == {base + i * Size : i \in 0..PerBlock - 1}
AllSlots == UNION {SlotsAt(memory[i]) : i \in DOMAIN memory}

\* A block malloc may return: it overlaps none obtained earlier.
Fresh(base) ==
  \A i \in DOMAIN memory :
    base + PerBlock * Size <= memory[i] \/ memory[i] + PerBlock * Size <= base

\* mp_expand pushes the slots of a new block in the order of their addresses.
Pushed(base, free) == [i \in 1..PerBlock |-> base + (PerBlock - i) * Size] \o free

PoolInit ==
  \E base \in Bases :
    /\ head = Pushed(base, << >>) /\ memory = <<base>>
    /\ used_slots = 0 /\ blocks = PerBlock
    /\ held = {} /\ leaked = {}

\* The slot at the head of free is handed out.
HandOut(free, rest, bases) ==
  /\ head' = rest /\ memory' = bases /\ blocks' = Len(free) - 1
  /\ used_slots' = used_slots + 1
  /\ held' = held \cup {Head(free)} /\ UNCHANGED leaked

\* mp_alloc, expanding the pool when no slot is free.
Grown(base) == head = << >> /\ Len(memory) < MAX_EXP_TIME /\ Fresh(base)
mp_alloc_KeepsHead == head # << >> /\ HandOut(head, head, memory)
mp_alloc ==
  \/ head # << >> /\ HandOut(head, Tail(head), memory)
  \/ \E base \in Bases :
       /\ Grown(base)
       /\ HandOut(Pushed(base, << >>), Tail(Pushed(base, << >>)), Append(memory, base))

\* The pool is at its limit, or malloc fails: NULL is returned.
mp_alloc_fails == head = << >> /\ UNCHANGED poolVars

\* The distance to the closest block that starts below mem, or -1.
Below(mem, S) == {mem - memory[i] : i \in {j \in S : memory[j] < mem}}
ClosestIn(mem, S) ==
  IF Below(mem, S) = {} THEN -1
  ELSE CHOOSE d \in Below(mem, S) : \A e \in Below(mem, S) : d <= e
Closest_FirstBlock(mem) == ClosestIn(mem, {1})
Closest(mem) == ClosestIn(mem, DOMAIN memory)

\* C's remainder: -1 % Size is -1.
IsSlot(mem) == Closest(mem) # -1 /\ Closest(mem) % Size = 0

Accept(mem, free) ==
  /\ IsSlot(mem)
  /\ head' = free /\ blocks' = blocks + 1 /\ used_slots' = used_slots - 1
  /\ held' = held \ {mem} /\ UNCHANGED <<memory, leaked>>

\* The slot is neither free nor with a caller from here on.
Refuse(mem) ==
  /\ ~IsSlot(mem)
  /\ held' = held \ {mem} /\ leaked' = leaked \cup {mem}
  /\ UNCHANGED <<head, memory, used_slots, blocks>>

mp_free_DropsList(mem) == Accept(mem, <<mem>>) \/ Refuse(mem)
mp_free(mem) == Accept(mem, <<mem>> \o head) \/ Refuse(mem)

PoolNext == mp_alloc \/ mp_alloc_fails \/ \E mem \in held : mp_free(mem)

PoolSpec == PoolInit /\ [][PoolNext]_poolVars

-----------------------------------------------------------------------------
\* Addresses and counters have their types (proved in MemoryProofs).
PoolTypeOK ==
  /\ head \in Seq(AllSlots) /\ memory \in Seq(Bases)
  /\ used_slots \in Nat /\ blocks \in Nat
  /\ held \subseteq AllSlots /\ leaked \subseteq AllSlots

\* Each slot of each block is free, with a caller or leaked, in one of these
\* and once; the counters agree.
SlotsAccounted ==
  /\ \A i, j \in DOMAIN head : i # j => head[i] # head[j]
  /\ ToSet(head) \cup held \cup leaked = AllSlots
  /\ ToSet(head) \cap (held \cup leaked) = {} /\ held \cap leaked = {}
  /\ blocks = Len(head) /\ used_slots = Cardinality(held \cup leaked)

\* A slot is lost only when it is the first of its block, so at most one in
\* each block is: the Stuck slots of BleTracking.
OnlyFirstSlotsLeak == leaked \subseteq ToSet(memory)

\* What the pool promises, by the set of free slots.
Pool == INSTANCE SlotPool WITH
          avail <- ToSet(head), out <- held \cup leaked, BlockSlots <- {SlotsAt(b) : b \in Bases}

\* mp_alloc never hands out a slot that is out, and grows only when none is
\* free, however the blocks lie in memory.
IsSlotPool == Pool!Spec
=============================================================================
