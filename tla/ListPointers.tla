---------------------------- MODULE ListPointers ----------------------------
(***************************************************************************)
(* The linked lists of LBeacon pointer by pointer: BLE_object_list_head,   *)
(* to which the examiner appends, from which the reporter cuts the first   *)
(* nodes, and which the cleaner empties, each under list_lock; and the     *)
(* reporter's local list, which it closes into a ring and takes apart      *)
(* without the lock.  A step is one write of a pointer.  BleTracking has   *)
(* sequences in place of these lists.                                      *)
(***************************************************************************)
EXTENDS Naturals, Sequences, SequencesExt, FiniteSets

CONSTANTS
  Nodes,      \* list entries of the slots of mempool
  ListHead,   \* BLE_object_list_head.list_entry
  LocalHead   \* local_list_head of consolidate_tracked_data

Entries == Nodes \cup {ListHead, LocalHead}

ASSUME EntriesAssumption ==
  IsFiniteSet(Nodes) /\ ListHead # LocalHead /\ {ListHead, LocalHead} \cap Nodes = {}

Threads == {"examiner", "reporter", "cleaner"}

VARIABLES
  ptr,     \* the pointers next and prev of every entry
  todo,    \* the writes each thread has yet to do of the operation it is in
  pc, lock,
  at,      \* temp_node of the examiner, list_pointer of the loops of the others
  list,    \* history: the nodes listed and not yet detached or freed
  mine     \* history: the nodes the reporter detached and has yet to free

vars == <<ptr, todo, pc, lock, at, list, mine>>

Init ==
  /\ ptr = [f \in {"next", "prev"} |-> [e \in Entries |-> e]]
  /\ todo = [t \in Threads |-> << >>] /\ pc = [t \in Threads |-> "idle"]
  /\ lock = "nobody" /\ at = [t \in Threads |-> ListHead]
  /\ list = << >> /\ mine = << >>

-----------------------------------------------------------------------------
(* LinkedList.h: each operation is the sequence of its writes.             *)

Write(field, entry, value) == [field |-> field, entry |-> entry, value |-> value]

init_entry(e) == <<Write("next", e, e), Write("prev", e, e)>>

insert_list_tail(new, top) ==
  LET last == ptr["prev"][top] IN
  <<Write("prev", top, new), Write("next", new, top),
    Write("prev", new, last), Write("next", last, new)>>

remove_list_node(e) ==
  LET before == ptr["prev"][e]
      after  == ptr["next"][e] IN
  <<Write("prev", after, before), Write("next", before, after),
    Write("prev", e, e), Write("next", e, e)>>

\* What list_for_each visits; just the head if it does not come back to it.
Visited(field, top) ==
  LET visit[i \in 0..Cardinality(Nodes) + 1] ==
        IF i = 0 THEN top ELSE ptr[field][visit[i - 1]]
      back == {i \in 1..Cardinality(Nodes) + 1 : visit[i] = top}
  IN  IF back = {} THEN <<top>>
      ELSE SubSeq([i \in 1..Cardinality(Nodes) + 1 |-> visit[i]], 1,
                  (CHOOSE i \in back : \A j \in back : i <= j) - 1)

-----------------------------------------------------------------------------
\* t does the next write of its operation.
Step(t) ==
  /\ todo[t] # << >>
  /\ LET w == todo[t][1] IN ptr' = [ptr EXCEPT ![w.field][w.entry] = w.value]
  /\ todo' = [todo EXCEPT ![t] = Tail(@)]
  /\ UNCHANGED <<pc, lock, at, list, mine>>

Ready(t, at_pc) == todo[t] = << >> /\ pc[t] = at_pc
Goto(t, to) == pc' = [pc EXCEPT ![t] = to]
Do(t, writes) == todo' = [todo EXCEPT ![t] = writes]
Acquire(t) == lock = "nobody" /\ lock' = t
Release == lock' = "nobody"
Move(t, e) == at' = [at EXCEPT ![t] = e]

\* send_to_push_dongle: a slot of the pool, not in a list, is set up.
ExAlloc ==
  /\ Ready("examiner", "idle") /\ Goto("examiner", "init")
  /\ \E n \in Nodes \ (ToSet(list) \cup ToSet(mine)) :
       Do("examiner", init_entry(n)) /\ Move("examiner", n)
  /\ UNCHANGED <<ptr, lock, list, mine>>

ExAppend ==
  /\ Ready("examiner", "init") /\ Goto("examiner", "append") /\ Acquire("examiner")
  /\ Do("examiner", insert_list_tail(at["examiner"], ListHead))
  /\ UNCHANGED <<ptr, at, list, mine>>

ExUnlock ==
  /\ Ready("examiner", "append") /\ Goto("examiner", "idle") /\ Release
  /\ list' = Append(list, at["examiner"])
  /\ UNCHANGED <<ptr, todo, at, mine>>

-----------------------------------------------------------------------------
(* consolidate_tracked_data.                                               *)

CutWrites_KeepPrev(tail) == <<Write("next", ListHead, ptr["next"][tail])>>
CutWrites(tail) ==
  <<Write("next", ListHead, ptr["next"][tail]), Write("prev", ptr["next"][tail], ListHead)>>

\* The loop stops where the message is full: at any of the nodes.  On an empty
\* list nothing is changed.
RepCut ==
  /\ Ready("reporter", "idle") /\ Acquire("reporter")
  /\ \E n \in 1..Len(Visited("next", ListHead)) :
       /\ Do("reporter", CutWrites(Visited("next", ListHead)[n]))
       /\ mine' = SubSeq(Visited("next", ListHead), 1, n)
  /\ Goto("reporter", "cut") /\ UNCHANGED <<ptr, at, list>>

RepUnlock ==
  /\ Ready("reporter", "cut") /\ Goto("reporter", "close") /\ Release
  /\ list' = SubSeq(list, Len(mine) + 1, Len(list))
  /\ UNCHANGED <<ptr, todo, at, mine>>

\* head_pointer and tail_pointer are the first and the last of mine.
CloseWrites_TailOpen(first, last) ==
  init_entry(LocalHead) \o
  <<Write("next", LocalHead, first), Write("prev", first, LocalHead), Write("prev", LocalHead, last)>>
CloseWrites_HeadOpen(first, last) ==
  init_entry(LocalHead) \o
  <<Write("next", LocalHead, first), Write("prev", LocalHead, last), Write("next", last, LocalHead)>>
CloseWrites(first, last) ==
  init_entry(LocalHead) \o
  <<Write("next", LocalHead, first), Write("prev", first, LocalHead),
    Write("prev", LocalHead, last), Write("next", last, LocalHead)>>

RepClose ==
  /\ Ready("reporter", "close") /\ Goto("reporter", "closing")
  /\ Do("reporter", CloseWrites(mine[1], mine[Len(mine)]))
  /\ UNCHANGED <<ptr, lock, at, list, mine>>

RepBegin ==
  /\ Ready("reporter", "closing") /\ Goto("reporter", "free")
  /\ Move("reporter", ptr["next"][LocalHead])
  /\ UNCHANGED <<ptr, todo, lock, list, mine>>

\* The loop: list_for_each_safe reads the next pointer before the node is removed.
RemoveThen(next) ==
  /\ Ready("reporter", "free") /\ at["reporter"] # LocalHead /\ Goto("reporter", "freeing")
  /\ Do("reporter", remove_list_node(at["reporter"]))
  /\ Move("reporter", next)
  /\ UNCHANGED <<ptr, lock, list, mine>>

RepRemove_Unsafe == RemoveThen(at["reporter"])
RepRemove == RemoveThen(ptr["next"][at["reporter"]])

RepFree ==
  /\ Ready("reporter", "freeing") /\ Goto("reporter", "free")
  /\ mine' = SubSeq(mine, 2, Len(mine))
  /\ UNCHANGED <<ptr, todo, lock, at, list>>

RepEnd ==
  /\ Ready("reporter", "free") /\ at["reporter"] = LocalHead /\ Goto("reporter", "idle")
  /\ UNCHANGED <<ptr, todo, lock, at, list, mine>>

Reporter == RepCut \/ RepUnlock \/ RepClose \/ RepBegin \/ RepRemove \/ RepFree \/ RepEnd

-----------------------------------------------------------------------------
(* cleanup_lists.                                                          *)

ClLock ==
  /\ Ready("cleaner", "idle") /\ Goto("cleaner", "clean") /\ Acquire("cleaner")
  /\ Move("cleaner", ptr["next"][ListHead])
  /\ UNCHANGED <<ptr, todo, list, mine>>

ClRemove ==
  /\ Ready("cleaner", "clean") /\ at["cleaner"] # ListHead /\ Goto("cleaner", "cleaning")
  /\ Do("cleaner", remove_list_node(at["cleaner"])) /\ Move("cleaner", ptr["next"][at["cleaner"]])
  /\ UNCHANGED <<ptr, lock, list, mine>>

\* mp_free: the examiner may be given the slot while the cleaner goes on.
ClFree ==
  /\ Ready("cleaner", "cleaning") /\ Goto("cleaner", "clean")
  /\ list' = SubSeq(list, 2, Len(list))
  /\ UNCHANGED <<ptr, todo, lock, at, mine>>

ClUnlock ==
  /\ Ready("cleaner", "clean") /\ at["cleaner"] = ListHead /\ Goto("cleaner", "idle") /\ Release
  /\ UNCHANGED <<ptr, todo, at, list, mine>>

Cleaner == ClLock \/ ClRemove \/ ClFree \/ ClUnlock

Next ==
  \/ \E t \in Threads : Step(t)
  \/ ExAlloc \/ ExAppend \/ ExUnlock \/ Reporter \/ Cleaner

Spec == Init /\ [][Next]_vars
FairSpec ==
  /\ Spec /\ WF_vars(Step("reporter")) /\ WF_vars(Reporter)

-----------------------------------------------------------------------------
Critical == [examiner |-> {"append"}, reporter |-> {"cut"}, cleaner |-> {"clean", "cleaning"}]

\* Pointers point to entries, and list_lock is held by a thread in a critical
\* section of it, or by none.
TypeOK ==
  /\ ptr \in [{"next", "prev"} -> [Entries -> Entries]]
  /\ lock \in {t \in Threads : pc[t] \in Critical[t]} \cup {"nobody"}
  /\ ToSet(list) \cup ToSet(mine) \subseteq Nodes

\* Whoever gets list_lock finds the list whole: forward and backward it is the
\* sequence of the nodes appended and not yet detached or removed, whatever the
\* reporter does to its part of it meanwhile.
ListWhole ==
  lock = "nobody" =>
    Visited("next", ListHead) = list /\ Visited("prev", ListHead) = Reverse(list)

\* The reporter's loops find its nodes, all of them and no others, in both
\* directions, though the list they were cut from changes while it closes them.
LocalWhole ==
  Ready("reporter", "free") =>
    Visited("next", LocalHead) = mine /\ Visited("prev", LocalHead) = Reverse(mine)

\* What a thread writes without list_lock is its own: no pointer of the list or of
\* its head, which others may be reading, and none of the reporter's but by itself.
OwnWrites ==
  [][\A t \in Threads : Step(t) /\ lock # t =>
       \A e \in {ListHead} \cup ToSet(list) \cup (IF t = "reporter" THEN {} ELSE ToSet(mine)) :
         \A f \in {"next", "prev"} : ptr'[f][e] = ptr[f][e]]_vars

\* Freeing the detached nodes comes to an end.
LoopEnds == pc["reporter"] # "idle" ~> pc["reporter"] = "idle"
=============================================================================
