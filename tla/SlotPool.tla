------------------------------ MODULE SlotPool ------------------------------
(***************************************************************************)
(* What a memory pool promises its callers: a slot is handed out to one of *)
(* them at a time, and new ones are taken only when none is available.     *)
(***************************************************************************)
CONSTANT BlockSlots   \* the sets of slots a block may consist of

VARIABLES avail, out

vars == <<avail, out>>

Init == avail \in BlockSlots /\ out = {}

Give(s) == s \in avail /\ avail' = avail \ {s} /\ out' = out \cup {s}

\* A slot of a new block, disjoint from those in use.
GiveNew(s, B) ==
  /\ avail = {} /\ B \cap out = {}
  /\ s \in B /\ avail' = B \ {s} /\ out' = out \cup {s}

Take(s) == s \in out /\ avail' = avail \cup {s} /\ out' = out \ {s}

Next ==
  \/ \E s \in avail : Give(s)
  \/ \E B \in BlockSlots : \E s \in B : GiveNew(s, B)
  \/ \E s \in out : Take(s)

Spec == Init /\ [][Next]_vars
=============================================================================
