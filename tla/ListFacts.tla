----------------------------- MODULE ListFacts -----------------------------
(***************************************************************************)
(* Facts about the sequences that stand for LBeacon's linked lists: which  *)
(* elements an operation leaves in the list, and that none is there twice. *)
(* Induction, for what loops along such a list; and facts about sequences  *)
(* that are joined or begin one another.                                   *)
(***************************************************************************)
EXTENDS Integers, Sequences, SequencesExt, FiniteSetTheorems, TLAPS

\* No element is in the list twice.
NoDup(q) == \A i, j \in DOMAIN q : i # j => q[i] # q[j]

\* The empty list.
LEMMA EmptyList == ToSet(<< >>) = {} /\ NoDup(<< >>)
  BY DEF ToSet, NoDup

\* The elements of a list are of its type; a list of length 0 is empty.
LEMMA ListElements ==
  ASSUME NEW S, NEW q \in Seq(S)
  PROVE  /\ ToSet(q) \subseteq S /\ (q # << >> => Head(q) \in ToSet(q))
         /\ Len(q) \in Nat /\ (Len(q) = 0 <=> q = << >>)
  BY DEF ToSet

\* insert_list_tail.
LEMMA AppendList ==
  ASSUME NEW S, NEW q \in Seq(S), NEW x \in S
  PROVE  /\ Append(q, x) \in Seq(S)
         /\ ToSet(Append(q, x)) = ToSet(q) \cup {x}
         /\ NoDup(q) /\ x \notin ToSet(q) => NoDup(Append(q, x))
<1> DEFINE r == Append(q, x)
<1>1. r \in Seq(S) /\ Len(r) = Len(q) + 1 /\ DOMAIN r = 1..(Len(q) + 1) /\ DOMAIN q = 1..Len(q)
  OBVIOUS
<1>2. r[Len(q) + 1] = x /\ \A i \in 1..Len(q) : r[i] = q[i]
  OBVIOUS
<1> HIDE DEF r
<1>3. Len(q) \in Nat
  OBVIOUS
<1>4. ToSet(r) = ToSet(q) \cup {x}
  BY <1>1, <1>2, <1>3 DEF ToSet
<1>5. ASSUME NoDup(q), x \notin ToSet(q) PROVE NoDup(r)
  BY <1>1, <1>2, <1>3, <1>5 DEF ToSet, NoDup
<1> QED BY <1>1, <1>4, <1>5 DEF r

\* insert_list_head.
LEMMA PrependList ==
  ASSUME NEW S, NEW q \in Seq(S), NEW x \in S
  PROVE  /\ <<x>> \o q \in Seq(S)
         /\ ToSet(<<x>> \o q) = {x} \cup ToSet(q)
         /\ NoDup(q) /\ x \notin ToSet(q) => NoDup(<<x>> \o q)
<1> DEFINE r == <<x>> \o q
<1>1. r \in Seq(S) /\ DOMAIN r = 1..(Len(q) + 1) /\ DOMAIN q = 1..Len(q) /\ Len(q) \in Nat
  OBVIOUS
<1>2. r[1] = x /\ \A i \in 2..(Len(q) + 1) : r[i] = q[i - 1] /\ i - 1 \in 1..Len(q)
  OBVIOUS
<1> HIDE DEF r
<1>3. \A i \in 1..Len(q) : i + 1 \in 2..(Len(q) + 1) /\ r[i + 1] = q[i]
  BY <1>1, <1>2
<1>4. 1..(Len(q) + 1) = {1} \cup 2..(Len(q) + 1)
  BY <1>1
<1>5. ToSet(r) = {x} \cup ToSet(q)
  <2>1. ToSet(r) = {r[1]} \cup {r[i] : i \in 2..(Len(q) + 1)}
    BY <1>1, <1>4 DEF ToSet
  <2>2. {r[i] : i \in 2..(Len(q) + 1)} = {q[i] : i \in 1..Len(q)}
    BY <1>2, <1>3
  <2> QED BY <1>1, <1>2, <2>1, <2>2 DEF ToSet
<1>6. ASSUME NoDup(q), x \notin ToSet(q) PROVE NoDup(r)
  <2> SUFFICES ASSUME NEW i \in DOMAIN r, NEW j \in DOMAIN r, i # j PROVE r[i] # r[j]
    BY DEF NoDup
  <2>1. CASE i = 1 \/ j = 1
    BY <1>1, <1>2, <1>4, <1>6, <2>1 DEF ToSet
  <2>2. CASE i \in 2..(Len(q) + 1) /\ j \in 2..(Len(q) + 1)
    <3>1. i - 1 \in DOMAIN q /\ j - 1 \in DOMAIN q /\ i - 1 # j - 1
      BY <1>1, <2>2
    <3>2. q[i - 1] # q[j - 1]
      BY <1>6, <3>1 DEF NoDup
    <3> QED BY <1>2, <2>2, <3>2
  <2> QED BY <1>1, <1>4, <2>1, <2>2
<1> QED BY <1>1, <1>5, <1>6 DEF r

\* Removal of the first node.
LEMMA TailList ==
  ASSUME NEW S, NEW q \in Seq(S), q # << >>
  PROVE  /\ Tail(q) \in Seq(S) /\ Head(q) \in S /\ Len(Tail(q)) = Len(q) - 1
         /\ ToSet(q) = {Head(q)} \cup ToSet(Tail(q))
         /\ NoDup(q) => NoDup(Tail(q)) /\ Head(q) \notin ToSet(Tail(q))
<1> DEFINE r == Tail(q)
<1>1. /\ r \in Seq(S) /\ Len(r) = Len(q) - 1 /\ Len(q) \in Nat \ {0}
      /\ DOMAIN r = 1..(Len(q) - 1) /\ DOMAIN q = 1..Len(q)
  OBVIOUS
<1>2. Head(q) = q[1] /\ q[1] \in S /\ \A i \in 1..(Len(q) - 1) : r[i] = q[i + 1]
  OBVIOUS
<1> HIDE DEF r
<1>3. ToSet(r) = {q[i] : i \in 2..Len(q)}
  <2>1. \A i \in 2..Len(q) : i - 1 \in DOMAIN r /\ r[i - 1] = q[i]
    BY <1>1, <1>2
  <2>2. \A i \in DOMAIN r : i + 1 \in 2..Len(q) /\ r[i] = q[i + 1]
    BY <1>1, <1>2
  <2> QED BY <2>1, <2>2 DEF ToSet
<1>4. 1..Len(q) = {1} \cup 2..Len(q) /\ 1 \notin 2..Len(q)
  BY <1>1
<1>5. ToSet(q) = {Head(q)} \cup ToSet(r)
  <2>1. ToSet(q) = {q[i] : i \in 1..Len(q)}
    BY <1>1 DEF ToSet
  <2>2. {q[i] : i \in 1..Len(q)} = {q[1]} \cup {q[i] : i \in 2..Len(q)}
    BY <1>4
  <2> QED BY <2>1, <2>2, <1>2, <1>3
<1>6. ASSUME NoDup(q) PROVE NoDup(r) /\ Head(q) \notin ToSet(r)
  <2>1. \A i, j \in 1..Len(q) : i # j => q[i] # q[j]
    BY <1>1, <1>6 DEF NoDup
  <2>2. NoDup(r)
    <3> SUFFICES ASSUME NEW i \in 1..(Len(q) - 1), NEW j \in 1..(Len(q) - 1), i # j
                 PROVE  r[i] # r[j]
      BY <1>1 DEF NoDup
    <3>1. i + 1 \in 1..Len(q) /\ j + 1 \in 1..Len(q) /\ i + 1 # j + 1
      BY <1>1
    <3> QED BY <2>1, <3>1, <1>2
  <2>3. q[1] \notin {q[i] : i \in 2..Len(q)}
    BY <2>1, <1>4
  <2> QED BY <2>2, <2>3, <1>2, <1>3
<1> QED BY <1>1, <1>2, <1>5, <1>6 DEF r

\* Detaching the first n nodes.
LEMMA SplitList ==
  ASSUME NEW S, NEW q \in Seq(S), NEW n \in 0..Len(q)
  PROVE  LET front == SubSeq(q, 1, n)
             rest  == SubSeq(q, n + 1, Len(q))
         IN  /\ front \in Seq(S) /\ rest \in Seq(S) /\ Len(front) = n
             /\ ToSet(q) = ToSet(front) \cup ToSet(rest)
             /\ NoDup(q) => /\ NoDup(front) /\ NoDup(rest)
                            /\ ToSet(front) \cap ToSet(rest) = {}
<1> DEFINE front == SubSeq(q, 1, n)
           rest  == SubSeq(q, n + 1, Len(q))
<1>1. /\ front \in Seq(S) /\ Len(front) = n /\ DOMAIN front = 1..n
      /\ \A i \in 1..n : front[i] = q[i]
  OBVIOUS
<1>2. /\ rest \in Seq(S) /\ DOMAIN rest = 1..(Len(q) - n)
      /\ \A i \in 1..(Len(q) - n) : rest[i] = q[n + i]
  OBVIOUS
<1>3. Len(q) \in Nat /\ DOMAIN q = 1..Len(q) /\ n \in 0..Len(q)
  OBVIOUS
<1> HIDE DEF front, rest
<1>4. ToSet(rest) = {q[i] : i \in (n + 1)..Len(q)}
  <2>1. \A i \in (n + 1)..Len(q) : i - n \in DOMAIN rest /\ rest[i - n] = q[i]
    BY <1>2, <1>3
  <2>2. \A i \in DOMAIN rest : n + i \in (n + 1)..Len(q) /\ rest[i] = q[n + i]
    BY <1>2, <1>3
  <2> QED BY <2>1, <2>2 DEF ToSet
<1>5. ToSet(front) = {q[i] : i \in 1..n}
  BY <1>1 DEF ToSet
<1>6. ToSet(q) = ToSet(front) \cup ToSet(rest)
  <2>1. ToSet(q) = {q[i] : i \in 1..Len(q)}
    BY <1>3 DEF ToSet
  <2>2. 1..Len(q) = 1..n \cup (n + 1)..Len(q)
    BY <1>3
  <2> QED BY <2>1, <2>2, <1>4, <1>5
<1>7. ASSUME NoDup(q) PROVE NoDup(front) /\ NoDup(rest) /\ ToSet(front) \cap ToSet(rest) = {}
  <2> USE DEF NoDup
  <2>0. \A i, j \in 1..Len(q) : i # j => q[i] # q[j]
    BY <1>3, <1>7
  <2>1. NoDup(front)
    BY <1>1, <1>3, <2>0
  <2>2. NoDup(rest)
    <3> SUFFICES ASSUME NEW i \in 1..(Len(q) - n), NEW j \in 1..(Len(q) - n), i # j
                 PROVE  rest[i] # rest[j]
      BY <1>2
    <3>1. n + i \in 1..Len(q) /\ n + j \in 1..Len(q) /\ n + i # n + j
      BY <1>3
    <3> QED BY <2>0, <3>1, <1>2
  <2>3. ToSet(front) \cap ToSet(rest) = {}
    <3>1. \A i \in 1..n, j \in (n + 1)..Len(q) :
            i \in 1..Len(q) /\ j \in 1..Len(q) /\ i # j
      BY <1>3
    <3> QED BY <2>0, <3>1, <1>4, <1>5
  <2> QED BY <2>1, <2>2, <2>3
<1> QED BY <1>1, <1>2, <1>6, <1>7 DEF front, rest

-----------------------------------------------------------------------------
\* Induction over the naturals, by counting: below a number that were missing
\* there would be as many numbers as successors.
LEMMA SetInduction ==
  ASSUME NEW T, 0 \in T, \A n \in Nat : n \in T => n + 1 \in T
  PROVE  Nat \subseteq T
<1> SUFFICES ASSUME NEW m \in Nat, m \notin T PROVE FALSE
  OBVIOUS
<1> DEFINE S == {k \in 0..m : k \in T}
           next == [k \in S |-> k + 1]
<1>1. IsFiniteSet(S)
  <2>1. IsFiniteSet(0..m) /\ S \in SUBSET (0..m)
    BY FS_Interval
  <2> QED BY <2>1, FS_Subset
<1>2. next \in Injection(S, S \ {0})
  <2>1. \A k \in S : k + 1 \in S \ {0}
    OBVIOUS
  <2>2. next \in [S -> S \ {0}]
    BY <2>1
  <2>3. \A a, b \in S : a # b => next[a] # next[b]
    OBVIOUS
  <2> QED BY <2>2, <2>3 DEF Injection, IsInjective
<1>3. 0 \in S
  OBVIOUS
<1> HIDE DEF S, next
<1>4. Cardinality(S) \in Nat /\ Cardinality(S \ {0}) = Cardinality(S) - 1 /\ IsFiniteSet(S \ {0})
  BY <1>1, <1>3, FS_RemoveElement, FS_CardinalityType
<1>5. Cardinality(S) <= Cardinality(S \ {0})
  BY <1>2, <1>4, FS_Injection
<1> QED BY <1>4, <1>5

\* Finitely many numbers have a greatest.
LEMMA MaxExists ==
  ASSUME NEW n \in Nat, NEW S \in SUBSET (1..n), S # {}
  PROVE  \E m \in S : \A j \in S : j <= m
<1> DEFINE T == {k \in Nat : \A U \in SUBSET (1..k) : U # {} => \E m \in U : \A j \in U : j <= m}
<1>1. 0 \in T
  <2>1. 1..0 = {}
    OBVIOUS
  <2> QED BY <2>1
<1>2. ASSUME NEW k \in Nat, k \in T PROVE k + 1 \in T
  <2> SUFFICES ASSUME NEW U \in SUBSET (1..k + 1), U # {} PROVE \E m \in U : \A j \in U : j <= m
    OBVIOUS
  <2>1. CASE k + 1 \in U
    BY <2>1
  <2>2. CASE k + 1 \notin U
    <3>1. U \in SUBSET (1..k)
      BY <2>2
    <3> QED BY <1>2, <3>1
  <2> QED BY <2>1, <2>2
<1>3. Nat \subseteq T
  <2> HIDE DEF T
  <2> QED BY <1>1, <1>2, SetInduction
<1>4. n \in T
  BY <1>3
<1> QED BY <1>4

\* Numbers have a least.
LEMMA LeastExists ==
  ASSUME NEW S \in SUBSET Nat, S # {}
  PROVE  \E m \in S : \A j \in S : m <= j
<1> DEFINE T == {k \in Nat : \A U \in SUBSET Nat :
                   (\E e \in U : e <= k) => \E m \in U : \A j \in U : m <= j}
<1>1. 0 \in T
  <2> SUFFICES ASSUME NEW U \in SUBSET Nat, NEW e \in U, e <= 0 PROVE \E m \in U : \A j \in U : m <= j
    OBVIOUS
  <2>1. \A j \in U : e <= j
    OBVIOUS
  <2> QED BY <2>1
<1>2. ASSUME NEW k \in Nat, k \in T PROVE k + 1 \in T
  <2> SUFFICES ASSUME NEW U \in SUBSET Nat, NEW e \in U, e <= k + 1 PROVE \E m \in U : \A j \in U : m <= j
    OBVIOUS
  <2>1. CASE \E d \in U : d <= k
    BY <1>2, <2>1
  <2>2. CASE \A d \in U : ~(d <= k)
    <3>1. \A j \in U : e <= j
      <4> SUFFICES ASSUME NEW j \in U PROVE e <= j
        OBVIOUS
      <4>1. j \in Nat /\ e \in Nat /\ ~(j <= k)
        BY <2>2
      <4> QED BY <4>1
    <3> QED BY <3>1
  <2> QED BY <2>1, <2>2
<1>3. Nat \subseteq T
  <2> HIDE DEF T
  <2> QED BY <1>1, <1>2, SetInduction
<1>4. PICK e \in S : e \in Nat
  OBVIOUS
<1>5. e \in T
  BY <1>3, <1>4
<1> QED BY <1>4, <1>5

-----------------------------------------------------------------------------
\* u is two sequences of members of S, one after the other.
Joins(S, u, a, b) ==
  /\ u \in Seq(S) /\ Len(u) = Len(a) + Len(b)
  /\ \A i \in 1..Len(a) : u[i] = a[i]
  /\ \A i \in 1..Len(b) : u[Len(a) + i] = b[i]

LEMMA JoinTwo ==
  ASSUME NEW S, NEW a \in Seq(S), NEW b \in Seq(S)
  PROVE  Joins(S, a \o b, a, b)
  BY DEF Joins

\* The first n of the sequences fs, one after the other; w holds them all.
Joined(fs, n) == FlattenSeq(SubSeq(fs, 1, n))
Agree(s, t, n) == \A i \in 1..n : s[i] = t[i]
Flat(w, fs, n) == w = [i \in 1..n |-> IF i = 1 THEN fs[i] ELSE w[i - 1] \o fs[i]]

LEMMA FlatExists ==
  ASSUME NEW fs, NEW m \in Nat
  PROVE  \E v : Flat(v, fs, m)
<1> DEFINE T == {n \in Nat : \E v : Flat(v, fs, n)}
<1>1. 0 \in T
  <2>1. Flat([i \in 1..0 |-> << >>], fs, 0)
    BY DEF Flat
  <2> QED BY <2>1
<1>2. ASSUME NEW n \in Nat, n \in T PROVE n + 1 \in T
  <2>1. PICK v : Flat(v, fs, n)
    BY <1>2
  <2> DEFINE w == [i \in 1..n + 1 |-> IF i = 1 THEN fs[i] ELSE v[i - 1] \o fs[i]]
  <2>2. \A i \in 1..n : v[i] = IF i = 1 THEN fs[i] ELSE v[i - 1] \o fs[i]
    BY <2>1 DEF Flat
  <2>3. \A i \in 1..n : w[i] = v[i]
    <3> SUFFICES ASSUME NEW i \in 1..n PROVE w[i] = v[i]
      OBVIOUS
    <3>1. i \in 1..n + 1
      OBVIOUS
    <3> QED BY <2>2, <3>1
  <2>4. \A i \in 1..n + 1 : w[i] = IF i = 1 THEN fs[i] ELSE w[i - 1] \o fs[i]
    <3> SUFFICES ASSUME NEW i \in 1..n + 1 PROVE w[i] = IF i = 1 THEN fs[i] ELSE w[i - 1] \o fs[i]
      OBVIOUS
    <3>1. CASE i = 1
      BY <3>1
    <3>2. CASE i # 1
      <4>1. i - 1 \in 1..n
        BY <3>2
      <4>2. w[i - 1] = v[i - 1] /\ w[i] = v[i - 1] \o fs[i]
        BY <2>3, <3>2, <4>1
      <4> QED BY <3>2, <4>2
    <3> QED BY <3>1, <3>2
  <2>5. Flat(w, fs, n + 1)
    <3>1. w = [i \in 1..n + 1 |-> w[i]]
      OBVIOUS
    <3> HIDE DEF w
    <3> QED BY <2>4, <3>1 DEF Flat
  <2>6. \E u : Flat(u, fs, n + 1)
    <3> HIDE DEF w
    <3> QED BY <2>5
  <2> QED BY <2>6
<1>3. Nat \subseteq T
  <2> HIDE DEF T
  <2> QED BY <1>1, <1>2, SetInduction
<1> QED BY <1>3

\* It does not matter how many sequences follow.
LEMMA FlatSame ==
  ASSUME NEW fs, NEW gs, NEW m \in Nat, NEW n \in Nat, m <= n, NEW w, NEW u,
         Flat(w, gs, m), Flat(u, fs, n), Agree(gs, fs, m)
  PROVE  Agree(w, u, m)
<1> DEFINE T == {k \in Nat : k + 1 <= m => w[k + 1] = u[k + 1]}
<1>1. \A i \in 1..m : /\ w[i] = IF i = 1 THEN gs[i] ELSE w[i - 1] \o gs[i]
                      /\ u[i] = IF i = 1 THEN gs[i] ELSE u[i - 1] \o gs[i]
  <2>1. \A i \in 1..m : w[i] = IF i = 1 THEN gs[i] ELSE w[i - 1] \o gs[i]
    BY DEF Flat
  <2>2. \A i \in 1..n : u[i] = IF i = 1 THEN fs[i] ELSE u[i - 1] \o fs[i]
    BY DEF Flat
  <2>3. \A i \in 1..m : i \in 1..n /\ gs[i] = fs[i]
    BY DEF Agree
  <2> QED BY <2>1, <2>2, <2>3
<1>2. 0 \in T
  <2>1. ASSUME 1 <= m PROVE w[1] = u[1]
    <3>1. 1 \in 1..m
      BY <2>1
    <3> QED BY <1>1, <3>1
  <2> QED BY <2>1
<1>3. ASSUME NEW k \in Nat, k \in T PROVE k + 1 \in T
  <2> SUFFICES ASSUME (k + 1) + 1 <= m PROVE w[(k + 1) + 1] = u[(k + 1) + 1]
    OBVIOUS
  <2>1. (k + 1) + 1 \in 1..m /\ (k + 1) + 1 # 1 /\ ((k + 1) + 1) - 1 = k + 1 /\ k + 1 <= m
    OBVIOUS
  <2>2. w[k + 1] = u[k + 1]
    BY <1>3, <2>1
  <2> QED BY <1>1, <2>1, <2>2
<1>4. Nat \subseteq T
  <2> HIDE DEF T
  <2> QED BY <1>2, <1>3, SetInduction
<1>5. \A i \in 1..m : i - 1 \in Nat /\ (i - 1) + 1 = i /\ i <= m
  OBVIOUS
<1>6. \A k \in Nat : k + 1 <= m => w[k + 1] = u[k + 1]
  BY <1>4
<1> HIDE DEF T
<1> QED BY <1>5, <1>6 DEF Agree

\* One more sequence is appended to those before it.
LEMMA JoinedStep ==
  ASSUME NEW S, NEW fs \in Seq(Seq(S))
  PROVE  /\ Joined(fs, 0) = << >> /\ Joined(fs, Len(fs)) = FlattenSeq(fs)
         /\ \A k \in 0..Len(fs) : Joined(fs, k) \in Seq(S)
         /\ \A k \in 0..Len(fs) - 1 : Joined(fs, k + 1) = Joined(fs, k) \o fs[k + 1]
<1> DEFINE n == Len(fs)
<1>1. n \in Nat /\ \A i \in 1..n : fs[i] \in Seq(S)
  OBVIOUS
<1>2. \A k \in 0..n : /\ SubSeq(fs, 1, k) \in Seq(Seq(S)) /\ Len(SubSeq(fs, 1, k)) = k
                      /\ \A i \in 1..k : SubSeq(fs, 1, k)[i] = fs[i]
  OBVIOUS
<1>3. SubSeq(fs, 1, n) = fs
  OBVIOUS
<1>4. Joined(fs, 0) = << >>
  <2>1. 0 \in 0..n
    BY <1>1
  <2>2. SubSeq(fs, 1, 0) \in Seq(Seq(S)) /\ Len(SubSeq(fs, 1, 0)) = 0
    BY <1>2, <2>1
  <2>3. SubSeq(fs, 1, 0) = << >>
    BY <2>2
  <2> QED BY <2>2, <2>3 DEF Joined, FlattenSeq
<1> HIDE DEF n
<1>5. PICK u : Flat(u, fs, n)
  BY <1>1, FlatExists
<1>6. \A i \in 1..n : u[i] = IF i = 1 THEN fs[i] ELSE u[i - 1] \o fs[i]
  BY <1>5 DEF Flat
<1>7. ASSUME NEW k \in 1..n PROVE Joined(fs, k) = u[k]
  <2> DEFINE gs == SubSeq(fs, 1, k)
             w == CHOOSE v : Flat(v, gs, k)
  <2>1. k \in 0..n /\ k \in Nat /\ k # 0 /\ k <= n /\ k \in 1..k
    BY <1>1
  <2>2. Len(gs) = k /\ \A i \in 1..k : gs[i] = fs[i]
    BY <1>2, <2>1
  <2> HIDE DEF gs
  <2>3. Flat(w, gs, k)
    BY <2>1, FlatExists
  <2>4. FlattenSeq(gs) = w[k]
    BY <2>1, <2>2, Zenon DEF FlattenSeq, Flat
  <2> HIDE DEF w
  <2>5. \A i \in 1..k : w[i] = u[i]
    <3>1. k \in Nat /\ n \in Nat /\ k <= n /\ \A i \in 1..k : gs[i] = fs[i]
      BY <1>1, <2>1, <2>2
    <3>2. ASSUME NEW a, NEW b, NEW p \in Nat, NEW r \in Nat, p <= r, NEW x, NEW y,
                 Flat(x, b, p), Flat(y, a, r), Agree(b, a, p)
          PROVE  Agree(x, y, p)
      BY <3>2, FlatSame
    <3>3. Agree(gs, fs, k)
      BY <3>1 DEF Agree
    <3>4. Agree(w, u, k)
      BY <1>5, <2>3, <3>1, <3>2, <3>3
    <3> QED BY <3>4 DEF Agree
  <2> QED BY <2>1, <2>4, <2>5 DEF Joined, gs
<1>8. ASSUME NEW k \in 0..n - 1 PROVE Joined(fs, k + 1) = Joined(fs, k) \o fs[k + 1]
  <2>1. k + 1 \in 1..n /\ fs[k + 1] \in Seq(S) /\ (k + 1) - 1 = k
    BY <1>1
  <2>2. CASE k = 0
    <3>1. << >> \o fs[k + 1] = fs[k + 1]
      BY <2>1
    <3>2. u[k + 1] = fs[k + 1]
      BY <1>6, <2>1, <2>2
    <3> QED BY <1>4, <1>7, <2>1, <2>2, <3>1, <3>2
  <2>3. CASE k # 0
    <3>1. k \in 1..n /\ k + 1 # 1
      BY <1>1, <2>3
    <3>2. u[k + 1] = u[k] \o fs[k + 1]
      BY <1>6, <2>1, <3>1
    <3> QED BY <1>7, <2>1, <3>1, <3>2
  <2> QED BY <2>2, <2>3
<1>9. \A k \in 0..n : Joined(fs, k) \in Seq(S)
  <2> DEFINE T == {k \in Nat : k <= n => Joined(fs, k) \in Seq(S)}
  <2>1. 0 \in T
    <3>1. << >> \in Seq(S)
      OBVIOUS
    <3> QED BY <1>4, <3>1
  <2>2. ASSUME NEW k \in Nat, k \in T PROVE k + 1 \in T
    <3> SUFFICES ASSUME k + 1 <= n PROVE Joined(fs, k + 1) \in Seq(S)
      OBVIOUS
    <3>1. k \in 0..n - 1 /\ k <= n /\ k + 1 \in 1..n
      BY <1>1
    <3>2. Joined(fs, k) \in Seq(S) /\ fs[k + 1] \in Seq(S)
      BY <1>1, <2>2, <3>1
    <3>3. Joined(fs, k + 1) = Joined(fs, k) \o fs[k + 1]
      BY <1>8, <3>1
    <3>4. ASSUME NEW a \in Seq(S), NEW b \in Seq(S) PROVE a \o b \in Seq(S)
      OBVIOUS
    <3> QED BY <3>2, <3>3, <3>4
  <2>3. Nat \subseteq T
    <3> HIDE DEF T
    <3> QED BY <2>1, <2>2, SetInduction
  <2> QED BY <1>1, <2>3
<1> QED BY <1>3, <1>4, <1>8, <1>9 DEF n, Joined

\* Where a sequence is among those joined, however many follow it.
LEMMA JoinedAt ==
  ASSUME NEW S, NEW fs \in Seq(Seq(S)), NEW k \in 0..Len(fs) - 1, NEW j \in k + 1..Len(fs)
  PROVE  /\ Len(Joined(fs, k)) \in Nat /\ Len(Joined(fs, k + 1)) = Len(Joined(fs, k)) + Len(fs[k + 1])
         /\ Len(Joined(fs, j)) \in Nat /\ Len(Joined(fs, k + 1)) <= Len(Joined(fs, j))
         /\ \A i \in 1..Len(fs[k + 1]) : Joined(fs, j)[Len(Joined(fs, k)) + i] = fs[k + 1][i]
<1> DEFINE n == Len(fs)
           J(m) == Joined(fs, m)
           f == fs[k + 1]
           e == Len(J(k))
           OK(m) == Len(J(k + 1)) <= Len(J(m)) /\ \A i \in 1..Len(f) : J(m)[e + i] = f[i]
           T == {d \in Nat : k + 1 + d <= n => OK(k + 1 + d)}
<1>1. n \in Nat /\ k \in Nat /\ k + 1 \in 1..n /\ j \in Nat /\ k + 1 <= j /\ j <= n
  OBVIOUS
<1>2. /\ \A m \in 0..n : J(m) \in Seq(S) /\ Len(J(m)) \in Nat
      /\ \A m \in 0..n - 1 : J(m + 1) = J(m) \o fs[m + 1]
  <2>1. /\ \A m \in 0..n : J(m) \in Seq(S)
        /\ \A m \in 0..n - 1 : J(m + 1) = J(m) \o fs[m + 1]
    BY JoinedStep
  <2>2. \A q \in Seq(S) : Len(q) \in Nat
    OBVIOUS
  <2> HIDE DEF n, J
  <2> QED BY <2>1, <2>2
<1>3. \A m \in 1..n : fs[m] \in Seq(S) /\ Len(fs[m]) \in Nat
  OBVIOUS
<1> HIDE DEF n, J
<1>4. ASSUME NEW a \in Seq(S), NEW b \in Seq(S)
      PROVE  /\ Len(a \o b) = Len(a) + Len(b)
             /\ \A i \in 1..Len(a) : (a \o b)[i] = a[i]
             /\ \A i \in 1..Len(b) : (a \o b)[Len(a) + i] = b[i]
  OBVIOUS
<1>5. k \in 0..n /\ k \in 0..n - 1 /\ k + 1 \in 0..n
  BY <1>1
<1>6. Len(J(k + 1)) = e + Len(f) /\ \A i \in 1..Len(f) : J(k + 1)[e + i] = f[i]
  <2>1. J(k) \in Seq(S) /\ f \in Seq(S) /\ J(k + 1) = J(k) \o f
    BY <1>1, <1>2, <1>3, <1>5
  <2> HIDE DEF f
  <2> QED BY <1>4, <2>1
<1>7. e \in Nat /\ Len(f) \in Nat
  BY <1>1, <1>2, <1>3, <1>5
<1> HIDE DEF e, f
<1>8. 0 \in T
  <2>1. Len(J(k + 1)) \in Nat
    BY <1>6, <1>7
  <2> QED BY <1>1, <1>6, <2>1
<1>9. ASSUME NEW d \in Nat, d \in T PROVE d + 1 \in T
  <2> DEFINE m == k + 1 + d
  <2> SUFFICES ASSUME k + 1 + (d + 1) <= n PROVE OK(k + 1 + (d + 1))
    OBVIOUS
  <2>1. k + 1 + (d + 1) = m + 1 /\ m <= n /\ m \in 0..n - 1 /\ m \in 0..n /\ m + 1 \in 1..n /\ k + 1 <= m
    BY <1>1
  <2>2. OK(m)
    BY <1>9, <2>1
  <2> HIDE DEF m
  <2>3. J(m) \in Seq(S) /\ fs[m + 1] \in Seq(S) /\ J(m + 1) = J(m) \o fs[m + 1] /\ Len(J(m)) \in Nat /\ Len(fs[m + 1]) \in Nat
    BY <1>2, <1>3, <2>1
  <2>4. Len(J(m + 1)) = Len(J(m)) + Len(fs[m + 1]) /\ \A i \in 1..Len(J(m)) : J(m + 1)[i] = J(m)[i]
    BY <1>4, <2>3
  <2>5. Len(J(k + 1)) <= Len(J(m + 1))
    <3>1. Len(J(k + 1)) \in Nat /\ Len(J(k + 1)) <= Len(J(m))
      BY <1>6, <1>7, <2>2
    <3> QED BY <2>3, <2>4, <3>1
  <2>6. ASSUME NEW i \in 1..Len(f) PROVE J(m + 1)[e + i] = f[i]
    <3>1. e + i \in 1..Len(J(m))
      <4>1. e + Len(f) <= Len(J(m))
        BY <1>6, <2>2
      <4> QED BY <1>7, <2>3, <4>1
    <3> QED BY <2>2, <2>4, <3>1
  <2> QED BY <2>1, <2>5, <2>6
<1>10. Nat \subseteq T
  <2> HIDE DEF T
  <2> QED BY <1>8, <1>9, SetInduction
<1>11. OK(j)
  <2>1. j - (k + 1) \in Nat /\ k + 1 + (j - (k + 1)) = j
    BY <1>1
  <2>2. j - (k + 1) \in T
    BY <1>10, <2>1
  <2> QED BY <1>1, <2>1, <2>2
<1>12. Len(J(j)) \in Nat
  BY <1>1, <1>2
<1> QED BY <1>6, <1>7, <1>11, <1>12 DEF J, f, e

\* What a prefix is, item by item.
LEMMA PrefixItems ==
  ASSUME NEW S, NEW p \in Seq(S), NEW q \in Seq(S)
  PROVE  IsPrefix(p, q) <=> Len(p) <= Len(q) /\ \A i \in 1..Len(p) : p[i] = q[i]
<1>1. Len(p) \in Nat /\ Len(q) \in Nat
  OBVIOUS
<1>2. ASSUME Len(p) <= Len(q)
      PROVE  SubSeq(p, 1, Len(p)) = SubSeq(q, 1, Len(p)) <=> \A i \in 1..Len(p) : p[i] = q[i]
  <2>1. /\ SubSeq(p, 1, Len(p)) = [i \in 1..Len(p) |-> p[i]]
        /\ SubSeq(q, 1, Len(p)) = [i \in 1..Len(p) |-> q[i]]
    BY <1>1, <1>2
  <2>2. \A i \in 1..Len(p) : [j \in 1..Len(p) |-> p[j]][i] = p[i] /\ [j \in 1..Len(p) |-> q[j]][i] = q[i]
    OBVIOUS
  <2> QED BY <2>1, <2>2
<1> QED BY <1>2 DEF IsPrefix

\* Of two prefixes of one sequence one is a prefix of the other.
LEMMA PrefixesNest ==
  ASSUME NEW S, NEW p \in Seq(S), NEW q \in Seq(S), NEW t \in Seq(S), IsPrefix(p, t), IsPrefix(q, t)
  PROVE  IsPrefix(p, q) \/ IsPrefix(q, p)
<1>1. /\ Len(p) <= Len(t) /\ \A i \in 1..Len(p) : p[i] = t[i]
      /\ Len(q) <= Len(t) /\ \A i \in 1..Len(q) : q[i] = t[i]
  BY PrefixItems
<1>2. Len(p) \in Nat /\ Len(q) \in Nat
  OBVIOUS
<1>3. CASE Len(p) <= Len(q)
  <2>1. \A i \in 1..Len(p) : i \in 1..Len(q)
    BY <1>2, <1>3
  <2>2. \A i \in 1..Len(p) : p[i] = q[i]
    BY <1>1, <2>1
  <2> QED BY <1>3, <2>2, PrefixItems
<1>4. CASE Len(q) <= Len(p)
  <2>1. \A i \in 1..Len(q) : i \in 1..Len(p)
    BY <1>2, <1>4
  <2>2. \A i \in 1..Len(q) : q[i] = p[i]
    BY <1>1, <2>1
  <2> QED BY <1>4, <2>2, PrefixItems
<1> QED BY <1>2, <1>3, <1>4
=============================================================================
