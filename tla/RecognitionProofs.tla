------------------------- MODULE RecognitionProofs -------------------------
(***************************************************************************)
(* For every advertisement of at most MaxEir bytes: eir_parse_specific_data*)
(* stays within the payload and its text within the caller's buffer, and   *)
(* it finds the first field of a type.  For every list of plain rules: a   *)
(* device is tracked exactly when one of them accepts it.  For every       *)
(* configuration: what LBeacon advertises is read back.                    *)
(***************************************************************************)
EXTENDS Advertising, ListFacts

\* Each byte it looks at is one.
LEMMA AtByte ==
  ASSUME TypeOK, NEW i \in Nat
  PROVE  At(i) \in Byte
<1>1. CASE i < Len(adv.eir)
  <2>1. i + 1 \in 1..Len(adv.eir)
    BY <1>1 DEF TypeOK
  <2>2. adv.eir[i + 1] \in Byte
    BY <2>1 DEF TypeOK
  <2> QED BY <1>1, <2>2 DEF At
<1>2. CASE ~(i < Len(adv.eir))
  BY <1>2 DEF At, Byte
<1> QED BY <1>1, <1>2

\* The text fits because the field ends in the payload.
IInv == TypeOK /\ Len(found) <= MaxEir + 1

\* A field that is usable is a sequence of bytes no longer than the payload and one.
LEMMA FieldFits ==
  ASSUME TypeOK, Usable
  PROVE  Field \in Seq(Byte) /\ Len(Field) <= MaxEir + 1
<1>1. Len(adv.eir) \in Nat /\ offset \in Nat /\ MaxEir \in Nat
  BY SizeAssumption DEF TypeOK
<1>2. fieldLen \in Nat /\ fieldLen + 1 <= Len(adv.eir) + 1
  <2>1. fieldLen \in Byte
    BY <1>1, AtByte DEF fieldLen
  <2> QED BY <1>1, <2>1 DEF Usable, Byte
<1>3. \A i \in 1..fieldLen + 1 : offset + i - 1 \in Nat
  BY <1>1, <1>2
<1>4. \A i \in 1..fieldLen + 1 : At(offset + i - 1) \in Byte
  BY <1>3, AtByte
<1>5. Field \in [1..fieldLen + 1 -> Byte]
  BY <1>4 DEF Field
<1>6. Field \in Seq(Byte) /\ Len(Field) = fieldLen + 1
  BY <1>2, <1>5
<1> QED BY <1>1, <1>2, <1>6 DEF TypeOK

LEMMA InitIInv == Init => IInv
<1> SUFFICES ASSUME Init PROVE IInv
  OBVIOUS
<1>1. adv.eir \in Seq(Byte) /\ Len(adv.eir) <= MaxEir
  BY AdvertsAssumption DEF Init
<1>2. found \in Seq(Byte) /\ Len(found) = 0
  BY DEF Init, Failed
<1> QED BY <1>1, <1>2, SizeAssumption DEF Init, IInv, TypeOK, Pcs

LEMMA ReturnKeeps ==
  ASSUME IInv, NEW f \in Seq(Byte), Len(f) <= MaxEir + 1, Return(f)
  PROVE  IInv'
  BY DEF IInv, TypeOK, Return, Pcs

LEMMA SearchKeeps ==
  ASSUME IInv, NEW t \in {EIR_NAME_COMPLETE, EIR_MANUFACTURE_SPECIFIC_DATA},
         NEW c \in {"macs", "macField", "names", "nameField"}, Search(t, c)
  PROVE  IInv'
<1>1. found' \in Seq(Byte) /\ Len(found') = 0
  BY DEF Search, Failed
<1>2. Len(adv.eir) \in Nat /\ adv' = adv
  BY DEF IInv, TypeOK, Search
<1> QED BY <1>1, <1>2, SizeAssumption DEF IInv, TypeOK, Search, Pcs

LEMMA FinishKeeps ==
  ASSUME IInv, NEW v, Finish(v)
  PROVE  IInv'
  BY DEF IInv, TypeOK, Finish, Pcs

LEMMA WalkOnKeeps ==
  ASSUME IInv, WalkOn
  PROVE  IInv'
<1>1. offset \in Nat /\ Len(adv.eir) \in Nat
  BY DEF IInv, TypeOK
<1>2. fieldLen \in Nat /\ offset + fieldLen <= Len(adv.eir)
  <2>1. fieldLen \in Byte
    BY <1>1, AtByte DEF IInv, fieldLen
  <2>2. offset + fieldLen <= Len(adv.eir)
    BY DEF WalkOn, StepOver, Usable
  <2> QED BY <2>1, <2>2 DEF Byte
<1>3. offset' \in 0..Len(adv.eir) + 1
  BY <1>1, <1>2 DEF WalkOn, StepOver
<1> QED BY <1>3 DEF IInv, TypeOK, WalkOn, StepOver

LEMMA WalkStopKeeps ==
  ASSUME IInv, WalkStop
  PROVE  IInv'
<1>1. Failed \in Seq(Byte) /\ Len(Failed) <= MaxEir + 1
  BY SizeAssumption DEF Failed
<1>2. Field \in Seq(Byte) /\ Len(Field) <= MaxEir + 1
  BY FieldFits DEF IInv, WalkStop
<1> QED BY <1>1, <1>2, ReturnKeeps DEF WalkStop

\* No step of the examiner breaks the bound on the field it stands at.
THEOREM Inductive == IInv /\ [Next]_vars => IInv'
<1> SUFFICES ASSUME IInv, [Next]_vars PROVE IInv'
  OBVIOUS
<1>1. CASE CheckMac
  BY <1>1, SearchKeeps, FinishKeeps DEF CheckMac
<1>2. CASE CheckMacField
  BY <1>2, SearchKeeps, FinishKeeps DEF CheckMacField
<1>3. CASE CheckName
  BY <1>3, SearchKeeps, FinishKeeps DEF CheckName
<1>4. CASE CheckNameField
  BY <1>4, FinishKeeps DEF CheckNameField
<1>5. CASE WalkOn
  BY <1>5, WalkOnKeeps
<1>6. CASE WalkStop
  BY <1>6, WalkStopKeeps
<1>7. CASE WalkFail
  <2>1. Failed \in Seq(Byte) /\ Len(Failed) <= MaxEir + 1
    BY SizeAssumption DEF Failed
  <2> QED BY <1>7, <2>1, ReturnKeeps DEF WalkFail
<1>8. CASE Again
  <2>1. found' \in Seq(Byte) /\ Len(found') = 0
    BY <1>8 DEF Again, Failed
  <2>2. Len(adv.eir) \in Nat /\ adv' = adv
    BY <1>8 DEF IInv, TypeOK, Again
  <2> QED BY <1>8, <2>1, <2>2, SizeAssumption DEF IInv, TypeOK, Again, Pcs
<1>9. CASE UNCHANGED vars
  BY <1>9 DEF IInv, TypeOK, vars
<1> QED BY <1>1, <1>2, <1>3, <1>4, <1>5, <1>6, <1>7, <1>8, <1>9 DEF Next

\* The types and that bound, for every payload.
THEOREM Invariance == Spec => []IInv
  BY InitIInv, Inductive, PTL DEF Spec

\* The walk never leaves the payload by more than one byte, for every payload.
THEOREM TypeCorrect == Spec => []TypeOK
<1>1. IInv => TypeOK
  BY DEF IInv
<1> QED BY <1>1, Invariance, PTL

\* The text of a field fits its buffer whatever the length bytes say, for every
\* MaxEir the buffer was made for.
THEOREM TextAlwaysFits == Spec => []TextFits
<1>1. IInv => TextFits
  <2> SUFFICES ASSUME IInv PROVE TextFits
    OBVIOUS
  <2>1. Len(found) \in Nat /\ Len(found) <= MaxEir + 1
    BY DEF IInv, TypeOK
  <2> QED BY <2>1, SizeAssumption DEF TextFits, LENGTH_OF_ADVERTISEMENT
<1> QED BY <1>1, Invariance, PTL

-----------------------------------------------------------------------------
(* The walk finds the first field of the wanted type.                      *)

\* Where a field ends, and that the payload has its bytes as far as it reaches.
LEMMA FieldEnds ==
  ASSUME adv \in Adverts
  PROVE  /\ Len(adv.fields) \in Nat /\ Len(adv.eir) \in Nat /\ End(0) = 0
         /\ Len(adv.eir) <= End(Len(adv.fields)) /\ Len(adv.eir) <= MaxEir
         /\ \A k \in 0..Len(adv.fields) : End(k) \in Nat
         /\ \A k \in 0..Len(adv.fields) - 1 : \A j \in k + 1..Len(adv.fields) : End(k + 1) <= End(j)
<1> DEFINE fs == adv.fields
<1>1. /\ adv.eir \in Seq(Byte) /\ Len(adv.eir) <= MaxEir /\ fs \in Seq(Seq(Byte))
      /\ IsPrefix(adv.eir, FlattenSeq(fs))
  BY AdvertsAssumption
<1>2. Len(fs) \in Nat /\ Len(adv.eir) \in Nat
  BY <1>1
<1>3. \A k : End(k) = Len(Joined(fs, k))
  BY DEF End, Joined
<1> HIDE DEF fs
<1>4. /\ Joined(fs, 0) = << >> /\ Joined(fs, Len(fs)) = FlattenSeq(fs)
      /\ \A k \in 0..Len(fs) : Joined(fs, k) \in Seq(Byte)
  BY <1>1, JoinedStep
<1>5. End(0) = 0 /\ End(Len(fs)) = Len(FlattenSeq(fs))
  <2>1. Len(<< >>) = 0
    OBVIOUS
  <2> QED BY <1>3, <1>4, <2>1
<1>6. \A k \in 0..Len(fs) : End(k) \in Nat
  <2>1. \A q \in Seq(Byte) : Len(q) \in Nat
    OBVIOUS
  <2> QED BY <1>3, <1>4, <2>1
<1>7. ASSUME NEW k \in 0..Len(fs) - 1, NEW j \in k + 1..Len(fs) PROVE End(k + 1) <= End(j)
  <2>1. Len(Joined(fs, k + 1)) <= Len(Joined(fs, j))
    BY <1>1, JoinedAt
  <2> QED BY <1>3, <2>1
<1> QED BY <1>1, <1>2, <1>5, <1>6, <1>7 DEF fs, IsPrefix

\* The bytes of a field, and what is read where they should be.
LEMMA FieldBytes ==
  ASSUME adv \in Adverts, NEW k \in 0..Len(adv.fields) - 1
  PROVE  LET f == adv.fields[k + 1] IN
         /\ f \in Seq(Byte) /\ Len(f) \in Nat /\ Len(f) >= 2 /\ End(k) \in Nat
         /\ End(k + 1) = End(k) + Len(f)
         /\ \A i \in 1..Len(f) :
              At(End(k) + i - 1) = IF End(k) + i <= Len(adv.eir) THEN f[i] ELSE 0
<1> DEFINE fs == adv.fields
           eir == adv.eir
           f == fs[k + 1]
           n == Len(fs)
           whole == FlattenSeq(fs)
<1>1. /\ eir \in Seq(Byte) /\ fs \in Seq(Seq(Byte)) /\ IsPrefix(eir, whole)
      /\ \A j \in DOMAIN fs : Len(fs[j]) >= 2
  BY AdvertsAssumption
<1>2. Len(fs) \in Nat /\ k \in 0..n - 1 /\ k + 1 \in DOMAIN fs /\ n \in k + 1..n
  BY <1>1
<1>3. \A j : End(j) = Len(Joined(fs, j))
  BY DEF End, Joined
<1>4. f \in Seq(Byte)
  BY <1>1, <1>2
<1>5. Len(eir) \in Nat
  BY <1>1
<1> HIDE DEF fs
<1>6. Joined(fs, n) = whole /\ Joined(fs, n) \in Seq(Byte)
  BY <1>1, <1>2, JoinedStep
<1>7. /\ End(k) \in Nat /\ End(k + 1) = End(k) + Len(f)
      /\ \A i \in 1..Len(f) : Joined(fs, n)[End(k) + i] = f[i]
  BY <1>1, <1>2, <1>3, JoinedAt
<1> HIDE DEF f, whole, n
<1>8. \A i \in 1..Len(eir) : eir[i] = whole[i]
  <2>1. Len(eir) <= Len(whole) /\ SubSeq(eir, 1, Len(eir)) = SubSeq(whole, 1, Len(eir))
    BY <1>1 DEF IsPrefix
  <2>2. ASSUME NEW p \in Seq(Byte), NEW q \in Seq(Byte), NEW m \in Nat, m <= Len(p), m <= Len(q),
               SubSeq(p, 1, m) = SubSeq(q, 1, m), NEW i \in 1..m
        PROVE  p[i] = q[i]
    <3>1. SubSeq(p, 1, m)[i] = p[i] /\ SubSeq(q, 1, m)[i] = q[i]
      OBVIOUS
    <3> QED BY <2>2, <3>1
  <2>3. whole \in Seq(Byte)
    BY <1>6
  <2> HIDE DEF eir
  <2> QED BY <1>1, <1>5, <2>1, <2>2, <2>3
<1>9. Len(f) \in Nat /\ Len(f) >= 2
  <2>1. Len(f) \in Nat
    BY <1>4
  <2> QED BY <1>1, <1>2, <2>1 DEF f
<1>10. ASSUME NEW i \in 1..Len(f)
       PROVE At(End(k) + i - 1) = IF End(k) + i <= Len(eir) THEN f[i] ELSE 0
  <2>1. End(k) \in Nat /\ i \in Nat /\ (End(k) + i - 1) + 1 = End(k) + i /\ End(k) + i \in Nat /\ End(k) + i >= 1
    BY <1>7, <1>9
  <2>2. At(End(k) + i - 1) = IF End(k) + i - 1 < Len(eir) THEN eir[End(k) + i] ELSE 0
    BY <2>1 DEF At
  <2>3. End(k) + i - 1 < Len(eir) <=> End(k) + i <= Len(eir)
    BY <1>5, <2>1
  <2>4. CASE End(k) + i <= Len(eir)
    <3>1. eir[End(k) + i] = f[i]
      <4>1. End(k) + i \in 1..Len(eir)
        BY <1>5, <2>1, <2>4
      <4> QED BY <1>6, <1>7, <1>8, <4>1
    <3> QED BY <2>2, <2>3, <2>4, <3>1
  <2>5. CASE ~(End(k) + i <= Len(eir))
    BY <2>2, <2>3, <2>5
  <2> QED BY <2>4, <2>5
<1> QED BY <1>4, <1>7, <1>9, <1>10 DEF f, fs

\* The first field of a type is unique.
LEMMA FirstIs ==
  ASSUME NEW t, NEW k \in OfType(t), adv \in Adverts, \A j \in OfType(t) : k <= j
  PROVE  FirstOf(t) = k
<1>1. \A j \in OfType(t) : j \in Nat
  <2>1. adv.fields \in Seq(Seq(Byte))
    BY AdvertsAssumption
  <2> QED BY <2>1 DEF OfType
<1>2. FirstOf(t) \in OfType(t) /\ \A j \in OfType(t) : FirstOf(t) <= j
  <2>1. \E m \in OfType(t) : \A j \in OfType(t) : m <= j
    OBVIOUS
  <2> QED BY <2>1, Zenon DEF FirstOf
<1> QED BY <1>1, <1>2

LEMMA FirstExists ==
  ASSUME NEW t, adv \in Adverts, OfType(t) # {}
  PROVE  FirstOf(t) \in OfType(t) /\ \A j \in OfType(t) : FirstOf(t) <= j
<1>1. OfType(t) \in SUBSET Nat
  <2>1. adv.fields \in Seq(Seq(Byte))
    BY AdvertsAssumption
  <2> QED BY <2>1 DEF OfType
<1>2. \E m \in OfType(t) : \A j \in OfType(t) : m <= j
  BY <1>1, LeastExists
<1> QED BY <1>2, Zenon DEF FirstOf

\* The payload is cut too early for every field of the type.
LEMMA NoneThere ==
  ASSUME adv \in Adverts, NEW t,
         \A j \in OfType(t) : \/ End(j) > Len(adv.eir) + 1
                              \/ End(j) = Len(adv.eir) + 1 /\ Len(adv.fields[j]) = 2
  PROVE  FirstField(t) = Failed
<1>1. CASE OfType(t) = {}
  BY <1>1 DEF FirstField
<1>2. CASE OfType(t) # {}
  <2>1. FirstOf(t) \in OfType(t)
    BY <1>2, FirstExists
  <2>2. Len(adv.eir) \in Nat
    BY FieldEnds
  <2>3. \/ End(FirstOf(t)) > Len(adv.eir) + 1
        \/ End(FirstOf(t)) = Len(adv.eir) + 1 /\ Len(adv.fields[FirstOf(t)]) = 2
    BY <2>1
  <2>4. CASE End(FirstOf(t)) > Len(adv.eir) + 1
    BY <2>4 DEF FirstField
  <2>5. CASE End(FirstOf(t)) = Len(adv.eir) + 1 /\ Len(adv.fields[FirstOf(t)]) = 2
    <3>1. ~(End(FirstOf(t)) <= Len(adv.eir))
      BY <2>2, <2>5
    <3> QED BY <2>5, <3>1 DEF FirstField
  <2> QED BY <2>3, <2>4, <2>5
<1> QED BY <1>1, <1>2

\* The walk stands where the field after the k-th begins.  Those of the wanted
\* type among the k had their type byte cut off.
AtField(k) ==
  /\ offset = End(k)
  /\ \A j \in OfType(want) : j <= k => Len(adv.fields[j]) = 2 /\ End(j) = Len(adv.eir) + 1
Searched == want \in {EIR_NAME_COMPLETE, EIR_MANUFACTURE_SPECIFIC_DATA}
WInv ==
  /\ adv \in Adverts
  /\ pc = "walk" => Searched
  /\ pc = "walk" /\ Honest => \E k \in 0..Len(adv.fields) : AtField(k)
  /\ ParseFindsFirst

\* Each of the functions of an advertisement keeps its value with it.
LEMMA SameAdvert ==
  ASSUME UNCHANGED adv
  PROVE  /\ Honest' <=> Honest
         /\ \A k : End(k)' = End(k)
         /\ \A t : OfType(t)' = OfType(t)
         /\ \A t : FirstField(t)' = FirstField(t)
<1>1. Honest' <=> Honest
  BY DEF Honest
<1>2. \A t : OfType(t)' = OfType(t)
  BY DEF OfType
<1>3. \A k : End(k)' = End(k)
  BY DEF End
<1>4. \A t : FirstField(t)' = FirstField(t)
  BY DEF FirstField, FirstOf, OfType, End
<1> QED BY <1>1, <1>2, <1>3, <1>4

\* What the walk sees at a field of which the first byte arrived.
LEMMA AtFirstByte ==
  ASSUME adv \in Adverts, Honest, NEW k \in 0..Len(adv.fields), AtField(k), offset < Len(adv.eir)
  PROVE  LET f == adv.fields[k + 1] IN
         /\ k \in 0..Len(adv.fields) - 1 /\ k + 1 \in DOMAIN adv.fields
         /\ fieldLen = Len(f) - 1 /\ Len(f) \in Nat /\ Len(f) >= 2
         /\ offset \in Nat /\ End(k + 1) = offset + Len(f)
         /\ At(offset + 1) = IF offset + 2 <= Len(adv.eir) THEN f[2] ELSE 0
<1>1. Len(adv.fields) \in Nat /\ offset = End(k) /\ Len(adv.eir) \in Nat
  BY FieldEnds DEF AtField
<1>2. k # Len(adv.fields)
  BY <1>1, FieldEnds
<1>3. k \in 0..Len(adv.fields) - 1 /\ k + 1 \in 1..Len(adv.fields)
  BY <1>1, <1>2
<1>4. DOMAIN adv.fields = 1..Len(adv.fields)
  <2>1. adv.fields \in Seq(Seq(Byte))
    BY AdvertsAssumption
  <2> QED BY <2>1
<1> DEFINE f == adv.fields[k + 1]
<1>5. /\ Len(f) \in Nat /\ Len(f) >= 2 /\ End(k) \in Nat /\ End(k + 1) = End(k) + Len(f)
      /\ \A i \in 1..Len(f) :
           At(End(k) + i - 1) = IF End(k) + i <= Len(adv.eir) THEN f[i] ELSE 0
  BY <1>3, FieldBytes
<1>6. f[1] = Len(f) - 1
  BY <1>3, <1>4 DEF Honest
<1> HIDE DEF f
<1>7. 1 \in 1..Len(f) /\ 2 \in 1..Len(f)
  BY <1>5
<1>8. At(offset) = f[1]
  <2>1. At(End(k) + 1 - 1) = IF End(k) + 1 <= Len(adv.eir) THEN f[1] ELSE 0
    BY <1>5, <1>7
  <2>2. End(k) + 1 - 1 = offset /\ End(k) + 1 <= Len(adv.eir)
    BY <1>1, <1>5
  <2> QED BY <2>1, <2>2
<1>9. At(offset + 1) = IF offset + 2 <= Len(adv.eir) THEN f[2] ELSE 0
  <2>1. At(End(k) + 2 - 1) = IF End(k) + 2 <= Len(adv.eir) THEN f[2] ELSE 0
    BY <1>5, <1>7
  <2>2. End(k) + 2 - 1 = offset + 1 /\ End(k) + 2 = offset + 2
    BY <1>1, <1>5
  <2> QED BY <2>1, <2>2
<1> QED BY <1>1, <1>3, <1>4, <1>5, <1>6, <1>8, <1>9 DEF fieldLen, f

\* A field of another type is passed.
LEMMA WalkOnFinds ==
  ASSUME WInv, WalkOn
  PROVE  WInv'
<1>1. adv' = adv /\ pc' = pc /\ want' = want /\ pc = "walk" /\ Usable /\ At(offset + 1) # want
      /\ offset' = offset + (fieldLen + 1)
  BY DEF WalkOn, StepOver
<1>2. ASSUME Honest PROVE \E k \in 0..Len(adv.fields) : AtField(k)'
  <2>1. PICK k \in 0..Len(adv.fields) : AtField(k)
    BY <1>1, <1>2 DEF WInv
  <2> DEFINE f == adv.fields[k + 1]
  <2>2. /\ k \in 0..Len(adv.fields) - 1 /\ k + 1 \in DOMAIN adv.fields
        /\ fieldLen = Len(f) - 1 /\ Len(f) \in Nat /\ Len(f) >= 2
        /\ offset \in Nat /\ End(k + 1) = offset + Len(f)
        /\ At(offset + 1) = IF offset + 2 <= Len(adv.eir) THEN f[2] ELSE 0
    BY <1>1, <1>2, <2>1, AtFirstByte DEF WInv, Usable
  <2>3. offset + fieldLen <= Len(adv.eir) /\ offset < Len(adv.eir)
    BY <1>1 DEF Usable
  <2>4. Len(adv.eir) \in Nat /\ Len(adv.fields) \in Nat
    BY FieldEnds DEF WInv
  <2>5. offset' = End(k + 1)
    <3> HIDE DEF f
    <3> QED BY <1>1, <2>2
  <2>6. ASSUME NEW j \in OfType(want), j <= k + 1
        PROVE  Len(adv.fields[j]) = 2 /\ End(j) = Len(adv.eir) + 1
    <3>1. CASE j = k + 1
      <4>1. f[2] = want
        BY <2>6, <3>1 DEF OfType
      <4> HIDE DEF f
      <4>2. ~(offset + 2 <= Len(adv.eir))
        BY <1>1, <2>2, <4>1
      <4>3. Len(f) = 2 /\ End(k + 1) = Len(adv.eir) + 1
        BY <2>2, <2>3, <2>4, <4>2
      <4> QED BY <3>1, <4>3 DEF f
    <3>2. CASE j # k + 1
      <4>1. j \in Nat
        <5>1. adv.fields \in Seq(Seq(Byte))
          BY AdvertsAssumption DEF WInv
        <5> QED BY <5>1 DEF OfType
      <4>2. j <= k
        BY <2>2, <2>4, <2>6, <3>2, <4>1
      <4> QED BY <2>1, <4>2 DEF AtField
    <3> QED BY <3>1, <3>2
  <2>7. k + 1 \in 0..Len(adv.fields)
    BY <2>2, <2>4
  <2>8. AtField(k + 1)'
    <3>1. OfType(want)' = OfType(want)
      BY <1>1 DEF OfType
    <3>2. \A j : End(j)' = End(j)
      BY <1>1 DEF End
    <3> HIDE DEF f
    <3> QED BY <1>1, <2>5, <2>6, <3>1, <3>2 DEF AtField
  <2> QED BY <2>7, <2>8
<1>3. pc' = "walk" /\ Searched'
  BY <1>1 DEF WInv, Searched
<1> QED BY <1>1, <1>2, <1>3, SameAdvert DEF WInv, ParseFindsFirst

\* The field at which the walk stops is the first of its type.
LEMMA StopsAtFirst ==
  ASSUME WInv, TypeOK, Honest, pc = "walk", Usable, At(offset + 1) = want
  PROVE  FirstField(want) =
           IF /\ fieldLen <= LENGTH_OF_ADVERTISEMENT
              /\ want = EIR_NAME_COMPLETE \/ fieldLen \in TagFieldLens
           THEN Field ELSE Failed
<1>1. PICK k \in 0..Len(adv.fields) : AtField(k)
  BY DEF WInv
<1>2. adv \in Adverts /\ Searched /\ offset < Len(adv.eir) /\ offset + fieldLen <= Len(adv.eir)
  BY DEF WInv, Usable
<1> DEFINE f == adv.fields[k + 1]
<1>3. /\ k \in 0..Len(adv.fields) - 1 /\ k + 1 \in DOMAIN adv.fields
      /\ fieldLen = Len(f) - 1 /\ Len(f) \in Nat /\ Len(f) >= 2
      /\ offset \in Nat /\ End(k + 1) = offset + Len(f)
      /\ At(offset + 1) = IF offset + 2 <= Len(adv.eir) THEN f[2] ELSE 0
  BY <1>1, <1>2, AtFirstByte
<1>4. /\ Len(adv.eir) \in Nat /\ Len(adv.fields) \in Nat /\ Len(adv.eir) <= MaxEir /\ MaxEir \in Nat
      /\ 2 * (MaxEir + 1) < 65
  BY <1>2, FieldEnds, SizeAssumption DEF LENGTH_OF_ADVERTISEMENT
<1>5. want # 0 /\ offset + 2 <= Len(adv.eir) /\ f[2] = want
  <2>1. want # 0
    BY <1>2 DEF Searched, EIR_NAME_COMPLETE, EIR_MANUFACTURE_SPECIFIC_DATA
  <2> HIDE DEF f
  <2> QED BY <1>3, <2>1
<1>6. k + 1 \in OfType(want) /\ \A j \in OfType(want) : k + 1 <= j
  <2>1. k + 1 \in OfType(want)
    BY <1>3, <1>5 DEF OfType
  <2>2. ASSUME NEW j \in OfType(want) PROVE k + 1 <= j
    <3>1. adv.fields \in Seq(Seq(Byte))
      BY <1>2, AdvertsAssumption
    <3>2. j \in 1..Len(adv.fields)
      BY <3>1 DEF OfType
    <3>3. ASSUME j <= k PROVE FALSE
      <4>1. End(j) = Len(adv.eir) + 1
        BY <1>1, <3>3 DEF AtField
      <4>2. j - 1 \in 0..Len(adv.fields) - 1 /\ (j - 1) + 1 = j /\ k \in (j - 1) + 1..Len(adv.fields)
        BY <1>3, <1>4, <3>2, <3>3
      <4>3. End((j - 1) + 1) <= End(k)
        BY <1>2, <4>2, FieldEnds
      <4>4. End(k) = offset
        BY <1>1 DEF AtField
      <4> QED BY <1>2, <1>3, <1>4, <4>1, <4>2, <4>3, <4>4
    <3> QED BY <1>3, <3>2, <3>3
  <2> QED BY <2>1, <2>2
<1>7. FirstOf(want) = k + 1 /\ OfType(want) # {}
  BY <1>2, <1>6, FirstIs
<1>8. End(k + 1) <= Len(adv.eir) + 1
  <2> HIDE DEF f
  <2> QED BY <1>2, <1>3, <1>4
<1>9. fieldLen <= LENGTH_OF_ADVERTISEMENT
  <2> HIDE DEF f
  <2> QED BY <1>2, <1>3, <1>4 DEF LENGTH_OF_ADVERTISEMENT
<1>10. FirstField(want) =
         IF want = EIR_MANUFACTURE_SPECIFIC_DATA /\ Len(f) - 1 \notin TagFieldLens THEN Failed
         ELSE IF End(k + 1) <= Len(adv.eir) THEN f
         ELSE IF Len(f) = 2 THEN Failed
         ELSE [f EXCEPT ![Len(f)] = 0]
  <2>1. ~(End(FirstOf(want)) > Len(adv.eir) + 1)
    <3>1. End(k + 1) \in Nat
      <4> HIDE DEF f
      <4> QED BY <1>3
    <3> QED BY <1>4, <1>7, <1>8, <3>1
  <2> QED BY <1>7, <2>1 DEF FirstField
<1>11. f \in Seq(Byte) /\ f = [i \in 1..Len(f) |-> f[i]] /\ Field = [i \in 1..Len(f) |-> At(End(k) + i - 1)]
       /\ End(k) = offset
  <2>1. f \in Seq(Byte)
    BY <1>2, <1>3, FieldBytes
  <2>2. End(k) = offset
    BY <1>1 DEF AtField
  <2> HIDE DEF f
  <2>3. f = [i \in 1..Len(f) |-> f[i]]
    BY <2>1
  <2>4. (Len(f) - 1) + 1 = Len(f)
    BY <1>3
  <2>5. Field = [i \in 1..(Len(f) - 1) + 1 |-> At(offset + i - 1)]
    BY <1>3 DEF Field
  <2> QED BY <2>1, <2>2, <2>3, <2>4, <2>5
<1>12. \A i \in 1..Len(f) : At(End(k) + i - 1) = IF End(k) + i <= Len(adv.eir) THEN f[i] ELSE 0
  BY <1>2, <1>3, FieldBytes
<1> HIDE DEF f
<1>13. CASE End(k + 1) <= Len(adv.eir)
  <2>1. \A i \in 1..Len(f) : End(k) + i <= Len(adv.eir)
    BY <1>3, <1>4, <1>11, <1>13
  <2>2. \A i \in 1..Len(f) : At(End(k) + i - 1) = f[i]
    BY <1>12, <2>1
  <2>3. Field = f
    BY <1>11, <2>2
  <2> QED BY <1>2, <1>3, <1>9, <1>10, <1>13, <2>3 DEF Searched, EIR_NAME_COMPLETE, EIR_MANUFACTURE_SPECIFIC_DATA
<1>14. CASE ~(End(k + 1) <= Len(adv.eir))
  <2>1. End(k + 1) = Len(adv.eir) + 1 /\ Len(f) # 2
    <3>1. End(k + 1) = offset + Len(f) /\ offset \in Nat /\ Len(f) \in Nat /\ Len(adv.eir) \in Nat
      BY <1>3, <1>4
    <3>2. offset + 2 <= Len(adv.eir)
      BY <1>5
    <3>3. ASSUME NEW e, NEW n \in Nat, NEW o \in Nat, NEW l \in Nat, e = o + l, e <= n + 1, ~(e <= n), o + 2 <= n
          PROVE  e = n + 1 /\ l # 2
      BY <3>3
    <3> QED BY <1>8, <1>14, <3>1, <3>2, <3>3
  <2>2. \A i \in 1..Len(f) : End(k) + i <= Len(adv.eir) <=> i # Len(f)
    <3>1. End(k + 1) = End(k) + Len(f) /\ End(k) \in Nat /\ Len(f) \in Nat
      BY <1>3, <1>11
    <3> QED BY <2>1, <3>1
  <2>3. \A i \in 1..Len(f) : At(End(k) + i - 1) = IF i = Len(f) THEN 0 ELSE f[i]
    BY <1>12, <2>2
  <2>4. [f EXCEPT ![Len(f)] = 0] = [i \in 1..Len(f) |-> IF i = Len(f) THEN 0 ELSE f[i]]
    BY <1>11
  <2>5. Field = [f EXCEPT ![Len(f)] = 0]
    BY <1>11, <2>3, <2>4
  <2> QED BY <1>2, <1>3, <1>9, <1>10, <1>14, <2>1, <2>5 DEF Searched, EIR_NAME_COMPLETE, EIR_MANUFACTURE_SPECIFIC_DATA
<1> QED BY <1>13, <1>14

\* A walk that ends early has no field to find.
LEMMA EndsForNone ==
  ASSUME WInv, Honest, pc = "walk", ~Usable
  PROVE  FirstField(want) = Failed
<1>1. PICK k \in 0..Len(adv.fields) : AtField(k)
  BY DEF WInv
<1>2. adv \in Adverts
  BY DEF WInv
<1>3. Len(adv.eir) \in Nat /\ Len(adv.fields) \in Nat /\ End(k) = offset /\ End(k) \in Nat
  BY <1>1, <1>2, FieldEnds DEF AtField
<1>4. ASSUME NEW j \in OfType(want)
      PROVE  \/ End(j) > Len(adv.eir) + 1
             \/ End(j) = Len(adv.eir) + 1 /\ Len(adv.fields[j]) = 2
  <2>1. adv.fields \in Seq(Seq(Byte))
    BY <1>2, AdvertsAssumption
  <2>2. j \in 1..Len(adv.fields)
    BY <2>1 DEF OfType
  <2>3. CASE j <= k
    BY <1>1, <2>3 DEF AtField
  <2>4. CASE k < j
    <3>1. k \in 0..Len(adv.fields) - 1 /\ j \in k + 1..Len(adv.fields) /\ j \in 0..Len(adv.fields)
      BY <1>3, <2>2, <2>4
    <3>2. End(k + 1) <= End(j) /\ End(j) \in Nat
      BY <1>2, <3>1, FieldEnds
    <3> DEFINE f == adv.fields[k + 1]
    <3>3. End(k + 1) = End(k) + Len(f) /\ Len(f) \in Nat /\ Len(f) >= 2
      BY <1>2, <3>1, FieldBytes
    <3>4. End(k) + Len(f) > Len(adv.eir) + 1
      <4>1. CASE offset < Len(adv.eir)
        <5>1. fieldLen = Len(f) - 1
          BY <1>1, <1>2, <4>1, AtFirstByte
        <5> HIDE DEF f
        <5>2. fieldLen # 0
          BY <3>3, <5>1
        <5>3. ~(offset + fieldLen <= Len(adv.eir))
          BY <4>1, <5>2 DEF Usable
        <5> QED BY <1>3, <3>3, <5>1, <5>3
      <4>2. CASE ~(offset < Len(adv.eir))
        <5> HIDE DEF f
        <5> QED BY <1>3, <3>3, <4>2
      <4> QED BY <4>1, <4>2
    <3> HIDE DEF f
    <3> QED BY <1>3, <3>2, <3>3, <3>4
  <2> QED BY <1>3, <2>2, <2>3, <2>4
<1> QED BY <1>2, <1>4, NoneThere

\* The walk returns what it found.
LEMMA ReturnFinds ==
  ASSUME WInv, TypeOK, NEW f, pc = "walk", Return(f), Honest => f = FirstField(want)
  PROVE  WInv'
<1>1. UNCHANGED <<adv, want>> /\ found' = f /\ pc' = ret
  BY DEF Return
<1>2. FirstField(want)' = FirstField(want) /\ (Honest' <=> Honest)
  BY <1>1 DEF FirstField, FirstOf, OfType, End, Honest
<1>3. ParseFindsFirst'
  BY <1>1, <1>2 DEF ParseFindsFirst
<1> QED BY <1>1, <1>3 DEF WInv, TypeOK

\* A prefix has bytes.
LEMMA RulePrefix ==
  ASSUME NEW list \in Rules, NEW i \in DOMAIN list
  PROVE  list[i].prefix \in Seq(Byte)
<1> DEFINE B == Seq(Byte)
           R == [prefix: B, identifier: B, need: BOOLEAN]
<1>1. list \in Seq(R)
  BY DEF Rules
<1>2. ASSUME NEW r \in R PROVE r.prefix \in B
  <2> HIDE DEF B
  <2> QED OBVIOUS
<1> HIDE DEF R
<1>3. list[i] \in R
  BY <1>1
<1> QED BY <1>2, <1>3

\* One thing begins with the prefix of at most one rule.
LEMMA OneFits ==
  ASSUME NEW list \in Rules, Apart(list), NEW text \in Seq(Byte),
         NEW r \in ToSet(list), NEW s \in ToSet(list), IsPrefix(r.prefix, text), IsPrefix(s.prefix, text)
  PROVE  r = s
<1>1. PICK i \in DOMAIN list : r = list[i]
  BY DEF ToSet
<1>2. PICK j \in DOMAIN list : s = list[j]
  BY DEF ToSet
<1>3. r.prefix \in Seq(Byte) /\ s.prefix \in Seq(Byte)
  BY <1>1, <1>2, RulePrefix
<1>4. IsPrefix(r.prefix, s.prefix) \/ IsPrefix(s.prefix, r.prefix)
  BY <1>3, PrefixesNest
<1> QED BY <1>1, <1>2, <1>4 DEF Apart

\* The rule that decides is one of those that fit.
LEMMA FirstFits ==
  ASSUME NEW list \in Rules, NEW text, Fitting(list, text) # {}
  PROVE  First(list, text) \in ToSet(list) /\ IsPrefix(First(list, text).prefix, text)
<1> DEFINE F == Fitting(list, text)
           i == CHOOSE k \in F : \A j \in F : k <= j
<1>1. F \in SUBSET Nat
  BY DEF Fitting, Rules
<1>2. \E k \in F : \A j \in F : k <= j
  <2>1. F # {}
    OBVIOUS
  <2> HIDE DEF F
  <2> QED BY <1>1, <2>1, LeastExists
<1>3. i \in F
  <2> HIDE DEF F
  <2> QED BY <1>2, Zenon
<1>4. First(list, text) = list[i]
  BY DEF First
<1> HIDE DEF i
<1> QED BY <1>3, <1>4 DEF Fitting, ToSet

LEMMA NoneFits ==
  ASSUME NEW list, NEW text, Fitting(list, text) = {}
  PROVE  \A r \in ToSet(list) : ~IsPrefix(r.prefix, text)
  BY DEF Fitting, ToSet

-----------------------------------------------------------------------------
LEMMA InitWalks == Init => WInv
  BY DEF Init, WInv, ParseFindsFirst

\* A search starts before the first field.
LEMMA SearchStarts ==
  ASSUME WInv, NEW t \in {EIR_NAME_COMPLETE, EIR_MANUFACTURE_SPECIFIC_DATA}, NEW c, Search(t, c)
  PROVE  WInv'
<1>1. adv' = adv /\ pc' = "walk" /\ want' = t /\ offset' = 0
  BY DEF Search
<1>2. adv \in Adverts /\ End(0) = 0 /\ Len(adv.fields) \in Nat
  BY FieldEnds DEF WInv
<1>3. AtField(0)'
  <2>1. End(0)' = End(0)
    BY <1>1 DEF End
  <2>2. \A j \in OfType(want)' : ~(j <= 0)
    <3>1. adv.fields \in Seq(Seq(Byte))
      BY <1>2, AdvertsAssumption
    <3> QED BY <1>1, <3>1 DEF OfType
  <2> QED BY <1>1, <1>2, <2>1, <2>2 DEF AtField
<1>4. \E k \in 0..Len(adv.fields)' : AtField(k)'
  <2>1. 0 \in 0..Len(adv.fields)'
    BY <1>1, <1>2
  <2> QED BY <1>3, <2>1
<1>5. Searched'
  BY <1>1 DEF Searched
<1> QED BY <1>1, <1>2, <1>4, <1>5 DEF WInv, ParseFindsFirst

LEMMA FinishWalks ==
  ASSUME WInv, NEW v, Finish(v)
  PROVE  WInv'
  BY DEF WInv, Finish, ParseFindsFirst

\* Every step of the examiner keeps the walk where a field begins.
THEOREM WalkInductive == TypeOK /\ WInv /\ [Next]_vars => WInv'
<1> SUFFICES ASSUME TypeOK, WInv, [Next]_vars PROVE WInv'
  OBVIOUS
<1>1. CASE CheckMac
  BY <1>1, SearchStarts, FinishWalks DEF CheckMac
<1>2. CASE CheckMacField
  BY <1>2, SearchStarts, FinishWalks DEF CheckMacField
<1>3. CASE CheckName
  BY <1>3, SearchStarts, FinishWalks DEF CheckName
<1>4. CASE CheckNameField
  BY <1>4, FinishWalks DEF CheckNameField
<1>5. CASE WalkOn
  BY <1>5, WalkOnFinds
<1>6. CASE WalkStop
  BY <1>6, StopsAtFirst, ReturnFinds DEF WalkStop
<1>7. CASE WalkFail
  BY <1>7, EndsForNone, ReturnFinds DEF WalkFail
<1>8. CASE Again
  BY <1>8 DEF Again, WInv, ParseFindsFirst
<1>9. CASE UNCHANGED vars
  <2>1. UNCHANGED <<adv, pc, want, offset, found>>
    BY <1>9 DEF vars
  <2>2. /\ Honest' <=> Honest
        /\ FirstField(want)' = FirstField(want)
    BY <2>1 DEF FirstField, FirstOf, OfType, End, Honest
  <2>3. \A k : AtField(k)' <=> AtField(k)
    BY <2>1 DEF AtField, OfType, End
  <2> QED BY <2>1, <2>2, <2>3 DEF WInv, ParseFindsFirst, Searched
<1> QED BY <1>1, <1>2, <1>3, <1>4, <1>5, <1>6, <1>7, <1>8, <1>9 DEF Next

\* The walk by lengths finds the field that is there, for every advertisement,
\* wherever it is cut.
THEOREM FirstFound == Spec => []ParseFindsFirst
<1>1. WInv => ParseFindsFirst
  BY DEF WInv
<1> QED BY <1>1, InitWalks, WalkInductive, TypeCorrect, PTL DEF Spec

-----------------------------------------------------------------------------
(* A device is tracked exactly when a rule accepts it.                     *)

Sought == FirstField(EIR_MANUFACTURE_SPECIFIC_DATA)
Name == FirstField(EIR_NAME_COMPLETE)
ByMac == \E r \in ToSet(MacRules) : Accepts(r, adv.mac, Sought)
ByName == \E r \in ToSet(rules) : Accepts(r, Name, Sought)

\* Where the examination is, or will be when the walk ends.
Stage == IF pc = "walk" THEN ret ELSE pc

\* What is known at each stage: that the earlier rules did not accept, and why
\* the rule at hand is the only one of its list that still can.
MacStage ==
  /\ want = EIR_MANUFACTURE_SPECIFIC_DATA
  /\ rule \in ToSet(MacRules) /\ IsPrefix(rule.prefix, adv.mac) /\ rule.identifier # NO_PARSE
NamesStage == want = EIR_NAME_COMPLETE /\ (Honest => ~ByMac)
NameStage ==
  /\ want = EIR_MANUFACTURE_SPECIFIC_DATA
  /\ rule \in ToSet(rules) /\ rule.identifier # NO_PARSE
  /\ Honest => ~ByMac /\ Name \in Seq(Byte) /\ IsPrefix(rule.prefix, Name)
RuleInv ==
  /\ adv \in Adverts /\ rules \in NameRules
  /\ pc = "walk" => ret \in {"macField", "names", "nameField"}
  /\ Stage = "macField" => MacStage
  /\ Stage = "names" => NamesStage
  /\ Stage = "nameField" => NameStage
  /\ TrackedByRules

LEMMA InitRules == Init => RuleInv
  BY DEF Init, RuleInv, Stage, TrackedByRules

\* The lists are lists of rules, and an address is bytes.
LEMMA Given ==
  ASSUME RuleInv
  PROVE  MacRules \in Rules /\ rules \in Rules /\ adv.mac \in Seq(Byte)
  BY RulesAssumption, AdvertsAssumption DEF RuleInv

\* What is known of an advertisement stays known while it is examined.
LEMMA KeepRules ==
  ASSUME UNCHANGED <<adv, rules>>
  PROVE  /\ Name' = Name /\ Sought' = Sought
         /\ Honest' <=> Honest
         /\ ByMac' <=> ByMac
         /\ ByName' <=> ByName
<1>1. /\ Sought' = Sought /\ Name' = Name
  BY DEF Sought, Name, FirstField, FirstOf, OfType, End
<1>2. Honest' <=> Honest
  BY DEF Honest
<1>3. ByMac' <=> ByMac
  BY <1>1 DEF ByMac, Accepts
<1>4. ByName' <=> ByName
  BY <1>1 DEF ByName, Accepts
<1> QED BY <1>1, <1>2, <1>3, <1>4

\* The verdict of the examiner has to be the verdict of the rules.
LEMMA FinishRules ==
  ASSUME RuleInv, NEW v, Finish(v), Honest => (v.match <=> ByMac \/ ByName)
  PROVE  RuleInv'
<1>1. UNCHANGED <<adv, rules>> /\ pc' = "done" /\ verdict' = v
  BY DEF Finish
<1>2. TrackedByRules'
  <2>1. TrackedByRules <=> (pc = "done" /\ Honest => (verdict.match <=> ByMac \/ ByName))
    BY DEF TrackedByRules, ByMac, ByName, Sought, Name
  <2>2. TrackedByRules' <=> (pc' = "done" /\ Honest' => (verdict'.match <=> ByMac' \/ ByName'))
    BY DEF TrackedByRules, ByMac, ByName, Sought, Name
  <2> QED BY <1>1, <2>2, KeepRules
<1> QED BY <1>1, <1>2 DEF RuleInv, Stage

\* The walk changes nothing of this.
LEMMA WalkRules ==
  ASSUME RuleInv, pc = "walk", pc' \in {"walk", ret}, UNCHANGED <<adv, rules, want, ret, rule, verdict>>
  PROVE  RuleInv'
<1>1. UNCHANGED <<adv, rules>>
  OBVIOUS
<1>2. Stage' = Stage
  BY DEF Stage, RuleInv
<1>3. (MacStage' <=> MacStage) /\ (NamesStage' <=> NamesStage)
  BY <1>1, KeepRules DEF MacStage, NamesStage
<1>4. NameStage' <=> NameStage
  BY <1>1, KeepRules DEF NameStage
<1>5. pc' # "done"
  BY DEF RuleInv
<1> QED BY <1>2, <1>3, <1>4, <1>5 DEF RuleInv, TrackedByRules

LEMMA CheckMacRules ==
  ASSUME RuleInv, PlainRules, CheckMac
  PROVE  RuleInv'
<1>1. CASE Fitting(MacRules, adv.mac) = {}
  <2>1. Search(EIR_NAME_COMPLETE, "names")
    BY <1>1 DEF CheckMac
  <2>2. UNCHANGED <<adv, rules>> /\ pc' = "walk" /\ ret' = "names" /\ want' = EIR_NAME_COMPLETE
    BY <2>1 DEF Search
  <2>3. ~ByMac
    BY <1>1, NoneFits DEF ByMac, Accepts
  <2>4. NamesStage'
    BY <2>2, <2>3, KeepRules DEF NamesStage
  <2> QED BY <2>2, <2>4 DEF RuleInv, Stage, TrackedByRules
<1>2. CASE Fitting(MacRules, adv.mac) # {}
  <2>1. rule' = First(MacRules, adv.mac)
    BY <1>2 DEF CheckMac
  <2>2. rule' \in ToSet(MacRules) /\ IsPrefix(rule'.prefix, adv.mac)
    BY <1>2, <2>1, FirstFits, Given
  <2>3. CASE rule'.identifier = NO_PARSE
    <3>1. Finish(Push(adv.mac, FALSE, FALSE))
      BY <1>2, <2>3 DEF CheckMac
    <3>2. Accepts(rule', adv.mac, Sought)
      BY <2>2, <2>3 DEF Accepts
    <3>3. ByMac
      BY <2>2, <3>2 DEF ByMac
    <3>4. Push(adv.mac, FALSE, FALSE).match
      BY DEF Push
    <3> QED BY <3>1, <3>3, <3>4, FinishRules
  <2>4. CASE rule'.identifier # NO_PARSE
    <3>1. Search(EIR_MANUFACTURE_SPECIFIC_DATA, "macField")
      BY <1>2, <2>4 DEF CheckMac
    <3>2. /\ UNCHANGED <<adv, rules>> /\ pc' = "walk" /\ ret' = "macField"
          /\ want' = EIR_MANUFACTURE_SPECIFIC_DATA
      BY <3>1 DEF Search
    <3>3. MacStage'
      BY <2>2, <2>4, <3>2 DEF MacStage
    <3> QED BY <3>2, <3>3 DEF RuleInv, Stage, TrackedByRules
  <2> QED BY <2>3, <2>4
<1> QED BY <1>1, <1>2

\* A rule that fits and wants an identifier accepts exactly if the field has it.
LEMMA ClaimsAccepts ==
  ASSUME NEW text, IsPrefix(rule.prefix, text), rule.identifier # NO_PARSE
  PROVE  Claims(found) <=> Accepts(rule, text, found)
  BY DEF Claims, Accepts

LEMMA CheckMacFieldRules ==
  ASSUME RuleInv, PlainRules, ParseFindsFirst, CheckMacField
  PROVE  RuleInv'
<1>1. MacStage /\ pc = "macField"
  BY DEF RuleInv, CheckMacField, Stage
<1>2. ASSUME Honest PROVE found = Sought
  BY <1>1, <1>2 DEF ParseFindsFirst, MacStage, Sought, EIR_MANUFACTURE_SPECIFIC_DATA
<1>3. ASSUME Honest PROVE ByMac <=> Claims(found)
  <2>1. Claims(found) <=> Accepts(rule, adv.mac, found)
    BY <1>1, ClaimsAccepts DEF MacStage
  <2>2. ASSUME NEW r \in ToSet(MacRules), IsPrefix(r.prefix, adv.mac) PROVE r = rule
    BY <1>1, <2>2, OneFits, Given DEF MacStage, PlainRules
  <2>3. ByMac <=> Accepts(rule, adv.mac, Sought)
    BY <1>1, <2>2 DEF ByMac, Accepts, MacStage
  <2> QED BY <1>2, <1>3, <2>1, <2>3
<1>4. CASE ~Claims(found)
  <2>1. Search(EIR_NAME_COMPLETE, "names")
    BY <1>4 DEF CheckMacField
  <2>2. UNCHANGED <<adv, rules>> /\ pc' = "walk" /\ ret' = "names" /\ want' = EIR_NAME_COMPLETE
    BY <2>1 DEF Search
  <2>3. Honest => ~ByMac
    BY <1>3, <1>4
  <2>4. NamesStage'
    BY <2>2, <2>3, KeepRules DEF NamesStage
  <2> QED BY <2>2, <2>4 DEF RuleInv, Stage, TrackedByRules
<1>5. CASE Claims(found)
  <2>1. rule.identifier = TAG_05C6
    BY <1>1 DEF MacStage, PlainRules
  <2>2. Finish(Push(adv.mac, FALSE, Panic(found)))
    BY <1>5, <2>1 DEF CheckMacField
  <2>3. Push(adv.mac, FALSE, Panic(found)).match
    BY DEF Push
  <2> QED BY <1>3, <1>5, <2>2, <2>3, FinishRules
<1> QED BY <1>4, <1>5

LEMMA CheckNameRules ==
  ASSUME RuleInv, PlainRules, TypeOK, ParseFindsFirst, CheckName
  PROVE  RuleInv'
<1>1. NamesStage /\ pc = "names" /\ rules \in NameRules
  BY DEF RuleInv, CheckName, Stage
<1>2. ASSUME Honest PROVE found = Name
  BY <1>1, <1>2 DEF ParseFindsFirst, NamesStage, Name, EIR_NAME_COMPLETE
<1>3. CASE found = Failed \/ Fitting(rules, found) = {}
  <2>1. Finish(Nothing)
    BY <1>3 DEF CheckName
  <2>2. ASSUME NEW r \in ToSet(rules) PROVE ~IsPrefix(r.prefix, found)
    <3>1. CASE found = Failed
      <4>1. r.prefix # << >>
        BY <1>1 DEF PlainRules
      <4>2. r.prefix \in Seq(Byte)
        BY Given, RulePrefix DEF ToSet
      <4>3. Len(r.prefix) \in Nat \ {0}
        BY <4>1, <4>2
      <4>4. Len(found) = 0
        BY <3>1 DEF Failed
      <4> QED BY <4>3, <4>4 DEF IsPrefix
    <3>2. CASE Fitting(rules, found) = {}
      BY <3>2, NoneFits
    <3> QED BY <1>3, <3>1, <3>2
  <2>3. Honest => ~ByMac /\ ~ByName
    BY <1>1, <1>2, <2>2 DEF NamesStage, ByName, Accepts
  <2>4. Nothing.match = FALSE
    BY DEF Nothing
  <2> QED BY <2>1, <2>3, <2>4, FinishRules
<1>4. CASE ~(found = Failed \/ Fitting(rules, found) = {})
  <2>1. rule' = First(rules, found)
    BY <1>4 DEF CheckName
  <2>2. rule' \in ToSet(rules) /\ IsPrefix(rule'.prefix, found)
    BY <1>4, <2>1, FirstFits, Given
  <2>3. CASE rule'.identifier = NO_PARSE
    <3>1. Finish(Push(adv.mac, rule'.need, FALSE))
      BY <1>4, <2>3 DEF CheckName
    <3>2. ASSUME Honest PROVE ByName
      <4>1. Accepts(rule', Name, Sought)
        BY <1>2, <2>2, <2>3, <3>2 DEF Accepts
      <4> QED BY <2>2, <4>1 DEF ByName
    <3>3. Push(adv.mac, rule'.need, FALSE).match
      BY DEF Push
    <3> QED BY <3>1, <3>2, <3>3, FinishRules
  <2>4. CASE rule'.identifier # NO_PARSE
    <3>1. Search(EIR_MANUFACTURE_SPECIFIC_DATA, "nameField")
      BY <1>4, <2>4 DEF CheckName
    <3>2. /\ UNCHANGED <<adv, rules>> /\ pc' = "walk" /\ ret' = "nameField"
          /\ want' = EIR_MANUFACTURE_SPECIFIC_DATA
      BY <3>1 DEF Search
    <3>3. Honest => ~ByMac /\ Name \in Seq(Byte) /\ IsPrefix(rule'.prefix, Name)
      BY <1>1, <1>2, <2>2 DEF NamesStage, TypeOK
    <3>4. NameStage'
      BY <2>2, <2>4, <3>2, <3>3, KeepRules DEF NameStage
    <3> QED BY <3>2, <3>4 DEF RuleInv, Stage, TrackedByRules
  <2> QED BY <2>3, <2>4
<1> QED BY <1>3, <1>4

LEMMA CheckNameFieldRules ==
  ASSUME RuleInv, PlainRules, ParseFindsFirst, CheckNameField
  PROVE  RuleInv'
<1>1. NameStage /\ pc = "nameField" /\ rules \in NameRules
  BY DEF RuleInv, CheckNameField, Stage
<1>2. ASSUME Honest PROVE found = Sought
  BY <1>1, <1>2 DEF ParseFindsFirst, NameStage, Sought, EIR_MANUFACTURE_SPECIFIC_DATA
<1>3. ASSUME Honest PROVE ByName <=> Claims(found)
  <2>1. Claims(found) <=> Accepts(rule, Name, found)
    BY <1>1, <1>3, ClaimsAccepts DEF NameStage
  <2>2. ASSUME NEW r \in ToSet(rules), IsPrefix(r.prefix, Name) PROVE r = rule
    BY <1>1, <1>3, <2>2, OneFits, Given DEF NameStage, PlainRules
  <2>3. ByName <=> Accepts(rule, Name, Sought)
    BY <1>1, <2>2 DEF ByName, Accepts, NameStage
  <2> QED BY <1>2, <1>3, <2>1, <2>3
<1>4. NameVerdict.match <=> Claims(found)
  <2>1. rule.identifier \in {TAG_05C7, TAG_4153}
    BY <1>1 DEF NameStage, PlainRules
  <2>2. CASE ~Claims(found)
    BY <2>2 DEF NameVerdict, Nothing
  <2>3. CASE Claims(found) /\ rule.identifier = TAG_05C7
    BY <2>3 DEF NameVerdict, Push
  <2>4. CASE Claims(found) /\ rule.identifier # TAG_05C7
    BY <2>1, <2>4 DEF NameVerdict, Push
  <2> QED BY <2>2, <2>3, <2>4
<1>5. Honest => ~ByMac
  BY <1>1 DEF NameStage
<1>6. Finish(NameVerdict)
  BY DEF CheckNameField
<1> QED BY <1>3, <1>4, <1>5, <1>6, FinishRules

\* Every step of the examiner keeps what is known of the rules.
THEOREM RulesInductive ==
  ASSUME PlainRules
  PROVE  TypeOK /\ ParseFindsFirst /\ RuleInv /\ [Next]_vars => RuleInv'
<1> SUFFICES ASSUME TypeOK, ParseFindsFirst, RuleInv, [Next]_vars PROVE RuleInv'
  OBVIOUS
<1>1. CASE CheckMac
  BY <1>1, CheckMacRules
<1>2. CASE CheckMacField
  BY <1>2, CheckMacFieldRules
<1>3. CASE CheckName
  BY <1>3, CheckNameRules
<1>4. CASE CheckNameField
  BY <1>4, CheckNameFieldRules
<1>5. CASE WalkOn
  BY <1>5, WalkRules DEF WalkOn, StepOver
<1>6. CASE WalkStop
  BY <1>6, WalkRules DEF WalkStop, Return
<1>7. CASE WalkFail
  BY <1>7, WalkRules DEF WalkFail, Return
<1>8. CASE Again
  BY <1>8 DEF Again, RuleInv, Stage, TrackedByRules
<1>9. CASE UNCHANGED vars
  <2>1. UNCHANGED <<adv, rules, pc, want, ret, rule, verdict>>
    BY <1>9 DEF vars
  <2>2. (MacStage' <=> MacStage) /\ (NamesStage' <=> NamesStage) /\ (NameStage' <=> NameStage)
    BY <2>1, KeepRules DEF MacStage, NamesStage, NameStage
  <2>3. Stage' = Stage
    BY <2>1 DEF Stage
  <2>4. TrackedByRules' <=> TrackedByRules
    <3>1. TrackedByRules <=> (pc = "done" /\ Honest => (verdict.match <=> ByMac \/ ByName))
      BY DEF TrackedByRules, ByMac, ByName, Sought, Name
    <3>2. TrackedByRules' <=> (pc' = "done" /\ Honest' => (verdict'.match <=> ByMac' \/ ByName'))
      BY DEF TrackedByRules, ByMac, ByName, Sought, Name
    <3> QED BY <2>1, <3>1, <3>2, KeepRules
  <2> QED BY <2>1, <2>2, <2>3, <2>4 DEF RuleInv
<1> QED BY <1>1, <1>2, <1>3, <1>4, <1>5, <1>6, <1>7, <1>8, <1>9 DEF Next

\* Where no prefix begins another, a device is tracked exactly when some rule
\* accepts it: for every advertisement and all such rules, in every order.
THEOREM TrackedAsRules == ASSUME PlainRules PROVE Spec => []TrackedByRules
<1>1. RuleInv => TrackedByRules
  BY DEF RuleInv
<1>2. TypeOK /\ ParseFindsFirst /\ RuleInv /\ [Next]_vars => RuleInv'
  BY RulesInductive
<1> QED BY <1>1, <1>2, InitRules, TypeCorrect, FirstFound, PTL DEF Spec

-----------------------------------------------------------------------------
(* What a beacon advertises is read back.                                  *)

LEMMA FractionNat == \A f \in Fraction : f \in Nat
  BY SMT DEF Fraction

LEMMA ConfigParts ==
  ASSUME NEW c \in Config
  PROVE  /\ c.area_id \in [1..4 -> 0..15] /\ c.advertise_rssi_value \in -128..127
         /\ c.coordinate_X.fraction \in Fraction /\ c.coordinate_Y.fraction \in Fraction
         /\ Level(c) \in Int
<1>1. /\ c.area_id \in [1..4 -> 0..15] /\ c.advertise_rssi_value \in -128..127
      /\ c.coordinate_X \in Coordinate /\ c.coordinate_Y \in Coordinate
      /\ c.coordinate_Z \in Int /\ c.lowest_basement_level \in Int
  BY DEF Config
<1>2. \A x \in Coordinate : x.fraction \in Fraction
  BY DEF Coordinate
<1> QED BY <1>1, <1>2 DEF Level

Hexit == 0..15

LEMMA DecimalsType ==
  ASSUME NEW x, x.fraction \in Fraction
  PROVE  Decimals(x) \in Seq(Hexit) /\ Len(Decimals(x)) = 8
<1> DEFINE f == x.fraction
<1>1. \A i \in 1..8 : Power[i] \in Nat \ {0}
  BY SMT DEF Power
<1>2. ASSUME NEW n \in Nat, NEW p \in Nat \ {0} PROVE (n \div p) % 10 \in Hexit
  <2>1. n \div p \in Nat
    BY SMT
  <2>2. ASSUME NEW q \in Nat PROVE q % 10 \in 0..15
    OBVIOUS
  <2> QED BY <2>1, <2>2 DEF Hexit
<1>3. \A i \in 1..8 : (f \div Power[i]) % 10 \in Hexit
  <2>1. f \in Nat
    BY FractionNat
  <2> HIDE DEF f
  <2> QED BY <1>1, <1>2, <2>1
<1> QED BY <1>3 DEF Decimals

LEMMA HexType ==
  ASSUME NEW n \in 0..255
  PROVE  Hex(n) \in Seq(Hexit) /\ (n < 16 => Hex(n) = <<n>>) /\ Len(Hex(n)) \in {1, 2}
<1>1. CASE n < 16
  BY <1>1 DEF Hex, Hexit
<1>2. CASE ~(n < 16)
  <2>1. n \div 16 \in Hexit /\ n % 16 \in Hexit
    BY DEF Hexit
  <2> QED BY <1>2, <2>1 DEF Hex
<1> QED BY <1>1, <1>2

\* The digits of the UUID, each at its place up to floor 255.
LEMMA UuidDigits ==
  ASSUME NEW c \in Config, Level(c) \in Nat, Level(c) <= MaxLevel
  PROVE  LET u == uuid(c) IN
         /\ u \in Seq(Hexit) /\ Len(u) \in {32, 33}
         /\ Level(c) < 256 =>
              /\ Len(u) = 32
              /\ \A i \in 1..4 : u[i] = c.area_id[i]
              /\ u[7] = Level(c) \div 16 /\ u[8] = Level(c) % 16
              /\ \A i \in 1..8 : u[12 + i] = Decimals(c.coordinate_X)[i]
              /\ \A i \in 1..8 : u[24 + i] = Decimals(c.coordinate_Y)[i]
<1>d. ASSUME NEW l \in Nat PROVE l % 16 \in 0..15
  OBVIOUS
<1>a. ASSUME NEW l \in Nat, l <= 4095
      PROVE  l \div 16 \in 0..255 /\ l % 16 \in 0..15 /\ l % 16 \in 0..255 /\ (l < 256 => l \div 16 < 16)
  <2>1. l \div 16 \in 0..255
    BY <1>a
  <2>2. l % 16 \in 0..15
    BY <1>d
  <2>3. ASSUME l < 256 PROVE l \div 16 < 16
    BY <2>3
  <2> QED BY <2>1, <2>2, <2>3
<1>b. ASSUME NEW n \in Nat, NEW q \in [1..n -> Hexit] PROVE q \in Seq(Hexit) /\ Len(q) = n
  OBVIOUS
<1>c. <<0, 0>> \in Seq(Hexit) /\ <<0, 0, 0, 0>> \in Seq(Hexit) /\ Len(<<0, 0>>) = 2 /\ Len(<<0, 0, 0, 0>>) = 4
  BY DEF Hexit
<1> DEFINE L == Level(c)
           A == c.area_id
           Z == <<0, 0>>
           H == Hex(L \div 16)
           K == Hex(L % 16)
           ZZ == <<0, 0, 0, 0>>
           X == Decimals(c.coordinate_X)
           Y == Decimals(c.coordinate_Y)
           u2 == A \o Z
           u3 == u2 \o H
           u4 == u3 \o K
           u5 == u4 \o ZZ
           u6 == u5 \o X
           u7 == u6 \o ZZ
           u8 == u7 \o Y
<1>1. L \div 16 \in 0..255 /\ L % 16 \in 0..15 /\ L % 16 \in 0..255 /\ (L < 256 => L \div 16 < 16)
  <2>1. L \in Nat /\ L <= 4095
    BY DEF MaxLevel
  <2> HIDE DEF L
  <2> QED BY <1>a, <2>1
<1>2. /\ A \in Seq(Hexit) /\ Len(A) = 4 /\ Z \in Seq(Hexit) /\ Len(Z) = 2
      /\ ZZ \in Seq(Hexit) /\ Len(ZZ) = 4
  <2>1. A \in [1..4 -> Hexit]
    BY ConfigParts DEF Hexit
  <2> HIDE DEF A
  <2>2. 4 \in Nat
    OBVIOUS
  <2> QED BY <1>b, <1>c, <2>1, <2>2
<1>3. /\ H \in Seq(Hexit) /\ Len(H) \in {1, 2} /\ (L < 256 => H = <<L \div 16>>)
      /\ K \in Seq(Hexit) /\ K = <<L % 16>>
  <2> HIDE DEF L
  <2>1. /\ H \in Seq(Hexit) /\ Len(H) \in {1, 2} /\ (L \div 16 < 16 => H = <<L \div 16>>)
    BY <1>1, HexType
  <2>2. K \in Seq(Hexit) /\ (L % 16 < 16 => K = <<L % 16>>)
    BY <1>1, HexType
  <2>3. L % 16 < 16
    BY <1>1
  <2> HIDE DEF H, K
  <2> QED BY <1>1, <2>1, <2>2, <2>3
<1>4. X \in Seq(Hexit) /\ Len(X) = 8 /\ Y \in Seq(Hexit) /\ Len(Y) = 8
  BY ConfigParts, DecimalsType
<1>5. uuid(c) = u8
  BY DEF uuid
<1> HIDE DEF A, Z, H, ZZ, X, Y
<1>6. Len(K) = 1 /\ K[1] = L % 16 /\ (L < 256 => Len(H) = 1 /\ H[1] = L \div 16)
  BY <1>3
<1> HIDE DEF K, L
<1>7. /\ u2 \in Seq(Hexit) /\ Len(u2) = 6 /\ \A i \in 1..4 : u2[i] = A[i]
  <2>1. Joins(Hexit, u2, A, Z)
    BY <1>2, JoinTwo
  <2> HIDE DEF u2
  <2> QED BY <1>2, <2>1 DEF Joins
<1> HIDE DEF u2
<1>8. /\ u3 \in Seq(Hexit) /\ Len(u3) = 6 + Len(H) /\ \A i \in 1..6 : u3[i] = u2[i]
      /\ \A i \in 1..Len(H) : u3[6 + i] = H[i]
  <2>1. Joins(Hexit, u3, u2, H)
    BY <1>3, <1>7, JoinTwo
  <2> HIDE DEF u3
  <2> QED BY <1>7, <2>1 DEF Joins
<1> HIDE DEF u3
<1>9. /\ u4 \in Seq(Hexit) /\ Len(u4) = 7 + Len(H) /\ \A i \in 1..6 + Len(H) : u4[i] = u3[i]
      /\ u4[7 + Len(H)] = K[1]
  <2>1. Joins(Hexit, u4, u3, K)
    BY <1>3, <1>8, JoinTwo
  <2> HIDE DEF u4
  <2>2. 1 \in 1..Len(K) /\ Len(u3) + 1 = 7 + Len(H)
    BY <1>3, <1>6, <1>8
  <2>3. u4[7 + Len(H)] = K[1]
    BY <2>1, <2>2 DEF Joins
  <2> QED BY <1>3, <1>6, <1>8, <2>1, <2>3 DEF Joins
<1> HIDE DEF u4
<1>10. /\ u5 \in Seq(Hexit) /\ Len(u5) = 11 + Len(H) /\ \A i \in 1..7 + Len(H) : u5[i] = u4[i]
  <2>1. Joins(Hexit, u5, u4, ZZ)
    BY <1>2, <1>9, JoinTwo
  <2> HIDE DEF u5
  <2> QED BY <1>2, <1>3, <1>9, <2>1 DEF Joins
<1> HIDE DEF u5
<1>11. /\ u6 \in Seq(Hexit) /\ Len(u6) = 19 + Len(H) /\ \A i \in 1..11 + Len(H) : u6[i] = u5[i]
       /\ \A i \in 1..8 : u6[11 + Len(H) + i] = X[i]
  <2>1. Joins(Hexit, u6, u5, X)
    BY <1>4, <1>10, JoinTwo
  <2> HIDE DEF u6
  <2> QED BY <1>3, <1>4, <1>10, <2>1 DEF Joins
<1> HIDE DEF u6
<1>12. /\ u7 \in Seq(Hexit) /\ Len(u7) = 23 + Len(H) /\ \A i \in 1..19 + Len(H) : u7[i] = u6[i]
  <2>1. Joins(Hexit, u7, u6, ZZ)
    BY <1>2, <1>11, JoinTwo
  <2> HIDE DEF u7
  <2> QED BY <1>2, <1>3, <1>11, <2>1 DEF Joins
<1> HIDE DEF u7
<1>13. /\ u8 \in Seq(Hexit) /\ Len(u8) = 31 + Len(H) /\ \A i \in 1..23 + Len(H) : u8[i] = u7[i]
       /\ \A i \in 1..8 : u8[23 + Len(H) + i] = Y[i]
  <2>1. Joins(Hexit, u8, u7, Y)
    BY <1>4, <1>12, JoinTwo
  <2> HIDE DEF u8
  <2> QED BY <1>3, <1>4, <1>12, <2>1 DEF Joins
<1> HIDE DEF u8
<1>14. ASSUME L < 256
       PROVE  /\ Len(u8) = 32
              /\ \A i \in 1..4 : u8[i] = A[i]
              /\ u8[7] = L \div 16 /\ u8[8] = L % 16
              /\ \A i \in 1..8 : u8[12 + i] = X[i]
              /\ \A i \in 1..8 : u8[24 + i] = Y[i]
  <2>1. Len(H) = 1
    BY <1>6, <1>14
  <2>2. \A i \in 1..20 : u8[i] = u6[i]
    <3>1. \A i \in 1..20 : i \in 1..23 + Len(H) /\ i \in 1..19 + Len(H)
      BY <2>1
    <3> QED BY <1>12, <1>13, <3>1
  <2>3. \A i \in 1..8 : u8[i] = u4[i]
    BY <1>10, <1>11, <2>1, <2>2
  <2>4. \A i \in 1..6 : u4[i] = u2[i]
    BY <1>8, <1>9, <2>1
  <2>5. \A i \in 1..4 : u8[i] = A[i]
    BY <1>7, <2>3, <2>4
  <2>6. u8[7] = u3[7] /\ u8[8] = K[1]
    BY <1>9, <2>1, <2>3
  <2>7. u3[7] = H[1]
    <3>1. 1 \in 1..Len(H) /\ 6 + 1 = 7
      BY <2>1
    <3> QED BY <1>8, <3>1
  <2>8. \A i \in 1..8 : u8[12 + i] = X[i]
    <3>1. \A i \in 1..8 : 12 + i \in 1..20
      OBVIOUS
    <3>2. \A i \in 1..8 : u6[12 + i] = X[i]
      BY <1>11, <2>1
    <3> QED BY <2>2, <3>1, <3>2
  <2>9. \A i \in 1..8 : u8[24 + i] = Y[i]
    <3>1. \A i \in 1..8 : u8[23 + Len(H) + i] = Y[i]
      BY <1>13
    <3>2. 23 + Len(H) = 24
      BY <2>1
    <3> QED BY <3>1, <3>2
  <2>10. Len(u8) = 32
    BY <1>13, <2>1
  <2> QED BY <1>6, <1>14, <2>5, <2>6, <2>7, <2>8, <2>9, <2>10
<1>15. Len(u8) \in {32, 33}
  <2>1. Len(H) \in {1, 2} /\ Len(u8) = 31 + Len(H)
    BY <1>3, <1>13
  <2>2. CASE Len(H) = 1
    BY <2>1, <2>2
  <2>3. CASE Len(H) = 2
    BY <2>1, <2>3
  <2> QED BY <2>1, <2>2, <2>3
<1> QED BY <1>5, <1>13, <1>14, <1>15 DEF A, X, Y, L

\* A number from what is before its last digit and that digit.
LEMMA LastDigit ==
  ASSUME NEW k \in Nat, NEW a \in Nat, a = k \div 10, NEW b, b = k % 10
  PROVE  b \in Nat /\ k = 10 * a + b
<1>1. b \in Nat
  BY SMT
<1> QED BY <1>1, SMT

LEMMA OneDigit == ASSUME NEW k \in Nat, k < 10 PROVE k = k % 10
  BY SMT

\* Digits put together one by one.
LEMMA Horner ==
  ASSUME NEW q0 \in Nat, NEW q1 \in Nat, NEW q2 \in Nat, NEW q3 \in Nat,
         NEW q4 \in Nat, NEW q5 \in Nat, NEW q6 \in Nat, NEW q7 \in Nat,
         NEW e0 \in Nat, NEW e1 \in Nat, NEW e2 \in Nat, NEW e3 \in Nat,
         NEW e4 \in Nat, NEW e5 \in Nat, NEW e6 \in Nat,
         q0 = 10 * q1 + e0, q1 = 10 * q2 + e1, q2 = 10 * q3 + e2, q3 = 10 * q4 + e3,
         q4 = 10 * q5 + e4, q5 = 10 * q6 + e5, q6 = 10 * q7 + e6
  PROVE  10 * (10 * (10 * (10 * (10 * (10 * (10 * q7 + e6) + e5) + e4) + e3) + e2) + e1) + e0 = q0
  BY SMT

\* Eight digits read one by one give the number they were cut from.
LEMMA ReadBack ==
  ASSUME NEW x, x.fraction \in Fraction, NEW f, NEW first,
         \A k \in 0..7 : Digit(f, first + k) = Decimals(x)[k + 1]
  PROVE  Number(f, first) = x.fraction
<1> DEFINE n == x.fraction
           q0 == n \div 1
           q1 == n \div 10
           q2 == n \div 100
           q3 == n \div 1000
           q4 == n \div 10000
           q5 == n \div 100000
           q6 == n \div 1000000
           q7 == n \div 10000000
           e0 == q0 % 10
           e1 == q1 % 10
           e2 == q2 % 10
           e3 == q3 % 10
           e4 == q4 % 10
           e5 == q5 % 10
           e6 == q6 % 10
           e7 == q7 % 10
<1>1. n \in Nat /\ n < 100000000
  <2>1. \A m \in Fraction : m \in Nat /\ m < 100000000
    BY SMT DEF Fraction
  <2> QED BY <2>1, SMT
<1>2. \A i \in 1..8 : Decimals(x)[i] = (n \div Power[i]) % 10
  BY SMT DEF Decimals
<1> HIDE DEF n
<1>3. /\ q0 \in Nat /\ q0 = n
      /\ q1 \in Nat /\ q1 = q0 \div 10
      /\ q2 \in Nat /\ q2 = q1 \div 10
      /\ q3 \in Nat /\ q3 = q2 \div 10
      /\ q4 \in Nat /\ q4 = q3 \div 10
      /\ q5 \in Nat /\ q5 = q4 \div 10
      /\ q6 \in Nat /\ q6 = q5 \div 10
      /\ q7 \in Nat /\ q7 = q6 \div 10
      /\ q7 < 10
  <2>1. n \div 1 \in Nat /\ n \div 1 = n
    BY <1>1, SMT
  <2>2. n \div 10 \in Nat /\ n \div 10 = (n \div 1) \div 10
    BY <1>1, SMT
  <2>3. n \div 100 \in Nat /\ n \div 100 = (n \div 10) \div 10
    BY <1>1, SMT
  <2>4. n \div 1000 \in Nat /\ n \div 1000 = (n \div 100) \div 10
    BY <1>1, SMT
  <2>5. n \div 10000 \in Nat /\ n \div 10000 = (n \div 1000) \div 10
    BY <1>1, SMT
  <2>6. n \div 100000 \in Nat /\ n \div 100000 = (n \div 10000) \div 10
    BY <1>1, SMT
  <2>7. n \div 1000000 \in Nat /\ n \div 1000000 = (n \div 100000) \div 10
    BY <1>1, SMT
  <2>8. n \div 10000000 \in Nat /\ n \div 10000000 = (n \div 1000000) \div 10
    BY <1>1, SMT
  <2>9. n \div 10000000 < 10
    BY <1>1, SMT
  <2> QED BY <2>1, <2>2, <2>3, <2>4, <2>5, <2>6, <2>7, <2>8, <2>9, SMT
<1>4. /\ Digit(f, first + 0) = e7
      /\ Digit(f, first + 1) = e6
      /\ Digit(f, first + 2) = e5
      /\ Digit(f, first + 3) = e4
      /\ Digit(f, first + 4) = e3
      /\ Digit(f, first + 5) = e2
      /\ Digit(f, first + 6) = e1
      /\ Digit(f, first + 7) = e0
  <2>1. /\ Power[1] = 10000000 /\ Power[2] = 1000000 /\ Power[3] = 100000 /\ Power[4] = 10000
        /\ Power[5] = 1000 /\ Power[6] = 100 /\ Power[7] = 10 /\ Power[8] = 1
    BY SMT DEF Power
  <2>2. \A k \in 0..7 : Digit(f, first + k) = (n \div Power[k + 1]) % 10
    <3>1. \A k \in 0..7 : k + 1 \in 1..8
      OBVIOUS
    <3> QED BY <1>2, <3>1
  <2>3. Digit(f, first + 0) = (n \div Power[1]) % 10
    BY <2>2, SMT
  <2>4. Digit(f, first + 1) = (n \div Power[2]) % 10
    BY <2>2, SMT
  <2>5. Digit(f, first + 2) = (n \div Power[3]) % 10
    BY <2>2, SMT
  <2>6. Digit(f, first + 3) = (n \div Power[4]) % 10
    BY <2>2, SMT
  <2>7. Digit(f, first + 4) = (n \div Power[5]) % 10
    BY <2>2, SMT
  <2>8. Digit(f, first + 5) = (n \div Power[6]) % 10
    BY <2>2, SMT
  <2>9. Digit(f, first + 6) = (n \div Power[7]) % 10
    BY <2>2, SMT
  <2>10. Digit(f, first + 7) = (n \div Power[8]) % 10
    BY <2>2, SMT
  <2> QED BY <2>1, <2>3, <2>4, <2>5, <2>6, <2>7, <2>8, <2>9, <2>10, SMT
<1>5. /\ e0 = q0 % 10
      /\ e1 = q1 % 10
      /\ e2 = q2 % 10
      /\ e3 = q3 % 10
      /\ e4 = q4 % 10
      /\ e5 = q5 % 10
      /\ e6 = q6 % 10
      /\ e7 = q7 % 10
  OBVIOUS
<1> HIDE DEF q0, q1, q2, q3, q4, q5, q6, q7, e0, e1, e2, e3, e4, e5, e6, e7
<1>6. /\ e0 \in Nat /\ q0 = 10 * q1 + e0
      /\ e1 \in Nat /\ q1 = 10 * q2 + e1
      /\ e2 \in Nat /\ q2 = 10 * q3 + e2
      /\ e3 \in Nat /\ q3 = 10 * q4 + e3
      /\ e4 \in Nat /\ q4 = 10 * q5 + e4
      /\ e5 \in Nat /\ q5 = 10 * q6 + e5
      /\ e6 \in Nat /\ q6 = 10 * q7 + e6
      /\ e7 = q7
  <2>1. e0 \in Nat /\ q0 = 10 * q1 + e0
    <3>1. q0 \in Nat /\ q1 \in Nat /\ q1 = q0 \div 10 /\ e0 = q0 % 10
      BY <1>3, <1>5, Zenon
    <3> QED BY <3>1, LastDigit, Zenon
  <2>2. e1 \in Nat /\ q1 = 10 * q2 + e1
    <3>1. q1 \in Nat /\ q2 \in Nat /\ q2 = q1 \div 10 /\ e1 = q1 % 10
      BY <1>3, <1>5, Zenon
    <3> QED BY <3>1, LastDigit, Zenon
  <2>3. e2 \in Nat /\ q2 = 10 * q3 + e2
    <3>1. q2 \in Nat /\ q3 \in Nat /\ q3 = q2 \div 10 /\ e2 = q2 % 10
      BY <1>3, <1>5, Zenon
    <3> QED BY <3>1, LastDigit, Zenon
  <2>4. e3 \in Nat /\ q3 = 10 * q4 + e3
    <3>1. q3 \in Nat /\ q4 \in Nat /\ q4 = q3 \div 10 /\ e3 = q3 % 10
      BY <1>3, <1>5, Zenon
    <3> QED BY <3>1, LastDigit, Zenon
  <2>5. e4 \in Nat /\ q4 = 10 * q5 + e4
    <3>1. q4 \in Nat /\ q5 \in Nat /\ q5 = q4 \div 10 /\ e4 = q4 % 10
      BY <1>3, <1>5, Zenon
    <3> QED BY <3>1, LastDigit, Zenon
  <2>6. e5 \in Nat /\ q5 = 10 * q6 + e5
    <3>1. q5 \in Nat /\ q6 \in Nat /\ q6 = q5 \div 10 /\ e5 = q5 % 10
      BY <1>3, <1>5, Zenon
    <3> QED BY <3>1, LastDigit, Zenon
  <2>7. e6 \in Nat /\ q6 = 10 * q7 + e6
    <3>1. q6 \in Nat /\ q7 \in Nat /\ q7 = q6 \div 10 /\ e6 = q6 % 10
      BY <1>3, <1>5, Zenon
    <3> QED BY <3>1, LastDigit, Zenon
  <2>8. e7 = q7
    BY <1>3, <1>5, OneDigit, Zenon
  <2> QED BY <2>1, <2>2, <2>3, <2>4, <2>5, <2>6, <2>7, <2>8, Zenon
<1>7. 10 * (10 * (10 * (10 * (10 * (10 * (10 * q7 + e6) + e5) + e4) + e3) + e2) + e1) + e0 = q0
  <2>1. /\ q0 \in Nat /\ q1 \in Nat /\ q2 \in Nat /\ q3 \in Nat /\ q4 \in Nat /\ q5 \in Nat
        /\ q6 \in Nat /\ q7 \in Nat
    BY <1>3, Zenon
  <2> QED BY <1>6, <2>1, Horner, Zenon
<1>8. Number(f, first) =
        10 * (10 * (10 * (10 * (10 * (10 * (10 * e7 + e6) + e5) + e4) + e3) + e2) + e1) + e0
  BY <1>4 DEF Number
<1>9. Number(f, first) = q0
  BY <1>6, <1>7, <1>8, Zenon
<1> QED BY <1>3, <1>9 DEF n

\* The byte of a digit, and the digits of a byte.
LEMMA Halves ==
  ASSUME NEW i \in Nat
  PROVE  /\ i % 2 = 1 => 2 * ((i + 1) \div 2) - 1 = i
         /\ i % 2 # 1 => 2 * ((i + 1) \div 2) = i
<1>1. ASSUME i % 2 = 1 PROVE 2 * ((i + 1) \div 2) - 1 = i
  BY <1>1, SMT
<1>2. ASSUME i % 2 # 1 PROVE 2 * ((i + 1) \div 2) = i
  BY <1>2, SMT
<1> QED BY <1>1, <1>2

LEMMA Unpacked ==
  ASSUME NEW h \in 0..15, NEW l \in 0..15
  PROVE  (16 * h + l) \div 16 = h /\ (16 * h + l) % 16 = l
<1>1. (16 * h + l) \div 16 = h
  BY SMT
<1>2. (16 * h + l) % 16 = l
  BY SMT
<1> QED BY <1>1, <1>2

\* The field with the position: its length, and where the UUID and the power are.
Holds(f, u, c) ==
  /\ Len(f) = 27 /\ f[1] = 26 /\ f[2] = EIR_MANUFACTURE_SPECIFIC_DATA
  /\ f[27] = twoc(c.advertise_rssi_value)
  /\ \A i \in 1..32 : Digit(f, i) = u[i]

LEMMA PositionField ==
  ASSUME NEW c \in Config, NEW u \in Seq(Hexit), Len(u) \in {32, 33},
         NEW f, f = Element(EIR_MANUFACTURE_SPECIFIC_DATA,
                      <<15, 0, 2, 21>> \o uuid_str_to_data(u) \o TwoBytes(LBEACON_MAJOR_VER)
                        \o TwoBytes(LBEACON_MINOR_VER) \o <<twoc(c.advertise_rssi_value)>>)
  PROVE  Holds(f, u, c)
<1> DEFINE D == uuid_str_to_data(u)
           Q == <<15, 0, 2, 21>>
           M == TwoBytes(LBEACON_MAJOR_VER)
           N == TwoBytes(LBEACON_MINOR_VER)
           p == twoc(c.advertise_rssi_value)
           P == <<p>>
           b1 == Q \o D
           b2 == b1 \o M
           b3 == b2 \o N
           b4 == b3 \o P
           T == <<Len(b4) + 1, EIR_MANUFACTURE_SPECIFIC_DATA>>
<1>1. Len(u) \div 2 = 16
  <2>1. CASE Len(u) = 32
    BY <2>1
  <2>2. CASE Len(u) = 33
    BY <2>2
  <2> QED BY <2>1, <2>2
<1>2. \A i \in 1..32 : u[i] \in Hexit
  <2>1. \A i \in 1..32 : i \in 1..Len(u)
    <3>1. CASE Len(u) = 32
      BY <3>1
    <3>2. CASE Len(u) = 33
      BY <3>2
    <3> QED BY <3>1, <3>2
  <2>2. ASSUME NEW S, NEW q \in Seq(S), NEW i \in 1..Len(q) PROVE q[i] \in S
    OBVIOUS
  <2> QED BY <2>1, <2>2
<1>3. /\ D = [j \in 1..16 |-> 16 * u[2 * j - 1] + u[2 * j]]
      /\ \A j \in 1..16 : 2 * j - 1 \in 1..32 /\ 2 * j \in 1..32
  BY <1>1 DEF uuid_str_to_data
<1>4. ASSUME NEW n \in Nat, NEW q \in [1..n -> Int] PROVE q \in Seq(Int) /\ Len(q) = n
  OBVIOUS
<1>5. D \in Seq(Int) /\ Len(D) = 16
  <2>1. \A i \in 1..32 : u[i] \in Int
    <3>1. \A h \in Hexit : h \in Int
      BY DEF Hexit
    <3> QED BY <1>2, <3>1
  <2>2. \A j \in 1..16 : 16 * u[2 * j - 1] + u[2 * j] \in Int
    <3>1. \A h, l \in Int : 16 * h + l \in Int
      OBVIOUS
    <3> QED BY <1>3, <2>1, <3>1
  <2>3. D \in [1..16 -> Int]
    BY <1>3, <2>2
  <2>4. 16 \in Nat
    OBVIOUS
  <2> HIDE DEF D
  <2> QED BY <1>4, <2>3, <2>4
<1>6. /\ Q \in Seq(Int) /\ Len(Q) = 4
      /\ M \in Seq(Int) /\ Len(M) = 2 /\ N \in Seq(Int) /\ Len(N) = 2
  BY DEF TwoBytes, LBEACON_MAJOR_VER, LBEACON_MINOR_VER
<1>7. P \in Seq(Int) /\ Len(P) = 1 /\ P[1] = p
  <2>1. p \in Int
    <3>1. c.advertise_rssi_value \in Int
      <4>1. \A n \in -128..127 : n \in Int
        OBVIOUS
      <4> QED BY <4>1, ConfigParts
    <3> QED BY <3>1 DEF twoc
  <2> HIDE DEF p
  <2> QED BY <2>1
<1> HIDE DEF D, Q, M, N, P
<1>8. b1 \in Seq(Int) /\ Len(b1) = 20 /\ \A j \in 1..16 : b1[4 + j] = D[j]
  <2>1. Joins(Int, b1, Q, D)
    BY <1>5, <1>6, JoinTwo
  <2> HIDE DEF b1
  <2> QED BY <1>5, <1>6, <2>1 DEF Joins
<1> HIDE DEF b1
<1>9. b2 \in Seq(Int) /\ Len(b2) = 22 /\ \A j \in 1..20 : b2[j] = b1[j]
  <2>1. Joins(Int, b2, b1, M)
    BY <1>6, <1>8, JoinTwo
  <2> HIDE DEF b2
  <2> QED BY <1>6, <1>8, <2>1 DEF Joins
<1> HIDE DEF b2
<1>10. b3 \in Seq(Int) /\ Len(b3) = 24 /\ \A j \in 1..22 : b3[j] = b2[j]
  <2>1. Joins(Int, b3, b2, N)
    BY <1>6, <1>9, JoinTwo
  <2> HIDE DEF b3
  <2> QED BY <1>6, <1>9, <2>1 DEF Joins
<1> HIDE DEF b3
<1>11. b4 \in Seq(Int) /\ Len(b4) = 25 /\ (\A j \in 1..24 : b4[j] = b3[j]) /\ b4[25] = p
  <2>1. Joins(Int, b4, b3, P)
    BY <1>7, <1>10, JoinTwo
  <2> HIDE DEF b4, p
  <2>2. 1 \in 1..Len(P) /\ Len(b3) + 1 = 25
    BY <1>7, <1>10
  <2> QED BY <1>7, <1>10, <2>1, <2>2 DEF Joins
<1>12. f = T \o b4
  BY DEF Element, D, Q, M, N, P, b1, b2, b3
<1> HIDE DEF b4, p
<1>13. T \in Seq(Int) /\ Len(T) = 2 /\ T[1] = 26 /\ T[2] = EIR_MANUFACTURE_SPECIFIC_DATA
  BY <1>11 DEF EIR_MANUFACTURE_SPECIFIC_DATA
<1> HIDE DEF T
<1>14. Len(f) = 27 /\ f[1] = T[1] /\ f[2] = T[2] /\ \A j \in 1..25 : f[2 + j] = b4[j]
  <2>1. Joins(Int, f, T, b4)
    BY <1>11, <1>12, <1>13, JoinTwo
  <2> QED BY <1>11, <1>13, <2>1 DEF Joins
<1>15. f[27] = p
  <2>1. 25 \in 1..25 /\ 2 + 25 = 27
    OBVIOUS
  <2> QED BY <1>11, <1>14, <2>1
<1>16. \A j \in 1..16 : f[6 + j] = D[j]
  <2> SUFFICES ASSUME NEW j \in 1..16 PROVE f[6 + j] = D[j]
    OBVIOUS
  <2>1. /\ 4 + j \in 1..20 /\ 4 + j \in 1..22 /\ 4 + j \in 1..24 /\ 4 + j \in 1..25
        /\ 2 + (4 + j) = 6 + j
    OBVIOUS
  <2>2. f[2 + (4 + j)] = b4[4 + j] /\ b4[4 + j] = b3[4 + j] /\ b3[4 + j] = b2[4 + j]
    BY <1>10, <1>11, <1>14, <2>1
  <2>3. b2[4 + j] = b1[4 + j] /\ b1[4 + j] = D[j]
    BY <1>8, <1>9, <2>1
  <2> QED BY <2>1, <2>2, <2>3
<1>17. ASSUME NEW i \in 1..32 PROVE Digit(f, i) = u[i]
  <2> DEFINE j == (i + 1) \div 2
  <2>1. j \in 1..16 /\ (i % 2 = 1 => 2 * j - 1 = i) /\ (i % 2 # 1 => 2 * j = i)
    <3>1. (i + 1) \div 2 \in 1..16
      BY SMT
    <3> QED BY <3>1, Halves
  <2> HIDE DEF j
  <2>2. f[6 + j] = 16 * u[2 * j - 1] + u[2 * j]
    BY <1>3, <1>16, <2>1
  <2>3. u[2 * j - 1] \in 0..15 /\ u[2 * j] \in 0..15
    BY <1>2, <1>3, <2>1 DEF Hexit
  <2>4. ASSUME NEW h \in 0..15, NEW l \in 0..15 PROVE (16 * h + l) \div 16 = h /\ (16 * h + l) % 16 = l
    BY Unpacked
  <2>5. f[6 + j] \div 16 = u[2 * j - 1] /\ f[6 + j] % 16 = u[2 * j]
    BY <2>2, <2>3, <2>4
  <2>6. Digit(f, i) = IF i % 2 = 1 THEN f[6 + j] \div 16 ELSE f[6 + j] % 16
    BY DEF Digit, j
  <2> QED BY <2>1, <2>5, <2>6
<1> QED BY <1>13, <1>14, <1>15, <1>17 DEF p, Holds

\* A number from its hexadecimal digits.
LEMMA LastHexit ==
  ASSUME NEW l \in Nat, NEW h, h = l \div 16, NEW b, b = l % 16
  PROVE  16 * h + b = l
<1>1. h \in Nat /\ b \in Nat
  BY SMT
<1> QED BY <1>1, SMT

\* The payload of a beacon: its two fields, and what the second says.
LEMMA BeaconFields ==
  ASSUME adv \in Adverts, adv.from # Nobody
  PROVE  LET a == adv.fields[1]
             f == adv.fields[2] IN
         /\ Len(adv.fields) = 2 /\ Len(adv.eir) = End(2)
         /\ Len(a) = 3 /\ a[1] = 2 /\ a[2] = EIR_FLAGS
         /\ Len(f) = 27 /\ f[1] = 26 /\ f[2] = EIR_MANUFACTURE_SPECIFIC_DATA
         /\ Level(adv.from) < 256 => Says(f, adv.from)
<1> DEFINE c == adv.from
           u == uuid(c)
           a == adv.fields[1]
           f == adv.fields[2]
<1>1. /\ c \in Config /\ Level(c) \in Nat /\ Level(c) <= MaxLevel
      /\ adv.fields = Elements(c) /\ adv.eir = FlattenSeq(adv.fields)
  <2>1. /\ c \in Config /\ Accepted(c) /\ Level(c) <= MaxLevel
        /\ adv.fields = Elements(c) /\ adv.eir = FlattenSeq(adv.fields)
    BY BeaconsAssumption
  <2>2. Level(c) \in Nat
    <3>1. Level(c) >= 0
      BY <2>1 DEF Accepted
    <3>2. Level(c) \in Int
      BY <2>1, ConfigParts
    <3> HIDE DEF c
    <3> QED BY <3>1, <3>2
  <2> QED BY <2>1, <2>2
<1>2. Len(adv.fields) = 2 /\ a = Element(EIR_FLAGS, <<26>>)
  BY <1>1 DEF Elements
<1>3. f = Element(EIR_MANUFACTURE_SPECIFIC_DATA,
            <<15, 0, 2, 21>> \o uuid_str_to_data(u) \o TwoBytes(LBEACON_MAJOR_VER)
              \o TwoBytes(LBEACON_MINOR_VER) \o <<twoc(c.advertise_rssi_value)>>)
  BY <1>1 DEF Elements
<1>4. Len(adv.eir) = End(2)
  <2>1. adv.fields \in Seq(Seq(Byte))
    BY AdvertsAssumption
  <2>2. SubSeq(adv.fields, 1, 2) = adv.fields
    <3>1. \A q \in Seq(Seq(Byte)) : Len(q) = 2 => SubSeq(q, 1, 2) = q
      OBVIOUS
    <3> QED BY <1>2, <2>1, <3>1
  <2> QED BY <1>1, <2>2 DEF End
<1>5. Len(a) = 3 /\ a[1] = 2 /\ a[2] = EIR_FLAGS
  BY <1>2 DEF Element, EIR_FLAGS
<1>6. /\ u \in Seq(Hexit) /\ Len(u) \in {32, 33}
      /\ Level(c) < 256 =>
           /\ Len(u) = 32
           /\ \A i \in 1..4 : u[i] = c.area_id[i]
           /\ u[7] = Level(c) \div 16 /\ u[8] = Level(c) % 16
           /\ \A i \in 1..8 : u[12 + i] = Decimals(c.coordinate_X)[i]
           /\ \A i \in 1..8 : u[24 + i] = Decimals(c.coordinate_Y)[i]
  BY <1>1, UuidDigits
<1> HIDE DEF c, u, f
<1>7. /\ Len(f) = 27 /\ f[1] = 26 /\ f[2] = EIR_MANUFACTURE_SPECIFIC_DATA
      /\ f[27] = twoc(c.advertise_rssi_value)
      /\ \A i \in 1..32 : Digit(f, i) = u[i]
  <2>1. c \in Config /\ u \in Seq(Hexit) /\ Len(u) \in {32, 33}
    BY <1>1, <1>6
  <2>2. Holds(f, u, c)
    BY <1>3, <2>1, PositionField, Zenon
  <2> QED BY <2>2 DEF Holds
<1>8. ASSUME Level(c) < 256 PROVE Says(f, c)
  <2>1. \A i \in 1..4 : Digit(f, i) = c.area_id[i]
    <3>1. \A i \in 1..4 : i \in 1..32
      OBVIOUS
    <3> QED BY <1>6, <1>7, <1>8, <3>1
  <2>2. 16 * Digit(f, 7) + Digit(f, 8) = Level(c)
    <3>1. Digit(f, 7) = Level(c) \div 16 /\ Digit(f, 8) = Level(c) % 16
      BY <1>6, <1>7, <1>8
    <3> QED BY <1>1, <3>1, LastHexit, Zenon
  <2>3. Number(f, 13) = c.coordinate_X.fraction
    <3>1. \A k \in 0..7 : Digit(f, 13 + k) = Decimals(c.coordinate_X)[k + 1]
      <4>1. \A k \in 0..7 : 13 + k \in 1..32 /\ k + 1 \in 1..8 /\ 12 + (k + 1) = 13 + k
        OBVIOUS
      <4>2. \A i \in 1..8 : u[12 + i] = Decimals(c.coordinate_X)[i]
        BY <1>6, <1>8
      <4>3. \A i \in 1..32 : Digit(f, i) = u[i]
        BY <1>7
      <4> QED BY <4>1, <4>2, <4>3
    <3>2. c.coordinate_X.fraction \in Fraction
      BY <1>1, ConfigParts
    <3> QED BY <3>1, <3>2, ReadBack
  <2>4. Number(f, 25) = c.coordinate_Y.fraction
    <3>1. \A k \in 0..7 : Digit(f, 25 + k) = Decimals(c.coordinate_Y)[k + 1]
      <4>1. \A k \in 0..7 : 25 + k \in 1..32 /\ k + 1 \in 1..8 /\ 24 + (k + 1) = 25 + k
        OBVIOUS
      <4>2. \A i \in 1..8 : u[24 + i] = Decimals(c.coordinate_Y)[i]
        BY <1>6, <1>8
      <4>3. \A i \in 1..32 : Digit(f, i) = u[i]
        BY <1>7
      <4> QED BY <4>1, <4>2, <4>3
    <3>2. c.coordinate_Y.fraction \in Fraction
      BY <1>1, ConfigParts
    <3> QED BY <3>1, <3>2, ReadBack
  <2> QED BY <1>7, <2>1, <2>2, <2>3, <2>4 DEF Says
<1> QED BY <1>2, <1>4, <1>5, <1>7, <1>8 DEF c, f

\* A walk for the manufacturer data of a beacon comes to the field and no further.
LEMMA WalkReads == WInv => PositionReadable
<1> SUFFICES ASSUME WInv, adv.from # Nobody, pc = "walk", want = EIR_MANUFACTURE_SPECIFIC_DATA
             PROVE  /\ Usable
                    /\ At(offset + 1) = want /\ Level(adv.from) < 256 => Says(Field, adv.from)
  BY DEF PositionReadable
<1> DEFINE a == adv.fields[1]
           f == adv.fields[2]
<1>1. adv \in Adverts
  BY DEF WInv
<1>2. /\ Len(adv.fields) = 2 /\ Len(adv.eir) = End(2)
      /\ Len(a) = 3 /\ a[1] = 2 /\ a[2] = EIR_FLAGS
      /\ Len(f) = 27 /\ f[1] = 26 /\ f[2] = EIR_MANUFACTURE_SPECIFIC_DATA
      /\ Level(adv.from) < 256 => Says(f, adv.from)
  BY <1>1, BeaconFields
<1>3. DOMAIN adv.fields = {1, 2}
  <2>1. adv.fields \in Seq(Seq(Byte))
    BY <1>1, AdvertsAssumption
  <2>2. DOMAIN adv.fields = 1..2
    BY <1>2, <2>1
  <2> QED BY <2>2
<1>4. Honest
  <2>1. a[1] = Len(a) - 1 /\ f[1] = Len(f) - 1
    BY <1>2
  <2> QED BY <1>3, <2>1 DEF Honest
<1>5. PICK k \in 0..2 : AtField(k)
  BY <1>2, <1>4 DEF WInv
<1>6. Len(adv.eir) \in Nat /\ End(0) = 0 /\ End(1) \in Nat
  <2>1. 1 \in 0..Len(adv.fields)
    BY <1>2
  <2> QED BY <1>1, <2>1, FieldEnds
<1>7. /\ End(1) = End(0) + 3
      /\ \A i \in 1..3 : At(End(0) + i - 1) = IF End(0) + i <= Len(adv.eir) THEN a[i] ELSE 0
  <2>1. 0 \in 0..Len(adv.fields) - 1 /\ 0 + 1 = 1
    BY <1>2
  <2> QED BY <1>1, <1>2, <2>1, FieldBytes
<1>8. /\ End(2) = End(1) + 27 /\ f \in Seq(Byte)
      /\ \A i \in 1..27 : At(End(1) + i - 1) = IF End(1) + i <= Len(adv.eir) THEN f[i] ELSE 0
  <2>1. 1 \in 0..Len(adv.fields) - 1 /\ 1 + 1 = 2
    BY <1>2
  <2> QED BY <1>1, <1>2, <2>1, FieldBytes
<1>9. k # 2
  <2>1. 2 \in OfType(want)
    BY <1>2, <1>3 DEF OfType
  <2>2. ASSUME k = 2 PROVE FALSE
    <3>1. End(2) = Len(adv.eir) + 1
      BY <1>5, <2>1, <2>2 DEF AtField
    <3> QED BY <1>2, <1>6, <3>1
  <2> QED BY <2>2
<1>10. CASE k = 0
  <2>1. offset = 0
    BY <1>5, <1>6, <1>10 DEF AtField
  <2>2. Len(adv.eir) = 30
    BY <1>2, <1>6, <1>7, <1>8
  <2>3. At(0) = 2 /\ At(1) = 1
    <3>1. /\ 1 \in 1..3 /\ End(0) + 1 - 1 = 0 /\ End(0) + 1 <= Len(adv.eir)
          /\ 2 \in 1..3 /\ End(0) + 2 - 1 = 1 /\ End(0) + 2 <= Len(adv.eir)
      BY <1>6, <2>2
    <3> QED BY <1>2, <1>7, <3>1 DEF EIR_FLAGS
  <2>4. offset + 1 = 1 /\ At(offset + 1) # want
    BY <2>1, <2>3 DEF EIR_MANUFACTURE_SPECIFIC_DATA
  <2> QED BY <2>1, <2>2, <2>3, <2>4 DEF Usable, fieldLen
<1>11. CASE k = 1
  <2>1. offset = End(1) /\ End(1) = 3 /\ Len(adv.eir) = 30
    BY <1>2, <1>5, <1>6, <1>7, <1>8, <1>11 DEF AtField
  <2>2. \A i \in 1..27 : At(End(1) + i - 1) = f[i]
    <3>1. \A i \in 1..27 : End(1) + i <= Len(adv.eir)
      BY <2>1
    <3> QED BY <1>8, <3>1
  <2>3. fieldLen = 26
    <3>1. 1 \in 1..27 /\ End(1) + 1 - 1 = offset
      BY <2>1
    <3> QED BY <1>2, <2>2, <3>1 DEF fieldLen
  <2>4. Usable
    BY <2>1, <2>3 DEF Usable
  <2>5. Field = f
    <3>1. Field = [i \in 1..26 + 1 |-> At(offset + i - 1)]
      BY <2>3 DEF Field
    <3>2. Field = [i \in 1..27 |-> f[i]]
      BY <2>1, <2>2, <3>1
    <3>3. \A q \in Seq(Byte) : Len(q) = 27 => q = [i \in 1..27 |-> q[i]]
      OBVIOUS
    <3>4. f = [i \in 1..27 |-> f[i]]
      BY <1>2, <1>8, <3>3
    <3> QED BY <3>2, <3>4
  <2> QED BY <1>2, <2>4, <2>5
<1> QED BY <1>9, <1>10, <1>11

\* A receiver reads the area, the floor and the fractions of a degree from what
\* any beacon advertises, for every configuration it starts with.
THEOREM PositionAlwaysReadable == Spec => []PositionReadable
  BY InitWalks, WalkInductive, TypeCorrect, WalkReads, PTL DEF Spec
=============================================================================
