---------------------------- MODULE Recognition ----------------------------
(***************************************************************************)
(* How the examiner recognises a tag: the search of an advertisement for a *)
(* field, and the prefix rules of config.conf.  One report is examined, a  *)
(* step of eir_parse_specific_data's loop at a time; BleTracking takes the *)
(* verdict as the content of a report.                                     *)
(* A payload is the sequence of its bytes, an address, a prefix and a text *)
(* too: the code compares their hexadecimal text, two characters a byte,   *)
(* and prefixes and identifiers there have whole bytes.                    *)
(* An operator X_Fault is X with one plausible mistake; no action uses it. *)
(***************************************************************************)
EXTENDS Naturals, Sequences, SequencesExt

CONSTANTS
  Adverts,    \* advertisements: address, payload, and the fields it was made of
  MacRules,   \* mac_prefix_list_head
  NameRules,  \* device_name_prefix_list_head, in the orders considered
  MaxEir      \* bytes an advertisement may have

EIR_NAME_COMPLETE == 9
EIR_MANUFACTURE_SPECIFIC_DATA == 255
TagFieldLens == {7, 11}        \* of a 05C6 or 4153, and of a 05C7 field
LENGTH_OF_ADVERTISEMENT == 65  \* size of the buffers for a payload and for a text

NO_PARSE == <<0, 0>>
TAG_05C6 == <<5, 198>>
TAG_05C7 == <<5, 199>>
TAG_4153 == <<65, 83>>

Byte == 0..255
ASSUME SizeAssumption == MaxEir \in Nat /\ 2 * (MaxEir + 1) < LENGTH_OF_ADVERTISEMENT
ASSUME AdvertsAssumption ==
  \A a \in Adverts :
    /\ a.mac \in Seq(Byte) /\ a.eir \in Seq(Byte) /\ Len(a.eir) <= MaxEir
    /\ a.fields \in Seq(Seq(Byte)) /\ \A k \in DOMAIN a.fields : Len(a.fields[k]) >= 2
    /\ IsPrefix(a.eir, FlattenSeq(a.fields))
Rules == Seq([prefix: Seq(Byte), identifier: Seq(Byte), need: BOOLEAN])
ASSUME RulesAssumption == MacRules \in Rules /\ NameRules \subseteq Rules

VARIABLES
  adv, rules,    \* the report and the order of the name rules
  pc,            \* where the examination is
  want, ret,     \* what eir_parse_specific_data looks for, and who called it
  offset,        \* its position in the payload
  found,         \* the field it returned, or Failed
  rule,          \* the rule whose prefix fits
  verdict        \* what the examiner pushes
vars == <<adv, rules, pc, want, ret, offset, found, rule, verdict>>

Failed == << >>
NoRule == [prefix |-> << >>, identifier |-> NO_PARSE, need |-> FALSE]
Nothing == [match |-> FALSE, mac |-> << >>, need |-> FALSE, pressed |-> FALSE]
Push(mac, need, pressed) == [match |-> TRUE, mac |-> mac, need |-> need, pressed |-> pressed]

Init ==
  /\ adv \in Adverts /\ rules \in NameRules
  /\ pc = "macs" /\ want = 0 /\ ret = "macs" /\ offset = 0
  /\ found = Failed /\ rule = NoRule /\ verdict = Nothing

-----------------------------------------------------------------------------
(* eir_parse_specific_data.                                                *)

\* The buffer was zeroed before the payload was copied into it.
At(i) == IF i < Len(adv.eir) THEN adv.eir[i + 1] ELSE 0
fieldLen == At(offset)
Field == [i \in 1..fieldLen + 1 |-> At(offset + i - 1)]

Search(type, caller) ==
  /\ pc' = "walk" /\ want' = type /\ ret' = caller /\ offset' = 0 /\ found' = Failed
  /\ UNCHANGED <<adv, rules, verdict>>

Return(field) ==
  /\ pc' = ret /\ found' = field
  /\ UNCHANGED <<adv, rules, want, ret, offset, rule, verdict>>

\* The loop goes on with a field that has a length and does not end past the
\* payload, as the code computes its end.
Usable_Fault == offset < Len(adv.eir) /\ fieldLen # 0
Usable ==
  /\ offset < Len(adv.eir) /\ fieldLen # 0
  /\ offset + fieldLen <= Len(adv.eir)

\* A field of another type is stepped over.
StepOver(n) ==
  /\ pc = "walk" /\ Usable /\ At(offset + 1) # want
  /\ offset' = offset + n
  /\ UNCHANGED <<adv, rules, pc, want, ret, found, rule, verdict>>

WalkOn_Fault == StepOver(fieldLen)
WalkOn == StepOver(fieldLen + 1)

\* The first of the wanted type is taken or, if it is not one of a tag, ends the
\* search.
WalkStop ==
  /\ pc = "walk" /\ Usable /\ At(offset + 1) = want
  /\ Return(IF /\ fieldLen <= LENGTH_OF_ADVERTISEMENT
               /\ want = EIR_NAME_COMPLETE \/ fieldLen \in TagFieldLens
            THEN Field ELSE Failed)

WalkFail == pc = "walk" /\ ~Usable /\ Return(Failed)

-----------------------------------------------------------------------------
(* The rules, records with a prefix, an identifier and need, which is      *)
(* is_scan_rsp_needed.                                                     *)

\* The rules whose prefix a text begins with; the first of them decides.
Fitting_Fault(list, text) ==
  {i \in DOMAIN list : text # << >> /\ list[i].prefix[1] = text[1]}
Fitting(list, text) == {i \in DOMAIN list : IsPrefix(list[i].prefix, text)}
First(list, text) ==
  list[CHOOSE i \in Fitting(list, text) : \A j \in Fitting(list, text) : i <= j]

Finish(v) ==
  /\ pc' = "done" /\ verdict' = v
  /\ UNCHANGED <<adv, rules, want, ret, offset, found>>

Identifier(field) == SubSeq(field, 5, 6)
Panic(field) == field[7] % 16 = 1
Claims(field) == field # Failed /\ Identifier(field) = rule.identifier

CheckMac ==
  /\ pc = "macs"
  /\ IF Fitting(MacRules, adv.mac) = {}
     THEN rule' = NoRule /\ Search(EIR_NAME_COMPLETE, "names")
     ELSE /\ rule' = First(MacRules, adv.mac)
          /\ IF rule'.identifier = NO_PARSE
             THEN Finish(Push(adv.mac, FALSE, FALSE))
             ELSE Search(EIR_MANUFACTURE_SPECIFIC_DATA, "macField")

\* An identifier other than 05C6 claims the device and pushes nothing.
CheckMacField ==
  /\ pc = "macField" /\ UNCHANGED rule
  /\ IF ~Claims(found) THEN Search(EIR_NAME_COMPLETE, "names")
     ELSE Finish(IF rule.identifier = TAG_05C6
                 THEN Push(adv.mac, FALSE, Panic(found)) ELSE Nothing)

CheckName ==
  /\ pc = "names"
  /\ IF found = Failed \/ Fitting(rules, found) = {}
     THEN UNCHANGED rule /\ Finish(Nothing)
     ELSE /\ rule' = First(rules, found)
          /\ IF rule'.identifier = NO_PARSE
             THEN Finish(Push(adv.mac, rule'.need, FALSE))
             ELSE Search(EIR_MANUFACTURE_SPECIFIC_DATA, "nameField")

\* A 05C7 tag is filed under the address in its data, or what there is of it.
VirtualAddress == SubSeq(found, 7, IF Len(found) < 12 THEN Len(found) ELSE 12)

NameVerdict ==
  IF ~Claims(found) THEN Nothing
  ELSE CASE rule.identifier = TAG_05C7 -> Push(VirtualAddress, rule.need, FALSE)
         [] rule.identifier = TAG_4153 -> Push(adv.mac, rule.need, Panic(found))
         [] OTHER -> Nothing

CheckNameField ==
  /\ pc = "nameField" /\ UNCHANGED rule /\ Finish(NameVerdict)

\* The tag advertises again.
Again ==
  /\ pc = "done" /\ pc' = "macs" /\ want' = 0 /\ ret' = "macs" /\ offset' = 0
  /\ found' = Failed /\ rule' = NoRule /\ verdict' = Nothing
  /\ UNCHANGED <<adv, rules>>

Next ==
  \/ CheckMac \/ CheckMacField \/ CheckName \/ CheckNameField
  \/ WalkOn \/ WalkStop \/ WalkFail
  \/ Again

Spec == Init /\ [][Next]_vars

-----------------------------------------------------------------------------
(* Properties.                                                             *)

Pcs == {"macs", "walk", "macField", "names", "nameField", "done"}

\* The walk stays where it can read: its offset leaves the payload by one at most.
TypeOK ==
  /\ adv.eir \in Seq(Byte) /\ Len(adv.eir) <= MaxEir /\ pc \in Pcs
  /\ want \in {0, EIR_NAME_COMPLETE, EIR_MANUFACTURE_SPECIFIC_DATA}
  /\ ret \in {"macs", "macField", "names", "nameField"}
  /\ offset \in 0..Len(adv.eir) + 1
  /\ found \in Seq(Byte)

\* The field text, two characters a byte and a final zero, fits in its buffer,
\* whichever byte stands where a length is expected.  The check against the size
\* of the buffer is no help: it compares the bytes of the field, not its text.
TextFits == 2 * Len(found) + 1 <= LENGTH_OF_ADVERTISEMENT

\* Every length byte of the advertisement is true, before it was cut.
Honest == \A k \in DOMAIN adv.fields : adv.fields[k][1] = Len(adv.fields[k]) - 1

\* The fields of a type, the first of them, and where a field ends.
OfType(type) == {k \in DOMAIN adv.fields : adv.fields[k][2] = type}
FirstOf(type) == CHOOSE k \in OfType(type) : \A j \in OfType(type) : k <= j
End(k) == Len(FlattenSeq(SubSeq(adv.fields, 1, k)))

\* The first field of a type, if the payload was not cut before its end.  The
\* code also takes one of which only the last byte is cut off, unless that is
\* the type itself, and reads a zero for it.
FirstField(type) ==
  LET k == FirstOf(type)
      field == adv.fields[k] IN
  IF OfType(type) = {} \/ End(k) > Len(adv.eir) + 1 THEN Failed
  ELSE IF type = EIR_MANUFACTURE_SPECIFIC_DATA /\ Len(field) - 1 \notin TagFieldLens THEN Failed
  ELSE IF End(k) <= Len(adv.eir) THEN field
  ELSE IF Len(field) = 2 THEN Failed
  ELSE [field EXCEPT ![Len(field)] = 0]

\* The walk by lengths finds the field that is there, wherever the payload is
\* cut and whatever fields come before it.
ParseFindsFirst ==
  pc \in {"macField", "names", "nameField"} /\ Honest /\ want # 0 => found = FirstField(want)

\* Rules none of which begins another, or has an identifier its list has no use
\* for, as those of the configuration that comes with the source.
Apart(list) == \A i, j \in DOMAIN list : i # j => ~IsPrefix(list[i].prefix, list[j].prefix)
PlainRules ==
  /\ Apart(MacRules) /\ \A r \in ToSet(MacRules) : r.identifier \in {NO_PARSE, TAG_05C6}
  /\ \A list \in NameRules :
       /\ Apart(list) /\ \A r \in ToSet(list) : r.identifier \in {NO_PARSE, TAG_05C7, TAG_4153}
       /\ \A r \in ToSet(list) : r.prefix # << >>

Accepts(r, text, data) ==
  /\ IsPrefix(r.prefix, text)
  /\ r.identifier = NO_PARSE \/ (data # Failed /\ Identifier(data) = r.identifier)

\* The loops over the rules stop at the first whose prefix fits, whether or not
\* it then accepts the device.  Where no prefix begins another, a device is
\* tracked exactly when some rule accepts what arrived of its advertisement: the
\* order of the rules in config.conf changes nothing.
TrackedByRules ==
  pc = "done" /\ Honest =>
    LET data == FirstField(EIR_MANUFACTURE_SPECIFIC_DATA) IN
    verdict.match <=>
      \/ \E r \in ToSet(MacRules) : Accepts(r, adv.mac, data)
      \/ \E r \in ToSet(rules) : Accepts(r, FirstField(EIR_NAME_COMPLETE), data)
=============================================================================
