--------------------------- MODULE MCRecognition ---------------------------
(***************************************************************************)
(* Recognition for TLC: advertisements of up to three fields, among them   *)
(* those of each kind of tag, cut anywhere; lengths that are not true; the *)
(* rules of the configuration that comes with the source, in every order,  *)
(* and a MAC rule without an identifier; and the advertisements of beacons *)
(* at the edges of what config.conf may say of a position.                 *)
(***************************************************************************)
EXTENDS Advertising

FieldOf(type, body) == <<Len(body) + 1, type>> \o body
Named(body) == FieldOf(EIR_NAME_COMPLETE, body)
Tag(identifier, rest) == FieldOf(EIR_MANUFACTURE_SPECIFIC_DATA, <<1, 2>> \o identifier \o rest)

Flags == FieldOf(1, <<6>>)
T05 == Named(<<84, 48, 53, 32>>)
H05 == Named(<<72, 48, 53, 32>>)
Other == Named(<<90, 48, 53, 32>>)
Bag == Named(<<66, 37, 97>>)
Empty == Named(<< >>)
Watch == Named(<<65, 83>>)   \* "ASU Viotech SP", cut short
Data ==
  {Tag(TAG_05C6, <<1, 60>>), Tag(TAG_05C6, <<0, 60>>), Tag(TAG_4153, <<17, 60>>),
   Tag(TAG_05C7, <<9, 8, 7, 6, 5, 4>>), Tag(TAG_05C7, <<9, 8>>),
   Tag(TAG_05C6, <<1>>)}
Fields == {Flags, Empty, T05, H05, Other, Bag, Watch} \cup Data
FieldLists ==
  {<<f>> : f \in Fields} \cup {<<f, g>> : f, g \in Fields}
    \cup {<<Flags, f, g>> : f, g \in Fields}

\* Payloads whose first length may be any byte.
Wild ==
  {<<<<n, t>> \o [i \in 1..size |-> 1]>> :
     n \in {0, 1, 3, 28, 29, 30, 31, 32, 65, 255}, size \in {0, 5, 28, 29},
     t \in {EIR_NAME_COMPLETE, EIR_MANUFACTURE_SPECIFIC_DATA}}

Heard(mac, fields, cut) ==
  [mac |-> mac, fields |-> fields, eir |-> SubSeq(FlattenSeq(fields), 1, cut), from |-> Nobody]
Addresses == {<<193, 1>>, <<17, 2>>, <<33, 3>>}

At8(fraction) == [negative |-> FALSE, whole |-> 121, fraction |-> fraction]
West == [negative |-> TRUE, whole |-> 0, fraction |-> 1]
Places == {At8(0), At8(5000), At8(10000000), At8(99999999)}
Configs ==
  [area_id: {<<0, 0, 0, 4>>, <<15, 1, 10, 2>>}, coordinate_X: Places \cup {West},
   coordinate_Y: Places, coordinate_Z: {-21, -20, -5, 1, 235, 236}, lowest_basement_level: {20},
   advertise_rssi_value: {-50, -128, 0, 20}]

Beacons ==
  {[mac |-> <<193, 1>>, fields |-> Elements(c), eir |-> FlattenSeq(Elements(c)), from |-> c] :
     c \in {d \in Configs : Accepted(d)}}

MCAdverts ==
  UNION {{Heard(<<193, 1>>, fs, cut) : cut \in 0..Len(FlattenSeq(fs))} : fs \in FieldLists}
    \cup {Heard(m, fs, Len(FlattenSeq(fs))) : m \in Addresses, fs \in FieldLists \cup Wild}
    \cup Beacons

Rule(prefix, identifier, need) == [prefix |-> prefix, identifier |-> identifier, need |-> need]
MCMacRules == <<Rule(<<193>>, TAG_05C6, FALSE), Rule(<<33>>, NO_PARSE, FALSE)>>
MCNameRules ==
  SetToSeqs({Rule(Watch, TAG_4153, TRUE), Rule(T05, NO_PARSE, TRUE),
             Rule(Bag, TAG_05C7, FALSE), Rule(H05, NO_PARSE, TRUE)})
\* The rules are such as TrackedByRules is about.
ASSUME MCRulesArePlain == PlainRules
=============================================================================
