---------------------------- MODULE Advertising ----------------------------
(***************************************************************************)
(* What LBeacon itself advertises: the UUID generate_uuid makes of the     *)
(* position in config.conf, and the payload enable_advertising packs it    *)
(* in.  A receiver walks the payload by its lengths, as Recognition does.  *)
(* A text of hexadecimal digits is the sequence of their values.           *)
(* An operator X_Fault is X with one plausible mistake.                    *)
(***************************************************************************)
EXTENDS Integers, Recognition

CONSTANT Nobody   \* adv.from: the configuration of the sender, if it is a beacon

LBEACON_MAJOR_VER == 2
LBEACON_MINOR_VER == 0
EIR_FLAGS == 1

\* A coordinate, as "%.8f" prints it.
Fraction == {n \in Nat : n < 100000000}
Coordinate == [negative: BOOLEAN, whole: Nat, fraction: Fraction]
Config ==
  [area_id: [1..4 -> 0..15], coordinate_X: Coordinate, coordinate_Y: Coordinate, coordinate_Z: Int,
   lowest_basement_level: Int, advertise_rssi_value: -128..127]

-----------------------------------------------------------------------------
(* generate_uuid.                                                          *)

Level(c) == c.lowest_basement_level + c.coordinate_Z

\* With a negative coordinate get_config fails and LBeacon does not start.
Accepted(c) == ~c.coordinate_X.negative /\ ~c.coordinate_Y.negative /\ Level(c) >= 0

\* "%X", of a floor with up to three digits.
MaxLevel == 4095
Hex(n) == IF n < 16 THEN <<n>> ELSE <<n \div 16, n % 16>>

\* The digits after the dot; those before it are dropped.
Power == <<10000000, 1000000, 100000, 10000, 1000, 100, 10, 1>>
Decimals(x) == [i \in 1..8 |-> (x.fraction \div Power[i]) % 10]

\* "aaaa00zz0000xxxxxxxx0000yyyyyyyy".
uuid(c) ==
  c.area_id \o <<0, 0>> \o Hex(Level(c) \div 16) \o Hex(Level(c) % 16) \o <<0, 0, 0, 0>>
    \o Decimals(c.coordinate_X) \o <<0, 0, 0, 0>> \o Decimals(c.coordinate_Y)

-----------------------------------------------------------------------------
(* enable_advertising.                                                     *)

\* Two digits a byte; an odd one at the end is left out.
uuid_str_to_data(u) == [i \in 1..Len(u) \div 2 |-> 16 * u[2 * i - 1] + u[2 * i]]

TwoBytes(n) == <<(n \div 256) % 256, n % 256>>
twoc(n) == IF n < 0 THEN n + 256 ELSE n

Element_CountsItself(type, body) == <<Len(body) + 2, type>> \o body
Element(type, body) == <<Len(body) + 1, type>> \o body

\* Flags, then company 15, subtype 2 of 21 bytes: UUID, version and power.
Elements(c) ==
  <<Element(EIR_FLAGS, <<26>>),
    Element(EIR_MANUFACTURE_SPECIFIC_DATA,
            <<15, 0, 2, 21>> \o uuid_str_to_data(uuid(c)) \o TwoBytes(LBEACON_MAJOR_VER)
              \o TwoBytes(LBEACON_MINOR_VER) \o <<twoc(c.advertise_rssi_value)>>)>>

\* The payload of a beacon is what its configuration makes it.
ASSUME BeaconsAssumption ==
  \A a \in Adverts : a.from # Nobody =>
    /\ a.from \in Config /\ Accepted(a.from) /\ Level(a.from) <= MaxLevel
    /\ a.fields = Elements(a.from) /\ a.eir = FlattenSeq(a.fields)

-----------------------------------------------------------------------------
(* What a receiver reads in a field, by the layout the comments give.      *)

Digit(field, i) == LET b == field[6 + (i + 1) \div 2] IN IF i % 2 = 1 THEN b \div 16 ELSE b % 16
Number(field, first) ==
  LET d(k) == Digit(field, first + k) IN
  10 * (10 * (10 * (10 * (10 * (10 * (10 * d(0) + d(1)) + d(2)) + d(3)) + d(4)) + d(5)) + d(6)) + d(7)

Says(field, c) ==
  /\ \A i \in 1..4 : Digit(field, i) = c.area_id[i]
  /\ 16 * Digit(field, 7) + Digit(field, 8) = Level(c)
  /\ Number(field, 13) = c.coordinate_X.fraction
  /\ Number(field, 25) = c.coordinate_Y.fraction
  /\ field[Len(field)] = twoc(c.advertise_rssi_value) /\ Len(field) = 27

\* Whoever walks the advertisement of a beacon by its lengths comes to the field
\* that holds its position, and reads there the area, the floor and the fractions
\* of a degree its config.conf gives: the packing counts its lengths right, and
\* places that differ in these never share a UUID.  From floor 256 on the UUID has
\* one digit more, and the receiver reads another place.
PositionReadable ==
  adv.from # Nobody /\ pc = "walk" /\ want = EIR_MANUFACTURE_SPECIFIC_DATA =>
    /\ Usable
    /\ At(offset + 1) = want /\ Level(adv.from) < 256 => Says(Field, adv.from)
=============================================================================
