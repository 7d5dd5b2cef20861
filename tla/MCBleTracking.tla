--------------------------- MODULE MCBleTracking ---------------------------
(***************************************************************************)
(* BleTracking for TLC: two tags, a mempool of three blocks of one slot,   *)
(* a temp pool of one or two slots, messages of at most two records.       *)
(***************************************************************************)
EXTENDS BleTracking, TLC

CONSTANTS a, b, s1, s2, s3

MCMacs == {a, b}
MCSlots == {s1, s2, s3}
MCBlockOf == s1 :> 1 @@ s2 :> 2 @@ s3 :> 3

Adv(m, need, pressed) ==
  [mac |-> m, evt |-> "adv", strong |-> TRUE, match |-> TRUE, need |-> need,
   pressed |-> pressed, data |-> TRUE]
Rsp(m, data) ==
  [mac |-> m, evt |-> "scan_rsp", strong |-> TRUE, match |-> FALSE, need |-> FALSE,
   pressed |-> FALSE, data |-> data]
Weak(m) == [Adv(m, TRUE, FALSE) EXCEPT !.strong = FALSE]
Stranger(m) == [Adv(m, FALSE, FALSE) EXCEPT !.match = FALSE]

\* Two tags that need their scan responses: one has a button, the other never answers.
MCReports ==
  {Adv(a, TRUE, FALSE), Adv(a, TRUE, TRUE), Rsp(a, TRUE), Adv(b, TRUE, FALSE)}

\* For progress: also a weak signal and a device no rule accepts.
ProgressReports ==
  {Adv(a, TRUE, FALSE), Rsp(a, TRUE), Adv(b, FALSE, FALSE), Stranger(b), Weak(a)}

\* The temp slots are interchangeable.
Interchangeable == Permutations(TempSlots)
=============================================================================
