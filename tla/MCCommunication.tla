-------------------------- MODULE MCCommunication --------------------------
(***************************************************************************)
(* Communication for TLC: short queues, and one stray packet of each kind  *)
(* the parser treats on a way of its own.                                  *)
(***************************************************************************)
EXTENDS Communication

\* A packet that fails the hash, one cut short after its type, and one whose
\* type is not a number.
MCStrays ==
  {[NoText EXCEPT !.ok = FALSE],
   [Text("from_beacon", "beacon_health_report") EXCEPT !.fields = 2],
   Text("from_gateway", "unparsable")}
=============================================================================
