---------------------------- MODULE MCReporting ----------------------------
(***************************************************************************)
(* Reporting for TLC.                                                      *)
(***************************************************************************)
EXTENDS Reporting

\* A tag whose payload is wanted, with its scan response to come, and one
\* filed by its address alone.
Tag == [shows |-> TRUE, p |-> 31, waits |-> TRUE, s |-> 0]
Bare == [shows |-> FALSE, p |-> 0, waits |-> FALSE, s |-> 0]
MCAdverts == {Tag, Bare}

\* A packet longer than any of LBeacon's, for the test addpkt makes.
Huge == [other |-> "huge"]
MCOversize == {Huge}
MCPacket == Message \cup MCOversize

\* Every tag has the longest payload and the longest scan response.
Longest == [shows |-> TRUE, p |-> 31, waits |-> TRUE, s |-> 31]
FitAdverts == {Longest}

\* One poll, after every object was filed.
OnePoll == held = 0 /\ ~shutdown /\ (pc # "idle" => \A i \in Ids : fate[i] \notin {"none", "lost"})
=============================================================================
