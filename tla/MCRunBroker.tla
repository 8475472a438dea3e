---------------------------- MODULE MCRunBroker ----------------------------
(* A small instance of RunBroker for TLC. *)
EXTENDS RunBroker

CONSTANTS l1, l2, i1, c1, c2, e1, e2

TwoLoops == {l1, l2}
OneId == {i1}
TwoCallers == {c1, c2}
TwoEntries == {e1, e2}
=============================================================================
