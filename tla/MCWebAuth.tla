----------------------------- MODULE MCWebAuth -----------------------------
(* A small instance of WebAuth for TLC. *)
EXTENDS WebAuth, TLC

CONSTANTS r1, r2, a1, a2, l1, l2, p1, p2

\* Runs, requests and probing threads are interchangeable.
Symm == Permutations(Runs) \cup Permutations(Asks) \cup Permutations(Probers)
=============================================================================
