---------------------------- MODULE MCExecutors ----------------------------
(* How a run is executed: the warm worker of a profile, the workflow of a    *)
(* Harness session and the runs of that session.  A behaviour takes the      *)
(* steps of one part; the others keep their initial state, so the state      *)
(* spaces add up.                                                            *)
EXTENDS WarmSlot, Harness, HarnessRun

CONSTANTS r1, r2, r3, l1, l2, k1, t1, t2, o1

VARIABLE part

\* Two runs share a loop, the third has one of its own.
ThirdApart == [r \in Runs |-> IF r = r3 THEN l2 ELSE l1]

ExecutorsInit ==
    /\ part \in {"warm", "gates", "session"}
    /\ WarmInit /\ HarnessInit /\ HarnessRunInit

ExecutorsNext ==
    /\ UNCHANGED part
    /\ \/ part = "warm" /\ WarmNext /\ UNCHANGED <<harnessVars, sessionVars>>
       \/ part = "gates" /\ HarnessNext /\ UNCHANGED <<warmVars, sessionVars>>
       \/ part = "session" /\ HarnessRunNext /\ UNCHANGED <<warmVars, harnessVars>>

\* WarmFairness speaks of the runs of WarmSlot, which are idle in the other parts.
ExecutorsSpec ==
    /\ ExecutorsInit /\ [][ExecutorsNext]_<<part, warmVars, harnessVars, sessionVars>>
    /\ WarmFairness
=============================================================================
