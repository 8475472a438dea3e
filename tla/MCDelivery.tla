----------------------------- MODULE MCDelivery -----------------------------
(* Results on their way to the user: the streaming card of a turn and the    *)
(* scheduled runs with their notices.  A behaviour takes the steps of one    *)
(* part; the other keeps its initial state.                                  *)
EXTENDS StreamCard, CronRuns, TLC

CONSTANTS t1, t2, t3, g1, g2, p1, p2, j1, j2, m1, m2,
          MaxTrouble  \* BOUND: refused calls and cancelled coroutines together

VARIABLE part

\* Both jobs belong to one profile; the other profile has none due.
BothOne == (j1 :> p1) @@ (j2 :> p1)

DeliveryInit ==
    /\ part \in {"stream", "cron"}
    /\ StreamInit /\ CronInit
    /\ expert \in IF part = "cron" THEN {{}, {g1}} ELSE {{}}

DeliveryNext ==
    /\ UNCHANGED part
    /\ \/ /\ part = "stream" /\ StreamNext /\ UNCHANGED cronVars
          /\ faults' + stray'.count <= MaxTrouble
       \/ part = "cron" /\ CronNext /\ UNCHANGED streamVars

\* StreamFairness and CronFairness, each for the part that takes steps.
DeliverySpec ==
    /\ DeliveryInit /\ [][DeliveryNext]_<<part, streamVars, cronVars>>
    /\ \A t \in Tasks : WF_streamVars(part = "stream" /\ StreamTask(t))
    /\ \A g \in Gateways :
          /\ WF_cronVars(part = "cron" /\ ScanStep(g))
          /\ WF_cronVars(part = "cron" /\ \E j \in Jobs : RunStep(g, j))
          /\ SF_cronVars(part = "cron" /\ \E j \in Jobs : Finalize(g, j))
=============================================================================
