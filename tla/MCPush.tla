------------------------------- MODULE MCPush -------------------------------
(* Push cards: the queue that sends them and the confirm loop of what was     *)
(* sent.  A behaviour takes the steps of one part; the other keeps its        *)
(* initial state.                                                             *)
EXTENDS PushSend, PushConfirm

CONSTANTS q1, q2, t1, r1, c1, c2, v1, v2

VARIABLE part

PushInit ==
    /\ part \in {"send", "confirm"}
    /\ SendInit /\ ConfirmInit
    /\ part = "confirm" => ~quiet
    /\ part = "send" => \A r \in Pushes : once[r] /\ editable[r]

PushNext ==
    /\ UNCHANGED part
    /\ \/ part = "send" /\ SendNext /\ UNCHANGED confirmVars
       \/ part = "confirm" /\ ConfirmNext /\ UNCHANGED sendVars

PushSpec ==
    /\ PushInit /\ [][PushNext]_<<part, sendVars, confirmVars>>
    /\ \/ part = "send" /\ SendFairness
       \/ part = "confirm" /\ ConfirmFairness
=============================================================================
