----------------------------- MODULE MCTenancy -----------------------------
(* What tenants share and must not mix: borrowed credentials, user tokens   *)
(* and checkpointed writes.  A behaviour takes the steps of one part; the    *)
(* others keep their initial state, so the state spaces add up.              *)
EXTENDS CredLease, UserToken, LarkWrite, TLC

CONSTANTS Parts, a1, a2, a3, b1, b2, d1, d2, u1, u2, h1, h2, q1, i1, p1, p2, s1

VARIABLE part

tenancyVars == <<part, credVars, tokenVars, writeVars>>

HomeOfEach == (u1 :> h1) @@ (u2 :> h2)

TenancyInit ==
    /\ part \in Parts
    /\ CredInit /\ TokenInit /\ WriteInit
    /\ part # "lease" => token = [h \in Homes |-> Nil]

TenancyNext ==
    /\ UNCHANGED part
    /\ \/ part = "lease" /\ CredNext /\ UNCHANGED <<tokenVars, writeVars>>
       \/ part = "token" /\ TokenNext /\ UNCHANGED <<credVars, writeVars>>
       \/ part = "write" /\ WriteNext /\ UNCHANGED <<credVars, tokenVars>>

TenancySpec == TenancyInit /\ [][TenancyNext]_tenancyVars

\* The sets the parts share are interchangeable, member by member.
Symm == Permutations({a1, a2, a3}) \cup Permutations({b1, b2})
=============================================================================
