---------------------------- MODULE MCEndpoints ----------------------------
(* What is reached over HTTP: ingest submissions with secrets, button cards  *)
(* of the agent relay and the enrolment of its clients, desktops and their   *)
(* viewers.  A behaviour takes the steps of one part; the others keep their  *)
(* initial state, so the state spaces add up.                                *)
EXTENDS Ingest, RelayCard, RelayEnroll, Desktop, DesktopViewer, TLC

CONSTANTS Parts, a1, a2, a3, b1, b2, c1, p1, p2, u1, u2, x, yes, no, cancelled,
          e1, e2, k1, k2, d1, d2, t1

VARIABLE part

endpointVars == <<part, ingestVars, cardVars, vars, deskVars, viewerVars>>

EndpointsInit ==
    /\ part \in Parts
    /\ IngestInit /\ CardInit /\ Init /\ DeskInit /\ ViewerInit

EndpointsNext ==
    /\ UNCHANGED part
    /\ \/ part = "ingest" /\ IngestNext /\ UNCHANGED <<cardVars, vars, deskVars, viewerVars>>
       \/ part = "card" /\ CardNext /\ UNCHANGED <<ingestVars, vars, deskVars, viewerVars>>
       \/ part = "enroll" /\ Next /\ UNCHANGED <<ingestVars, cardVars, deskVars, viewerVars>>
       \/ part = "desk" /\ DeskNext /\ UNCHANGED <<ingestVars, cardVars, vars, viewerVars>>
       \/ part = "viewer" /\ ViewerNext /\ UNCHANGED <<ingestVars, cardVars, vars, deskVars>>

EndpointsSpec == EndpointsInit /\ [][EndpointsNext]_endpointVars

\* The sets the parts share are interchangeable, member by member.
Symm == Permutations({a1, a2, a3}) \cup Permutations({b1, b2})
=============================================================================
