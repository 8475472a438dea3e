--------------------------- MODULE MCRuntimePool ---------------------------
(* Small instances of RuntimePool for TLC. *)
EXTENDS RuntimePool

CONSTANTS l1, l2, p1, p2, p3, t1, t2, t3

OneLoop == {l1}
TwoLoops == {l1, l2}
TwoProfiles == {p1, p2}
ThreeProfiles == {p1, p2, p3}
TwoTasks == {t1, t2}
ThreeTasks == {t1, t2, t3}
=============================================================================
