-------------------------- MODULE MCTaskLifecycle --------------------------
(* TaskLifecycle for TLC *)
EXTENDS TaskLifecycle

CONSTANTS d1, s1, v1, v2, k1, k2, h1, h2

MCThreeCalls == {d1, v1, v2}
MCTwoCalls == {d1, s1}
MCEntryOf == [c \in Calls |-> CASE c = s1 -> "resume" [] c = d1 -> "develop" [] OTHER -> "review"]
MCOneCall == {d1}
MCNoCalls == {}
MCResumes == {s1}
MCTwoControllers == {k1, k2}
MCCtrlOf == [c \in Calls |-> IF c \in {d1, v1} THEN k1 ELSE k2]
MCOneHost == {h1}
MCTwoHosts == {h1, h2}
MCSameHost == [k \in Controllers |-> h1]
MCHostEach == [k \in Controllers |-> IF k = k1 THEN h1 ELSE h2]
MCNoHost == {}
=============================================================================
