---------------------------- MODULE MCSwarmTasks ----------------------------
(* Instances of SwarmTasks: two tasks, the second blocked by the first.    *)
EXTENDS SwarmTasks

CONSTANTS q1, q2, q3, w1, w2

TwoReqs == {q1, q2}
ThreeReqs == {q1, q2, q3}
TwoSessions == {w1, w2}
AttendedSessions == {w2}
OneTask == {1}
TwoTasks == {1, 2}
Chain == [t \in TwoTasks |-> IF t = 2 THEN {1} ELSE {}]
Single == [t \in OneTask |-> {}]
AllActions == RequestKind
HandOffs == {"assign_any", "resume", "replace"}
=============================================================================
