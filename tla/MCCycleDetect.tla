--------------------------- MODULE MCCycleDetect ---------------------------
(* Every dependency graph over three ids, with ids missing from the plan,  *)
(* self-dependencies and cycles, and items in three kinds of status.       *)
EXTENDS CycleDetect

MCId == 1..3

MCItem == [status : {"queued", "done", "running"}, priority : {"medium"},
           blocked_by : SUBSET MCId, assigned_to : {None}]

MCPlans == UNION {[S -> MCItem] : S \in {{1, 2}, {1, 2, 3}}}
=============================================================================
