----------------------------- MODULE MCMcpPool -----------------------------
(* The pool with one server and two operations of one session at once, as  *)
(* in a batch of tool calls.                                               *)
EXTENDS McpPool

CONSTANTS m1, m2

TwoCallers == {m1, m2}
OneSession == {"a"}
Together == [m \in TwoCallers |-> "a"]
=============================================================================
