-------------------------- MODULE MCSwarmMutation --------------------------
(* Three requests for one key: a mutation and two retries of it.           *)
EXTENDS SwarmMutation

CONSTANTS r1, r2, r3, k1

MCReq == {r1, r2, r3}
MCKey == {k1}
MCSameKey == [r \in MCReq |-> k1]
=============================================================================
