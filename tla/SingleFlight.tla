---------------------------- MODULE SingleFlight ----------------------------
(***************************************************************************)
(* What the connection pool promises about concurrent attempts, without    *)
(* its locks, maps and notifications: for each key one attempt is under    *)
(* way at a time, led by one caller; who asks meanwhile joins it, and is   *)
(* served when that very attempt has landed and not before.  An attempt    *)
(* whose leader quits never lands.                                         *)
(***************************************************************************)
CONSTANTS Keys, Callers

VARIABLES flying,  \* the keys for which an attempt is under way
          role     \* of each caller, for each key

Roles == {"out", "lead", "wait", "served"}

FInit ==
    /\ flying = {}
    /\ role = [c \in Callers |-> [k \in Keys |-> "out"]]

Lead(c, k) ==
    /\ role[c][k] = "out" /\ k \notin flying
    /\ flying' = flying \cup {k}
    /\ role' = [role EXCEPT ![c][k] = "lead"]

Join(c, k) ==
    /\ role[c][k] = "out" /\ k \in flying
    /\ role' = [role EXCEPT ![c][k] = "wait"]
    /\ UNCHANGED flying

Land(c, k) ==
    /\ role[c][k] = "lead"
    /\ flying' = flying \ {k}
    /\ role' = [d \in Callers |-> [role[d] EXCEPT ![k] =
                    IF d = c THEN "out" ELSE IF @ = "wait" THEN "served" ELSE @]]

Leave(c, k) ==
    /\ role[c][k] = "served"
    /\ role' = [role EXCEPT ![c][k] = "out"]
    /\ UNCHANGED flying

Quit(c) ==
    /\ role' = [role EXCEPT ![c] = [k \in Keys |-> "out"]]
    /\ UNCHANGED flying

FNext ==
    \/ \E c \in Callers, k \in Keys : Lead(c, k) \/ Join(c, k) \/ Land(c, k) \/ Leave(c, k)
    \/ \E c \in Callers : Quit(c)

FSpec == FInit /\ [][FNext]_<<flying, role>>
=============================================================================
