------------------------ MODULE MCSwarmPersistence ------------------------
(* One task, one or two sessions, operations that save while others and    *)
(* the sweep do, and the restarts each question needs.                     *)
EXTENDS SwarmPersistence
=============================================================================
