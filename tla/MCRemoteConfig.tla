--------------------------- MODULE MCRemoteConfig ---------------------------
(***************************************************************************)
(* A gateway with connector a (as a1 or a2), to which b may be added.       *)
(***************************************************************************)
EXTENDS RemoteConfig, TLC

CONSTANTS a1, a2, b1, r1, r2

MCName     == [d \in Definitions |-> IF d = b1 THEN "b" ELSE "a"]
MCRevision == (r1 :> 1) @@ (r2 :> 2)
MCValid    == SUBSET Definitions
MCInitial  == {{a1}}

AddAndRemove  == (r1 :> [action |-> "connector_add", list |-> {b1}])
              @@ (r2 :> [action |-> "connector_remove", list |-> {a1}])

FullAndUpdate == (r1 :> [action |-> "full_update", list |-> {a1, b1}])
              @@ (r2 :> [action |-> "connector_update", list |-> {a2}])

=============================================================================
