------------------------- MODULE MCGovernedCommands -------------------------
(***************************************************************************)
(* Two commands for one device, the policy of epoch 1 that allows them and  *)
(* the policy of epoch 2 that reissues the same controls.                   *)
(***************************************************************************)
EXTENDS GovernedCommands, TLC

CONSTANTS c1, c2, d1

MCDevice       == (c1 :> d1) @@ (c2 :> d1)
MCSequence     == (c1 :> 1) @@ (c2 :> 2)
OneEpoch       == (c1 :> 1) @@ (c2 :> 1)
TwoEpochs      == (c1 :> 1) @@ (c2 :> 2)
Enabling       == [epoch |-> 1, controls |-> {c1, c2}]
Reissued       == [epoch |-> 2, controls |-> {c1, c2}]
OnePolicy      == {Enabling}
TwoPolicies    == {Enabling, Reissued}

ThreadSymmetry == Permutations(Threads)

=============================================================================
