----------------------------- MODULE MCHarness -----------------------------
(***************************************************************************)
(* An organization with a connector of somebody's and one left by a crash. *)
(***************************************************************************)
EXTENDS Harness, TLC

MCOrgBefore ==
  1 :> [kind |-> "connector", by |-> People, suffix |-> 0]
    @@ 2 :> [kind |-> "connector", by |-> Prior, suffix |-> 0]

\* Service accounts are left out: in this model they are like connectors.
MCSweepOrder == <<"connector", "chat", "key">>

TestSymmetry == Permutations(Test)
=============================================================================
