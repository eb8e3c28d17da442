----------------------------- MODULE MCRootGap ------------------------------
(* The instance of MCBundlePublication without the reused key, what the    *)
(* host does beside it, and a project of the prior epoch.                   *)
EXTENDS Migration, TLC

CONSTANTS p1, p2, retried, plain, k1

MCProc == {p1, p2}
MCTxn == {retried, plain}
MCKeyOf == (retried :> k1) @@ (plain :> NoKey)
Symmetry == Permutations(MCProc)
=============================================================================
