------------------------- MODULE MCBundleDurability -------------------------
(* The instance of MCBundlePublication, on a disk that can lose power.     *)
EXTENDS BundleDurability, TLC

CONSTANTS p1, p2, retried, reused, plain, k1

MCProc == {p1, p2}
MCTxn == {retried, reused, plain}
MCKeyOf == (retried :> k1) @@ (reused :> k1) @@ (plain :> NoKey)
Symmetry == Permutations(MCProc)
=============================================================================
