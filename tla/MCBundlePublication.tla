------------------------ MODULE MCBundlePublication ------------------------
(* Two processes and three transactions: two that share an idempotency key *)
(* (a retry and a conflicting reuse) and one without a key.                *)
EXTENDS BundlePublication, TLC

CONSTANTS p1, p2, retried, reused, plain, k1

MCProc == {p1, p2}
MCTxn == {retried, reused, plain}
MCKeyOf == (retried :> k1) @@ (reused :> k1) @@ (plain :> NoKey)
=============================================================================
