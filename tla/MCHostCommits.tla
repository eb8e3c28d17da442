---------------------------- MODULE MCHostCommits ----------------------------
(* Two hosts that share one draft id, two sets of dimensions, and room for  *)
(* three entries after the two of the bracket's creation.                   *)
EXTENDS HostCommits, TLC

CONSTANTS h1, h2, d1, small, large

MCSymmetry == Permutations({h1, h2})
=============================================================================
