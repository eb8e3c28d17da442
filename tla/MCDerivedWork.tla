---------------------------- MODULE MCDerivedWork ----------------------------
(* Two hosts, two stages, and room for two publications.                 *)
EXTENDS DerivedWork, TLC

CONSTANTS h1, h2, s1, s2

MCSymmetry == Permutations({h1, h2}) \cup Permutations({s1, s2})
=============================================================================
