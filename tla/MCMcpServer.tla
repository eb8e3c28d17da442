----------------------------- MODULE MCMcpServer -----------------------------
(* Two requests of any kind in any order, two cancellations or bad frames,   *)
(* queues of two places, so that they fill, and room for one kept            *)
(* cancellation, so that a second one finds none.                            *)
EXTENDS McpServer, TLC

CONSTANTS r1, r2

MCIds == {r1, r2}
=============================================================================
