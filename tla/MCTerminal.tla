---- MODULE MCTerminal ----
(* A small session (two features, the second of which one of the two graphs   *)
(* lacks), and a renderer with frames of three generations, submitted in any  *)
(* order.                                                                     *)
EXTENDS Terminal

CONSTANTS f1, f2, orbit, pan, extrude, r

MCFeatures == {f1, f2}
MCGraphs == {<<f1>>, <<f1, f2>>}
MCTools == {orbit, pan}
MCCommands == {extrude}
MCNames == {r}
MCFrames == [generation : 0..2]
====
