---- MODULE MCInteractive ----
(* A bundle whose second revision drops its feature and whose third has it again. *)
EXTENDS Interactive

CONSTANTS f, select, orbit

MCFeatures == {f}
MCGraphs == {<<>>, <<f>>}
MCGraph == [r \in 1..MaxRevision |-> IF r = 2 THEN <<>> ELSE <<f>>]
MCTools == {select, orbit}
MCCommands == {"extrude", "model", "save", "load", "validate", "export"}
MCNames == {}
MCFrames == [generation : 0..MaxGeneration, scene : Scenes]
====
