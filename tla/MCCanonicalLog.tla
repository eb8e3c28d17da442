--------------------------- MODULE MCCanonicalLog ---------------------------
(* One bracket with two sets of dimensions, one plain feature, and one user   *)
(* name, which collides with the name the recorder derives for a restore at   *)
(* ordinal 4.  The value 4 is more than a length of 3, so that an   *)
(* edited thickness can be one that cannot be built.                          *)
EXTENDS CanonicalLog

CONSTANTS l, note

MCBracket == {l}
MCDims == {[length |-> 3, width |-> 2, height |-> 2, thickness |-> 1],
           [length |-> 4, width |-> 3, height |-> 2, thickness |-> 1]}
MCValue == {0, 4}
MCUserName == {AutoName("restore", 4)}
MCLoose == {note}
MCLooseKind == {"box"}
MCEditPart == {"base", "ibase"}
=============================================================================
