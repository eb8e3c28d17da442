---------------------------- MODULE TerminalParts ----------------------------
(* The two parts of a terminal session, over the constants they share: the    *)
(* state machine TuiSession (T) and the attachment that draws (R).  Terminal  *)
(* lets any caller drive each of them alone; Interactive is the event loop    *)
(* that drives both.                                                          *)
EXTENDS Naturals, Sequences, FiniteSets

CONSTANTS
  Features, Graphs, Tools, NoTool, Commands, NoCommand, Names,   \* of the session
  Frames, NoFrame,                                               \* of the attachment
  MaxRevision, MaxGeneration, MaxToken                           \* bounds

T == INSTANCE TuiSession
R == INSTANCE Renderer

ASSUME PartsAssumption == T!SessionAssumption /\ R!RendererAssumption
===============================================================================
