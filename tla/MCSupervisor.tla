---------------------------- MODULE MCSupervisor ----------------------------
(* What the worker can write and what else can happen.                     *)
EXTENDS Supervisor

MCWire == {"ready", "artifact", "completed", "cancelled", "bytes"}
MCEvents == {"stderr", "fork", "file", "cancel"}
=============================================================================
