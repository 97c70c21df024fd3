--------------------------- MODULE MCStateMachine ---------------------------
(* Small instances of CellularDataStateMachine for TLC. *)
EXTENDS CellularDataStateMachine
=============================================================================
