------------------------------ MODULE MCIncall ------------------------------
(* Model-checking instance of IncallDataStateMachine.                      *)
EXTENDS IncallDataStateMachine
=============================================================================
