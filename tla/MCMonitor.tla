----------------------------- MODULE MCMonitor ------------------------------
(* Model-checking instance of DataConnectionMonitor.                       *)
EXTENDS DataConnectionMonitor
=============================================================================
