------------------------------ MODULE DataCall ------------------------------
(***************************************************************************)
(* What a data-connection state machine promises to CellularDataHandler:   *)
(* data calls, one after the other, numbered by sessions.  A call that was *)
(* opened is reported as established at most once, never after it began to *)
(* close, and it ends with exactly one disconnection report, whatever made *)
(* it end.  The reports reach the handler in the order they were made.     *)
(***************************************************************************)
EXTENDS Integers, Sequences

CONSTANT Machines

VARIABLES phase,    \* "idle", "opening", "up" or "closing"
          session,  \* the number of the call that is open, or of the next one
          reports   \* the reports the handler has not taken yet

dcVars == <<phase, session, reports>>

DCInit ==
    /\ phase = [m \in Machines |-> "idle"]
    /\ session = [m \in Machines |-> 1]
    /\ reports = [m \in Machines |-> <<>>]

Tell(m, kind) ==
    reports' = [reports EXCEPT ![m] = Append(@, [kind |-> kind, session |-> session[m]])]

Open(m) ==
    /\ phase[m] = "idle"
    /\ phase' = [phase EXCEPT ![m] = "opening"]
    /\ UNCHANGED <<session, reports>>

Up(m) ==
    /\ phase[m] = "opening"
    /\ phase' = [phase EXCEPT ![m] = "up"]
    /\ Tell(m, "ESTABLISHED")
    /\ UNCHANGED session

Close(m) ==
    /\ phase[m] \in {"opening", "up"}
    /\ phase' = [phase EXCEPT ![m] = "closing"]
    /\ UNCHANGED <<session, reports>>

End(m) ==
    /\ phase[m] # "idle"
    /\ phase' = [phase EXCEPT ![m] = "idle"]
    /\ session' = [session EXCEPT ![m] = @ + 1]
    /\ Tell(m, "DISCONNECTED")

Take(m) ==
    /\ reports[m] # <<>>
    /\ reports' = [reports EXCEPT ![m] = Tail(@)]
    /\ UNCHANGED <<phase, session>>

DCNext == \E m \in Machines : Open(m) \/ Up(m) \/ Close(m) \/ End(m) \/ Take(m)

DCSpec == DCInit /\ [][DCNext]_dcVars
=============================================================================
