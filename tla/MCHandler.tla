----------------------------- MODULE MCHandler ------------------------------
(* Small instances of CellularDataHandler for TLC: the APN holders by          *)
(* priority, and the types their APN items can deal with.                      *)
EXTENDS CellularDataHandler

SortOne  == <<"default">>
SortMms  == <<"mms", "default">>
SortDun  == <<"dun", "default">>
SortSupl == <<"mms", "supl", "default">>

\* PRIORITY_LOW of default, and PRIORITY_NORMAL of mms, dun and supl.
MCPriority == [a \in Apns |-> IF a = "default" THEN 1 ELSE 2]

AllRequests == Apns \X BOOLEAN
AllOn       == Apns \X {TRUE}

\* No definition compares cids but for equality.
AnyCid == Permutations(Cids)

\* The APN item of default serves dun as well; any other serves its own type only.
MCServes == [a \in Apns |-> IF a = "default" THEN {"default", "dun"} \cap Apns ELSE {a}]
=============================================================================
