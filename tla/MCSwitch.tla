------------------------------ MODULE MCSwitch ------------------------------
(* DataSwitch for one slot with the holders of default and MMS. *)
EXTENDS DataSwitch
MCSort == <<"mms", "default">>
MCPolicies == {"", "disallow", "force_open"}
MCChanges == ChangeKinds
=============================================================================
