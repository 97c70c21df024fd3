------------------------------- MODULE MCApn --------------------------------
(* Small APN tables for ApnManager. *)
EXTENDS ApnManager

Row(id, apn, types, proto) ==
    [id |-> id, apn |-> apn, types |-> types, proto |-> proto, opt |-> "", mvno |-> FALSE,
     edited |-> FALSE]

DunAndDefault == <<"dun", "default">>

\* Rows that merge, with the preferred one among them; a row for an MVNO; one that the
\* user edited; types in capitals.
MergeTable == <<Row(1, "a", {"mms"}, "IP"), Row(2, "b", {"default", "ia"}, "IP"),
                [Row(3, "a", {"default", "dun"}, "IPV4V6") EXCEPT !.edited = TRUE]>>
MvnoTable  == <<Row(1, "b", {"DEFAULT"}, "IP"), [Row(2, "a", {"default"}, "IP") EXCEPT !.mvno = TRUE],
                [Row(3, "c", {"dun", "*"}, "IP") EXCEPT !.mvno = TRUE]>>

\* The last row is similar to the others, which are not similar to each other.
ChainTable == <<Row(1, "a", {"mms"}, "IPV6"), Row(2, "a", {"default"}, "IP"),
                Row(3, "a", {"dun"}, "IPV4V6")>>

SomeTables == {MergeTable, MvnoTable}
ChainTables == {ChainTable}
=============================================================================
