------------------------------ MODULE MC_Leases ------------------------------
(***************************************************************************)
(* A small instance of SharedTables.                                       *)
(***************************************************************************)
EXTENDS SharedTables, TLC

\* Two documents of one kind, a second apart.
TwoTimes == <<1, 2>>
TwoKeys  == <<"ssh", "ssh">>

\* A change report lets every record through, or is filtered by severity, which leaves alerts out.
Scopes == {{"alert", "finding", "analysis"}, {"finding", "analysis"}}
=============================================================================
