----------------------------- MODULE MCScanHistory -----------------------------
(* Two profiles, of which one has a check; or that one alone. *)
EXTENDS ScanHistory

MCTwo   == {"cis", "stig"}
MCOne   == {"cis"}
MCOneOf == [c \in MCOne |-> c]
=============================================================================
