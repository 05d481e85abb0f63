----------------------------- MODULE MCPolicyLease -----------------------------
(* Two of the three roles and one microphone beside the cable, see README.   *)
EXTENDS PolicyLease

TwoRoles == <<"Console", "Communications">>
=============================================================================
