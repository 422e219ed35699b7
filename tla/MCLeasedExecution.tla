------------------------- MODULE MCLeasedExecution -------------------------
(* Leases and keys for the run of LeasedExecution. *)
EXTENDS LeasedExecution, TLC

CONSTANTS l1, l2

TwoLeases == {l1, l2}

GlobalAndTenant == {"global", "tenant"}

SameTenant == [l \in Leases |-> <<"global", "tenant">>]

TwoThenOne == ("global" :> 2) @@ ("tenant" :> 1)

=============================================================================
