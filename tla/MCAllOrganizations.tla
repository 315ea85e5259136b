-------------------------- MODULE MCAllOrganizations --------------------------
(* An instance of AllOrganizations for TLC. *)
EXTENDS AllOrganizations

MCWalletsOf == [o \in Orgs |-> IF o = "o1" THEN <<"w1", "w2">> ELSE IF o = "o2" THEN <<"w3">> ELSE <<>>]
MCEntries == {<<>>, <<"o1", "none", "o2">>, <<"o2", "o3", "o1">>, <<"o3", "o1", "o2", "o3">>}

Revoked == [kind |-> "auth", message |-> "revoked"]
MCFailures == {Revoked, [kind |-> "api", message |-> "busy"], [kind |-> "api", message |-> "refused"]}

=============================================================================
