--------------------------- MODULE MCTenantAccess ---------------------------
(* A small instance of TenantAccess for TLC. *)
EXTENDS TenantAccess, TLC

MCAsked == {<<"extension", "PATCH">>, <<"tenant", "POST">>}

Symmetry == Permutations(Users) \cup Permutations(Orgs) \cup Permutations(Domains)
              \cup Permutations(Clis)
=============================================================================
