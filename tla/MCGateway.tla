------------------------------ MODULE MCGateway ------------------------------
(***************************************************************************)
(* Gateway on small instances.  Handler slots and accounts are             *)
(* interchangeable; token ids are not, add_token() fills the lowest.       *)
(***************************************************************************)
EXTENDS Gateway, TLC

Symmetry == Permutations(Requests) \cup Permutations(Accounts)
=============================================================================
