------------------------------- MODULE MCSetup -------------------------------
(* Two admins and two clients; neither the ones nor the others differ. *)
EXTENDS Setup, TLC

Symmetric == Permutations(Admin) \union Permutations(Name)
=============================================================================
