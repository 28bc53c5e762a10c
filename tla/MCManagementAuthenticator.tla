--------------------- MODULE MCManagementAuthenticator ---------------------
(***************************************************************************)
(* Model checking of ManagementAuthenticator: logins and records are       *)
(* interchangeable.                                                        *)
(***************************************************************************)
EXTENDS ManagementAuthenticator, TLC

Symmetry == Permutations(Login) \cup Permutations(Object)
=============================================================================
