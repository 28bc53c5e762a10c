-------------------------- MODULE MCManagementConsole --------------------------
(***************************************************************************)
(* Model checking of ManagementConsole: the requests of the page are       *)
(* interchangeable.                                                        *)
(***************************************************************************)
EXTENDS ManagementConsole

Symmetry == Permutations(Request)
================================================================================
