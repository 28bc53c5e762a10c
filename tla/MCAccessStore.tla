---------------------------- MODULE MCAccessStore ----------------------------
(***************************************************************************)
(* Model checking of AccessStore: one user with two keys.                  *)
(***************************************************************************)
EXTENDS AccessStore, TLC

MCOwner == [k \in Key |-> CHOOSE u \in User : TRUE]

Symmetry == Permutations(Key)
=============================================================================
