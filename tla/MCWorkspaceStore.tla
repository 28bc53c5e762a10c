-------------------------- MODULE MCWorkspaceStore --------------------------
(***************************************************************************)
(* Model checking of WorkspaceStore on a workspace of four paths, one a    *)
(* directory for another, and its refinement of WorkspaceCAS.              *)
(***************************************************************************)
EXTENDS WorkspaceStore

MCPath  == {"a", "a/b", "c", "d"}
MCAbove == [p \in MCPath |-> IF p = "a/b" THEN {"a"} ELSE {}]
MCSize  == [c \in Content |-> c]

Put(p, b)     == [kind |-> "create", path |-> p, body |-> b, tag |-> b]
Swap(p, t, b) == [kind |-> "update", path |-> p, body |-> b, tag |-> t]
Del(p, t)     == [kind |-> "delete", path |-> p, body |-> Absent, tag |-> t]
Get(p)        == [kind |-> "read", path |-> p, body |-> Absent, tag |-> Absent]
List          == [kind |-> "list", path |-> "c", body |-> Absent, tag |-> Absent]

MCRequest ==
  {Put("a", 1), Put("a/b", 1), Put("c", 1), Put("c", 2), Put("c", 3), Put("d", 1),
   Swap("a", 1, 2), Swap("a", 2, 1), Swap("a/b", 1, 2),
   Del("a", 1), Del("a", 2), Del("c", 2), Get("a"), List}
=============================================================================
