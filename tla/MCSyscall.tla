----------------------------- MODULE MCSyscall ------------------------------
(***************************************************************************)
(* Syscall and SelfTests: three descriptors, a file of three bytes, an     *)
(* empty one and a name that does not exist.                               *)
(***************************************************************************)
EXTENDS SelfTests

MCContent == [f |-> <<"x", "y", "z">>, empty |-> <<>>]

MCBytes == {"x", "y", "z"}

MCPaths == {"f", "empty", "missing"}

MCOffsets == {-4, -3, -1, 0, 1, 3, 4}
=============================================================================
