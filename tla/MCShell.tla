------------------------------ MODULE MCShell -------------------------------
(***************************************************************************)
(* Shell on a screen of five lines of two cells, where a line wraps and    *)
(* scrolls while it is typed.  The files are named after commands, which   *)
(* saves tokens: against a buffer of two bytes, one is odd, one even and   *)
(* one empty.                                                              *)
(***************************************************************************)
EXTENDS Shell

MCContent ==
    (<<"help">> :> <<"x", "\n", "y">>) @@ (<<"ls">> :> <<"x", "y">>) @@ (<<"cd">> :> <<>>)

MCNames == <<<<"help">>, <<"ls">>, <<"cd">>>>

MCBytes == {"x", "y", "\n"}

MCDriveOf == ("b:" :> "B")
=============================================================================
