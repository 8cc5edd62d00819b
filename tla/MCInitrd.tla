------------------------------ MODULE MCInitrd ------------------------------
(***************************************************************************)
(* Archives of up to three members: empty files, payloads that just fill a *)
(* block or spill over, other members with and without a payload,          *)
(* duplicate names, names that fill their field or a caller's buffer, and  *)
(* every place where the module may be cut off.  Headers have four bytes   *)
(* and a word holds 64 values.  In Wrapping, sizes take a walk back by a   *)
(* block (56), nowhere (57), one block on (62) or, cut to a word, into     *)
(* their own payload (68), where it finds data or another header.          *)
(***************************************************************************)
EXTENDS Queries

Member(name, regular, size) == [name |-> name, regular |-> regular, size |-> size]

Image(archive, size, data) ==
    [present |-> TRUE, archive |-> archive, size |-> size, data |-> data]

Absent == [present |-> FALSE, archive |-> <<>>, size |-> 0, data |-> <<>>]

Lists(members, max) == UNION {[1 .. n -> members] : n \in 0 .. max}

Images(members) == {Absent} \cup {Image(a, s, <<>>) : a \in Lists(members, 3), s \in 0 .. 30}

Files(names, sizes) == {Member(name, TRUE, size) : name \in names, size \in sizes}

Others == {Member(<<"d">>, FALSE, 0), Member(<<"d", "e">>, FALSE, 5)}

Wrapping ==
    LET members == Files({<<"d">>}, {0, 5, 40, 56, 57, 62, 68})
    IN  {Image(a, s, d) : a \in Lists(members, 2), s \in {4, 8, 15, 24, 63},
                          d \in {<<>>} \cup {<<m>> : m \in members}}

MCModules ==
    Images(Files({<<"d">>, <<"d", "e">>, <<"e", "f", "g">>}, {0, 4, 5}) \cup Others)
    \cup Wrapping

LongNames == Images(Files({<<"d">>, <<"d", "e", "f">>}, {0, 5}) \cup Others)

MCPrefixes == {<<>>, <<"d">>, <<"d", "e">>}
=============================================================================
