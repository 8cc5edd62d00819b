------------------------------- MODULE MCBoot -------------------------------
(***************************************************************************)
(* Sixteen frames of 32 bytes, one page each; the identity map fills both  *)
(* tables, as in the kernel, or ends inside the second, or its size wraps  *)
(* and it has one page. The kernel is in frame 1, the loader's tables in   *)
(* frame 0, the initrd in a frame inside or outside the map, and the       *)
(* available memory has 0 to 6 frames, inside, across or outside the map.  *)
(* Initrds hold up to four files, whose segments take every branch of the  *)
(* loader.                                                                 *)
(***************************************************************************)
EXTENDS Boot

Environment(mods, first, last) ==
    [has_mmap |-> TRUE, mmap |-> {[addr |-> first * 32, len |-> (last - first + 1) * 32, type |-> 1]},
     mmap_addr |-> 0, mmap_length |-> 8, has_mods |-> mods # {}, mods |-> mods, mods_addr |-> 8,
     mbi_addr |-> 16, kernel_start |-> 32, kernel_end |-> 60]

In(frame) == {[mod_start |-> frame * 32, mod_end |-> (frame + 1) * 32]}

MCBoots ==
    {Environment(m, 3, last) : m \in {In(2), In(7)}, last \in {2, 3, 5, 8}}
    \cup {Environment({}, 3, 4), Environment(In(2), 8, 9), Environment(In(4), 3, 6)}

Seg(type, offset, vaddr, filesz, memsz) ==
    [p_type |-> type, p_offset |-> offset, p_vaddr |-> vaddr, p_filesz |-> filesz, p_memsz |-> memsz]

File(name, entry, segs) ==
    [name |-> name, size |-> 12, ident |-> TRUE, e_type |-> "ET_EXEC", e_entry |-> entry,
     e_phoff |-> 4, e_phnum |-> Len(segs), e_phentsize |-> 2, phdr |-> segs]

\* File bytes and zeros, at an address inside the map.
First == Seg("PT_LOAD", 8, 160, 4, 6)

Segments ==
    {First,
     Seg("PT_LOAD", 9, 163, 3, 3),      \* overlaps the first
     Seg("PT_LOAD", 0, 188, 2, 4),      \* ends with the map
     Seg("PT_LOAD", 4, 190, 4, 4),      \* crosses the map's limit
     Seg("PT_LOAD", 4, 40, 2, 20),      \* on the kernel
     Seg("PT_LOAD", 2, 24, 2, 2),       \* below the first megabyte
     Seg("PT_LOAD", 2, 508, 2, 24),     \* wraps around in memory
     Seg("PT_LOAD", 510, 160, 4, 6),    \* wraps around in the file
     Seg("PT_LOAD", 8, 160, 5, 6),      \* not in the file
     Seg("PT_LOAD", 8, 160, 4, 3),      \* larger in the file than in memory
     Seg("PT_LOAD", 0, 164, 0, 29),     \* larger than a payload
     Seg("PT_LOAD", 0, 160, 0, 0),
     Seg("PT_NOTE", 0, 160, 4, 4)}

Programs(name) ==
    {File(name, e, <<s>>) : e \in {161, 165, 509}, s \in Segments}
    \cup {File(name, 164, <<s, t>>) : s \in Segments, t \in Segments}

Good(name) == File(name, 165, <<Seg("PT_LOAD", 0, 164, 2, 4), Seg("PT_LOAD", 6, 168, 4, 12)>>)

Bad ==
    {[Good("init") EXCEPT !.ident = FALSE], [Good("init") EXCEPT !.e_type = "ET_REL"],
     [Good("init") EXCEPT !.size = 3], [Good("init") EXCEPT !.e_phnum = 0, !.phdr = <<>>],
     [Good("init") EXCEPT !.e_phentsize = 1], [Good("init") EXCEPT !.e_phoff = 10],
     [Good("init") EXCEPT !.e_phoff = 509]}

MCDisks ==
    {<<>>, <<Good("a"), Good("b"), Good("c"), Good("d")>>}
    \cup {<<f>> : f \in Programs("init")}
    \cup {<<f, Good("b")>> : f \in Bad \cup {File("init", 0, <<First, s>>) : s \in Segments}}

MCFlags ==
    {[paging |-> p, exec |-> v, vaddr |-> v] : p, v \in BOOLEAN}
=============================================================================
