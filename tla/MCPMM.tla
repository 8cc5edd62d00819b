------------------------------- MODULE MCPMM -------------------------------
(***************************************************************************)
(* Nine frames of four bytes, two of them low memory.  The boot            *)
(* environments vary the unaligned bounds of the available memory, the end *)
(* of the kernel, the modules and where the loader put its tables; one     *)
(* entry reaches beyond the address space.                                 *)
(***************************************************************************)
EXTENDS PMM

Entry(a, l, t) == [addr |-> a, len |-> l, type |-> t]

MCBoots ==
    {[has_mmap |-> mm, mods |-> m, has_mods |-> m # {},
      mmap |-> {Entry(0, 6, 1), Entry(l, 29 - l, 1), Entry(29, 4, 2),
                Entry(33, x, 1)},
      mmap_addr |-> t, mmap_length |-> 2, mods_addr |-> 2, mbi_addr |-> t + 1,
      kernel_start |-> 8, kernel_end |-> k] :
        mm \in BOOLEAN, l \in {7, 8, 9}, x \in {2, 40}, t \in {1, 15, 31},
        k \in {8, 12, 13},
        m \in {{}, {[mod_start |-> 19, mod_end |-> 21]},
               {[mod_start |-> 20, mod_end |-> 20],
                [mod_start |-> 16, mod_end |-> 17]}}}
=============================================================================
