------------------------------- MODULE MCHeap -------------------------------
(***************************************************************************)
(* Frames of 64 bytes, so that a fresh block has a 52-byte payload: two    *)
(* adjacent frames and one apart from them.  Low memory, the kernel and    *)
(* the boot tables take frames 0 and 1.                                    *)
(***************************************************************************)
EXTENDS Heap

MCBoots ==
    {[has_mmap |-> TRUE, has_mods |-> FALSE, mods |-> {},
      mmap |-> {[addr |-> 0, len |-> 256, type |-> 1],
                [addr |-> 310, len |-> 100, type |-> 1]},
      mmap_addr |-> 0, mmap_length |-> 24, mods_addr |-> 0, mbi_addr |-> 24,
      kernel_start |-> 64, kernel_end |-> 100]}
=============================================================================
