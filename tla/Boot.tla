-------------------------------- MODULE Boot --------------------------------
(***************************************************************************)
(* kernel_main (kernel/kmain.c) from pmm_init to the shell: the memory     *)
(* manager, the heap, the page tables, the memory self test, the initrd's  *)
(* index and the ELF self test, in the order in which the kernel calls     *)
(* them and on the memory they share.  Interrupts are still off.           *)
(*                                                                         *)
(* Once paging is on, an access outside the identity map is a page fault,  *)
(* which isr_handler answers by halting.  A segment written over memory in *)
(* use ends the model's knowledge of the machine: nothing follows.         *)
(***************************************************************************)
EXTENDS Elf

CONSTANTS
    Flags,                      \* the builds: see Flag
    TestA, TestB, TestC,        \* the sizes the heap self test asks for
    EntrySize,                  \* sizeof(initrd_file_t)
    MaxImages                   \* bound on the loads the model keeps track of

\* PAGING_ENABLE_ON_BOOT, ELF_EXECUTE_ON_BOOT, ELF_VADDR_LOAD_ON_BOOT
Flag == [paging : BOOLEAN, exec : BOOLEAN, vaddr : BOOLEAN]

ASSUME BootAssumption ==
    /\ Flags \subseteq Flag
    /\ TestA \in Nat \ {0} /\ TestB \in Nat \ {0} /\ TestC \in Nat \ {0}
    /\ EntrySize \in Nat \ {0}
    /\ MaxImages \in Nat
    /\ \A b \in Boots : Cardinality(b.mods) <= 1

VARIABLES
    flags,          \* how this kernel was built
    phase,          \* where kernel_main is
    k,              \* its locals, and those of the self tests
    halted          \* isr_handler has stopped the machine

bootVars == <<flags, phase, k, halted>>

allVars == <<vars, pagingVars, elfVars, bootVars>>

\* before: the counter before the PMM test; a, b, c: the heap test's blocks;
\* table, ready: initrd_files, initrd_ready; i: the ELF test's loop.
Locals0 == [before |-> 0, pmm_test |-> "none", heap_test |-> "none", a |-> 0, b |-> 0, c |-> 0,
            table |-> 0, ready |-> FALSE, i |-> 0, exec |-> "none"]

BootInit ==
    /\ HeapInit
    /\ PagingInit
    /\ ElfInit
    /\ (boot.mods = {} => disk = <<>>)
    /\ flags \in Flags
    /\ phase = "pmm_init"
    /\ k = Locals0
    /\ halted = FALSE

At(p) == phase = p /\ pc = "idle" /\ elf.pc = "idle" /\ ~halted /\ ~clobbered

GoTo(p) == phase' = p /\ UNCHANGED <<flags, halted>>

loaderVars == <<disk, mem, elf, images, abandoned, clobbered>>
-----------------------------------------------------------------------------
kernel_main_pmm ==
    /\ At("pmm_init") /\ boot_memory /\ GoTo("heap_init")
    /\ UNCHANGED <<pagingVars, elfVars, k>>

kernel_main_heap ==
    /\ At("heap_init") /\ heap_init /\ GoTo("paging")
    /\ UNCHANGED <<pagingVars, elfVars, k>>

\* A build that turns paging on maps at least its own image.
kernel_main_paging ==
    /\ At("paging")
    /\ \E m \in MapSizes : /\ flags.paging => page_count(m) * PAGE_SIZE >= boot.kernel_end
                          /\ paging_prepare_identity(m)
    /\ GoTo(IF flags.paging THEN "paging_enable" ELSE "pmm_test")
    /\ UNCHANGED <<vars, elfVars, k>>

kernel_main_paging_enable ==
    /\ At("paging_enable") /\ paging_enable /\ GoTo("pmm_test")
    /\ UNCHANGED <<vars, elfVars, k>>

\* Where a heap call may touch memory for the first time since paging came on:
\* a frame it has just taken, or the head of the list.
Touched ==
    CASE pc \in {"init", "grow"} /\ FreeFrames # {} -> {Min(FreeFrames) * FrameSize}
      [] pc \in {"search", "coalesce"} /\ heap # <<>> -> {Head(heap).addr}
      [] OTHER -> {}

Faults(addresses) == \E a \in addresses : Translate(a) = Absent

\* What the heap call under way returns when it ends with this step.
Returned ==
    IF DOMAIN live' \subseteq DOMAIN live THEN 0 ELSE CHOOSE p \in DOMAIN live' : p \notin DOMAIN live

heap_step ==
    /\ ~halted /\ ~Faults(Touched)
    /\ Step
    /\ eax' = IF pc' = "idle" THEN Returned ELSE eax
    /\ UNCHANGED <<pagingVars, loaderVars, bootVars>>

\* isr_handler with vector 14: the frame is already taken from the PMM, its
\* header is not written.
page_fault ==
    /\ ~halted /\ pc # "idle" /\ Faults(Touched)
    /\ IF pc \in {"init", "grow"} THEN pmm_alloc_frame ELSE UNCHANGED pmmVars
    /\ halted' = TRUE
    /\ UNCHANGED <<heapVars, pagingVars, elfVars, flags, phase, k>>
-----------------------------------------------------------------------------
\* run_memory_smoke_tests: the PMM's test keeps the frame if the counter is wrong.
pmm_test_alloc ==
    /\ At("pmm_test") /\ pmm_alloc_frame
    /\ LET fails == ret' = 0 \/ pmm'.free_frames + 1 # pmm.free_frames
       IN  /\ k' = [k EXCEPT !.before = pmm.free_frames, !.pmm_test = IF fails THEN "FAIL" ELSE @]
           /\ GoTo(IF fails THEN "kmalloc_a" ELSE "pmm_test_free")
    /\ UNCHANGED <<heapVars, pagingVars, elfVars>>

pmm_test_free ==
    /\ At("pmm_test_free") /\ pmm_free_frame(ret) /\ GoTo("kmalloc_a")
    /\ k' = [k EXCEPT !.pmm_test = IF pmm'.free_frames = k.before THEN "OK" ELSE "FAIL"]
    /\ UNCHANGED <<heapVars, pagingVars, elfVars>>

\* The heap's test: a and b, free a, c, free b and c.  Each step but
\* the first begins with the result of the call before it.
heap_test_kmalloc_a ==
    /\ At("kmalloc_a") /\ kmalloc(TestA) /\ GoTo("kmalloc_b")
    /\ UNCHANGED <<pagingVars, elfVars, k>>

heap_test_kmalloc_b ==
    /\ At("kmalloc_b") /\ kmalloc(TestB) /\ GoTo("kfree_a")
    /\ k' = [k EXCEPT !.a = eax]
    /\ UNCHANGED <<pagingVars, elfVars>>

\* The early return leaves the block that was allocated.
heap_test_fails ==
    /\ At("kfree_a") /\ (k.a = 0 \/ eax = 0) /\ GoTo("initrd")
    /\ k' = [k EXCEPT !.b = eax, !.heap_test = "FAIL"]
    /\ UNCHANGED <<vars, pagingVars, elfVars>>

heap_test_kfree_a ==
    /\ At("kfree_a") /\ k.a # 0 /\ eax # 0 /\ kfree(k.a) /\ GoTo("kmalloc_c")
    /\ k' = [k EXCEPT !.a = 0, !.b = eax]
    /\ UNCHANGED <<pagingVars, elfVars>>

heap_test_kmalloc_c ==
    /\ At("kmalloc_c") /\ kmalloc(TestC) /\ GoTo("kfree_b")
    /\ UNCHANGED <<pagingVars, elfVars, k>>

heap_test_kfree_b ==
    /\ At("kfree_b") /\ kfree(k.b) /\ GoTo("kfree_c")
    /\ k' = [k EXCEPT !.b = 0, !.c = eax, !.heap_test = IF eax = 0 THEN "FAIL" ELSE "OK"]
    /\ UNCHANGED <<pagingVars, elfVars>>

\* Mutant: the last block is not freed.
heap_test_kfree_c_leaks ==
    /\ At("kfree_c") /\ GoTo("initrd")
    /\ k' = [k EXCEPT !.c = 0]
    /\ UNCHANGED <<vars, pagingVars, elfVars>>

\* kfree(0) does nothing.
heap_test_kfree_c ==
    /\ At("kfree_c") /\ GoTo("initrd")
    /\ IF k.c = 0 THEN UNCHANGED vars ELSE kfree(k.c)
    /\ k' = [k EXCEPT !.c = 0]
    /\ UNCHANGED <<pagingVars, elfVars>>

MemoryTest ==
    \/ pmm_test_alloc \/ pmm_test_free
    \/ heap_test_kmalloc_a \/ heap_test_kmalloc_b \/ heap_test_fails \/ heap_test_kfree_a
    \/ heap_test_kmalloc_c \/ heap_test_kfree_b \/ heap_test_kfree_c
-----------------------------------------------------------------------------
\* What initrd_init reads before it allocates: the loader's tables and, up to
\* the empty block behind the last file, the archive.
BootTables ==
    {boot.mbi_addr, boot.mbi_addr + MbiSize - 1} \cup
    IF boot.has_mods
    THEN {boot.mods_addr} \cup UNION {{m.mod_start, m.mod_end - 1} : m \in boot.mods} ELSE {}

initrd_init_faults ==
    /\ At("initrd") /\ Faults(BootTables)
    /\ halted' = TRUE
    /\ UNCHANGED <<vars, pagingVars, elfVars, flags, phase, k>>

\* No module: not ready.  An archive without files: ready, and no table.
initrd_init_empty ==
    /\ At("initrd") /\ ~Faults(BootTables) /\ disk = <<>>
    /\ k' = [k EXCEPT !.ready = boot.has_mods /\ boot.mods # {}]
    /\ GoTo("elf")
    /\ UNCHANGED <<vars, pagingVars, elfVars>>

initrd_init_kcalloc ==
    /\ At("initrd") /\ ~Faults(BootTables) /\ disk # <<>>
    /\ kcalloc(Len(disk), EntrySize)
    /\ GoTo("initrd_files")
    /\ UNCHANGED <<pagingVars, elfVars, k>>

\* Mutant: the result of kcalloc is not tested.
initrd_init_index_untested ==
    /\ At("initrd_files")
    /\ k' = [k EXCEPT !.table = eax, !.ready = TRUE]
    /\ GoTo("elf")
    /\ UNCHANGED <<vars, pagingVars, elfVars>>

initrd_init_index ==
    /\ At("initrd_files")
    /\ k' = [k EXCEPT !.table = eax, !.ready = eax # 0]
    /\ GoTo("elf")
    /\ UNCHANGED <<vars, pagingVars, elfVars>>

initrd_init == initrd_init_faults \/ initrd_init_empty \/ initrd_init_kcalloc \/ initrd_init_index
-----------------------------------------------------------------------------
\* run_elf_smoke_test: "init" first, then every file in the index's order.
elf_test_skip ==
    /\ At("elf") /\ (~k.ready \/ disk = <<>>) /\ GoTo("shell")
    /\ UNCHANGED <<vars, pagingVars, elfVars, k>>

elf_test_init ==
    /\ At("elf") /\ k.ready /\ disk # <<>>
    /\ elf_load("image", "init") /\ GoTo("elf_loaded")
    /\ UNCHANGED k

elf_test_next ==
    /\ At("elf_loop") /\ k.i < Len(disk)
    /\ elf_load("image", disk[k.i + 1].name) /\ GoTo("elf_loaded")
    /\ k' = [k EXCEPT !.i = @ + 1]

elf_test_none ==
    /\ At("elf_loop") /\ k.i = Len(disk) /\ GoTo("shell")
    /\ UNCHANGED <<vars, pagingVars, elfVars, k>>

elf_loader ==
    /\ ~halted /\ ~clobbered
    /\ ElfStep
    /\ UNCHANGED bootVars

LoaderBack(p) ==
    /\ phase = p /\ elf.pc = "returned" /\ ~halted /\ ~clobbered
    /\ UNCHANGED <<vars, pagingVars, disk, eax, mem, images, abandoned, clobbered, flags, halted>>

\* elf_try_execute_loaded_entry refuses 0 and calls anything else; the program
\* is external, and returns.
elf_try_execute_loaded_entry(entry_loaded) ==
    IF entry_loaded = 0 THEN "FAIL" ELSE "OK"

elf_test_loaded ==
    /\ LoaderBack("elf_loaded") /\ elf.ok
    /\ k' = [k EXCEPT !.exec = IF flags.exec THEN elf_try_execute_loaded_entry(elf.entry) ELSE @]
    /\ phase' = IF flags.vaddr THEN "elf_vaddr" ELSE "shell"
    /\ elf' = [NoLoad EXCEPT !.file = elf.file]

\* Mutant: starts over with "init".
elf_test_failed_again ==
    /\ LoaderBack("elf_loaded") /\ ~elf.ok
    /\ phase' = "elf"
    /\ elf' = NoLoad
    /\ UNCHANGED k

elf_test_failed ==
    /\ LoaderBack("elf_loaded") /\ ~elf.ok
    /\ phase' = "elf_loop"
    /\ elf' = NoLoad
    /\ UNCHANGED k

elf_test_vaddr ==
    /\ At("elf_vaddr") /\ elf_load("direct", elf.file.name) /\ GoTo("elf_vaddr_loaded")
    /\ UNCHANGED k

elf_test_vaddr_loaded ==
    /\ LoaderBack("elf_vaddr_loaded")
    /\ phase' = "shell"
    /\ elf' = NoLoad
    /\ UNCHANGED k

run_elf_smoke_test ==
    \/ elf_test_skip \/ elf_test_init \/ elf_test_next \/ elf_test_none
    \/ elf_test_loaded \/ elf_test_failed \/ elf_test_vaddr \/ elf_test_vaddr_loaded
-----------------------------------------------------------------------------
\* After boot: a caller of elf_load_from_vfs, which the kernel itself never
\* calls; it does not keep the blocks' addresses.
load_later ==
    /\ At("shell") /\ k.ready /\ Len(images) < MaxImages
    /\ \E path \in {disk[i].name : i \in DOMAIN disk} \cup {"none"} : elf_load("load", path)
    /\ GoTo("load")
    /\ UNCHANGED k

load_later_returns ==
    /\ LoaderBack("load")
    /\ phase' = "shell"
    /\ elf' = NoLoad
    /\ UNCHANGED k

kernel_main ==
    \/ kernel_main_pmm \/ kernel_main_heap \/ kernel_main_paging \/ kernel_main_paging_enable
    \/ heap_step \/ page_fault
    \/ MemoryTest \/ initrd_init
    \/ elf_loader \/ run_elf_smoke_test

BootNext == kernel_main \/ load_later \/ load_later_returns

\* The processor keeps executing kernel_main.
BootSpec == BootInit /\ [][BootNext]_allVars /\ WF_allVars(kernel_main)
-----------------------------------------------------------------------------
BlocksOf(ld) == {ld.blocks[b].at : b \in DOMAIN ld.blocks}

\* eax holds a block the caller has not stored yet.
Unstored ==
    /\ pc = "idle" /\ eax # 0
    /\ phase \in {"kmalloc_b", "kfree_a", "kfree_b", "initrd_files"} \/ elf.pc = "kmalloc"

InHand ==
    ({k.a, k.b, k.c, k.table} \ {0})
    \cup (IF Unstored THEN {eax} ELSE {})
    \cup (IF elf.op = "direct" \/ elf.pc = "returned" THEN {} ELSE BlocksOf(elf))

\* Every block of the heap that is in use belongs to exactly one owner: the
\* self test or the loader at work, the initrd's index, an image that was
\* loaded, or a load that failed half-way, which is the only way to lose one.
\* What the memory self test takes it gives back, unless it fails
\* (kmain.c:101-140, elf.c:223-308, initrd.c:174).
BlocksAccounted ==
    pc = "idle" /\ ~clobbered =>
        /\ DOMAIN live = InHand \cup abandoned \cup UNION {BlocksOf(images[n]) : n \in DOMAIN images}
        /\ InHand \cap abandoned = {}
        /\ \A n, m \in DOMAIN images : n # m => BlocksOf(images[n]) \cap BlocksOf(images[m]) = {}
        /\ phase = "initrd" /\ k.heap_test = "OK" => live = <<>>

\* The machine halts in a page fault only in a build with paging, and then only
\* because the initrd or the loader's tables lie beyond the identity map or
\* because no free frame below its limit is left: the PMM hands out the low
\* frames first (kmain.c:748, pmm.c:172).
FaultsOnlyBeyondMap ==
    halted =>
        /\ flags.paging
        /\ \/ \E a \in BootTables : a >= paging_get_identity_limit_bytes
           \/ \A f \in FreeFrames : f * FrameSize >= paging_get_identity_limit_bytes

\* What fails during the boot fails for want of memory or for what the file
\* holds.  The PMM's self test fails exactly when the heap got the last frame
\* there was, the heap's exactly when there was none (kmain.c:101-140).  An
\* initrd that is there is unavailable only when its table is larger than a
\* frame's payload, or no frame is left (initrd.c:172-177).  A program with a
\* valid header is refused only for a segment outside the file or larger than a
\* frame's payload, for having nothing to load, or because no frame is left
\* (elf.c:223-308).
FailuresHaveCauses ==
    /\ k.pmm_test = "FAIL" => Cardinality(Grantable(boot)) <= 1
    /\ k.pmm_test = "OK" => Cardinality(Grantable(boot)) > 1
    /\ k.heap_test = "FAIL" => Grantable(boot) = {}
    /\ k.heap_test = "OK" => Grantable(boot) # {}
    /\ phase = "elf" /\ boot.has_mods /\ boot.mods # {} =>
           /\ k.ready \/ align8(Len(disk) * EntrySize) > Payload \/ FreeFrames = {}
           /\ k.ready /\ disk # <<>> => k.table \in DOMAIN live
    /\ elf.op \in {"image", "load"} /\ elf.pc = "returned" /\ ~elf.ok =>
           \/ ~elf_probe_from_vfs(elf.file.name).ok
           \/ \E s \in Loadable(elf.file) : \/ OutsideFile(elf.file, elf.file.phdr[s])
                                            \/ align8(elf.file.phdr[s].p_memsz) > Payload
           \/ elf.op = "image" /\ Loadable(elf.file) = {}
           \/ FreeFrames = {}

\* kernel_main gets to the shell, whatever the initrd holds and however little
\* memory there is, unless the machine halts or memory in use is overwritten.
BootEnds == <>(phase = "shell" \/ halted \/ clobbered)
=============================================================================
