-------------------------------- MODULE Elf ---------------------------------
(***************************************************************************)
(* The ELF loader (proc/elf.c) over the heap and the page tables.  A       *)
(* loader reads a file's header, then takes one program header a step.     *)
(* Two loaders put every segment into a block of its own from kmalloc, the *)
(* third writes it at its virtual address.  Nothing else runs meanwhile.   *)
(*                                                                         *)
(* A file is its size and the header fields the loader looks at; its bytes *)
(* are told apart only by their file and offset.                           *)
(***************************************************************************)
EXTENDS Heap, Paging

CONSTANTS
    EHDR_SIZE, PHDR_SIZE,       \* sizeof(elf32_ehdr_t), sizeof(elf32_phdr_t)
    Disks                       \* the initrds the loader may find

Word == 0 .. WORD - 1

Phdr == [p_type : STRING, p_offset : Word, p_vaddr : Word, p_filesz : Word, p_memsz : Word]

\* ident: magic, class, byte order, versions and machine are as they must be.
ElfFile == [name : STRING, size : Word, ident : BOOLEAN, e_type : STRING, e_entry : Word,
            e_phoff : Word, e_phnum : Word, e_phentsize : Word, phdr : Seq(Phdr)]

\* A file may hold any fields, but no p_memsz that kmalloc rounds up to nothing:
\* that is the subject of the run heap_wrap.
ASSUME ElfAssumption ==
    /\ WORD = AddrLimit /\ PAGE_SIZE = FrameSize
    /\ EHDR_SIZE \in Nat /\ PHDR_SIZE \in Nat \ {0}
    /\ \A files \in Disks : \A i \in DOMAIN files :
           /\ files[i] \in ElfFile
           /\ Len(files[i].phdr) = files[i].e_phnum
           /\ \A k \in DOMAIN files[i].phdr : files[i].phdr[k].p_memsz + Alignment <= WORD

VARIABLES
    disk,           \* the files of the initrd's index, in order
    eax,            \* what the last heap call returned
    mem,            \* what the loaders have written: address -> byte
    elf,            \* the locals of a loader
    images,         \* what the successful loads have returned
    abandoned,      \* blocks of loads that failed
    clobbered       \* memory in use has been overwritten

elfVars == <<disk, eax, mem, elf, images, abandoned, clobbered>>

Zero == <<"zero", 0>>

NoElf == [name |-> "", size |-> 0, ident |-> FALSE, e_type |-> "", e_entry |-> 0,
          e_phoff |-> 0, e_phnum |-> 0, e_phentsize |-> 0, phdr |-> <<>>]

\* blocks: where each segment went, and its index in phdr.
NoLoad == [pc |-> "idle", op |-> "none", file |-> NoElf, i |-> 0, segments |-> 0, bytes |-> 0,
           entry |-> 0, blocks |-> <<>>, ok |-> FALSE]

ElfInit ==
    /\ disk \in Disks
    /\ eax = 0
    /\ mem = <<>>
    /\ elf = NoLoad
    /\ images = <<>>
    /\ abandoned = {}
    /\ clobbered = FALSE
-----------------------------------------------------------------------------
\* What vfs_open finds: the first file of that name.
Opened(path) ==
    LET hits == {i \in DOMAIN disk : disk[i].name = path}
    IN  IF hits = {} THEN NoElf ELSE disk[Min(hits)]

\* Mutant: a sum that wraps is not noticed.
elf_validate_buffer_wraps(f) ==
    /\ f.size >= EHDR_SIZE
    /\ f.ident
    /\ f.e_type \in {"ET_EXEC", "ET_DYN"}
    /\ f.e_phnum # 0
    /\ f.e_phentsize = PHDR_SIZE
    /\ (f.e_phoff + f.e_phnum * f.e_phentsize) % WORD <= f.size

\* elf_header_basic_valid
elf_validate_buffer(f) ==
    LET min_ph_table == (f.e_phoff + f.e_phnum * f.e_phentsize) % WORD
    IN  /\ f.size >= EHDR_SIZE
        /\ f.ident
        /\ f.e_type \in {"ET_EXEC", "ET_DYN"}
        /\ f.e_phnum # 0
        /\ f.e_phentsize = PHDR_SIZE
        /\ min_ph_table <= f.size
        /\ min_ph_table >= f.e_phoff

elf_count_loadable_segments(f) ==
    Cardinality({k \in DOMAIN f.phdr : f.phdr[k].p_type = "PT_LOAD"})

\* What elf_probe_from_vfs reports of a file it accepts.
elf_probe_from_vfs(path) ==
    LET f == Opened(path)
    IN  IF elf_validate_buffer(f)
        THEN [ok |-> TRUE, entry |-> f.e_entry, load_segments |-> elf_count_loadable_segments(f)]
        ELSE [ok |-> FALSE, entry |-> 0, load_segments |-> 0]

\* A call of elf_load_from_vfs ("load"), elf_load_image_from_vfs ("image") or
\* elf_load_virtual_identity_from_vfs ("direct"), which needs the page tables:
\* everything before the loop.
elf_load(op, path) ==
    /\ elf.pc = "idle" /\ pc = "idle"
    /\ elf' = [NoLoad EXCEPT
                  !.op = op,
                  !.file = Opened(path),
                  !.pc = IF /\ elf_validate_buffer(Opened(path))
                            /\ op = "direct" => /\ paging_prepared
                                                /\ paging_get_identity_limit_bytes # 0
                         THEN "segment" ELSE "returned"]
    /\ UNCHANGED <<vars, pagingVars, disk, eax, mem, images, abandoned, clobbered>>

segment == elf.file.phdr[elf.i + 1]

AtSegment == elf.pc = "segment" /\ elf.i < elf.file.e_phnum

Skipped(s) == s.p_type # "PT_LOAD" \/ s.p_memsz = 0

\* The loader's test.  A sum that wraps passes it.
OutsideFile(f, s) == (s.p_offset + s.p_filesz) % WORD > f.size \/ s.p_filesz > s.p_memsz

\* Mutant: only the start is compared with the limit.
OutsideMap_start(s) ==
    LET end == (s.p_vaddr + s.p_memsz) % WORD
    IN  s.p_vaddr < LowMemory \/ end < s.p_vaddr \/ s.p_vaddr >= paging_get_identity_limit_bytes

\* The direct loader's test of the virtual addresses.
OutsideMap(s) ==
    LET end == (s.p_vaddr + s.p_memsz) % WORD
    IN  s.p_vaddr < LowMemory \/ end < s.p_vaddr \/ end > paging_get_identity_limit_bytes

Refuses(s) == OutsideFile(elf.file, s) \/ (elf.op = "direct" /\ OutsideMap(s))

skip_segment ==
    /\ AtSegment /\ Skipped(segment)
    /\ elf' = [elf EXCEPT !.i = @ + 1]
    /\ UNCHANGED <<vars, pagingVars, disk, eax, mem, images, abandoned, clobbered>>

Blocks == {elf.blocks[k].at : k \in DOMAIN elf.blocks}

\* An early return: the segments before this one stay where they are.
Fail ==
    /\ elf' = [elf EXCEPT !.pc = "returned"]
    /\ abandoned' = IF elf.op = "direct" THEN abandoned ELSE abandoned \cup Blocks
    /\ UNCHANGED <<disk, eax, mem, images, clobbered>>

refuse_segment ==
    /\ AtSegment /\ ~Skipped(segment) /\ Refuses(segment)
    /\ Fail
    /\ UNCHANGED <<vars, pagingVars>>

alloc_segment ==
    /\ AtSegment /\ ~Skipped(segment) /\ ~Refuses(segment)
    /\ elf.op # "direct"
    /\ kmalloc(segment.p_memsz)
    /\ elf' = [elf EXCEPT !.pc = "kmalloc"]
    /\ UNCHANGED <<pagingVars, disk, eax, mem, images, abandoned, clobbered>>

alloc_failed ==
    /\ elf.pc = "kmalloc" /\ pc = "idle" /\ eax = 0
    /\ Fail
    /\ UNCHANGED <<vars, pagingVars>>

\* Mutant: the bytes behind the file's are left as they are.
Fill_no_zero(at, f, s) ==
    [a \in DOMAIN mem \cup (at .. at + s.p_filesz - 1) |->
        IF a - at \in 0 .. s.p_filesz - 1 THEN <<f.name, (s.p_offset + a - at) % WORD>> ELSE mem[a]]

\* Memory after the two copy loops: the file's bytes, then zeros.  The index
\* wraps, so offset WORD - x is the byte x before the file's first; a block is
\* smaller than what lies below the initrd, so that byte is memory and mapped.
Fill(at, f, s) ==
    [a \in DOMAIN mem \cup (at .. at + s.p_memsz - 1) |->
        CASE a - at \in 0 .. s.p_filesz - 1 -> <<f.name, (s.p_offset + a - at) % WORD>>
          [] a - at \in s.p_filesz .. s.p_memsz - 1 -> Zero
          [] OTHER -> mem[a]]

\* elf_load_image_from_vfs relocates the entry point into the first segment
\* that covers it.
LoadedEntry(at, f, s) ==
    IF /\ elf.op = "image" /\ elf.entry = 0
       /\ f.e_entry >= s.p_vaddr
       /\ f.e_entry < (s.p_vaddr + s.p_memsz) % WORD
    THEN at + (f.e_entry - s.p_vaddr)
    ELSE elf.entry

\* The segment goes to address at.
Place(at) ==
    /\ mem' = Fill(at, elf.file, segment)
    /\ elf' = [elf EXCEPT
                  !.pc = "segment",
                  !.i = @ + 1,
                  !.segments = @ + 1,
                  !.bytes = (@ + segment.p_memsz) % WORD,
                  !.entry = LoadedEntry(at, elf.file, segment),
                  !.blocks = Append(@, [at |-> at, index |-> elf.i + 1])]
    /\ UNCHANGED <<disk, eax, images, abandoned>>

copy_segment ==
    /\ elf.pc = "kmalloc" /\ pc = "idle" /\ eax # 0
    /\ Place(eax)
    /\ UNCHANGED <<vars, pagingVars, clobbered>>

\* Memory that somebody uses: the kernel with its stack, the initrd, the heap.
InUse ==
    (boot.kernel_start .. boot.kernel_end - 1)
    \cup UNION {m.mod_start .. m.mod_end - 1 : m \in boot.mods}
    \cup FrameBytes

\* The direct loader asks nobody whether the memory is free.
place_segment ==
    /\ AtSegment /\ ~Skipped(segment) /\ ~Refuses(segment)
    /\ elf.op = "direct"
    /\ Place(segment.p_vaddr)
    /\ clobbered' = (\E a \in InUse : a - segment.p_vaddr \in 0 .. segment.p_memsz - 1)
    /\ UNCHANGED <<vars, pagingVars>>

\* elf_load_from_vfs succeeds also when there was nothing to load.
load_end ==
    LET ok == elf.op = "load" \/ elf.segments > 0
    IN  /\ elf.pc = "segment" /\ elf.i = elf.file.e_phnum
        /\ elf' = [elf EXCEPT !.pc = "returned", !.ok = ok]
        /\ images' = IF ok /\ elf.op # "direct" THEN Append(images, elf) ELSE images
        /\ UNCHANGED <<vars, pagingVars, disk, eax, mem, abandoned, clobbered>>

ElfStep ==
    \/ skip_segment \/ refuse_segment \/ alloc_segment \/ alloc_failed
    \/ copy_segment \/ place_segment \/ load_end
-----------------------------------------------------------------------------
\* The segments a file asks to have in memory.
Loadable(f) == {k \in DOMAIN f.phdr : ~Skipped(f.phdr[k])}

\* The byte a file wants at virtual address a for its k-th segment.
ImageByte(f, k, a) ==
    LET off == a - f.phdr[k].p_vaddr
    IN  IF off < f.phdr[k].p_filesz THEN <<f.name, (f.phdr[k].p_offset + off) % WORD>> ELSE Zero

\* A range whose end is a 32-bit number.
Ends(start, length) == start + length < WORD

\* A segment that does not run over the end of the address space, and holds a.
Covers(s, a) == Ends(s.p_vaddr, s.p_memsz) /\ s.p_vaddr <= a /\ a < s.p_vaddr + s.p_memsz

\* Whatever is allocated and loaded afterwards, every image a loader has
\* returned has all its segments in blocks that are still its own, each with
\* the bytes at the segment's offset followed by zeros, and the reported totals
\* are those of the file (elf.c:146-308).  Those bytes are the file's own, but
\* for a segment whose p_offset + p_filesz wraps, which elf.c:263 lets pass.  The
\* address reported for calling is 0 exactly when no loaded segment covers
\* e_entry, where one that runs over the end of the address space covers nothing
\* (its end wraps in elf.c:282); otherwise the byte there is the one the file has
\* at its entry point.
ImagesFaithful ==
    ~clobbered => \A n \in DOMAIN images :
        LET im == images[n]
            f == im.file
            hits == {k \in Loadable(f) : Covers(f.phdr[k], f.e_entry)}
        IN  /\ {im.blocks[k].index : k \in DOMAIN im.blocks} = Loadable(f)
            /\ im.op = "image" =>
                   /\ (im.entry = 0) <=> (hits = {})
                   /\ hits # {} => /\ im.entry \in DOMAIN mem
                                   /\ mem[im.entry] = ImageByte(f, Min(hits), f.e_entry)
            /\ im.segments = Cardinality(Loadable(f))
            /\ im.bytes = MapThenSumSet(LAMBDA k : f.phdr[k].p_memsz, Loadable(f))
            /\ \A b \in DOMAIN im.blocks :
                   LET at == im.blocks[b].at
                       s == f.phdr[im.blocks[b].index]
                   IN  /\ at \in DOMAIN live /\ live[at] = s.p_memsz
                       /\ Ends(s.p_offset, s.p_filesz) => s.p_offset + s.p_filesz <= f.size
                       /\ \A j \in 0 .. s.p_memsz - 1 :
                              /\ at + j \in DOMAIN mem
                              /\ mem[at + j] = ImageByte(f, im.blocks[b].index, s.p_vaddr + j)

\* While a loader reads a program header, that header lies inside the file:
\* the header test leaves no table that begins or ends outside (elf.c:82).
TableInsideFile ==
    AtSegment => elf.file.e_phoff + (elf.i + 1) * elf.file.e_phentsize <= elf.file.size

\* The direct loader writes only below the limit of the identity map and above
\* low memory, so none of its writes faults or reaches the BIOS area; when it
\* returns, the image stands at its virtual addresses, later segments over
\* earlier ones (elf.c:322-401).
DirectInPlace ==
    elf.op = "direct" =>
        /\ \A b \in DOMAIN elf.blocks :
               LET s == elf.file.phdr[elf.blocks[b].index]
               IN  \A a \in s.p_vaddr .. s.p_vaddr + s.p_memsz - 1 :
                       a >= LowMemory /\ Walk(a) = a
        /\ elf.pc = "returned" /\ elf.ok =>
               \A k \in Loadable(elf.file) :
                   \A a \in elf.file.phdr[k].p_vaddr .. elf.file.phdr[k].p_vaddr + elf.file.phdr[k].p_memsz - 1 :
                       LET last == Max({l \in Loadable(elf.file) : Covers(elf.file.phdr[l], a)})
                       IN  mem[a] = ImageByte(elf.file, last, a)
=============================================================================
