# Arctic in TLA+

Specifications, model-checking instances and machine-checked proofs for the
Arctic kernel (`src/`), a 32-bit x86 kernel in C and NASM with a frame
allocator, a heap, identity paging, interrupt-driven keyboard input, a TAR
initrd, file system calls, an ELF loader and a built-in shell.

Run them in this directory:

    tlc -config MCHeap.cfg MCHeap        # a model-checking run
    tlapm HeapProofs.tla                 # the proofs of one module

`PROJECT.json` lists the parts of the kernel, the runs, the mutants that show
that each property can fail, the source lines behind every definition, the
hazards, the findings and the theorems.

## The system

`_start` (boot/boot.asm) calls `kernel_main`, which brings the parts up one
after the other with interrupts off, then enables interrupts and runs the shell
for ever. There is one thread of control and one kernel stack. The only
concurrency is that of devices and interrupt handlers with the kernel's own
code.

| Part | Source | State | Modelled in |
|---|---|---|---|
| Physical memory manager | memory/pmm.c | frame bitmap, free counter | PMM |
| Heap | memory/heap.c | linked list of blocks in PMM frames | Heap, Allocator |
| 8259 PIC, IDT, IRQ stubs, exceptions | arch/pic.c, idt.c, interrupt.asm, interrupt_handlers.c | masks, requests, in-service lines, IF, stack frames, the halt | Interrupts |
| Keyboard, timer | drivers/keyboard.c | ring buffer, shift flag, tick counter | Keyboard, KbdQueue |
| Paging | memory/paging.c | page directory and tables, CR0.PG | Paging |
| Initrd | fs/initrd.c | index of the TAR archive | Initrd |
| VFS | fs/vfs.c | file handles | Vfs |
| System calls | proc/syscall.c | descriptor table | Syscall, FileHandles, Queries |
| ELF loader | proc/elf.c | segments in heap blocks or at their addresses | Elf |
| Console | io/print.c | text memory, cursor | Console |
| Shell | kernel/kmain.c | line, drive, command in progress | Shell, Queries |
| Boot order, self tests | kernel/kmain.c | where `kernel_main` is | Boot, SelfTests, Queries, Keyboard |
| GDT, PIT | arch/gdt.c, pit.c | | no |

How they interact: the heap takes frames from the PMM; the initrd takes its
index table from the heap; the VFS opens files of the initrd; the ELF loader
takes files from the VFS and blocks from the heap, and its direct variant trusts
the identity map; with paging enabled everything the kernel touches has to lie
in that map; the system calls keep VFS handles; the shell pops characters from
the keyboard ring, prints through the console and calls the system through
`int 0x80`.

## Modules

Every action is a C function, or one iteration of a loop in it when something
can be observed or go wrong between iterations. Names are those of the source.
Operators called "Mutant" in a comment are plausible mistakes in the definition
that follows; no specification uses them.

**PMM.** `pmm` is the bitmap, as the set of frames whose bit is 1, and the
counter. `pmm_init` frees the available regions of the memory map and then
reserves low memory, the kernel, the boot information, the modules and their
tables, with the rounding and clipping of `pmm_mark_region`. `held` is what the
clients hold; a client returns only frames it holds. The address space is
`FrameSize * TotalFrames` bytes, where the code's `uint32_t` wraps.

**Heap** extends PMM. `heap` is the list in list order, a block is its address,
size and flag. A call is a sequence of steps: `heap_grow` takes one frame a
step, `kmalloc_search` is the first-fit walk with `split_block`,
`krealloc_copy` and `krealloc_release` are the tail of `krealloc`, and
`coalesce_blocks` does one merge or one move a step. `live` is the clients'
view: the pointers they own and the bytes they need there. Contents are
abstracted to how many bytes `krealloc` copies. **Allocator** is the promise of
heap.h: disjoint ranges of the allocator's memory, granted and released.

**Interrupts** is the master 8259 (external, modelled from how pic.c programs
it), IF and the interrupt frames on the stack. **Keyboard** extends it: the user
and the 8042 controller, the handlers, and the kernel from `pic_init` to the
shell's loop. `keyboard_pop_char` is three steps, as the compiled code is,
because the shell calls it with interrupts on; `sys_read` runs behind an
interrupt gate and is one step. A handler is one step from its frame to its
`iret`: IF is off, and the `sti` before `iret` takes effect only after it. A
device may withdraw its request, and the 8259 then signals vector 39, which has
no gate: `panic` records the vector `isr_handler` has halted for, and nothing
runs after it. A key may be struck before `pic_init`, whose ICW1 forgets the
edge; `early` records that. A scancode is one byte of set 1. The decoder takes
the byte behind an E0 prefix as if the prefix were not there, so the fake shifts
that a keyboard sends around cursor keys and PrintScreen move `shift_pressed`
although no shift key moves: `down` is what the user holds, `steady` says that
the last shift code agreed with it (the release of one shift key while the other
is held does not either), and a character carries whether the table it
was looked up in suited the keys when its byte was sent. **KbdQueue** is a
bounded queue.

**Paging** has the page directory, the tables and the switch; the MMU's walk is
external. **Elf** extends Heap and Paging: the three loaders read a header and
take one program header a step, each into a block of its own from `kmalloc` or
at its virtual address. A file is its size and its header fields, which may hold
any 32-bit number, and every sum of them wraps as in the code; a byte is its
file and offset. `images` and `abandoned` are the blocks of loads that succeeded
and failed, `clobbered` says that the direct loader has written over memory in
use. **Boot** extends Elf and runs `kernel_main` from `pmm_init` to the ELF self
test, in the builds the three compile-time flags make (execution and direct
loading are switched together; a build with paging maps at least its own image),
on one memory: frames, heap, page tables,
memory self test, index table, ELF self test. An access outside the map while
paging is on is a page fault and halts the machine. After the boot, any sequence
of `elf_load_from_vfs` calls, the loader the kernel only exports, may follow.

**Vfs** has one operator per function on a handle. **Syscall** holds the
descriptor table and dispatches every call that changes it, with good and bad
descriptors, lengths, offsets and origins; `call` is the last call with its
arguments, `ret` and `bytes` are its answer. **FileHandles** is what a program
may rely on: independent positions in files, and for each call the one answer it
gets. **SelfTests** adds `run_syscall_smoke_test`, a client whose five calls come
after those of a program that ran at boot.

**Console** has `printc` and `clear` as operators on the screen. **Shell** reads
keys, edits the line and runs the commands; it prints one character a step.
Words are one token and fill one cell. `cat` opens, reads, writes and closes
through the operators of Syscall; other descriptors may be open when the shell
starts, because a program run at boot may have left them open.

**Initrd** has the two walks of `initrd_init`, one member a step, over an archive
laid out as `tar` does it, of which the loader may have put only a part into
memory. A size field is cut to 32 bits and offsets wrap, so that a walk can also
come upon a block inside a payload, which `data` may make look like a header. The
lookups are operators on the resulting index. **Queries** adds the
system calls that ask for files, with the bounded copy of names, and what `ls`,
the listing demo and the VFS self test make of them; they change nothing, so
they are operators on the state that `initrd_init` leaves.

The `MC*` modules give the constants their values. **PMMProofs**, **SeqLemmas**,
**HeapLemmas**, **HeapSteps**, **HeapProofs**, **SyscallProofs**,
**PagingProofs** and **KeyboardProofs** hold the proofs.

## Runs

Passing runs:

| Run | Checks | Bounds, and why they are enough |
|---|---|---|
| pmm | The free and held frames are exactly those inside available memory that touch nothing reserved (`FramesConserved`), the counter is exact, 0 is never a frame | 9 frames of 4 bytes, 324 boot environments: every alignment of a region's bounds, overlapping and empty regions, tables in low and in high memory, an entry that reaches beyond 2^32 |
| heap | The blocks tile the frames, owned pointers are blocks in use that are large enough, `krealloc` keeps the contents, `kfree` merges all there is to merge, a failure means exhaustion, every call returns; Heap implements Allocator | two adjacent frames and one apart, of 64 bytes; sizes that split, that do not, and that no frame holds; a product that overflows |
| keyboard | Handlers do not nest and in-service lines match the stack, no byte in the controller loses its interrupt, the pop is not disturbed, the characters in the ring come from the table that suited the shift keys when they were typed, as long as the last shift code told the truth (`ShiftFollowsKeys`); Keyboard implements KbdQueue; every byte that comes after `pic_init` is fetched and every buffered character read, unless the kernel has halted | a ring of three slots fills, wraps and empties; the two driven lines and one that stays masked; reads shorter than, as long as and longer than the contents; the tick counter, which nothing reads, has one value |
| syscall | The table stays sound; Syscall implements FileHandles, call by call; the self test reads the same bytes twice and restores the table, whatever is open | three descriptors, a file of three bytes and an empty one, offsets beyond both ends |
| shell | The cursor stays on the screen and is shown there; prompt and line stand before it; `cat` writes whole files, commands leave the descriptor table as it was and return to the prompt again and again | 2 by 5 cells, lines of up to three tokens behind the prompt: lines wrap, and scroll while they are typed; every command with and without an argument; two descriptors in every state; a file longer than `cat`'s buffer, one of the buffer's size and an empty one |
| initrd | The walks agree and end, the index has exactly the files wholly in memory, payloads are disjoint, listings are complete and every listed name opens; the query calls, the demo and `ls` tell the truth about them as far as their buffers reach | archives of up to three members, cut off at every byte; empty, exact and spilling payloads, directories, equal names, names that fill their field; buffers of every length up to one more than a name, listings longer than their limit; sizes that wrap and lead a walk back, nowhere, or into a payload |
| boot | Loaded images are faithful and stay so (`ImagesFaithful`), entry points are relocated into them, headers and direct loads stay inside the file and the map, every heap block has one owner and only failed loads lose some (`BlocksAccounted`), failures and verdicts have the stated causes, page faults happen only when nothing below the map's limit is left (`FaultsOnlyBeyondMap`), the map is exact, the boot ends | 16 frames of 32 bytes, 0 to 6 of them available, inside, across and outside the map; three map sizes, of which one wraps; initrds of up to four files whose segments take every branch of the loaders, segments that wrap in memory or in the file and entry points inside them included; four builds; two further loads |

`heap_init` may run before or after the first `kmalloc`, as the code allows.
Deadlock is checked in every run except `initrd`, `initrd_long_names` and
`boot`, where `initrd_init` or the boot ends, and the two `keyboard` runs, where a
halted kernel does nothing more.

Some properties have a premise about numbers that wrap. The instances contain
such numbers, and without the premise TLC finds a counterexample in them:

- `NoWrap` and `Forward` (Initrd): the offsets of an archive stay below 2^32. A
  size field holds up to 8^12 - 1 and `initrd_init` refuses none; one that wraps
  makes the index wrong, and one that leads a walk back makes it endless.
- In `ImagesFaithful`, a segment whose `p_offset + p_filesz` wraps passes the
  loader's test although its bytes begin before the file's own, and one that runs
  over the end of the address space never holds the entry point.
- In `IdentityExact`, a request that ends in the last page of the address space
  is rounded up to no page at all and gets one.

Runs that show a disagreement between the code and its documentation:

| Run | What it shows |
|---|---|
| heap_large | heap.c:76 promises that `min_payload` bytes become available; a request larger than one frame's payload takes every frame and makes no such block |
| heap_wrap | heap.h promises the requested bytes or 0; the seven largest sizes round up to 0 and get a block that does not hold them |
| syscall_exit | syscall.h says that `SYS_EXIT` terminates the caller; it returns to it, and the program run at boot makes its next call |
| initrd_long_names | initrd.h says that files are found by name; one whose name has 100 characters is not |
| keyboard_gates | the kernel's README says that all IRQ vectors have a gate; a spurious interrupt arrives at vector 39, which has none, and halts the kernel |

### Fairness

- *Heap* (`CallsReturn`): a call that has started keeps executing. Nothing
  preempts the kernel's code for ever.
- *Keyboard*: `TicksSpaced` says that again and again interrupts are on and no
  tick is pending, which includes that handlers end. The PIT is programmed to
  100 Hz and the handlers run for microseconds, so that the code between ticks is
  not starved. The CPU accepts the keyboard's interrupt and executes its own code
  if it is again and again able to (strong fairness: ticks disable both for a
  while). A kernel that has halted is excepted in the properties themselves.
- *Boot* (`BootEnds`): the processor keeps executing `kernel_main`.
- *Shell* (`CommandsReturn`): print and cat's loop go on; only keys may fail to
  come.
- *Initrd* (`InitrdReturns`): the walk goes on.

## Proofs

| Theorem | Says, for every value of the constants |
|---|---|
| PMMProofs!PMMCorrect | `PMMTypeOK` and the three invariants of the pmm run |
| HeapProofs!HeapTiles | `HeapTypeOK` and `BlocksTileFrames` |
| HeapProofs!HeapBacked | `LiveBlocksBacked`, if no requested size wraps |
| HeapProofs!ReallocCopies | `ReallocKeepsContents`, if no requested size wraps |
| HeapProofs!OnePassMerges | `MergedAfterFree` |
| HeapProofs!FailureExact | `FailureMeansExhausted`, if no requested size wraps |
| HeapProofs!HeapImplementsAllocator | `GrantsSpec`: Heap implements Allocator, if no requested size wraps |
| SyscallProofs!TableSound | `SyscallTypeOK` and `HandlesSound` |
| SyscallProofs!CallsImplementHandles | `HandlesSpec`: Syscall implements FileHandles |
| PagingProofs!IdentityCorrect | `IdentityExact`, and the identity map while paging is on |
| KeyboardProofs!InterruptsSound | `ServiceMatchesFrames`, `ByteAnnounced` |
| KeyboardProofs!KeyboardSound | `KeyboardTypeOK`, `PopUndisturbed`, `ShiftFollowsKeys` |
| KeyboardProofs!RingImplementsQueue | `QueueSpec`: Keyboard implements KbdQueue |

**PMM.** The invariants together are inductive. The work is in
`RegionFrames`: rounding with `\div` is turned into byte comparisons (lemma
`Rounding`), from which the frames freed minus the frames reserved are
`Grantable`. The counter follows from the cardinalities of disjoint unions. The
assumptions say that the loader's tables lie below 2^32 and that no single
memory-map entry spans all 4 GiB.

**Heap.** `HeapInv` strengthens the three properties by

- `Ascending`: the held frames lie below the free ones, which follows from
  first-fit allocation and from the heap never returning a frame, and makes
  growth at the tail keep address order;
- `ChainOK`: the blocks of a growth under way are whole free frames;
- `Backed`: owned pointers and blocks in use correspond one to one;
- `CallOK`: what the locals of the call in progress say about the list, such as
  that `krealloc`'s old block is still in use and smaller than the request while
  its nested `kmalloc` runs.

HeapLemmas shows what splitting, merging, taking, freeing and appending do to
the order, the bytes and the used blocks of any list; HeapSteps and HeapProofs
have one lemma per action. The theorems that say so assume
`NoSizeWraps`: run heap_wrap shows that they need it. The two action properties
need `ProgressInv` on top: everything behind the block `coalesce_blocks` has
reached is merged, and while the heap grows no block in the list fits the
request. With the list in address order,
touching free blocks are neighbours in it, so one pass is enough. Because the model takes a
step per loop iteration, what the loops compute follows by induction over
steps.

For the refinement, ranges that clients own lie inside the payloads of distinct
blocks (`GrantsDisjoint`), which do not overlap because the list is in order.
With that known of every state outside `heap_grow`, taking a block and resizing
one in place are grants, `kfree` and the end of `krealloc` are releases,
`heap_grow` is growth, and every other step changes nothing a client sees.

The type invariants of PMM, Heap, Syscall and Keyboard are proved and therefore
not among the properties of the runs.

**Syscall.** The two invariants are inductive as they stand; the leaves are the
arithmetic of `vfs_read` and `vfs_seek`. For the refinement each call is shown to
be the abstract step of the same call: when it succeeds it moves, takes or drops
exactly one entry of the abstract handle map, and it fails in the same cases.

**Paging.** Inductive: prepared tables map exactly what is below the limit, and
paging is on only with prepared tables. `PageCount` bounds the count by what the
tables hold, so that the limit does not wrap; `Indices` turns an address into
its directory and table index, and from there the walk is arithmetic.
`LimitRight` compares the limit with the request.

**Keyboard.** `KeyboardInv` is the type invariant with

- `IntInv`: there is no frame and nothing in service, or one frame of line 0 or 1
  and that line in service; interrupts are on only without a frame and without a
  halt; from `keyboard_init` on exactly lines 0 and 1 are unmasked;
- `ScanInv`: the controller holds one scancode at most, and once that is decoded
  `shift_pressed` agrees with the keys that are down, if the last shift code did:
  however late the interrupt runs, the flag is behind by one scancode at most;
- `RingInv`: the slots between tail and head hold characters, and a pop
  half-way has seen the ring non-empty and holds the character at the tail.

`Wrap`, `RingCount` and `RingSlot` reduce the ring's modular arithmetic to three
cases, `Push` and `Pop` show what both ends do to the sequence in the ring, and
the refinement follows action by action.

Only model-checked: all of Elf, Boot, Queries,
SelfTests, Shell, Console and Initrd, and every liveness property. Liveness
under fairness and `ENABLED` are out of the prover's reach, as are induction
over data and recursive operators.

## Not modelled, and abstractions to know of

- The GDT, a constant table that is loaded once, and the PIT, three port writes
  with a constant divisor: there is no behaviour to check. The slave 8259, whose
  lines stay masked, `pic_set_irq_mask`, `ps2_read_scancode` and the console's
  cursor getters, which nothing calls.
- Exceptions the kernel raises by itself, other than page faults beyond the map:
  the model has no instruction that could.
- What runs after the direct loader has overwritten memory in use. The program
  that `elf_try_execute_loaded_entry` calls is external, returns, and reaches the
  kernel only through system calls.
- ELF segments with a `p_memsz` that wraps in `align8`: what `kmalloc` then does is
  the subject of heap_wrap.
- `pmm_free_frame` with an address that was never handed out, `kfree` and
  `krealloc` with a pointer that is not owned: clients in the kernel do neither.
- In Heap, the heap is the only client of the PMM; Boot adds the self test's
  frame.
- `prompt_len` (kmain.c:429), which is written and never read.

## What could come next

`LineOnScreen` over Console, the initrd's index and `ImagesFaithful` for all
constants, each from an inductive strengthening checked by TLC first.
