---------------------------- MODULE SyscallProofs ---------------------------
(***************************************************************************)
(* Proofs about Syscall, for every initrd, every size of the descriptor    *)
(* table and every argument: the table stays sound, and the calls          *)
(* implement the independent descriptors of FileHandles.                   *)
(***************************************************************************)
EXTENDS Syscall, NaturalsInduction, WellFoundedInduction, TLAPS

\* One entry of the table, as HandlesSound wants it.
SoundEntry(e) ==
    /\ e \in [file : VfsFile, used : BOOLEAN]
    /\ e.used <=> e.file.valid
    /\ e.file.size = Len(e.file.data)
    /\ e.file.position <= e.file.size

\* The inductive invariant: every entry is sound.
TableOK(t) == t \in [FdSlots -> [file : VfsFile, used : BOOLEAN]] /\ \A i \in FdSlots : SoundEntry(t[i])

SyscallInv ==
    /\ TableOK(fd_table)
    /\ ret \in Nat \cup {Failure}
    /\ bytes \in Seq(Bytes)

\* Changing one entry into a sound one keeps the table sound.
LEMMA EntryChange ==
    ASSUME NEW t, TableOK(t), NEW i \in FdSlots, NEW e, SoundEntry(e)
    PROVE  TableOK([t EXCEPT ![i] = e])
BY DEF TableOK, SoundEntry

\* vfs_read on a valid handle: the position moves by what was delivered, and
\* stays inside the file.
LEMMA ReadSound ==
    ASSUME NEW e, SoundEntry(e), e.used, NEW len \in Nat
    PROVE  /\ SoundEntry([e EXCEPT !.file = vfs_read(e.file, len).file])
           /\ vfs_read(e.file, len).bytes \in Seq(Bytes)
           /\ Len(vfs_read(e.file, len).bytes) = to_read(e.file, len)
           /\ to_read(e.file, len) \in 0 .. e.file.size - e.file.position
<1>1. PICK f : f = e.file OBVIOUS
<1>2. f \in VfsFile /\ f.size = Len(f.data) /\ f.position <= f.size /\ f.valid
  BY <1>1 DEF SoundEntry
<1>3. PICK n : n = to_read(f, len) OBVIOUS
<1>4. n \in Nat /\ n <= f.size - f.position
  BY <1>2, <1>3 DEF to_read, VfsFile
<1>5. SubSeq(f.data, f.position + 1, f.position + n) \in Seq(Bytes)
      /\ Len(SubSeq(f.data, f.position + 1, f.position + n)) = n
  BY <1>2, <1>4 DEF VfsFile
<1>6. SoundEntry([e EXCEPT !.file = [f EXCEPT !.position = @ + n]])
  BY SMTT(30), <1>1, <1>2, <1>4 DEF SoundEntry, VfsFile
<1> QED BY <1>1, <1>2, <1>3, <1>4, <1>5, <1>6 DEF vfs_read, VfsFile

\* vfs_seek on a valid handle leaves the position inside the file.
LEMMA SeekSound ==
    ASSUME NEW e, SoundEntry(e), e.used, NEW offset \in Int, NEW whence \in 0 .. 3
    PROVE  /\ SoundEntry([e EXCEPT !.file = vfs_seek(e.file, offset, whence).file])
           /\ vfs_seek(e.file, offset, whence).ret \in Nat \cup {Failure}
<1>1. PICK f : f = e.file OBVIOUS
<1>2. PICK p : p = seek_base(f, whence) + offset OBVIOUS
<1>3. CASE seek_ok(f, offset, whence)
  <2>1. p \in 0 .. f.size BY <1>2, <1>3 DEF seek_ok
  <2>2. SoundEntry([e EXCEPT !.file = [f EXCEPT !.position = p]])
    BY <2>1, <1>1 DEF SoundEntry, VfsFile
  <2>3. f.size \in Nat BY <1>1 DEF SoundEntry, VfsFile
  <2> QED BY <2>1, <2>2, <2>3, <1>1, <1>2, <1>3 DEF vfs_seek
<1>4. CASE ~seek_ok(f, offset, whence)
  BY <1>1, <1>4 DEF vfs_seek, SoundEntry
<1> QED BY <1>3, <1>4

\* sys_open takes a slot that is free, and no smaller one is.
LEMMA LowestFreeSlot ==
    ASSUME NEW t, FreeSlots(t) # {}
    PROVE  /\ LowestFree(t) \in FdSlots
           /\ ~t[LowestFree(t)].used
           /\ \A j \in FdSlots : j < LowestFree(t) => t[j].used
<1> DEFINE R == OpToRel(<, Nat)
<1>1. IsWellFoundedOn(R, Nat)
  BY NatLessThanWellFounded, Zenon
<1>2. \A x, y \in Nat : <<x, y>> \in R <=> x < y
  BY DEF OpToRel
<1> HIDE DEF R
<1>3. FreeSlots(t) \in SUBSET Nat
  BY SyscallAssumption DEF FreeSlots, FdSlots
<1>4. PICK i \in FreeSlots(t) : \A j \in FreeSlots(t) : ~(<<j, i>> \in R)
  BY <1>1, <1>3, WFMin, Zenon
<1>5. \A j \in FreeSlots(t) : i <= j
  <2>1. \A j \in FreeSlots(t) : ~(j < i)
    BY <1>2, <1>3, <1>4, Zenon
  <2> QED BY <1>3, <2>1
<1>6. LowestFree(t) \in FreeSlots(t) /\ \A j \in FreeSlots(t) : LowestFree(t) <= j
  BY <1>5 DEF LowestFree
<1> QED BY <1>3, <1>6, SyscallAssumption DEF FreeSlots, FdSlots

\* What sys_open puts into the table is sound.
LEMMA OpenSound ==
    ASSUME NEW path, vfs_open(path).valid
    PROVE  SoundEntry([file |-> vfs_open(path), used |-> TRUE])
<1>1. path \in DOMAIN Content
  BY DEF vfs_open, NoFile
<1>2. Content[path] \in Seq(Bytes)
  BY <1>1, ContentAssumption
<1> QED BY <1>1, <1>2 DEF vfs_open, SoundEntry, VfsFile

\* The table starts sound.
LEMMA SyscallInvInit == SyscallInit => SyscallInv
<1>1. SoundEntry([file |-> NoFile, used |-> FALSE])
  BY DEF SoundEntry, VfsFile, NoFile
<1>2. [file |-> NoFile, used |-> FALSE] \in [file : VfsFile, used : BOOLEAN]
  BY <1>1 DEF SoundEntry
<1>3. TableOK([i \in FdSlots |-> [file |-> NoFile, used |-> FALSE]])
  BY <1>1, <1>2 DEF TableOK
<1>4. ASSUME SyscallInit PROVE TableOK(fd_table)
  BY <1>3, <1>4, Zenon DEF SyscallInit
<1>5. ASSUME SyscallInit PROVE ret \in Nat \cup {Failure} /\ bytes \in Seq(Bytes)
  BY <1>5 DEF SyscallInit
<1> QED BY <1>4, <1>5 DEF SyscallInv

\* A call that leaves the table alone.
LEMMA Unmoved ==
    ASSUME SyscallInv, fd_table' = fd_table, ret' \in Nat \cup {Failure},
           bytes' = <<>>
    PROVE  SyscallInv'
BY DEF SyscallInv, TableOK

\* A call that makes one entry a sound one.
LEMMA Moved ==
    ASSUME SyscallInv, NEW i \in FdSlots, NEW e, SoundEntry(e),
           fd_table' = [fd_table EXCEPT ![i] = e],
           ret' \in Nat \cup {Failure}, bytes' \in Seq(Bytes)
    PROVE  SyscallInv'
<1>1. TableOK([fd_table EXCEPT ![i] = e])
  BY Zenon, EntryChange DEF SyscallInv
<1> QED BY <1>1 DEF SyscallInv

\* An open descriptor names a slot of the table that holds a sound entry.
LEMMA SlotOf ==
    ASSUME SyscallInv, NEW fd \in Fds, OpenSlot(fd_table, fd)
    PROVE  /\ fd - 3 \in FdSlots
           /\ SoundEntry(fd_table[fd - 3])
           /\ fd_table[fd - 3].used
           /\ fd_table \in [FdSlots -> [file : VfsFile, used : BOOLEAN]]
BY DEF SyscallInv, TableOK, OpenSlot

\* Every call keeps the table sound.
LEMMA SyscallInvNext == SyscallInv /\ [SyscallNext]_sysVars => SyscallInv'
<1> SUFFICES ASSUME SyscallInv, [SyscallNext]_sysVars PROVE SyscallInv'
  OBVIOUS
<1>1. ASSUME NEW path \in Paths, Open(path) PROVE SyscallInv'
  <2> DEFINE i == LowestFree(fd_table)
  <2>1. CASE ~vfs_open(path).valid \/ FreeSlots(fd_table) = {}
    <3>1. fd_table' = fd_table /\ ret' = Failure /\ bytes' = <<>>
      BY <1>1, <2>1 DEF Open, Returns, sys_open
    <3> QED BY <3>1, Unmoved
  <2>2. CASE vfs_open(path).valid /\ FreeSlots(fd_table) # {}
    <3>1. i \in FdSlots BY <2>2, LowestFreeSlot
    <3>2. /\ fd_table' = [fd_table EXCEPT ![i] = [file |-> vfs_open(path), used |-> TRUE]]
          /\ ret' = 3 + i /\ bytes' = <<>>
      BY <1>1, <2>2 DEF Open, Returns, sys_open
    <3> HIDE DEF i
    <3>3. SoundEntry([file |-> vfs_open(path), used |-> TRUE])
      BY <2>2, OpenSound
    <3>4. ret' \in Nat \cup {Failure} /\ bytes' \in Seq(Bytes)
      BY <3>1, <3>2, SyscallAssumption DEF FdSlots
    <3> QED BY Zenon, <3>1, <3>2, <3>3, <3>4, Moved
  <2> QED BY <2>1, <2>2
<1>2. ASSUME NEW fd \in Fds, NEW buffer \in BOOLEAN, NEW len \in Lens, Read(fd, buffer, len)
      PROVE  SyscallInv'
  <2>0. len \in Nat BY SyscallAssumption
  <2>1. CASE ~buffer \/ len = 0
    <3>1. fd_table' = fd_table /\ ret' = 0 /\ bytes' = <<>>
      BY <1>2, <2>1 DEF Read, Returns, sys_read
    <3> QED BY <3>1, Unmoved
  <2>2. CASE buffer /\ len # 0 /\ ~OpenSlot(fd_table, fd)
    <3>1. fd_table' = fd_table /\ ret' = Failure /\ bytes' = <<>>
      BY <1>2, <2>2 DEF Read, Returns, sys_read
    <3> QED BY <3>1, Unmoved
  <2>3. CASE buffer /\ len # 0 /\ OpenSlot(fd_table, fd)
    <3>1. PICK e : e = fd_table[fd - 3] OBVIOUS
    <3>2. PICK r : r = vfs_read(e.file, len) OBVIOUS
    <3>3. /\ fd_table' = [fd_table EXCEPT ![fd - 3].file = r.file]
          /\ ret' = Len(r.bytes) /\ bytes' = r.bytes
      BY <1>2, <2>3, <3>1, <3>2 DEF Read, Returns, sys_read
    <3>4. fd - 3 \in FdSlots /\ SoundEntry(e) /\ e.used
      BY <2>3, <3>1, SlotOf
    <3>5. SoundEntry([e EXCEPT !.file = r.file]) /\ r.bytes \in Seq(Bytes)
      BY <2>0, <3>2, <3>4, ReadSound
    <3>6. fd_table' = [fd_table EXCEPT ![fd - 3] = [e EXCEPT !.file = r.file]]
      BY <3>1, <3>3
    <3>7. ret' \in Nat \cup {Failure} /\ bytes' \in Seq(Bytes)
      BY <3>3, <3>5
    <3> QED BY Zenon, <3>3, <3>4, <3>5, <3>6, <3>7, Moved
  <2> QED BY <2>1, <2>2, <2>3
<1>3. ASSUME NEW fd \in Fds, Close(fd) PROVE SyscallInv'
  <2>1. CASE ~OpenSlot(fd_table, fd)
    <3>1. fd_table' = fd_table /\ ret' = Failure /\ bytes' = <<>>
      BY <1>3, <2>1 DEF Close, Returns, sys_close
    <3> QED BY <3>1, Unmoved
  <2>2. CASE OpenSlot(fd_table, fd)
    <3>1. /\ fd_table' = [fd_table EXCEPT ![fd - 3] = [file |-> NoFile, used |-> FALSE]]
          /\ ret' = 0 /\ bytes' = <<>>
      BY <1>3, <2>2 DEF Close, Returns, sys_close, vfs_close
    <3>2. fd - 3 \in FdSlots
      BY <2>2 DEF OpenSlot
    <3>3. SoundEntry([file |-> NoFile, used |-> FALSE])
      BY DEF SoundEntry, VfsFile, NoFile
    <3>4. bytes' \in Seq(Bytes) BY <3>1
    <3> QED BY Zenon, <3>1, <3>2, <3>3, <3>4, Moved
  <2> QED BY <2>1, <2>2
<1>4. ASSUME NEW fd \in Fds, NEW offset \in Offsets, NEW whence \in 0 .. 3, Seek(fd, offset, whence)
      PROVE  SyscallInv'
  <2>0. offset \in Int BY SyscallAssumption
  <2>1. CASE ~OpenSlot(fd_table, fd)
    <3>1. fd_table' = fd_table /\ ret' = Failure /\ bytes' = <<>>
      BY <1>4, <2>1 DEF Seek, Returns, sys_seek
    <3> QED BY <3>1, Unmoved
  <2>2. CASE OpenSlot(fd_table, fd)
    <3>1. PICK e : e = fd_table[fd - 3] OBVIOUS
    <3>2. PICK r : r = vfs_seek(e.file, offset, whence) OBVIOUS
    <3>3. /\ fd_table' = [fd_table EXCEPT ![fd - 3].file = r.file]
          /\ ret' = r.ret /\ bytes' = <<>>
      BY <1>4, <2>2, <3>1, <3>2 DEF Seek, Returns, sys_seek
    <3>4. fd - 3 \in FdSlots /\ SoundEntry(e) /\ e.used
      BY <2>2, <3>1, SlotOf
    <3>5. SoundEntry([e EXCEPT !.file = r.file]) /\ r.ret \in Nat \cup {Failure}
      BY Zenon, <2>0, <3>2, <3>4, SeekSound
    <3>6. fd_table' = [fd_table EXCEPT ![fd - 3] = [e EXCEPT !.file = r.file]]
      BY <3>1, <3>3
    <3>7. bytes' \in Seq(Bytes) BY <3>3
    <3> QED BY Zenon, <3>3, <3>4, <3>5, <3>6, <3>7, Moved
  <2> QED BY <2>1, <2>2
<1>5. CASE Exit BY <1>5, Unmoved DEF Exit, Returns
<1>6. CASE Unknown BY <1>6, Unmoved DEF Unknown, Returns
<1>7. CASE UNCHANGED sysVars BY <1>7 DEF sysVars, SyscallInv, TableOK
<1> QED BY <1>1, <1>2, <1>3, <1>4, <1>5, <1>6, <1>7 DEF SyscallNext

\* For every initrd, table size and argument, a descriptor is in use exactly
\* when its handle is valid, and its position never leaves its file: sys_open,
\* sys_read, sys_seek and sys_close keep HandlesSound.
THEOREM TableSound == SyscallSpec => [](SyscallTypeOK /\ HandlesSound)
<1>1. SyscallInv => SyscallTypeOK /\ HandlesSound
  BY DEF SyscallInv, TableOK, SoundEntry, SyscallTypeOK, HandlesSound
<1> QED BY <1>1, SyscallInvInit, SyscallInvNext, PTL DEF SyscallSpec
-----------------------------------------------------------------------------
\* What a program sees of one entry, and of a table.
Seen(e) == [data |-> e.file.data, position |-> e.file.position]

OpenFds(t) == {3 + i : i \in {j \in FdSlots : t[j].used}}

HandlesOf(t) == [fd \in OpenFds(t) |-> Seen(t[fd - 3])]

LEMMA HandlesAre == Handles = HandlesOf(fd_table) /\ Handles' = HandlesOf(fd_table')
BY DEF Handles, HandlesOf, OpenFds, Seen

\* Which descriptors are open.
LEMMA OpenFdsAre ==
    ASSUME NEW t, NEW fd \in Int
    PROVE  fd \in OpenFds(t) <=> OpenSlot(t, fd)
<1>1. ASSUME fd \in OpenFds(t) PROVE OpenSlot(t, fd)
  <2>1. PICK i \in FdSlots : fd = 3 + i /\ t[i].used BY <1>1 DEF OpenFds
  <2>2. i \in Int BY SyscallAssumption DEF FdSlots
  <2>3. fd - 3 = i BY <2>1, <2>2
  <2> QED BY <2>1, <2>3 DEF OpenSlot
<1>2. ASSUME OpenSlot(t, fd) PROVE fd \in OpenFds(t)
  <2>1. PICK i : i = fd - 3 OBVIOUS
  <2>2. i \in FdSlots /\ t[i].used BY <1>2, <2>1 DEF OpenSlot
  <2>3. fd = 3 + i BY <2>1
  <2> QED BY Zenon, <2>2, <2>3 DEF OpenFds
<1> QED BY <1>1, <1>2

LEMMA OpenFdsInt == ASSUME NEW t PROVE OpenFds(t) \subseteq 3 .. 2 + FD_COUNT
BY SyscallAssumption DEF OpenFds, FdSlots

\* An entry that stays open changes its own descriptor and no other.
LEMMA HandlesMoved ==
    ASSUME NEW t, TableOK(t), NEW i \in FdSlots, t[i].used, NEW e, e.used
    PROVE  /\ OpenFds([t EXCEPT ![i] = e]) = OpenFds(t)
           /\ HandlesOf([t EXCEPT ![i] = e]) = [HandlesOf(t) EXCEPT ![3 + i] = Seen(e)]
<1>1. PICK t2 : t2 = [t EXCEPT ![i] = e] BY Zenon
<1>2. /\ \A j \in FdSlots : j # i => t2[j] = t[j]
      /\ t2[i] = e
  BY <1>1 DEF TableOK
<1>3. OpenFds(t2) = OpenFds(t)
  <2>1. \A j \in FdSlots : t2[j].used <=> t[j].used BY Zenon, <1>2
  <2> QED BY Zenon, <2>1 DEF OpenFds
<1>4. ASSUME NEW fd \in OpenFds(t)
      PROVE  Seen(t2[fd - 3]) = IF fd = 3 + i THEN Seen(e) ELSE Seen(t[fd - 3])
  <2>1. fd \in Int /\ i \in Int BY OpenFdsInt, SyscallAssumption DEF FdSlots
  <2>2. fd - 3 \in FdSlots BY <2>1, OpenFdsAre DEF OpenSlot
  <2>3. fd - 3 = i <=> fd = 3 + i BY <2>1
  <2> QED BY Zenon, <1>2, <2>2, <2>3
<1>5. HandlesOf(t2) = [HandlesOf(t) EXCEPT ![3 + i] = Seen(e)]
  BY Zenon, <1>3, <1>4 DEF HandlesOf
<1> QED BY <1>1, <1>3, <1>5

\* An entry that is taken adds its descriptor.
LEMMA HandlesTaken ==
    ASSUME NEW t, TableOK(t), NEW i \in FdSlots, ~t[i].used, NEW e, e.used
    PROVE  HandlesOf([t EXCEPT ![i] = e])
             = [fd \in OpenFds(t) \cup {3 + i} |->
                   IF fd = 3 + i THEN Seen(e) ELSE HandlesOf(t)[fd]]
<1>1. PICK t2 : t2 = [t EXCEPT ![i] = e] BY Zenon
<1>2. /\ \A j \in FdSlots : j # i => t2[j] = t[j]
      /\ t2[i] = e
  BY <1>1 DEF TableOK
<1>3. OpenFds(t2) = OpenFds(t) \cup {3 + i}
  <2>1. \A j \in FdSlots : t2[j].used <=> t[j].used \/ j = i BY Zenon, <1>2
  <2> QED BY Zenon, <2>1 DEF OpenFds
<1>4. ASSUME NEW fd \in OpenFds(t) \cup {3 + i}
      PROVE  Seen(t2[fd - 3]) = IF fd = 3 + i THEN Seen(e) ELSE HandlesOf(t)[fd]
  <2>1. fd \in Int /\ i \in Int BY OpenFdsInt, SyscallAssumption DEF FdSlots
  <2>2. CASE fd = 3 + i
    <3>1. fd - 3 = i BY <2>1, <2>2
    <3> QED BY Zenon, <1>2, <2>2, <3>1
  <2>3. CASE fd # 3 + i
    <3>1. fd \in OpenFds(t) BY <2>3
    <3>2. fd - 3 \in FdSlots BY <2>1, <3>1, OpenFdsAre DEF OpenSlot
    <3>3. fd - 3 # i BY <2>1, <2>3
    <3>4. t2[fd - 3] = t[fd - 3] BY Zenon, <1>2, <3>2, <3>3
    <3> QED BY Zenon, <2>3, <3>1, <3>4 DEF HandlesOf
  <2> QED BY <2>2, <2>3
<1> QED BY Zenon, <1>1, <1>3, <1>4 DEF HandlesOf

\* An entry that is given up removes its descriptor.
LEMMA HandlesDropped ==
    ASSUME NEW t, TableOK(t), NEW i \in FdSlots, NEW e, ~e.used
    PROVE  HandlesOf([t EXCEPT ![i] = e]) = [fd \in OpenFds(t) \ {3 + i} |-> HandlesOf(t)[fd]]
<1>1. PICK t2 : t2 = [t EXCEPT ![i] = e] BY Zenon
<1>2. /\ \A j \in FdSlots : j # i => t2[j] = t[j]
      /\ t2[i] = e
  BY <1>1 DEF TableOK
<1>3. OpenFds(t2) = OpenFds(t) \ {3 + i}
  <2>1. \A j \in FdSlots : t2[j].used <=> t[j].used /\ j # i BY Zenon, <1>2
  <2>2. \A j \in FdSlots : 3 + j = 3 + i <=> j = i BY SyscallAssumption DEF FdSlots
  <2> QED BY Zenon, <2>1, <2>2 DEF OpenFds
<1>4. ASSUME NEW fd \in OpenFds(t) \ {3 + i} PROVE Seen(t2[fd - 3]) = HandlesOf(t)[fd]
  <2>1. fd \in Int /\ i \in Int BY OpenFdsInt, SyscallAssumption DEF FdSlots
  <2>2. fd - 3 \in FdSlots BY <2>1, OpenFdsAre DEF OpenSlot
  <2>3. fd - 3 # i BY <2>1
  <2>4. t2[fd - 3] = t[fd - 3] BY Zenon, <1>2, <2>2, <2>3
  <2> QED BY Zenon, <2>4 DEF HandlesOf
<1> QED BY Zenon, <1>1, <1>3, <1>4 DEF HandlesOf

\* A call that fails.
LEMMA FailsStep ==
    ASSUME fd_table' = fd_table, ret' = Failure, bytes' = <<>>
    PROVE  Promise!Fails
<1>1. Handles' = Handles BY HandlesAre
<1> QED BY Zenon, <1>1 DEF Promise!Fails, Promise!Answer, Promise!Failure, Failure

\* A call that succeeds and has nothing to do.
LEMMA NothingStep ==
    ASSUME fd_table' = fd_table, ret' = 0, bytes' = <<>>
    PROVE  Promise!Answer(Handles, 0, <<>>)
<1>1. Handles' = Handles BY HandlesAre
<1> QED BY Zenon, <1>1 DEF Promise!Answer

\* A descriptor is closed when no slot of the table is in use for it.
LEMMA ClosedFd ==
    ASSUME NEW fd \in Fds
    PROVE  fd \in DOMAIN Handles <=> OpenSlot(fd_table, fd)
<1>1. fd \in Int BY SyscallAssumption DEF Fds
<1>2. DOMAIN Handles = OpenFds(fd_table) BY HandlesAre DEF HandlesOf
<1> QED BY <1>1, <1>2, OpenFdsAre

\* Every call is a step of the independent descriptors.
LEMMA PromiseStep ==
    ASSUME SyscallInv, SyscallNext
    PROVE  Promise!Next
<1>0. TableOK(fd_table) BY DEF SyscallInv
<1>1. ASSUME NEW path \in Paths, Open(path) PROVE Promise!Next
  <2>0. call' = <<"open", path>> BY <1>1 DEF Open, Returns
  <2>1. CASE ~vfs_open(path).valid \/ FreeSlots(fd_table) = {}
    <3>1. fd_table' = fd_table /\ ret' = Failure /\ bytes' = <<>>
      BY <1>1, <2>1 DEF Open, Returns, sys_open
    <3>2. Promise!Fails BY <3>1, FailsStep
    <3>3. path \notin DOMAIN Content \/ Promise!Free = {}
      <4>1. CASE ~vfs_open(path).valid BY <4>1 DEF vfs_open
      <4>2. CASE FreeSlots(fd_table) = {}
        <5>1. ASSUME NEW fd \in 3 .. 2 + FD_COUNT PROVE fd \in DOMAIN Handles
          <6>1. fd \in Int /\ fd - 3 \in FdSlots BY SyscallAssumption DEF FdSlots
          <6>2. OpenSlot(fd_table, fd) BY <4>2, <6>1 DEF FreeSlots, OpenSlot
          <6> QED BY Zenon, <6>1, <6>2, OpenFdsAre, HandlesAre DEF HandlesOf
        <5> QED BY Zenon, <5>1 DEF Promise!Free
      <4> QED BY <2>1, <4>1, <4>2
    <3>4. Promise!Open(path) BY Zenon, <3>2, <3>3 DEF Promise!Open
    <3> QED BY <2>0, <3>4 DEF Promise!Next
  <2>2. CASE vfs_open(path).valid /\ FreeSlots(fd_table) # {}
    <3>1. PICK i : i = LowestFree(fd_table) OBVIOUS
    <3>2. PICK e : e = [file |-> vfs_open(path), used |-> TRUE] BY Zenon
    <3>3. fd_table' = [fd_table EXCEPT ![i] = e] /\ ret' = 3 + i /\ bytes' = <<>>
      BY <1>1, <2>2, <3>1, <3>2 DEF Open, Returns, sys_open
    <3>4. i \in FdSlots /\ ~fd_table[i].used /\ \A j \in FdSlots : j < i => fd_table[j].used
      BY Zenon, <2>2, <3>1, LowestFreeSlot
    <3>5. path \in DOMAIN Content BY <2>2 DEF vfs_open, NoFile
    <3>6. e.used /\ Seen(e) = [data |-> Content[path], position |-> 0]
      BY <3>2, <3>5 DEF vfs_open, Seen
    <3>7. PICK fd : fd = 3 + i OBVIOUS
    <3>8. fd \in 3 .. 2 + FD_COUNT /\ fd - 3 = i /\ i \in Nat
      BY <3>4, <3>7, SyscallAssumption DEF FdSlots
    <3>9. DOMAIN Handles = OpenFds(fd_table) BY HandlesAre DEF HandlesOf
    <3>10. fd \notin DOMAIN Handles BY <3>4, <3>8, <3>9, OpenFdsAre DEF OpenSlot
    <3>11. ASSUME NEW lower \in 3 .. fd - 1 PROVE lower \in DOMAIN Handles
      <4>1. lower - 3 \in FdSlots /\ lower - 3 < i /\ lower \in Int
        BY <3>4, <3>8, SyscallAssumption DEF FdSlots
      <4>2. OpenSlot(fd_table, lower) BY Zenon, <3>4, <4>1 DEF OpenSlot
      <4> QED BY <3>9, <4>1, <4>2, OpenFdsAre
    <3>12. Handles' = [f \in DOMAIN Handles \cup {fd} |->
                          IF f = fd THEN [data |-> Content[path], position |-> 0] ELSE Handles[f]]
      <4>1. HandlesOf([fd_table EXCEPT ![i] = e])
              = [f \in OpenFds(fd_table) \cup {3 + i} |->
                    IF f = 3 + i THEN Seen(e) ELSE HandlesOf(fd_table)[f]]
        BY <1>0, <3>4, <3>6, HandlesTaken
      <4> QED BY <3>3, <3>6, <3>7, <3>9, <4>1, HandlesAre
    <3>13. Promise!Open(path)
      BY Zenon, <3>3, <3>5, <3>7, <3>8, <3>10, <3>11, <3>12
      DEF Promise!Open, Promise!Answer, Promise!Free
    <3> QED BY <2>0, <3>13 DEF Promise!Next
  <2> QED BY <2>1, <2>2
<1>2. ASSUME NEW fd \in Fds, NEW buffer \in BOOLEAN, NEW len \in Lens, Read(fd, buffer, len)
      PROVE  Promise!Next
  <2>0. len \in Nat BY SyscallAssumption
  <2>1. ASSUME Promise!Read(fd, IF buffer THEN len ELSE 0) PROVE Promise!Next
    <3>1. call' = <<"read", fd, IF buffer THEN len ELSE 0>> BY <1>2 DEF Read, Returns
    <3>2. PICK c : c = IF buffer THEN len ELSE 0 BY Zenon
    <3>3. call'[1] = "read" /\ call'[2] = fd /\ call'[3] = c BY <3>1, <3>2
    <3> QED BY Zenon, <2>1, <3>2, <3>3 DEF Promise!Next
  <2>2. CASE ~buffer \/ len = 0
    <3>1. fd_table' = fd_table /\ ret' = 0 /\ bytes' = <<>>
      BY <1>2, <2>2 DEF Read, Returns, sys_read
    <3>2. Promise!Read(fd, 0) BY Zenon, <3>1, NothingStep DEF Promise!Read
    <3>3. (IF buffer THEN len ELSE 0) = 0 BY <2>2
    <3> QED BY Zenon, <2>1, <3>2, <3>3
  <2>3. CASE buffer /\ len # 0 /\ ~OpenSlot(fd_table, fd)
    <3>1. fd_table' = fd_table /\ ret' = Failure /\ bytes' = <<>>
      BY <1>2, <2>3 DEF Read, Returns, sys_read
    <3>2. Promise!Read(fd, len) BY Zenon, <2>3, <3>1, ClosedFd, FailsStep DEF Promise!Read
    <3> QED BY Zenon, <2>3, <2>1, <3>2
  <2>4. CASE buffer /\ len # 0 /\ OpenSlot(fd_table, fd)
    <3>1. PICK e : e = fd_table[fd - 3] OBVIOUS
    <3>2. PICK n : n = to_read(e.file, len) OBVIOUS
    <3>3. PICK r : r = vfs_read(e.file, len) OBVIOUS
    <3>4. /\ fd_table' = [fd_table EXCEPT ![fd - 3].file = r.file]
          /\ ret' = Len(r.bytes) /\ bytes' = r.bytes
      BY <1>2, <2>4, <3>1, <3>3 DEF Read, Returns, sys_read
    <3>5. fd - 3 \in FdSlots /\ SoundEntry(e) /\ e.used BY <2>4, <3>1, SlotOf
    <3>6. ret' = n /\ n \in 0 .. e.file.size - e.file.position
      BY Zenon, <2>0, <3>2, <3>3, <3>4, <3>5, ReadSound
    <3>7. /\ r.file = [e.file EXCEPT !.position = @ + n]
          /\ r.bytes = SubSeq(e.file.data, e.file.position + 1, e.file.position + n)
      BY Zenon, <3>2, <3>3 DEF vfs_read
    <3>8. PICK e2 : e2 = [e EXCEPT !.file = r.file] BY Zenon
    <3>9. fd_table' = [fd_table EXCEPT ![fd - 3] = e2] BY <3>1, <3>4, <3>8
    <3>10. e2.used /\ Seen(e2) = [Seen(e) EXCEPT !.position = @ + n]
      BY <3>5, <3>7, <3>8 DEF SoundEntry, VfsFile, Seen
    <3>11. /\ fd \in DOMAIN Handles /\ Handles[fd] = Seen(e)
           /\ Handles' = [Handles EXCEPT ![fd] = Seen(e2)]
      <4>1. fd \in Int /\ fd = 3 + (fd - 3) BY SyscallAssumption DEF Fds
      <4>2. fd \in OpenFds(fd_table) BY <2>4, <4>1, OpenFdsAre
      <4>3. Handles' = [Handles EXCEPT ![3 + (fd - 3)] = Seen(e2)]
        <5>1. HandlesOf([fd_table EXCEPT ![fd - 3] = e2])
                = [HandlesOf(fd_table) EXCEPT ![3 + (fd - 3)] = Seen(e2)]
          BY <1>0, <3>1, <3>5, <3>10, HandlesMoved
        <5> QED BY <3>9, <5>1, HandlesAre
      <4> QED BY Zenon, <3>1, <4>1, <4>2, <4>3, HandlesAre DEF HandlesOf
    <3>12. Handles' = [Handles EXCEPT ![fd].position = @ + n] BY <3>10, <3>11
    <3>13. /\ Handles[fd].data = e.file.data /\ Handles[fd].position = e.file.position
           /\ Len(e.file.data) = e.file.size
      BY <3>5, <3>11 DEF Seen, SoundEntry
    <3>14. PICK rest : rest = Len(Handles[fd].data) - Handles[fd].position OBVIOUS
    <3>15. n = IF len < rest THEN len ELSE rest
      BY <2>0, <3>2, <3>5, <3>13, <3>14 DEF to_read, SoundEntry, VfsFile
    <3>16. bytes' = SubSeq(Handles[fd].data, Handles[fd].position + 1, Handles[fd].position + n)
      BY Zenon, <3>4, <3>7, <3>13
    <3>17. Promise!Read(fd, len)
      BY Zenon, <2>4, <3>6, <3>11, <3>12, <3>14, <3>15, <3>16 DEF Promise!Read, Promise!Answer
    <3> QED BY Zenon, <2>4, <2>1, <3>17
  <2> QED BY <2>2, <2>3, <2>4
<1>3. ASSUME NEW fd \in Fds, Close(fd) PROVE Promise!Next
  <2>0. call'[1] = "close" /\ call'[2] = fd BY <1>3 DEF Close, Returns
  <2>1. CASE ~OpenSlot(fd_table, fd)
    <3>1. fd_table' = fd_table /\ ret' = Failure /\ bytes' = <<>>
      BY <1>3, <2>1 DEF Close, Returns, sys_close
    <3>2. Promise!Close(fd) BY Zenon, <2>1, <3>1, ClosedFd, FailsStep DEF Promise!Close
    <3> QED BY Zenon, <2>0, <3>2 DEF Promise!Next
  <2>2. CASE OpenSlot(fd_table, fd)
    <3>1. PICK e : e = [file |-> NoFile, used |-> FALSE] BY Zenon
    <3>2. fd_table' = [fd_table EXCEPT ![fd - 3] = e] /\ ret' = 0 /\ bytes' = <<>>
      BY <1>3, <2>2, <3>1 DEF Close, Returns, sys_close, vfs_close
    <3>3. fd - 3 \in FdSlots /\ ~e.used BY <2>2, <3>1 DEF OpenSlot
    <3>4. fd \in Int /\ fd = 3 + (fd - 3) BY SyscallAssumption DEF Fds
    <3>5. fd \in OpenFds(fd_table) BY <2>2, <3>4, OpenFdsAre
    <3>6. DOMAIN Handles = OpenFds(fd_table) BY HandlesAre DEF HandlesOf
    <3>7. Handles' = [f \in OpenFds(fd_table) \ {3 + (fd - 3)} |-> Handles[f]]
      <4>1. HandlesOf([fd_table EXCEPT ![fd - 3] = e])
              = [f \in OpenFds(fd_table) \ {3 + (fd - 3)} |-> HandlesOf(fd_table)[f]]
        BY <1>0, <3>3, HandlesDropped
      <4> QED BY <3>2, <4>1, HandlesAre
    <3>8. Promise!Close(fd)
      BY Zenon, <3>2, <3>4, <3>5, <3>6, <3>7 DEF Promise!Close, Promise!Answer
    <3> QED BY Zenon, <2>0, <3>8 DEF Promise!Next
  <2> QED BY <2>1, <2>2
<1>4. ASSUME NEW fd \in Fds, NEW offset \in Offsets, NEW whence \in 0 .. 3, Seek(fd, offset, whence)
      PROVE  Promise!Next
  <2>0. offset \in Int BY SyscallAssumption
  <2>1. ASSUME Promise!Seek(fd, offset, whence) PROVE Promise!Next
    <3>1. call' = <<"seek", fd, offset, whence>> BY <1>4 DEF Seek, Returns
    <3>2. call'[1] = "seek" /\ call'[2] = fd /\ call'[3] = offset /\ call'[4] = whence BY <3>1
    <3> QED BY Zenon, <2>1, <3>2 DEF Promise!Next
  <2>2. CASE ~OpenSlot(fd_table, fd)
    <3>1. fd_table' = fd_table /\ ret' = Failure /\ bytes' = <<>>
      BY <1>4, <2>2 DEF Seek, Returns, sys_seek
    <3>2. Promise!Seek(fd, offset, whence)
      BY Zenon, <2>2, <3>1, ClosedFd, FailsStep DEF Promise!Seek
    <3> QED BY <2>1, <3>2
  <2>3. CASE OpenSlot(fd_table, fd)
    <3>1. PICK e : e = fd_table[fd - 3] OBVIOUS
    <3>2. fd - 3 \in FdSlots /\ SoundEntry(e) /\ e.used BY <2>3, <3>1, SlotOf
    <3>3. PICK p : p = seek_base(e.file, whence) + offset OBVIOUS
    <3> DEFINE target == <<0, Handles[fd].position, Len(Handles[fd].data)>>[whence + 1] + offset
    <3>4. /\ fd \in DOMAIN Handles /\ Handles[fd] = Seen(e)
          /\ Handles[fd].data = e.file.data /\ Handles[fd].position = e.file.position
          /\ Len(Handles[fd].data) = e.file.size
      <4>1. fd \in OpenFds(fd_table) BY <2>3, ClosedFd, HandlesAre DEF HandlesOf
      <4>2. fd \in DOMAIN Handles /\ Handles[fd] = Seen(e)
        BY Zenon, <3>1, <4>1, HandlesAre DEF HandlesOf
      <4> QED BY <3>2, <4>2 DEF Seen, SoundEntry
    <3>5. target = seek_base(e.file, whence) + offset BY Zenon, <3>4 DEF seek_base
    <3> HIDE DEF target
    <3>6. CASE ~seek_ok(e.file, offset, whence)
      <4>1. fd_table' = [fd_table EXCEPT ![fd - 3].file = e.file] /\ ret' = Failure /\ bytes' = <<>>
        BY <1>4, <2>3, <3>1, <3>6 DEF Seek, Returns, sys_seek, vfs_seek
      <4>2. fd_table \in [FdSlots -> [file : VfsFile, used : BOOLEAN]] BY <1>0 DEF TableOK
      <4>3. fd_table' = fd_table BY <3>1, <3>2, <4>1, <4>2
      <4>4. Promise!Fails BY Zenon, <4>1, <4>3, FailsStep
      <4>5. ~(whence \in 0 .. 2 /\ target \in 0 .. Len(Handles[fd].data))
        BY Zenon, <3>2, <3>6, <3>4, <3>5 DEF seek_ok, SoundEntry
      <4> QED BY Zenon, <2>1, <4>4, <4>5 DEF Promise!Seek, target
    <3>7. CASE seek_ok(e.file, offset, whence)
      <4>1. PICK e2 : e2 = [e EXCEPT !.file = [e.file EXCEPT !.position = p]] BY Zenon
      <4>2. /\ fd_table' = [fd_table EXCEPT ![fd - 3] = e2]
            /\ ret' = p /\ bytes' = <<>>
        BY <1>4, <2>3, <3>1, <3>3, <3>7, <4>1 DEF Seek, Returns, sys_seek, vfs_seek
      <4>3. p \in 0 .. e.file.size BY <3>3, <3>7 DEF seek_ok
      <4>4. e2.used /\ Seen(e2) = [Seen(e) EXCEPT !.position = p]
        BY <3>2, <4>1 DEF SoundEntry, VfsFile, Seen
      <4>5. /\ fd \in DOMAIN Handles /\ Handles[fd] = Seen(e)
            /\ Handles' = [Handles EXCEPT ![fd] = Seen(e2)]
        <5>1. fd \in Int /\ fd = 3 + (fd - 3) BY SyscallAssumption DEF Fds
        <5>2. fd \in OpenFds(fd_table) BY <2>3, <5>1, OpenFdsAre
        <5>3. Handles' = [Handles EXCEPT ![3 + (fd - 3)] = Seen(e2)]
          <6>1. HandlesOf([fd_table EXCEPT ![fd - 3] = e2])
                  = [HandlesOf(fd_table) EXCEPT ![3 + (fd - 3)] = Seen(e2)]
            BY <1>0, <3>1, <3>2, <4>4, HandlesMoved
          <6> QED BY <4>2, <6>1, HandlesAre
        <5> QED BY Zenon, <3>1, <5>1, <5>2, <5>3, HandlesAre DEF HandlesOf
      <4>6. Handles' = [Handles EXCEPT ![fd].position = p] BY <4>4, <4>5
      <4>7. p \in 0 .. Len(Handles[fd].data) BY <3>2, <4>3, <4>5 DEF Seen, SoundEntry
      <4>8. whence \in 0 .. 2 /\ target = p BY Zenon, <3>3, <3>7, <3>5 DEF seek_ok
      <4>9. Promise!Seek(fd, offset, whence)
        BY Zenon, <4>2, <4>5, <4>6, <4>7, <4>8 DEF Promise!Seek, Promise!Answer, target
      <4> QED BY <2>1, <4>9
    <3> QED BY <3>6, <3>7
  <2> QED BY <2>2, <2>3
<1>5. CASE Exit
  <2>1. call'[1] = "exit" /\ fd_table' = fd_table /\ ret' = 0 /\ bytes' = <<>>
    BY <1>5 DEF Exit, Returns
  <2> QED BY Zenon, <2>1, NothingStep DEF Promise!Next
<1>6. CASE Unknown
  <2>1. call'[1] = "unknown" /\ fd_table' = fd_table /\ ret' = Failure /\ bytes' = <<>>
    BY <1>6 DEF Unknown, Returns
  <2> QED BY Zenon, <2>1, FailsStep DEF Promise!Next
<1> QED BY <1>1, <1>2, <1>3, <1>4, <1>5, <1>6 DEF SyscallNext

\* For every initrd, table size and argument the calls implement independent
\* descriptors: each answers its own call as FileHandles says, an open with the
\* lowest free one, a read with the bytes that were asked for, and a call on one
\* descriptor moves no other (syscall.c:52-143).
THEOREM CallsImplementHandles == SyscallSpec => HandlesSpec
<1>1. SyscallInit => Promise!Init
  <2> SUFFICES ASSUME SyscallInit PROVE Promise!Init OBVIOUS
  <2>1. \A i \in FdSlots : ~fd_table[i].used BY DEF SyscallInit
  <2>2. OpenFds(fd_table) = {} BY Zenon, <2>1 DEF OpenFds
  <2>3. Handles = <<>> BY <2>2, HandlesAre DEF HandlesOf
  <2> QED BY <2>3 DEF SyscallInit, Promise!Init
<1>2. SyscallInv /\ [SyscallNext]_sysVars => [Promise!Next]_<<Handles, call, ret, bytes>>
  <2>1. ASSUME UNCHANGED sysVars PROVE UNCHANGED <<Handles, call, ret, bytes>>
    BY <2>1 DEF sysVars, Handles
  <2> QED BY <2>1, PromiseStep
<1> QED BY <1>1, <1>2, SyscallInvInit, SyscallInvNext, PTL DEF SyscallSpec, HandlesSpec, Promise!Spec
=============================================================================
