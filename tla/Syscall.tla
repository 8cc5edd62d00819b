------------------------------ MODULE Syscall -------------------------------
(***************************************************************************)
(* The system calls on files (proc/syscall.c): the descriptor table and    *)
(* the calls that change it, for every argument a program may pass.  A     *)
(* call runs through the interrupt gate 0x80 and is one step.  Reading     *)
(* descriptor 0 is in Keyboard, writing to descriptor 1 in Shell.          *)
(***************************************************************************)
EXTENDS Vfs, FiniteSets

CONSTANTS
    FD_COUNT,       \* entries of fd_table
    Paths,          \* what programs try to open
    Lens, Offsets   \* what they pass to read and seek

ASSUME SyscallAssumption ==
    /\ FD_COUNT \in Nat
    /\ Lens \subseteq Nat
    /\ Offsets \subseteq Int

VARIABLES
    fd_table,       \* slot -> [file, used]
    call,           \* the last call: its name and arguments
    ret,            \* the eax it returned
    bytes           \* what it copied out

sysVars == <<fd_table, call, ret, bytes>>

FdSlots == 0 .. FD_COUNT - 1

\* What fd may name: the calls subtract 3 and test the slot.
OpenSlot(t, fd) == fd - 3 \in FdSlots /\ t[fd - 3].used

FreeSlots(t) == {i \in FdSlots : ~t[i].used}

LowestFree(t) == CHOOSE i \in FreeSlots(t) : \A j \in FreeSlots(t) : i <= j

\* The loop runs to the first unused entry; a full table fails after the open.
sys_open(t, path) ==
    IF ~vfs_open(path).valid \/ FreeSlots(t) = {}
    THEN [table |-> t, ret |-> Failure]
    ELSE [table |-> [t EXCEPT ![LowestFree(t)] = [file |-> vfs_open(path), used |-> TRUE]],
          ret |-> 3 + LowestFree(t)]

\* A null buffer or a length of 0 is answered before the descriptor is looked at.
sys_read(t, fd, buffer, len) ==
    LET r == vfs_read(t[fd - 3].file, len)
    IN  CASE ~buffer \/ len = 0 -> [table |-> t, ret |-> 0, bytes |-> <<>>]
          [] buffer /\ len # 0 /\ ~OpenSlot(t, fd) -> [table |-> t, ret |-> Failure, bytes |-> <<>>]
          [] OTHER -> [table |-> [t EXCEPT ![fd - 3].file = r.file],
                       ret |-> Len(r.bytes), bytes |-> r.bytes]

sys_close(t, fd) ==
    IF OpenSlot(t, fd)
    THEN [table |-> [t EXCEPT ![fd - 3] = [file |-> vfs_close(@.file), used |-> FALSE]], ret |-> 0]
    ELSE [table |-> t, ret |-> Failure]

sys_seek(t, fd, offset, whence) ==
    LET r == vfs_seek(t[fd - 3].file, offset, whence)
    IN  IF OpenSlot(t, fd)
        THEN [table |-> [t EXCEPT ![fd - 3].file = r.file], ret |-> r.ret]
        ELSE [table |-> t, ret |-> Failure]
-----------------------------------------------------------------------------
SyscallInit ==
    /\ fd_table = [i \in FdSlots |-> [file |-> NoFile, used |-> FALSE]]
    /\ call = <<"none">>
    /\ ret = 0
    /\ bytes = <<>>

\* The table and eax after the call c, which delivers data.
Returns(c, r, data) ==
    /\ call' = c
    /\ fd_table' = r.table
    /\ ret' = r.ret
    /\ bytes' = data

Open(path) == Returns(<<"open", path>>, sys_open(fd_table, path), <<>>)

\* Without a buffer there is room for nothing.
Read(fd, buffer, len) ==
    LET r == sys_read(fd_table, fd, buffer, len)
    IN  Returns(<<"read", fd, IF buffer THEN len ELSE 0>>, r, r.bytes)

Close(fd) == Returns(<<"close", fd>>, sys_close(fd_table, fd), <<>>)

Seek(fd, offset, whence) ==
    Returns(<<"seek", fd, offset, whence>>, sys_seek(fd_table, fd, offset, whence), <<>>)

\* sys_exit prints a line and returns 0 to its caller.
Exit == Returns(<<"exit">>, [table |-> fd_table, ret |-> 0], <<>>)

\* A number outside the table.
Unknown == Returns(<<"unknown">>, [table |-> fd_table, ret |-> Failure], <<>>)

\* The descriptors tried: closed, open, and outside the table at both ends.
Fds == 1 .. FD_COUNT + 3

\* syscall_dispatch
SyscallNext ==
    \/ \E path \in Paths : Open(path)
    \/ \E fd \in Fds, buffer \in BOOLEAN, len \in Lens : Read(fd, buffer, len)
    \/ \E fd \in Fds : Close(fd)
    \/ \E fd \in Fds, offset \in Offsets, whence \in 0 .. 3 : Seek(fd, offset, whence)
    \/ Exit
    \/ Unknown

SyscallSpec == SyscallInit /\ [][SyscallNext]_sysVars
-----------------------------------------------------------------------------
\* The table has its shape, and eax the range of the calls' results.
SyscallTypeOK ==
    /\ fd_table \in [FdSlots -> [file : VfsFile, used : BOOLEAN]]
    /\ ret \in Nat \cup {Failure}
    /\ bytes \in Seq(Bytes)

\* A slot is in use exactly when its handle is valid, and then its position
\* lies inside the file it was opened on, end included: no sequence of opens,
\* seeks, reads and closes lets vfs_read start outside the file's bytes.
HandlesSound ==
    \A i \in FdSlots :
        LET file == fd_table[i].file
        IN  /\ fd_table[i].used <=> file.valid
            /\ file.size = Len(file.data)
            /\ file.position <= file.size

Handles ==
    [fd \in {3 + i : i \in {j \in FdSlots : fd_table[j].used}} |->
        [data |-> fd_table[fd - 3].file.data, position |-> fd_table[fd - 3].file.position]]

Promise == INSTANCE FileHandles WITH handles <- Handles, Capacity <- FD_COUNT

\* The calls implement independent descriptors: an open takes the lowest free
\* one and starts at 0, a read delivers the next bytes of the file, as many as
\* were asked for and there are, a seek goes where it was told, a call on one
\* descriptor never moves another, and a call fails, and changes nothing, exactly
\* when its own arguments or a full table are the reason (syscall.c:58-143).
HandlesSpec == Promise!Spec
=============================================================================
