-------------------------------- MODULE Vfs ---------------------------------
(***************************************************************************)
(* File handles over the initrd (fs/vfs.c), as operators on one handle.    *)
(* Content is the initrd as vfs_open sees it: for each name that           *)
(* initrd_get_file_data finds, the bytes of the file.                      *)
(***************************************************************************)
EXTENDS Integers, Sequences

CONSTANTS Bytes, Content

ASSUME ContentAssumption == \A path \in DOMAIN Content : Content[path] \in Seq(Bytes)

\* The (uint32_t)-1 that reports a failure.
Failure == -1

VfsFile == [data : Seq(Bytes), size : Nat, position : Nat, valid : BOOLEAN]

NoFile == [data |-> <<>>, size |-> 0, position |-> 0, valid |-> FALSE]

vfs_open(path) ==
    IF path \in DOMAIN Content
    THEN [data |-> Content[path], size |-> Len(Content[path]), position |-> 0, valid |-> TRUE]
    ELSE NoFile

\* How many bytes a read of size bytes delivers.
to_read(file, size) ==
    IF ~file.valid \/ file.position >= file.size THEN 0
    ELSE IF size < file.size - file.position THEN size
    ELSE file.size - file.position

\* Mutant: copies from the start of the file.
vfs_read_start(file, size) ==
    [file |-> [file EXCEPT !.position = @ + to_read(file, size)],
     bytes |-> SubSeq(file.data, 1, to_read(file, size))]

\* The handle after the read, and the bytes copied to the buffer.
vfs_read(file, size) ==
    [file |-> [file EXCEPT !.position = @ + to_read(file, size)],
     bytes |-> SubSeq(file.data, file.position + 1, file.position + to_read(file, size))]

\* VFS_SEEK_SET, VFS_SEEK_CUR and VFS_SEEK_END are 0, 1 and 2.
seek_base(file, whence) == <<0, file.position, file.size>>[whence + 1]

\* Mutant: the end of the file is not a bound.
seek_ok_past_end(file, offset, whence) ==
    file.valid /\ whence \in 0 .. 2 /\ seek_base(file, whence) + offset >= 0

\* The target is computed in 64 bits and does not wrap.
seek_ok(file, offset, whence) ==
    /\ file.valid
    /\ whence \in 0 .. 2
    /\ seek_base(file, whence) + offset \in 0 .. file.size

\* The handle after the seek, and the value returned.
vfs_seek(file, offset, whence) ==
    IF seek_ok(file, offset, whence)
    THEN [file |-> [file EXCEPT !.position = seek_base(file, whence) + offset],
          ret |-> seek_base(file, whence) + offset]
    ELSE [file |-> file, ret |-> Failure]

vfs_close(file) == NoFile
=============================================================================
