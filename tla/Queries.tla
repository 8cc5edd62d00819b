------------------------------ MODULE Queries -------------------------------
(***************************************************************************)
(* The system calls that ask for the initrd's files (proc/syscall.c) and   *)
(* what the kernel prints with them (kernel/kmain.c): ls, the listing demo *)
(* and the self tests that only query.  They change nothing, so each is an *)
(* operator on the state initrd_init leaves.                               *)
(***************************************************************************)
EXTENDS Initrd

CONSTANTS
    LS_BUFFER, DEMO_BUFFER,     \* sizeof(name) in cmd_ls and in the demo
    LS_MAX, DEMO_MAX            \* how many names they show

ASSUME QueriesAssumption ==
    /\ LS_BUFFER \in Nat \ {0} /\ DEMO_BUFFER \in Nat \ {0}
    /\ LS_MAX \in Nat /\ DEMO_MAX \in Nat

\* (uint32_t)-1
Failure == WORD - 1

Failed == [ret |-> Failure, text |-> <<>>]

\* Mutant: no room is kept for the terminating 0.
copy_cstr_to_user_full(dst_len, src) ==
    LET n == Min({dst_len, Len(src)})
    IN  IF src = <<>> \/ dst_len = 0 THEN Failed ELSE [ret |-> n, text |-> SubSeq(src, 1, n)]

\* The value returned and the characters before the terminating 0.  No name,
\* the null pointer, is the empty sequence: tar writes no empty names.
copy_cstr_to_user(dst_len, src) ==
    LET n == Min({dst_len - 1, Len(src)})
    IN  IF src = <<>> \/ dst_len = 0 THEN Failed ELSE [ret |-> n, text |-> SubSeq(src, 1, n)]

initrd_file_count == IF ready THEN Len(files) ELSE 0

initrd_get_file_name(index) == IF Usable /\ index < Len(files) THEN files[index + 1].name ELSE <<>>

sys_file_count == initrd_file_count

sys_file_name(index, buffer_len) ==
    IF ready THEN copy_cstr_to_user(buffer_len, initrd_get_file_name(index)) ELSE Failed

\* initrd_get_file_size
sys_file_size(index) == IF Usable /\ index < Len(files) THEN files[index + 1].size ELSE Failure

\* initrd_get_file_size_by_name
sys_file_size_by_name(name) ==
    IF Found(name) = {} THEN Failure ELSE (CHOOSE e \in Found(name) : TRUE).size

sys_file_count_prefix(prefix) == initrd_count_prefix(prefix)

sys_file_name_prefix(prefix, index, buffer_len) ==
    copy_cstr_to_user(buffer_len, initrd_get_file_name_by_prefix(prefix, index))
-----------------------------------------------------------------------------
\* Mutant: the size is asked for by the line's number.
ls_line_by_index(prefix, i) ==
    LET name == sys_file_name_prefix(prefix, i, LS_BUFFER)
    IN  [name |-> name.text, size |-> sys_file_size(i)]

\* The name in the buffer, and the size of the file of that name.
ls_line(prefix, i) ==
    LET name == sys_file_name_prefix(prefix, i, LS_BUFFER)
    IN  [name |-> name.text, size |-> sys_file_size_by_name(name.text)]

\* The lines of ls; one whose name cannot be had is left out.
cmd_ls(prefix) ==
    LET show == Min({sys_file_count_prefix(prefix), LS_MAX})
        had == SelectSeq([i \in 1 .. show |-> i - 1],
                         LAMBDA i : sys_file_name_prefix(prefix, i, LS_BUFFER).ret # Failure)
    IN  [n \in DOMAIN had |-> ls_line(prefix, had[n])]

\* The demo's lines, by index.
run_fs_listing_demo ==
    [i \in 1 .. Min({sys_file_count, DEMO_MAX}) |->
        [name |-> sys_file_name(i - 1, DEMO_BUFFER).text, size |-> sys_file_size(i - 1)]]

\* The verdict of the VFS self test, which opens the first file.
run_vfs_smoke_test ==
    CASE ~ready \/ initrd_file_count = 0 -> "SKIP"
      [] initrd_get_file_name(0) = <<>> -> "FAIL"
      [] Found(initrd_get_file_name(0)) = {} -> "FAIL"
      [] OTHER -> "OK"
-----------------------------------------------------------------------------
\* What the queries of the system call self test have to agree on: the first
\* file found by its index, by its name and under the empty prefix.
FirstFileAgrees ==
    initrd_file_count > 0 =>
        /\ sys_file_size(0) = sys_file_size_by_name(initrd_get_file_name(0))
        /\ sys_file_name(0, DEMO_BUFFER) = sys_file_name_prefix(<<>>, 0, DEMO_BUFFER)
        /\ sys_file_count_prefix(<<>>) = sys_file_count

\* The queries tell the truth about the archive: the files counted are the
\* whole members; under every index a buffer of any length receives that
\* member's name, cut to fit with its terminating 0, or a failure if there is no
\* room for even that; each line of the demo has its own size, the VFS test
\* never fails, and before initrd_init has published its index there is nothing
\* to see (syscall.c:24-38, 145-198, kmain.c:142-186, 238-262, 309-373).
QueriesTruthful ==
    /\ ready /\ module.present /\ NoWrap =>
           /\ sys_file_count = Len(WholeMembers)
           /\ \A i \in DOMAIN WholeMembers :
                  LET m == module.archive[WholeMembers[i]]
                      name == StoredName(m.name)
                  IN  /\ \A len \in 1 .. NAME_SIZE + 1 :
                             sys_file_name(i - 1, len).text = SubSeq(name, 1, Min({Len(name), len - 1}))
                      /\ i \in DOMAIN run_fs_listing_demo =>
                             run_fs_listing_demo[i] =
                                 [name |-> sys_file_name(i - 1, DEMO_BUFFER).text, size |-> m.size]
    /\ \A i \in 0 .. Len(files) : (~ready \/ i = Len(files)) =>
           sys_file_name(i, DEMO_BUFFER) = Failed /\ sys_file_size(i) = Failure
    /\ sys_file_name(0, 0) = Failed
    /\ ~ready => sys_file_count = 0
    /\ run_vfs_smoke_test # "FAIL"
    /\ FirstFileAgrees

\* Every line of ls belongs to a member with the prefix, in archive order and
\* up to the limit, and the size beside a name is that of the file the name
\* opens.  Only a name that the buffer has cut short can go without a size, or
\* with another file's (kmain.c:432-461).
LsFaithful ==
    Usable /\ NoWrap => \A prefix \in ListPrefixes :
        LET shown == SelectSeq(WholeMembers, LAMBDA i : IsPrefix(prefix, StoredName(module.archive[i].name)))
            lines == cmd_ls(prefix)
        IN  /\ Len(lines) = Min({Len(shown), LS_MAX})
            /\ \A n \in DOMAIN lines :
                   LET name == StoredName(module.archive[shown[n]].name)
                       same == {i \in Range(WholeMembers) : StoredName(module.archive[i].name) = lines[n].name}
                   IN  /\ IsPrefix(lines[n].name, name)
                       /\ Len(name) < LS_BUFFER => lines[n].name = name
                       /\ lines[n].size = IF same = {} THEN Failure ELSE module.archive[Min(same)].size
                       /\ lines[n].size = Failure => Len(name) >= LS_BUFFER
=============================================================================
