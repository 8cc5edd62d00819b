------------------------------- MODULE Initrd -------------------------------
(***************************************************************************)
(* The initrd (fs/initrd.c): initrd_init walks the TAR archive that the    *)
(* boot loader left in memory twice, first to count the regular files and  *)
(* then to index them, and the lookups search the index.  One step is one  *)
(* turn of a loop.  A name is a sequence of characters: the code compares  *)
(* prefixes and shortens names.                                            *)
(***************************************************************************)
EXTENDS Integers, SequencesExt

CONSTANTS
    BLOCK,          \* 512: the size of a header, and what payloads are padded to
    NAME_SIZE,      \* 100: the name fields of the header and of an index entry
    WORD,           \* 2^32
    Modules,        \* the first boot module, as the loader may leave it
    ListPrefixes    \* what clients list

\* archive is the member list, size the bytes of it that are in memory;
\* present is false when the loader reports no module.  A member is regular
\* when its type flag is '0' or NUL; its size is what the octal digits of its
\* size field stand for, which need not fit 32 bits.  data is what the walks
\* see when they take bytes of a payload, or bytes outside the module, for a
\* header: an empty block or, in <<m>>, the header of a member m.
ASSUME InitrdAssumption ==
    /\ BLOCK \in Nat \ {0}
    /\ NAME_SIZE \in Nat \ {0}
    /\ WORD \in Nat \ {0} /\ WORD % BLOCK = 0
    /\ \A m \in Modules :
           /\ DOMAIN m = {"present", "archive", "size", "data"}
           /\ m.present \in BOOLEAN
           /\ m.size \in 0 .. WORD - 1
           /\ Len(m.data) <= 1
           /\ \A member \in ToSet(m.archive) \cup ToSet(m.data) :
                  /\ DOMAIN member = {"name", "regular", "size"}
                  /\ Len(member.name) \in 1 .. NAME_SIZE
                  /\ member.size \in Nat

VARIABLES
    module,         \* mods[0]
    ipc,            \* where initrd_init is
    offset, count,
    files,          \* initrd_files[0 .. index - 1]
    table,          \* kcalloc has returned a table
    ready           \* initrd_ready

initrdVars == <<module, ipc, offset, count, files, table, ready>>

\* The value of the digits, shifted through a uint32_t.
octal_to_u32(size) == size % WORD

\* A payload's size rounded up to whole blocks, in uint32_t.
RoundUp(size) == LET sum == (size + BLOCK - 1) % WORD IN sum - (sum % BLOCK)

\* Mutant: the padding is forgotten.
jump_unpadded(header) == (BLOCK + octal_to_u32(header.size)) % WORD

jump(header) == (BLOCK + RoundUp(octal_to_u32(header.size))) % WORD

\* Where tar puts the members' headers, and last the zero blocks that end the
\* archive.
Starts ==
    LET at[i \in 1 .. Len(module.archive) + 1] ==
            IF i = 1 THEN 0
            ELSE at[i - 1] + BLOCK * (1 + (module.archive[i - 1].size + BLOCK - 1) \div BLOCK)
    IN  at

\* The block at an offset: empty, or a header.
BlockAt(off) ==
    LET inside == off + BLOCK <= module.size
        here == {i \in DOMAIN module.archive : Starts[i] = off}
    IN  CASE inside /\ here # {} -> <<module.archive[CHOOSE i \in here : TRUE]>>
          [] inside /\ off >= Starts[Len(module.archive) + 1] -> <<>>
          [] OTHER -> module.data

\* A walk goes on at an offset: as far as it can tell the block there is inside
\* the module, and it is not all zero.
GoesOn(off) == (off + BLOCK) % WORD <= module.size /\ BlockAt(off) # <<>>

header == BlockAt(offset)[1]
-----------------------------------------------------------------------------
InitrdInit ==
    /\ module \in Modules
    /\ ipc = "start"
    /\ offset = 0
    /\ count = 0
    /\ files = <<>>
    /\ table = FALSE
    /\ ready = FALSE

initrd_init ==
    /\ ipc = "start"
    /\ ipc' = IF module.present THEN "count" ELSE "done"
    /\ UNCHANGED <<module, offset, count, files, table, ready>>

\* Mutant: the walk does not stop when it does not move.
count_member_stays ==
    /\ ipc = "count" /\ GoesOn(offset)
    /\ count' = (count + (IF header.regular THEN 1 ELSE 0)) % WORD
    /\ offset' = (offset + jump(header)) % WORD
    /\ UNCHANGED <<module, ipc, files, table, ready>>

\* One turn of the first loop.
count_member ==
    /\ ipc = "count" /\ GoesOn(offset)
    /\ count' = (count + (IF header.regular THEN 1 ELSE 0)) % WORD
    /\ offset' = (offset + jump(header)) % WORD
    /\ ipc' = IF jump(header) = 0 THEN "alloc" ELSE "count"
    /\ UNCHANGED <<module, files, table, ready>>

count_end ==
    /\ ipc = "count" /\ ~GoesOn(offset)
    /\ ipc' = "alloc"
    /\ UNCHANGED <<module, offset, count, files, table, ready>>

\* No regular file: the initrd is ready and empty.  Otherwise kcalloc provides
\* the table, or fails and leaves the initrd unavailable.
initrd_alloc ==
    /\ ipc = "alloc"
    /\ \/ count = 0 /\ ipc' = "done" /\ ready' = TRUE /\ UNCHANGED <<offset, table>>
       \/ count # 0 /\ ipc' = "done" /\ UNCHANGED <<offset, ready, table>>
       \/ count # 0 /\ ipc' = "fill" /\ table' = TRUE /\ offset' = 0 /\ UNCHANGED ready
    /\ UNCHANGED <<module, count, files>>

\* Mutant: a truncated payload is indexed.
Complete_header == header.regular

\* Only a member whose whole payload lies inside the module is indexed.
Complete ==
    header.regular /\ (offset + BLOCK + octal_to_u32(header.size)) % WORD <= module.size

\* The copied name: a name that fills its field has no terminating 0 and
\* loses its last character.
StoredName(name) == IF Len(name) >= NAME_SIZE THEN SubSeq(name, 1, NAME_SIZE - 1) ELSE name

Entry ==
    [name |-> StoredName(header.name), offset |-> (offset + BLOCK) % WORD,
     size |-> octal_to_u32(header.size)]

\* One turn of the second loop.
fill_member ==
    /\ ipc = "fill" /\ GoesOn(offset)
    /\ Len(files) < count
    /\ files' = IF Complete THEN Append(files, Entry) ELSE files
    /\ offset' = (offset + jump(header)) % WORD
    /\ ipc' = IF jump(header) = 0 THEN "publish" ELSE "fill"
    /\ UNCHANGED <<module, count, table, ready>>

fill_end ==
    /\ ipc = "fill"
    /\ ~GoesOn(offset) \/ Len(files) >= count
    /\ ipc' = "publish"
    /\ UNCHANGED <<module, offset, count, files, table, ready>>

publish ==
    /\ ipc = "publish"
    /\ ready' = TRUE
    /\ ipc' = "done"
    /\ UNCHANGED <<module, offset, count, files, table>>

InitrdStep ==
    \/ initrd_init \/ count_member \/ count_end \/ initrd_alloc
    \/ fill_member \/ fill_end \/ publish

InitrdSpec == InitrdInit /\ [][InitrdStep]_initrdVars

FairInitrdSpec == InitrdSpec /\ WF_initrdVars(InitrdStep)
-----------------------------------------------------------------------------
\* What the lookups answer; 0 is <<>>.
Usable == ready /\ table

\* Mutant: the last entry of a name is found.
Found_last(name) ==
    LET hits == {i \in DOMAIN files : files[i].name = name}
    IN  IF ~Usable \/ hits = {} THEN {} ELSE {files[CHOOSE i \in hits : \A j \in hits : j <= i]}

\* initrd_get_file_data and initrd_get_file_size_by_name: the first entry of
\* that name, if there is one.
Found(name) ==
    LET hits == {i \in DOMAIN files : files[i].name = name}
    IN  IF ~Usable \/ hits = {} THEN {} ELSE {files[CHOOSE i \in hits : \A j \in hits : i <= j]}

\* The entries cstr_has_prefix accepts, in order.
Matching(prefix) == IF Usable THEN SelectSeq(files, LAMBDA e : IsPrefix(prefix, e.name)) ELSE <<>>

initrd_count_prefix(prefix) == Len(Matching(prefix))

\* The index-th match, from 0.
initrd_get_file_name_by_prefix(prefix, index) ==
    IF index < Len(Matching(prefix)) THEN Matching(prefix)[index + 1].name ELSE <<>>
-----------------------------------------------------------------------------
\* The regular members whose header and payload lie inside the module.
WholeMembers ==
    SelectSeq([i \in DOMAIN module.archive |-> i],
              LAMBDA i : /\ module.archive[i].regular
                         /\ Starts[i] + BLOCK + module.archive[i].size <= module.size)

MemberEntry(i) ==
    [name |-> StoredName(module.archive[i].name), offset |-> Starts[i] + BLOCK,
     size |-> module.archive[i].size]

\* Every member whose header is in memory ends, and leaves room for a block,
\* below 2^32.  A size field may hold up to 8^12 - 1, and nothing in initrd.c
\* refuses one for which this fails.
NoWrap ==
    \A i \in DOMAIN module.archive :
        Starts[i] + BLOCK <= module.size => Starts[i + 1] + BLOCK < WORD

\* When initrd_init is done and ready, the index lists these members, in
\* archive order and with the right place and size: the two walks agree,
\* whatever is cut off.  Whatever the sizes, no entry is written past the table
\* that the first walk sized, and no name past its field (initrd.c:148-217).
IndexMatchesArchive ==
    /\ ready /\ NoWrap =>
           /\ Len(files) = IF module.present THEN Len(WholeMembers) ELSE 0
           /\ \A k \in DOMAIN files : files[k] = MemberEntry(WholeMembers[k])
    /\ Len(files) <= count
    /\ \A k \in DOMAIN files : Len(files[k].name) < NAME_SIZE

\* The indexed payloads lie inside the module and overlap neither each other
\* nor any header, so a read through the VFS sees one file's bytes only.
PayloadsDisjoint ==
    LET bytes(f) == f.offset .. f.offset + f.size - 1
    IN  NoWrap =>
        /\ \A k \in DOMAIN files : bytes(files[k]) \subseteq 0 .. module.size - 1
        /\ \A k, l \in DOMAIN files : k # l => bytes(files[k]) \cap bytes(files[l]) = {}
        /\ \A k \in DOMAIN files, i \in DOMAIN module.archive :
               bytes(files[k]) \cap (Starts[i] .. Starts[i] + BLOCK - 1) = {}

\* Under every prefix a client that counts and then asks for one name after
\* the other sees exactly the members in memory with that prefix, and every
\* name it sees opens, as the first of the members that carry it.
ListedFilesOpen ==
    LET stored(i) == StoredName(module.archive[i].name)
        shown(prefix) == SelectSeq(WholeMembers, LAMBDA i : IsPrefix(prefix, stored(i)))
    IN  Usable /\ NoWrap => \A prefix \in ListPrefixes :
            /\ initrd_count_prefix(prefix) = Len(shown(prefix))
            /\ \A n \in DOMAIN shown(prefix) :
                   LET name == initrd_get_file_name_by_prefix(prefix, n - 1)
                       same == {i \in Range(WholeMembers) : stored(i) = name}
                   IN  /\ shown(prefix)[n] \in same
                       /\ Found(name) = {MemberEntry(Min(same))}

\* No header a walk may come upon takes it past 2^32 and so back to a smaller
\* offset; a size that makes it stay where it is may occur.
Forward ==
    \A off \in {b * BLOCK : b \in 0 .. WORD \div BLOCK - 1} :
        GoesOn(off) => LET j == jump(BlockAt(off)[1]) IN j = 0 \/ off + j < WORD

\* Both walks end, wherever the archive is cut off and also where sizes wrap,
\* provided that none of them leads a walk back (initrd.c:148-167, 180-213).
InitrdReturns == Forward => <>(ipc = "done")

\* initrd.h on initrd_get_file_data: "Resolve file contents by path/name."
\* A regular file that is wholly in memory is found under its own name.
MembersOpen ==
    Usable /\ NoWrap =>
        \A i \in Range(WholeMembers) : Found(module.archive[i].name) # {}
=============================================================================
