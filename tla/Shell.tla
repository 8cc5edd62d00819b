------------------------------- MODULE Shell --------------------------------
(***************************************************************************)
(* The built-in shell (kernel/kmain.c) on the console and the file system  *)
(* calls: line editing, echo, and the commands.  A command word, a drive   *)
(* argument or a file name is one token and fills one cell; a message the  *)
(* properties do not tell apart is the token "msg".  print and println are *)
(* loops of printc: the text still to be printed is in out, and one step   *)
(* prints one character.                                                   *)
(***************************************************************************)
EXTENDS Console, Vfs, SequencesExt

CONSTANTS
    FD_COUNT,
    LINE_SIZE,          \* sizeof(line)
    CAT_SIZE,           \* sizeof(buf) in cmd_cat
    LS_MAX,             \* how many names ls shows
    Names,              \* the initrd's files, in order; each a sequence of tokens
    DriveOf,            \* the arguments cd accepts, and the drive each selects
    Printable           \* the tokens the keyboard can produce

ASSUME ShellAssumption ==
    /\ FD_COUNT \in Nat \ {0}
    /\ LINE_SIZE \in Nat \ {0}
    /\ CAT_SIZE \in Nat \ {0}
    /\ 4 + LINE_SIZE - 1 <= VGA_WIDTH * (VGA_HEIGHT - 1)

VARIABLES
    con,                \* the console
    fd_table,
    line,               \* line[0 .. line_len - 1]
    current_drive,
    spc,                \* "read": waiting for a key, "cat": in cmd_cat's loop
    out,                \* text being printed
    cat                 \* of the cat under way: the path, the descriptor and what
                        \* it has written; before: the table before the last one

shellVars == <<con, fd_table, line, current_drive, spc, out, cat>>

Sys == INSTANCE Syscall WITH
    Paths <- {}, Lens <- {}, Offsets <- {}, ret <- 0, bytes <- <<>>, call <- <<"none">>

Prompt == <<current_drive, ":", ">", " ">>

\* No cat is under way.
NoCat == [path |-> <<>>, fd |-> 0, before |-> <<>>, written |-> <<>>]

\* A program the kernel has run may have left descriptors open: which file they
\* are open on makes no difference here, so it is the first.
ShellInit ==
    /\ con = clear
    /\ fd_table \in [Sys!FdSlots ->
                        {[file |-> NoFile, used |-> FALSE],
                         [file |-> vfs_open(Names[1]), used |-> TRUE]}]
    /\ line = <<>>
    /\ current_drive = "A"
    /\ spc = "read"
    /\ out = <<"msg", "\n">> \o Prompt
    /\ cat = [NoCat EXCEPT !.before = fd_table]

Idle == out = <<>> /\ spc = "read"

\* One iteration of print's loop.
Printing ==
    /\ out # <<>>
    /\ con' = printc(con, Head(out))
    /\ out' = Tail(out)
    /\ UNCHANGED <<fd_table, line, current_drive, spc, cat>>
-----------------------------------------------------------------------------
\* A printable character is stored and echoed while there is room for it and
\* the terminating 0.
Typed(c) ==
    /\ Idle
    /\ IF Len(line) + 1 < LINE_SIZE
       THEN line' = Append(line, c) /\ out' = <<c>>
       ELSE UNCHANGED <<line, out>>
    /\ UNCHANGED <<con, fd_table, current_drive, spc, cat>>

\* Mutant: the guard is missing.
Backspace_unguarded ==
    /\ Idle
    /\ line' = IF line = <<>> THEN line ELSE Front(line)
    /\ out' = <<"bs">>
    /\ UNCHANGED <<con, fd_table, current_drive, spc, cat>>

Backspace ==
    /\ Idle
    /\ line # <<>>
    /\ line' = Front(line)
    /\ out' = <<"bs">>
    /\ UNCHANGED <<con, fd_table, current_drive, spc, cat>>

skip_spaces(str) ==
    LET lead == {n \in 0 .. Len(str) : \A i \in 1 .. n : str[i] = " "}
    IN  SubSeq(str, 1 + CHOOSE n \in lead : \A m \in lead : m <= n, Len(str))

\* n calls of println.
Lines(n) == [i \in 1 .. 2 * n |-> IF i % 2 = 1 THEN "msg" ELSE "\n"]

\* The heading, one line a file, and how many more there are.
cmd_ls(prefix) ==
    LET count == Cardinality({i \in DOMAIN Names : IsPrefix(prefix, Names[i])})
    IN  Lines(1 + Min({count, LS_MAX}) + (IF count > LS_MAX THEN 1 ELSE 0))

cmd_cd(arg) == IF Len(arg) = 1 /\ arg[1] \in DOMAIN DriveOf THEN DriveOf[arg[1]] ELSE current_drive

\* The word a command line starts with, if it ends there.
Starts(cmd, word) == cmd # <<>> /\ cmd[1] = word /\ (Len(cmd) > 1 => cmd[2] = " ")

Arg(cmd) == skip_spaces(Tail(cmd))

\* A command that prints text and returns to the prompt.
Answer(text) ==
    /\ line' = <<>>
    /\ out' = text \o Prompt
    /\ UNCHANGED <<con, fd_table, current_drive, spc, cat>>

\* cmd_cat up to its loop; without an argument the word is not recognised.
cmd_cat(path) ==
    LET r == Sys!sys_open(fd_table, path)
    IN  IF path = <<>> \/ r.ret = Failure THEN Answer(Lines(1))
        ELSE /\ fd_table' = r.table
             /\ cat' = [path |-> path, fd |-> r.ret, before |-> fd_table, written |-> <<>>]
             /\ spc' = "cat"
             /\ line' = <<>>
             /\ UNCHANGED <<con, current_drive, out>>

\* Mutants: a short read ends the loop; only a failed one does.
cat_done_short(count) == count < CAT_SIZE

cat_done_failed(count) == count = Failure

\* The break of cmd_cat's loop.
cat_done(count) == count \in {Failure, 0}

\* Mutant: the descriptor is not closed.
cat_close_skipped(t) == t

\* The close after it.
cat_close(t) == Sys!sys_close(t, cat.fd).table

\* One turn of cmd_cat's loop: read, then write what was read, or close.
cat_loop ==
    LET r == Sys!sys_read(fd_table, cat.fd, TRUE, CAT_SIZE)
    IN  /\ out = <<>> /\ spc = "cat"
        /\ IF cat_done(r.ret)
           THEN /\ fd_table' = cat_close(r.table)
                /\ out' = <<"\n">> \o Prompt
                /\ spc' = "read"
                /\ cat' = [NoCat EXCEPT !.before = cat.before]
           ELSE /\ fd_table' = r.table
                /\ out' = r.bytes
                /\ cat' = [cat EXCEPT !.written = @ \o r.bytes]
                /\ UNCHANGED spc
        /\ UNCHANGED <<con, line, current_drive>>

\* The Enter key: the branches of run_builtin_shell.
Enter ==
    LET cmd == skip_spaces(line)
    IN  /\ Idle
        /\ CASE cmd = <<>> -> Answer(<<>>)
             [] cmd = <<"help">> -> Answer(Lines(5))
             [] cmd = <<"clear">> ->
                    /\ con' = clear
                    /\ line' = <<>>
                    /\ out' = Prompt
                    /\ UNCHANGED <<fd_table, current_drive, spc, cat>>
             [] Starts(cmd, "ls") -> Answer(cmd_ls(Arg(cmd)))
             [] Starts(cmd, "cat") /\ Len(cmd) > 1 -> cmd_cat(Arg(cmd))
             [] Starts(cmd, "cd") ->
                    /\ current_drive' = cmd_cd(Arg(cmd))
                    /\ line' = <<>>
                    /\ out' = Lines(1) \o Prompt'
                    /\ UNCHANGED <<con, fd_table, spc, cat>>
             [] OTHER -> Answer(<<"msg">> \o cmd \o <<"\n">>)

ShellNext ==
    \/ Printing
    \/ \E c \in Printable : Typed(c)
    \/ Backspace
    \/ Enter
    \/ cat_loop

ShellSpec == ShellInit /\ [][ShellNext]_shellVars

\* The shell stops only to wait for a key.
FairShellSpec == ShellSpec /\ WF_shellVars(Printing) /\ WF_shellVars(cat_loop)
-----------------------------------------------------------------------------
\* The hardware cursor is where the next character will appear, and that is on
\* the screen, after every character printed: wraps, scrolls and backspaces
\* included (print.c:43-124).
CursorShown ==
    /\ con.hardware = Position(con)
    /\ con.cursor_x < VGA_WIDTH /\ con.cursor_y < VGA_HEIGHT
    /\ DOMAIN con.video_memory = Cells

\* While the shell waits for a key, the prompt and exactly the typed line stand
\* before the cursor, whatever was typed, erased, wrapped or scrolled: a
\* backspace never reaches the prompt ("Prompt itself (A:>) cannot be erased"),
\* and the line keeps room for its terminating 0.
LineOnScreen ==
    Idle => LET text == Prompt \o line
            IN  /\ Len(line) < LINE_SIZE
                /\ \A i \in DOMAIN text :
                       con.video_memory[Position(con) - Len(text) + i - 1] = text[i]

\* A cat that ends has written the whole file, in order and once, however its
\* size falls against the buffer's: empty, a multiple of it, or not
\* (kmain.c:478-488).
CatWritesFile ==
    [][spc = "cat" /\ spc' = "read" => cat.written = Content[cat.path]]_shellVars

\* Commands leave the descriptor table as they found it, also when other
\* descriptors are open or the table is full.
DescriptorsRestored == spc = "read" => fd_table = cat.before

\* Every command comes back to the prompt and waits for a key again: its output
\* ends, and cat's loop does.
CommandsReturn == []<>Idle
=============================================================================
