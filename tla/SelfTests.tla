----------------------------- MODULE SelfTests ------------------------------
(***************************************************************************)
(* run_syscall_smoke_test (kernel/kmain.c): five calls on the first file   *)
(* of the initrd, through int 0x80 like any program's, between the calls   *)
(* of a program that ran at boot (ELF_EXECUTE_ON_BOOT) and later ones.     *)
(* The queries that follow are in Queries.                                 *)
(***************************************************************************)
EXTENDS Syscall

CONSTANTS TestPath, TestLen     \* the first file's name; how much is read of it

ASSUME SelfTestAssumption == TestPath \in DOMAIN Content /\ TestLen \in Nat \ {0}

VARIABLE test                   \* the test's locals, and the table it found

testVars == <<sysVars, test>>

NoTest == [pc |-> "early", fd |-> 0, read_a |-> 0, a |-> <<>>, seek_ret |-> 0,
           read_b |-> 0, b |-> <<>>, close_ret |-> 0, before |-> <<>>]

SelfTestInit == SyscallInit /\ test = NoTest

\* Calls of programs, before and after the test.
Program == test.pc \in {"early", "done"} /\ SyscallNext /\ UNCHANGED test

test_open ==
    /\ test.pc = "early"
    /\ Open(TestPath)
    /\ test' = [test EXCEPT !.pc = "read_a", !.fd = ret', !.before = fd_table]

test_read_a ==
    /\ test.pc = "read_a"
    /\ Read(test.fd, TRUE, TestLen)
    /\ test' = [test EXCEPT !.pc = "seek", !.read_a = ret', !.a = bytes']

\* Mutant: SYS_SEEK_CUR.
test_seek_cur ==
    /\ test.pc = "seek"
    /\ Seek(test.fd, 0, 1)
    /\ test' = [test EXCEPT !.pc = "read_b", !.seek_ret = ret']

test_seek ==
    /\ test.pc = "seek"
    /\ Seek(test.fd, 0, 0)
    /\ test' = [test EXCEPT !.pc = "read_b", !.seek_ret = ret']

test_read_b ==
    /\ test.pc = "read_b"
    /\ Read(test.fd, TRUE, TestLen)
    /\ test' = [test EXCEPT !.pc = "close", !.read_b = ret', !.b = bytes']

test_close ==
    /\ test.pc = "close"
    /\ Close(test.fd)
    /\ test' = [test EXCEPT !.pc = "compare", !.close_ret = ret']

\* seek_match is printed, and the test is over.
test_compare ==
    /\ test.pc = "compare"
    /\ test' = [NoTest EXCEPT !.pc = "done"]
    /\ UNCHANGED sysVars

run_syscall_smoke_test ==
    test_open \/ test_read_a \/ test_seek \/ test_read_b \/ test_close \/ test_compare

SelfTestSpec == SelfTestInit /\ [][Program \/ run_syscall_smoke_test]_testVars
-----------------------------------------------------------------------------
\* Whatever descriptors a program has left open, as long as one is free the
\* test reads the start of the file twice, ends with every call successful and
\* seek_match=1, and leaves the table as it found it.  With a full table all
\* five calls fail and change nothing; the lengths it then compares the buffers
\* over are (uint32_t)-1 (kmain.c:188-270).
SelfTestRepeats ==
    test.pc = "compare" =>
        /\ fd_table = test.before
        /\ IF FreeSlots(test.before) # {}
           THEN /\ test.fd # Failure /\ test.seek_ret = 0 /\ test.close_ret = 0
                /\ test.read_a = test.read_b /\ test.a = test.b
                /\ test.a = vfs_read(vfs_open(TestPath), TestLen).bytes
           ELSE {test.fd, test.read_a, test.seek_ret, test.read_b, test.close_ret} = {Failure}

\* What syscall.h says of SYS_EXIT: "Terminate current execution context."
\* The program that runs at boot, the only caller before the test, makes no
\* call after it.
ExitTerminates == [][test.pc = "early" /\ call = <<"exit">> => ~Program]_sysVars
=============================================================================
