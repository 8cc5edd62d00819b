---------------------------- MODULE FileHandles -----------------------------
(***************************************************************************)
(* What the file system calls promise a program: descriptors from 3 up, at *)
(* most Capacity of them open, each an independent position in the bytes   *)
(* of the file it was opened on.  A step is one call and its answer, which *)
(* the call and the open descriptors determine.                            *)
(***************************************************************************)
EXTENDS Integers, Sequences

CONSTANTS Content, Capacity

VARIABLES
    handles,    \* open descriptor -> [data, position]
    call,       \* the last call: its name and arguments
    ret,        \* the value it returned
    bytes       \* the bytes it delivered

Failure == -1

Init == handles = <<>> /\ call = <<"none">> /\ ret = 0 /\ bytes = <<>>

Answer(h, value, data) == handles' = h /\ ret' = value /\ bytes' = data

Fails == Answer(handles, Failure, <<>>)

Free == (3 .. 2 + Capacity) \ DOMAIN handles

\* The lowest free descriptor, at the start of the file.
Open(path) ==
    \/ /\ path \in DOMAIN Content
       /\ \E fd \in Free :
              /\ \A lower \in 3 .. fd - 1 : lower \in DOMAIN handles
              /\ Answer([f \in DOMAIN handles \cup {fd} |->
                            IF f = fd THEN [data |-> Content[path], position |-> 0] ELSE handles[f]],
                        fd, <<>>)
    \/ (path \notin DOMAIN Content \/ Free = {}) /\ Fails

\* The next bytes of the file, as many as were asked for and as there are.
\* To ask for none is no error, whatever the descriptor.
Read(fd, len) ==
    LET h == handles[fd]
        rest == Len(h.data) - h.position
        n == IF len < rest THEN len ELSE rest
    IN  \/ len = 0 /\ Answer(handles, 0, <<>>)
        \/ len # 0 /\ fd \notin DOMAIN handles /\ Fails
        \/ /\ len # 0 /\ fd \in DOMAIN handles
           /\ Answer([handles EXCEPT ![fd].position = @ + n],
                     n, SubSeq(h.data, h.position + 1, h.position + n))

\* From the start (0), the position (1) or the end (2), to a place in the file.
Seek(fd, offset, whence) ==
    LET h == handles[fd]
        target == <<0, h.position, Len(h.data)>>[whence + 1] + offset
        possible == fd \in DOMAIN handles /\ whence \in 0 .. 2 /\ target \in 0 .. Len(h.data)
    IN  \/ possible /\ Answer([handles EXCEPT ![fd].position = target], target, <<>>)
        \/ ~possible /\ Fails

Close(fd) ==
    \/ fd \in DOMAIN handles /\ Answer([f \in DOMAIN handles \ {fd} |-> handles[f]], 0, <<>>)
    \/ fd \notin DOMAIN handles /\ Fails

Next ==
    \/ call'[1] = "open" /\ Open(call'[2])
    \/ call'[1] = "read" /\ Read(call'[2], call'[3])
    \/ call'[1] = "seek" /\ Seek(call'[2], call'[3], call'[4])
    \/ call'[1] = "close" /\ Close(call'[2])
    \/ call'[1] = "exit" /\ Answer(handles, 0, <<>>)
    \/ call'[1] = "unknown" /\ Fails

Spec == Init /\ [][Next]_<<handles, call, ret, bytes>>
=============================================================================
