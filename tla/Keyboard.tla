------------------------------ MODULE Keyboard ------------------------------
(***************************************************************************)
(* Keyboard input (drivers/keyboard.c): scancodes arrive by IRQ1, are      *)
(* decoded and pushed into a ring buffer; the kernel pops them, from the   *)
(* shell with interrupts on and from sys_read with interrupts off.  The    *)
(* steps of keyboard_pop_char are those of the compiled code: test for     *)
(* empty, load the character, store the new tail.                          *)
(***************************************************************************)
EXTENDS Interrupts

CONSTANTS
    KBD_BUFFER_SIZE,
    Keys,               \* keys with a character in the tables
    TickModulus,        \* timer_ticks is a uint32_t
    ReadLens            \* lengths passed to sys_read

ShiftKeys == {"lshift", "rshift"}

ASSUME KeyboardAssumption ==
    /\ KBD_BUFFER_SIZE \in Nat \ {0, 1}
    /\ TickModulus \in Nat \ {0}
    /\ ReadLens \subseteq Nat
    /\ Keys \cap ShiftKeys = {}

VARIABLES
    ps2,                \* the controller's output buffer: at most one scancode
    early,              \* pic_init found a scancode there (no code reads this)
    down,               \* the shift keys held down (the user's view)
    steady,             \* the last shift code sent agrees with them (likewise)
    shift_pressed,
    kbd,                \* [buffer, head, tail]
    timer_ticks,
    kpc,                \* where the kernel is
    c,                  \* keyboard_pop_char's register
    got                 \* what a read has returned, until the kernel has used it

kbdVars == <<ps2, early, down, steady, shift_pressed, kbd, timer_ticks, kpc, c, got>>

vars == <<intVars, kbdVars>>

\* The tables (shifted or not) that suit the shift keys: either, when the last
\* shift code was misleading.
Suits(keys, agrees) == IF agrees THEN {keys # {}} ELSE BOOLEAN

\* One byte of set 1: the code of a key, pressed or released.  "other" stands
\* for every byte the decoder ignores: keys the tables map to 0, releases of all
\* but the shift keys, and the prefix E0.  The byte behind a prefix is decoded
\* as if the prefix were not there.  suits, which no code reads, says what the
\* shift keys were like when the byte was sent.
Scancode == [key : Keys \cup ShiftKeys \cup {"other"}, release : BOOLEAN, suits : SUBSET BOOLEAN]

\* A character: the key, the table it was looked up in and, which no code reads
\* either, whether that table suited the shift keys when the byte was sent.
Chars == [key : Keys, shifted : BOOLEAN, suited : BOOLEAN]

\* The 0 of ps2_scancode_to_ascii, and what the ring holds before it is filled.
NoChar == [key |-> "none", shifted |-> FALSE, suited |-> FALSE]

Slots == 0 .. KBD_BUFFER_SIZE - 1

\* The characters between tail and head.
Contents ==
    [i \in 1 .. (kbd.head - kbd.tail) % KBD_BUFFER_SIZE |->
        kbd.buffer[(kbd.tail + i - 1) % KBD_BUFFER_SIZE]]

KeyboardInit ==
    /\ InterruptsInit
    /\ ps2 = <<>>
    /\ early = FALSE
    /\ down = {}
    /\ steady = TRUE
    /\ shift_pressed = FALSE
    /\ kbd = [buffer |-> [i \in Slots |-> NoChar], head |-> 0, tail |-> 0]
    /\ timer_ticks = 0
    /\ kpc = "pic_init"
    /\ c = NoChar
    /\ got = <<>>
-----------------------------------------------------------------------------
\* The keyboard sends a byte: the controller accepts it when its output buffer
\* is empty, and raises IRQ1.  A fake shift is a shift code sent, behind E0, for
\* a cursor key or PrintScreen: no shift key moves.
Key(key, release, fake) ==
    LET held == CASE fake -> down
                  [] ~fake /\ release -> down \ {key}
                  [] OTHER -> down \cup ({key} \cap ShiftKeys)
        agrees == IF key \in ShiftKeys THEN release <=> held = {} ELSE steady
    IN  /\ panic = NoPanic
        /\ release => key \in ShiftKeys
        /\ fake => key = "lshift" \/ key \in down
        /\ ps2 = <<>>
        /\ ps2' = <<[key |-> key, release |-> release, suits |-> Suits(held, agrees)]>>
        /\ down' = held
        /\ steady' = agrees
        /\ Edge(1)
        /\ UNCHANGED <<imr, isr, iflag, frames, panic, early, shift_pressed, kbd, timer_ticks, kpc, c, got>>

\* The PIT, or a device this kernel has no driver for, raises its line.
Device(n) ==
    /\ panic = NoPanic
    /\ Edge(n)
    /\ UNCHANGED <<imr, isr, iflag, frames, panic, kbdVars>>

irq_accept(n) == irq_entry(n) /\ UNCHANGED kbdVars

\* A pulse on a line: the keyboard's stays high until its byte is fetched.
Withdrawn(n) == n # 1 /\ irq_spurious(n) /\ UNCHANGED kbdVars
-----------------------------------------------------------------------------
\* Mutant: a release is not told from a press.
ShiftAfter_make(s) == IF s.key \in ShiftKeys THEN TRUE ELSE shift_pressed

\* ps2_scancode_to_ascii: what it leaves in shift_pressed, and what it returns.
ShiftAfter(s) == IF s.key \in ShiftKeys THEN ~s.release ELSE shift_pressed

Decoded(s) ==
    IF s.release \/ s.key \notin Keys THEN NoChar
    ELSE [key |-> s.key, shifted |-> shift_pressed, suited |-> shift_pressed \in s.suits]

\* Mutant: the oldest character is overwritten when the ring is full.
keyboard_push_char_overwrite(k, ch) ==
    [k EXCEPT !.buffer[k.head] = ch, !.head = (@ + 1) % KBD_BUFFER_SIZE]

\* A character that finds the ring full is dropped.
keyboard_push_char(k, ch) ==
    LET next_head == (k.head + 1) % KBD_BUFFER_SIZE
    IN  IF next_head = k.tail THEN k
        ELSE [k EXCEPT !.buffer[k.head] = ch, !.head = next_head]

\* Mutant: returns before the EOI when there is no character to push.
keyboard_handler_no_eoi ==
    /\ ps2' = <<>>
    /\ shift_pressed' = ShiftAfter(ps2[1])
    /\ kbd' = IF Decoded(ps2[1]) = NoChar THEN kbd ELSE keyboard_push_char(kbd, Decoded(ps2[1]))
    /\ IF Decoded(ps2[1]) = NoChar THEN UNCHANGED isr ELSE pic_send_eoi(1)

\* Mutant: a byte that finds the ring full is left in the controller.
keyboard_handler_leaves ==
    /\ IF ps2 = <<>> \/ (kbd.head + 1) % KBD_BUFFER_SIZE = kbd.tail
       THEN UNCHANGED <<ps2, shift_pressed, kbd>>
       ELSE /\ ps2' = <<>>
            /\ shift_pressed' = ShiftAfter(ps2[1])
            /\ kbd' = IF Decoded(ps2[1]) = NoChar THEN kbd
                      ELSE keyboard_push_char(kbd, Decoded(ps2[1]))
    /\ pic_send_eoi(1)

\* A byte is fetched only if the controller has one; the EOI is always sent.
keyboard_handler ==
    /\ ps2' = <<>>
    /\ IF ps2 = <<>>
       THEN UNCHANGED <<shift_pressed, kbd>>
       ELSE /\ shift_pressed' = ShiftAfter(ps2[1])
            /\ kbd' = IF Decoded(ps2[1]) = NoChar THEN kbd
                      ELSE keyboard_push_char(kbd, Decoded(ps2[1]))
    /\ pic_send_eoi(1)

timer_handler ==
    /\ timer_ticks' = (timer_ticks + 1) % TickModulus
    /\ pic_send_eoi(0)

\* The handler of the innermost frame, run to its end with interrupts off,
\* and the return from it.
irq_handler ==
    /\ frames # <<>>
    /\ CASE Last(frames) = 0 -> timer_handler /\ UNCHANGED <<ps2, shift_pressed, kbd>>
         [] Last(frames) = 1 -> keyboard_handler /\ UNCHANGED timer_ticks
         [] OTHER -> /\ pic_send_eoi(Last(frames))
                     /\ UNCHANGED <<ps2, shift_pressed, kbd, timer_ticks>>
    /\ irq_exit
    /\ UNCHANGED <<imr, irr, early, down, steady, kpc, c, got>>
-----------------------------------------------------------------------------
\* kernel_main's own steps happen while no handler is on the stack.
KernelAt(p) == frames = <<>> /\ kpc = p /\ panic = NoPanic

setup_pic ==
    /\ KernelAt("pic_init")
    /\ pic_init
    /\ early' = (ps2 # <<>>)
    /\ kpc' = "keyboard_init"
    /\ UNCHANGED <<ps2, down, steady, shift_pressed, kbd, timer_ticks, c, got>>

\* ps2_init has no effect on the state; then lines 0 and 1 are unmasked.
keyboard_init ==
    /\ KernelAt("keyboard_init")
    /\ imr' = pic_clear_irq_mask(pic_clear_irq_mask(imr, 0), 1)
    /\ kpc' = "enable_interrupts"
    /\ UNCHANGED <<irr, isr, iflag, frames, panic, ps2, early, down, steady, shift_pressed, kbd, timer_ticks, c, got>>

enable_interrupts ==
    /\ KernelAt("enable_interrupts")
    /\ iflag' = TRUE
    /\ kpc' = "poll"
    /\ UNCHANGED <<imr, irr, isr, frames, panic, ps2, early, down, steady, shift_pressed, kbd, timer_ticks, c, got>>

\* Mutant: pops without looking whether there is anything to pop.
pop_test_unguarded ==
    /\ KernelAt("poll")
    /\ kpc' = "load"
    /\ UNCHANGED <<intVars, ps2, early, down, steady, shift_pressed, kbd, timer_ticks, c, got>>

\* Mutant: compares against the next head, as the push does.
pop_test_full ==
    /\ KernelAt("poll")
    /\ (kbd.head + 1) % KBD_BUFFER_SIZE # kbd.tail
    /\ kpc' = "load"
    /\ UNCHANGED <<intVars, ps2, early, down, steady, shift_pressed, kbd, timer_ticks, c, got>>

\* keyboard_pop_char from the shell's loop: an empty buffer returns at once.
pop_test ==
    /\ KernelAt("poll")
    /\ kbd.head # kbd.tail
    /\ kpc' = "load"
    /\ UNCHANGED <<intVars, ps2, early, down, steady, shift_pressed, kbd, timer_ticks, c, got>>

pop_load ==
    /\ KernelAt("load")
    /\ c' = kbd.buffer[kbd.tail]
    /\ kpc' = "advance"
    /\ UNCHANGED <<intVars, ps2, early, down, steady, shift_pressed, kbd, timer_ticks, got>>

pop_advance ==
    /\ KernelAt("advance")
    /\ kbd' = [kbd EXCEPT !.tail = (@ + 1) % KBD_BUFFER_SIZE]
    /\ got' = <<c>>
    /\ c' = NoChar
    /\ kpc' = "use"
    /\ UNCHANGED <<intVars, ps2, early, down, steady, shift_pressed, timer_ticks>>

\* sys_read on fd 0: pops up to len characters through an interrupt gate.
sys_read_kbd(len) ==
    LET n == Min({len, Len(Contents)})
    IN  /\ KernelAt("poll")
        /\ n > 0
        /\ kbd' = [kbd EXCEPT !.tail = (@ + n) % KBD_BUFFER_SIZE]
        /\ got' = SubSeq(Contents, 1, n)
        /\ kpc' = "use"
        /\ UNCHANGED <<intVars, ps2, early, down, steady, shift_pressed, timer_ticks, c>>

\* The shell's line editor, or the caller of sys_read, has dealt with it.
use_chars ==
    /\ KernelAt("use")
    /\ got' = <<>>
    /\ kpc' = "poll"
    /\ UNCHANGED <<intVars, ps2, early, down, steady, shift_pressed, kbd, timer_ticks, c>>

Kernel ==
    \/ setup_pic \/ keyboard_init \/ enable_interrupts
    \/ pop_test \/ pop_load \/ pop_advance \/ use_chars

KeyboardNext ==
    \/ \E key \in Keys \cup ShiftKeys \cup {"other"}, release, fake \in BOOLEAN :
           Key(key, release, fake)
    \/ \E n \in Lines \ {1} : Device(n)
    \/ \E n \in Lines : irq_accept(n)
    \/ \E n \in Lines : Withdrawn(n)
    \/ irq_handler
    \/ Kernel
    \/ \E len \in ReadLens : sys_read_kbd(len)

KeyboardSpec == KeyboardInit /\ [][KeyboardNext]_vars

\* The ticks are 10 ms apart, far longer than a handler runs: again and again
\* the handlers have run to their end and interrupts are on with no tick
\* pending, unless the kernel has halted.
TicksSpaced == []<>(panic # NoPanic \/ (iflag /\ 0 \notin irr))

\* Between two ticks the CPU gets round to a pending keyboard interrupt and to
\* the kernel's own code.
FairKeyboardSpec ==
    /\ KeyboardSpec
    /\ TicksSpaced
    /\ SF_vars(irq_accept(1))
    /\ SF_vars(Kernel)
-----------------------------------------------------------------------------
\* The state is well formed: ring indices stay inside the buffer and only
\* characters of the tables are stored in it (keyboard.c's static state).
KeyboardTypeOK ==
    /\ imr \in SUBSET Lines /\ irr \in SUBSET Lines /\ isr \in SUBSET Lines
    /\ iflag \in BOOLEAN
    /\ frames \in Seq(Lines)
    /\ panic \in {NoPanic} \cup 32 .. 39
    /\ early \in BOOLEAN
    /\ Len(ps2) <= 1 /\ \A i \in DOMAIN ps2 : ps2[i] \in Scancode
    /\ down \in SUBSET ShiftKeys /\ steady \in BOOLEAN
    /\ shift_pressed \in BOOLEAN
    /\ kbd \in [buffer : [Slots -> Chars \cup {NoChar}], head : Slots, tail : Slots]
    /\ timer_ticks \in 0 .. TickModulus - 1
    /\ kpc \in {"pic_init", "keyboard_init", "enable_interrupts", "poll", "load", "advance", "use"}
    /\ c \in Chars \cup {NoChar}
    /\ got \in Seq(Chars)

\* The 8259 holds in service exactly the lines whose handlers have not yet
\* returned, and none the kernel left masked: every path through irq_handler
\* acknowledges its own line once, and no line is accepted whose vector has no
\* gate, where no handler would acknowledge it.  A lost EOI would block the line,
\* and all lines below it, for ever.  At most one handler is under way, whatever
\* lines are raised: the gates and the stubs' cli keep IF off until the iret.
ServiceMatchesFrames ==
    /\ Len(frames) <= 1
    /\ isr = {frames[i] : i \in DOMAIN frames}
    /\ isr \cap imr = {}

\* No interrupt finds its vector without a gate, where it halts the kernel:
\* README.md says that the IDT covers the IRQ vectors 32-47 and that a stub is
\* generated for every vector.  idt.c:99-103 installs 32 and 33 only, and the
\* 8259's spurious interrupt, which no mask keeps away, arrives at 39.
DeliveredThroughGates == panic = NoPanic

\* A byte in the keyboard controller always has its interrupt still to come,
\* also while its line is masked or its handler runs: an edge that was lost
\* would keep the controller full and the keyboard silent for ever.  The one
\* exception is a byte that pic_init finds there (keyboard.c:58-62, pic.c).
ByteAnnounced ==
    ps2 # <<>> => 1 \in irr \cup isr \/ early

\* While keyboard_pop_char is between its test, its load and its store, no
\* interrupt empties the ring or changes the slot it reads: what it returns
\* is the character at the tail it then gives up.
PopUndisturbed ==
    /\ kpc \in {"load", "advance"} => kbd.head # kbd.tail
    /\ kpc = "advance" => c = kbd.buffer[kbd.tail]

\* A character comes out of the shifted table exactly if a shift key was down
\* when its key was struck, however late the interrupt ran, as long as the last
\* shift code before it told the truth.  Two kinds do not: the release of one
\* shift key while the other is held, and a fake shift (keyboard.c:69-82).
ShiftFollowsKeys ==
    \A ch \in ToSet(Contents) \cup ToSet(got) : ch.suited

Queue == INSTANCE KbdQueue WITH queue <- Contents, Capacity <- KBD_BUFFER_SIZE - 1

\* Interrupt and readers together implement a bounded queue: characters are
\* read in the order they were typed, each once, and none that was accepted
\* is lost.
QueueSpec == Queue!Spec

\* A byte in the keyboard controller is fetched in the end, also one that
\* arrived while its line was masked, and so the keyboard never goes silent:
\* unless a byte was there before pic_init, or the kernel has halted.
BytesFetched == (ps2 # <<>> /\ kpc # "pic_init" /\ ~early) ~> (ps2 = <<>> \/ panic # NoPanic)

\* Whenever characters wait in the ring, a read returns some of them in the end,
\* whatever the interrupts do, unless the kernel has halted.
CharsConsumed ==
    kbd.head # kbd.tail ~> (got # <<>> \/ panic # NoPanic)
=============================================================================
