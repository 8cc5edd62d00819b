----------------------------- MODULE Interrupts -----------------------------
(***************************************************************************)
(* Interrupt delivery: the master 8259 as pic.c programs it, the CPU's     *)
(* interrupt flag, and the frames irq_common_stub pushes (arch/).  The     *)
(* 8259 itself is external: it latches edges, offers the lowest unmasked   *)
(* request, holds back what is not above everything in service, and clears *)
(* the highest bit in service on the non-specific EOI pic.c sends.         *)
(***************************************************************************)
EXTENDS Integers, FiniteSetsExt, SequencesExt

CONSTANT Lines          \* the IRQ lines, by priority: 0 is the highest

ASSUME LinesAssumption == Lines \subseteq 0 .. 7 /\ {0, 1} \subseteq Lines

VARIABLES
    imr,                \* masked lines
    irr,                \* latched requests
    isr,                \* lines in service
    iflag,              \* EFLAGS.IF
    frames,             \* the handlers on the kernel stack, innermost last
    panic               \* the vector isr_handler has halted the kernel for

intVars == <<imr, irr, isr, iflag, frames, panic>>

NoPanic == -1

\* The vectors idt_init gives a gate: the exceptions, IRQ0, IRQ1 and int 0x80.
idt_gates == 0 .. 31 \cup {32, 33} \cup {128}

\* The lines the 8259 signals to the CPU.
Deliverable == {n \in irr \ imr : \A s \in isr : n < s}

InterruptsInit ==
    /\ imr \in SUBSET Lines
    /\ irr = {}
    /\ isr = {}
    /\ iflag = FALSE
    /\ frames = <<>>
    /\ panic = NoPanic

\* A device raises its line.
Edge(n) == irr' = irr \cup {n}

\* Mutant: the masks ICW1 has cleared are not set again.
pic_init_open ==
    /\ imr' = {}
    /\ irr' = {}
    /\ isr' = {}
    /\ UNCHANGED <<iflag, frames, panic>>

\* ICW1 to ICW4, then every line is masked.
pic_init ==
    /\ imr' = Lines
    /\ irr' = {}
    /\ isr' = {}
    /\ UNCHANGED <<iflag, frames, panic>>

\* The mask register without line n's bit.
pic_clear_irq_mask(mask, n) == mask \ {n}

\* Non-specific: whatever n is, the highest line in service is acknowledged.
pic_send_eoi(n) == isr' = IF isr = {} THEN isr ELSE isr \ {Min(isr)}

\* A vector without a gate: the CPU raises an exception instead, whose gate is
\* there, and isr_handler prints it, turns interrupts off and halts.
isr_handler(vector) ==
    /\ panic' = vector
    /\ UNCHANGED frames

\* The CPU acknowledges line n between two instructions, through vector
\* 32 + n.  The gates are interrupt gates and the stubs begin with cli.
irq_entry(n) ==
    /\ iflag
    /\ Deliverable # {} /\ n = Min(Deliverable)
    /\ irr' = irr \ {n}
    /\ isr' = isr \cup {n}
    /\ iflag' = FALSE
    /\ IF 32 + n \in idt_gates
       THEN frames' = Append(frames, n) /\ UNCHANGED panic
       ELSE isr_handler(32 + n)
    /\ UNCHANGED imr

\* Line n's request is gone when the CPU acknowledges it: the 8259 answers with
\* line 7's vector and sets no bit in service.
irq_spurious(n) ==
    /\ iflag
    /\ Deliverable # {} /\ n = Min(Deliverable)
    /\ irr' = irr \ {n}
    /\ iflag' = FALSE
    /\ IF 39 \in idt_gates
       THEN frames' = Append(frames, 7) /\ UNCHANGED panic
       ELSE isr_handler(39)
    /\ UNCHANGED <<imr, isr>>

\* The end of irq_common_stub: the frame is popped and the interrupted code,
\* which had interrupts on, goes on.
irq_exit ==
    /\ frames' = Front(frames)
    /\ iflag' = TRUE
    /\ UNCHANGED panic
=============================================================================
