--------------------------- MODULE KeyboardProofs ---------------------------
(***************************************************************************)
(* Keyboard input is correct for every size of the ring, set of keys, set  *)
(* of interrupt lines and length of a read.                                *)
(***************************************************************************)
EXTENDS Keyboard, TLAPS

\* What % does to the sums and differences of two ring indices.
LEMMA Wrap ==
    ASSUME NEW x \in Nat, x < KBD_BUFFER_SIZE + KBD_BUFFER_SIZE
    PROVE  /\ x < KBD_BUFFER_SIZE => x % KBD_BUFFER_SIZE = x
           /\ ~(x < KBD_BUFFER_SIZE) => x % KBD_BUFFER_SIZE = x - KBD_BUFFER_SIZE
<1>1. PICK b : b = KBD_BUFFER_SIZE OBVIOUS
<1>2. b \in Nat \ {0} BY <1>1, KeyboardAssumption
<1>3. (x < b => x % b = x) /\ (~(x < b) => x % b = x - b) BY <1>1, <1>2
<1> QED BY <1>1, <1>3

LEMMA Distance ==
    ASSUME NEW b \in Nat \ {0}, NEW h \in 0 .. b - 1, NEW t \in 0 .. b - 1
    PROVE  (h - t) % b = IF t <= h THEN h - t ELSE h - t + b
  BY SMTT(30)

\* A function on 1 .. n is a sequence of length n.
LEMMA FunSeq ==
    ASSUME NEW n \in Nat, NEW f, f = [i \in 1 .. n |-> f[i]],
           NEW S, \A i \in 1 .. n : f[i] \in S
    PROVE  f \in Seq(S) /\ Len(f) = n /\ DOMAIN f = 1 .. n
  OBVIOUS
-----------------------------------------------------------------------------
\* The rings, how many characters one holds, and which.
Rings == [buffer : [Slots -> Chars \cup {NoChar}], head : Slots, tail : Slots]

Count(k) == (k.head - k.tail) % KBD_BUFFER_SIZE

Slot(k, i) == (k.tail + i - 1) % KBD_BUFFER_SIZE

Held(k) == [i \in 1 .. Count(k) |-> k.buffer[Slot(k, i)]]

LEMMA RingCount ==
    ASSUME NEW k \in Rings
    PROVE  /\ k.head \in Slots /\ k.tail \in Slots
           /\ Count(k) = IF k.tail <= k.head THEN k.head - k.tail
                         ELSE k.head - k.tail + KBD_BUFFER_SIZE
           /\ Count(k) \in 0 .. KBD_BUFFER_SIZE - 1
           /\ Count(k) = 0 <=> k.head = k.tail
<1>1. k.head \in Slots /\ k.tail \in Slots BY DEF Rings
<1>2. KBD_BUFFER_SIZE \in Nat \ {0} BY KeyboardAssumption
<1>3. PICK h : h = k.head OBVIOUS
<1>4. PICK t : t = k.tail OBVIOUS
<1>5. h \in 0 .. KBD_BUFFER_SIZE - 1 /\ t \in 0 .. KBD_BUFFER_SIZE - 1
  BY <1>1, <1>3, <1>4 DEF Slots
<1>6. (h - t) % KBD_BUFFER_SIZE = IF t <= h THEN h - t ELSE h - t + KBD_BUFFER_SIZE
  BY <1>2, <1>5, Distance
<1>7. Count(k) = (h - t) % KBD_BUFFER_SIZE BY <1>3, <1>4 DEF Count
<1> QED BY <1>1, <1>2, <1>3, <1>4, <1>5, <1>6, <1>7

LEMMA RingSlot ==
    ASSUME NEW k \in Rings, NEW i \in 1 .. KBD_BUFFER_SIZE
    PROVE  /\ Slot(k, i) \in Slots
           /\ Slot(k, i) = IF k.tail + i - 1 < KBD_BUFFER_SIZE THEN k.tail + i - 1
                           ELSE k.tail + i - 1 - KBD_BUFFER_SIZE
<1>1. PICK t : t = k.tail OBVIOUS
<1>2. t \in 0 .. KBD_BUFFER_SIZE - 1 BY <1>1 DEF Rings, Slots
<1>3. KBD_BUFFER_SIZE \in Nat \ {0} BY KeyboardAssumption
<1>4. PICK x : x = t + i - 1 OBVIOUS
<1>5. x \in Nat /\ x < KBD_BUFFER_SIZE + KBD_BUFFER_SIZE BY <1>2, <1>3, <1>4
<1>6. x % KBD_BUFFER_SIZE = IF x < KBD_BUFFER_SIZE THEN x ELSE x - KBD_BUFFER_SIZE
  BY Zenon, <1>5, Wrap
<1>7. Slot(k, i) = x % KBD_BUFFER_SIZE BY <1>1, <1>4 DEF Slot
<1>8. x % KBD_BUFFER_SIZE \in Slots BY <1>2, <1>3, <1>4, <1>5, <1>6 DEF Slots
<1> QED BY SMTT(30), <1>1, <1>2, <1>3, <1>4, <1>6, <1>7, <1>8

\* A character that is pushed goes behind those the ring holds, unless the ring
\* is full, and disturbs neither the tail nor the character there.
LEMMA Push ==
    ASSUME NEW k \in Rings, NEW ch \in Chars
    PROVE  LET k2 == keyboard_push_char(k, ch)
           IN  /\ k2 \in Rings /\ k2.tail = k.tail
               /\ k.head # k.tail => /\ k2.head # k2.tail
                                     /\ k2.buffer[k2.tail] = k.buffer[k.tail]
               /\ k2 = k \/ /\ Count(k) < KBD_BUFFER_SIZE - 1
                            /\ Count(k2) = Count(k) + 1
                            /\ \A i \in 1 .. Count(k) : Held(k2)[i] = Held(k)[i]
                            /\ Held(k2)[Count(k) + 1] = ch
<1> DEFINE k2 == keyboard_push_char(k, ch)
<1>1. PICK next : next = (k.head + 1) % KBD_BUFFER_SIZE OBVIOUS
<1>2. KBD_BUFFER_SIZE \in Nat \ {0} BY KeyboardAssumption
<1>3. /\ k.head \in 0 .. KBD_BUFFER_SIZE - 1 /\ k.tail \in 0 .. KBD_BUFFER_SIZE - 1
      /\ k.buffer \in [Slots -> Chars \cup {NoChar}]
  BY DEF Rings, Slots
<1>4. next = IF k.head + 1 < KBD_BUFFER_SIZE THEN k.head + 1 ELSE k.head + 1 - KBD_BUFFER_SIZE
  <2>1. PICK x : x = k.head + 1 OBVIOUS
  <2>2. x \in Nat /\ x < KBD_BUFFER_SIZE + KBD_BUFFER_SIZE BY <1>2, <1>3, <2>1
  <2>3. x % KBD_BUFFER_SIZE = IF x < KBD_BUFFER_SIZE THEN x ELSE x - KBD_BUFFER_SIZE
    BY Zenon, <2>2, Wrap
  <2> QED BY <1>1, <1>2, <1>3, <2>1, <2>3
<1>5. CASE next = k.tail
  <2>1. k2 = k BY <1>1, <1>5 DEF keyboard_push_char
  <2> QED BY <2>1
<1>6. CASE next # k.tail
  <2>1. k2 = [k EXCEPT !.buffer[k.head] = ch, !.head = next]
    BY <1>1, <1>6 DEF keyboard_push_char
  <2> HIDE DEF k2
  <2>2. /\ k2.buffer = [k.buffer EXCEPT ![k.head] = ch]
        /\ k2.head = next /\ k2.tail = k.tail
    BY <2>1 DEF Rings
  <2>3. next \in Slots /\ k.head \in Slots /\ k.tail \in Slots
    BY <1>2, <1>3, <1>4 DEF Slots
  <2>4. k2.buffer \in [Slots -> Chars \cup {NoChar}] BY <1>3, <2>2, <2>3
  <2>5. k2 \in Rings BY Zenon, <2>1, <2>2, <2>3, <2>4 DEF Rings
  <2>6. k.head # k.tail => k2.buffer[k2.tail] = k.buffer[k.tail]
    BY <1>3, <2>2, <2>3
  <2>7. Count(k2) = Count(k) + 1 /\ Count(k) < KBD_BUFFER_SIZE - 1 /\ Count(k) \in Nat
    <3>1. Count(k) = IF k.tail <= k.head THEN k.head - k.tail
                     ELSE k.head - k.tail + KBD_BUFFER_SIZE
      BY RingCount
    <3>2. Count(k2) = IF k.tail <= next THEN next - k.tail ELSE next - k.tail + KBD_BUFFER_SIZE
      BY <2>2, <2>5, RingCount
    <3> QED BY <1>2, <1>3, <1>4, <1>6, <3>1, <3>2
  <2>8. ASSUME NEW i \in 1 .. Count(k2)
        PROVE  /\ Held(k2)[i] = k2.buffer[Slot(k, i)]
               /\ Slot(k, i) \in Slots
               /\ i <= Count(k) => Slot(k, i) # k.head
               /\ i = Count(k) + 1 => Slot(k, i) = k.head
    <3>1. Slot(k2, i) = Slot(k, i) BY <2>2 DEF Slot
    <3>2. i \in 1 .. KBD_BUFFER_SIZE BY <1>2, <2>7
    <3>3. /\ Slot(k, i) \in Slots
          /\ Slot(k, i) = IF k.tail + i - 1 < KBD_BUFFER_SIZE THEN k.tail + i - 1
                          ELSE k.tail + i - 1 - KBD_BUFFER_SIZE
      BY <3>2, RingSlot
    <3>4. Count(k) = IF k.tail <= k.head THEN k.head - k.tail
                     ELSE k.head - k.tail + KBD_BUFFER_SIZE
      BY RingCount
    <3>5. i <= Count(k) => Slot(k, i) # k.head BY <1>2, <1>3, <3>2, <3>3, <3>4
    <3>6. i = Count(k) + 1 => Slot(k, i) = k.head BY <1>2, <1>3, <3>2, <3>3, <3>4
    <3> QED BY <3>1, <3>3, <3>5, <3>6 DEF Held
  <2>9. ASSUME NEW i \in 1 .. Count(k) PROVE Held(k2)[i] = Held(k)[i]
    <3>1. i \in 1 .. Count(k2) /\ i <= Count(k) BY <2>7
    <3>2. Held(k2)[i] = k2.buffer[Slot(k, i)] /\ Slot(k, i) \in Slots /\ Slot(k, i) # k.head
      BY <2>8, <3>1
    <3>3. k2.buffer[Slot(k, i)] = k.buffer[Slot(k, i)] BY <1>3, <2>2, <3>2
    <3> QED BY <3>2, <3>3 DEF Held
  <2>10. Held(k2)[Count(k) + 1] = ch
    <3>1. PICK i : i = Count(k) + 1 OBVIOUS
    <3>2. i \in 1 .. Count(k2) BY <2>7, <3>1
    <3>3. Held(k2)[i] = k2.buffer[k.head] BY <2>8, <3>1, <3>2
    <3> QED BY <1>3, <2>2, <2>3, <3>1, <3>3
  <2> QED BY SMTT(30), <1>6, <2>2, <2>5, <2>6, <2>7, <2>9, <2>10 DEF k2
<1> QED BY <1>5, <1>6

\* A reader that moves the tail by n takes the first n characters away.
LEMMA Pop ==
    ASSUME NEW k \in Rings, NEW n \in 1 .. Count(k)
    PROVE  LET k2 == [k EXCEPT !.tail = (@ + n) % KBD_BUFFER_SIZE]
           IN  /\ k2 \in Rings
               /\ Count(k2) = Count(k) - n
               /\ \A i \in 1 .. Count(k) - n : Held(k2)[i] = Held(k)[i + n]
<1> DEFINE k2 == [k EXCEPT !.tail = (@ + n) % KBD_BUFFER_SIZE]
<1>1. KBD_BUFFER_SIZE \in Nat \ {0} BY KeyboardAssumption
<1>2. /\ k.head \in 0 .. KBD_BUFFER_SIZE - 1 /\ k.tail \in 0 .. KBD_BUFFER_SIZE - 1
      /\ k.buffer \in [Slots -> Chars \cup {NoChar}]
  BY DEF Rings, Slots
<1>3. PICK t : t = (k.tail + n) % KBD_BUFFER_SIZE OBVIOUS
<1>4. /\ Count(k) = IF k.tail <= k.head THEN k.head - k.tail
                    ELSE k.head - k.tail + KBD_BUFFER_SIZE
      /\ Count(k) \in 0 .. KBD_BUFFER_SIZE - 1
  BY RingCount
<1>5. t = IF k.tail + n < KBD_BUFFER_SIZE THEN k.tail + n ELSE k.tail + n - KBD_BUFFER_SIZE
  <2>1. PICK x : x = k.tail + n OBVIOUS
  <2>2. x \in Nat /\ x < KBD_BUFFER_SIZE + KBD_BUFFER_SIZE BY <1>1, <1>2, <1>4, <2>1
  <2>3. x % KBD_BUFFER_SIZE = IF x < KBD_BUFFER_SIZE THEN x ELSE x - KBD_BUFFER_SIZE
    BY Zenon, <2>2, Wrap
  <2> QED BY <1>1, <1>2, <1>3, <1>4, <2>1, <2>3
<1>6. k2 = [k EXCEPT !.tail = t] BY <1>3
<1> HIDE DEF k2
<1>7. t \in Slots BY <1>1, <1>2, <1>4, <1>5 DEF Slots
<1>8. k2.buffer = k.buffer /\ k2.head = k.head /\ k2.tail = t /\ k2 \in Rings
  BY <1>6, <1>7 DEF Rings
<1>9. Count(k2) = Count(k) - n
  <2>1. Count(k2) = IF t <= k.head THEN k.head - t ELSE k.head - t + KBD_BUFFER_SIZE
    BY <1>8, RingCount
  <2> QED BY <1>1, <1>2, <1>4, <1>5, <2>1
<1>10. ASSUME NEW i \in 1 .. Count(k) - n PROVE Held(k2)[i] = Held(k)[i + n]
  <2>1. i \in 1 .. KBD_BUFFER_SIZE /\ i + n \in 1 .. KBD_BUFFER_SIZE /\ i + n \in 1 .. Count(k)
    BY <1>1, <1>4
  <2>2. Slot(k2, i) = IF t + i - 1 < KBD_BUFFER_SIZE THEN t + i - 1
                      ELSE t + i - 1 - KBD_BUFFER_SIZE
    BY <1>8, <2>1, RingSlot
  <2>3. PICK j : j = i + n OBVIOUS
  <2>4. Slot(k, j) = IF k.tail + j - 1 < KBD_BUFFER_SIZE THEN k.tail + j - 1
                     ELSE k.tail + j - 1 - KBD_BUFFER_SIZE
    BY <2>1, <2>3, RingSlot
  <2>5. Slot(k2, i) = Slot(k, j)
    BY SMTT(30), <1>1, <1>2, <1>4, <1>5, <2>1, <2>2, <2>3, <2>4
  <2>6. Held(k2)[i] = k2.buffer[Slot(k2, i)] BY <1>9 DEF Held
  <2>7. Held(k)[j] = k.buffer[Slot(k, j)] BY <2>1, <2>3 DEF Held
  <2> QED BY <1>8, <2>3, <2>5, <2>6, <2>7
<1> QED BY <1>8, <1>9, <1>10 DEF k2
-----------------------------------------------------------------------------
\* kernel_main has turned interrupts on.
Late == kpc \notin {"pic_init", "keyboard_init", "enable_interrupts"}

\* Interrupts are on only while no handler is on the stack and the kernel has
\* not halted, and only once every line but 0 and 1 is masked; the 8259 has in
\* service what is on the stack.
IntInv ==
    /\ imr \in SUBSET Lines /\ irr \in SUBSET Lines /\ iflag \in BOOLEAN
    /\ \/ frames = <<>> /\ isr = {}
       \/ \E n \in {0, 1} : frames = <<n>> /\ isr = {n}
    /\ panic \in {NoPanic, 39}
    /\ iflag => frames = <<>> /\ panic = NoPanic
    /\ panic # NoPanic => frames = <<>>
    /\ iflag \/ frames # <<>> \/ panic # NoPanic => Late
    /\ kpc = "keyboard_init" => imr = Lines
    /\ kpc \notin {"pic_init", "keyboard_init"} => imr = Lines \ {0, 1}

\* The line acknowledged is one of the two keyboard_init has unmasked.
LEMMA Unmasked ==
    ASSUME IntInv, iflag, Deliverable # {}
    PROVE  Min(Deliverable) \in {0, 1} /\ Min(Deliverable) \in irr
<1>1. imr = Lines \ {0, 1} BY DEF IntInv, Late
<1>2. isr = {} /\ irr \subseteq Lines BY DEF IntInv
<1>3. Deliverable = irr \ imr BY <1>2 DEF Deliverable
<1>4. Deliverable \subseteq {0, 1} /\ Deliverable \subseteq irr BY <1>1, <1>2, <1>3
<1>5. \E x \in Deliverable : \A y \in Deliverable : x <= y
  <2>1. CASE 0 \in Deliverable BY <1>4, <2>1
  <2>2. CASE 0 \notin Deliverable
    <3>1. Deliverable = {1} BY Zenon, <1>4, <2>2
    <3> QED BY <3>1
  <2> QED BY <2>1, <2>2
<1>6. Min(Deliverable) \in Deliverable BY Zenon, <1>5 DEF Min
<1> QED BY Zenon, <1>4, <1>6

\* What irq_handler finds, and leaves.
LEMMA Served ==
    ASSUME IntInv, irq_handler
    PROVE  /\ \E n \in {0, 1} : frames = <<n>> /\ isr = {n} /\ Last(frames) = n
           /\ frames' = <<>> /\ isr' = {} /\ iflag' = TRUE /\ panic' = panic
           /\ Late /\ panic = NoPanic
<1>1. frames # <<>> BY DEF irq_handler
<1>2. PICK n \in {0, 1} : frames = <<n>> /\ isr = {n} BY <1>1 DEF IntInv
<1>3. Last(frames) = n BY <1>2 DEF Last
<1>4. frames' = <<>>
  <2>1. frames' = SubSeq(frames, 1, Len(frames) - 1) BY DEF irq_handler, irq_exit, Front
  <2>2. Len(frames) = 1 BY <1>2
  <2> QED BY <1>2, <2>1, <2>2
<1>5. iflag' = TRUE /\ panic' = panic BY DEF irq_handler, irq_exit
<1>6. pic_send_eoi(n)
  <2>1. CASE n = 0 BY <1>3, <2>1 DEF irq_handler, timer_handler
  <2>2. CASE n = 1 BY <1>3, <2>2 DEF irq_handler, keyboard_handler
  <2> QED BY <2>1, <2>2
<1>7. Min({n}) = n BY <1>2 DEF Min
<1>8. isr' = {} BY <1>2, <1>6, <1>7 DEF pic_send_eoi
<1>9. Late /\ panic = NoPanic BY <1>1 DEF IntInv
<1> QED BY SMTT(30), <1>2, <1>3, <1>4, <1>5, <1>8, <1>9

\* The actions that touch neither the 8259 nor the interrupt flag nor the stack.
KernelOnly ==
    /\ UNCHANGED intVars /\ Late /\ Late' /\ kpc' # "keyboard_init"
    /\ UNCHANGED <<ps2, early, down, steady, shift_pressed>>

LEMMA KernelActions ==
    ASSUME \/ pop_test \/ pop_load \/ pop_advance \/ use_chars
           \/ \E len \in ReadLens : sys_read_kbd(len)
    PROVE  KernelOnly
  BY Zenon DEF pop_test, pop_load, pop_advance, use_chars, sys_read_kbd, KernelAt, KernelOnly, Late

LEMMA IntStep ==
    ASSUME IntInv, KeyboardNext
    PROVE  IntInv'
<1>0. {0, 1} \subseteq Lines BY LinesAssumption
<1>1. ASSUME NEW n \in Lines, Edge(n),
             UNCHANGED <<imr, isr, iflag, frames, panic, kpc>>
      PROVE  IntInv'
  BY <1>1 DEF IntInv, Edge, Late
<1>2. ASSUME NEW key \in Keys \cup ShiftKeys \cup {"other"}, NEW release \in BOOLEAN,
             NEW fake \in BOOLEAN, Key(key, release, fake)
      PROVE  IntInv'
  <2>1. Edge(1) /\ UNCHANGED <<imr, isr, iflag, frames, panic, kpc>> BY <1>2 DEF Key
  <2> QED BY <1>0, <1>1, <2>1
<1>3. ASSUME NEW n \in Lines \ {1}, Device(n) PROVE IntInv'
  <2>1. Edge(n) /\ UNCHANGED <<imr, isr, iflag, frames, panic, kpc>>
    BY <1>3 DEF Device, kbdVars
  <2> QED BY <1>1, <2>1
<1>4. ASSUME NEW n \in Lines, irq_accept(n) PROVE IntInv'
  <2>1. iflag /\ Deliverable # {} /\ n = Min(Deliverable) BY <1>4 DEF irq_accept, irq_entry
  <2>2. n \in {0, 1} BY <2>1, Unmasked
  <2>3. 32 + n \in idt_gates BY <2>2 DEF idt_gates
  <2>4. /\ frames' = Append(frames, n) /\ isr' = isr \cup {n} /\ iflag' = FALSE
        /\ irr' = irr \ {n} /\ UNCHANGED <<panic, imr, kpc>>
    BY <1>4, <2>3 DEF irq_accept, irq_entry, kbdVars
  <2>5. frames = <<>> /\ isr = {} /\ panic = NoPanic /\ Late BY <2>1 DEF IntInv
  <2>6. frames' = <<n>> /\ isr' = {n} BY <2>4, <2>5
  <2> QED BY Zenon, <2>2, <2>4, <2>5, <2>6 DEF IntInv, Late
<1>5. ASSUME NEW n \in Lines, Withdrawn(n) PROVE IntInv'
  <2>1. 39 \notin idt_gates BY DEF idt_gates
  <2>2. /\ iflag /\ frames' = frames /\ isr' = isr /\ iflag' = FALSE /\ panic' = 39
        /\ irr' = irr \ {n} /\ UNCHANGED <<imr, kpc>>
    BY <1>5, <2>1 DEF Withdrawn, irq_spurious, isr_handler, kbdVars
  <2>3. frames = <<>> /\ isr = {} /\ Late BY <2>2 DEF IntInv
  <2> QED BY Zenon, <2>2, <2>3 DEF IntInv, Late, NoPanic
<1>6. CASE irq_handler
  <2>1. frames' = <<>> /\ isr' = {} /\ iflag' = TRUE /\ panic' = panic /\ Late /\ panic = NoPanic
    BY <1>6, Served
  <2>2. UNCHANGED <<imr, irr, kpc>> BY <1>6 DEF irq_handler
  <2> QED BY <2>1, <2>2 DEF IntInv, Late
<1>7. CASE setup_pic
  BY <1>7 DEF setup_pic, pic_init, KernelAt, IntInv, Late
<1>8. CASE keyboard_init
  <2>1. imr' = Lines \ {0, 1} /\ kpc' = "enable_interrupts" /\ kpc = "keyboard_init"
    BY <1>8 DEF keyboard_init, pic_clear_irq_mask, KernelAt, IntInv
  <2>2. UNCHANGED <<irr, isr, iflag, frames, panic>> BY <1>8 DEF keyboard_init
  <2> QED BY <2>1, <2>2 DEF IntInv, Late
<1>9. CASE enable_interrupts
  BY <1>9 DEF enable_interrupts, KernelAt, IntInv, Late
<1>10. ASSUME KernelOnly PROVE IntInv'
  BY <1>10 DEF KernelOnly, intVars, IntInv, Late
<1> QED BY SMTT(30), <1>2, <1>3, <1>4, <1>5, <1>6, <1>7, <1>8, <1>9, <1>10, KernelActions
        DEF KeyboardNext, Kernel

\* No step takes the interrupt of a byte away and leaves the byte.
LEMMA AnnouncedStep ==
    ASSUME IntInv, ByteAnnounced, KeyboardNext
    PROVE  ByteAnnounced'
<1>1. ASSUME NEW key \in Keys \cup ShiftKeys \cup {"other"}, NEW release \in BOOLEAN,
             NEW fake \in BOOLEAN, Key(key, release, fake)
      PROVE  ByteAnnounced'
  BY <1>1 DEF Key, Edge, ByteAnnounced
<1>2. ASSUME NEW n \in Lines \ {1}, Device(n) PROVE ByteAnnounced'
  BY <1>2 DEF Device, Edge, ByteAnnounced, kbdVars
<1>3. ASSUME NEW n \in Lines, irq_accept(n) PROVE ByteAnnounced'
  BY <1>3 DEF irq_accept, irq_entry, ByteAnnounced, kbdVars
<1>4. ASSUME NEW n \in Lines, Withdrawn(n) PROVE ByteAnnounced'
  BY <1>4 DEF Withdrawn, irq_spurious, ByteAnnounced, kbdVars
<1>5. CASE irq_handler
  <2>1. PICK n \in {0, 1} : isr = {n} /\ Last(frames) = n BY <1>5, Served
  <2>2. CASE n = 0
    <3>1. UNCHANGED <<ps2, irr, early>> BY <1>5, <2>1, <2>2 DEF irq_handler
    <3> QED BY <2>1, <2>2, <3>1 DEF ByteAnnounced
  <2>3. CASE n = 1
    <3>1. ps2' = <<>> BY <1>5, <2>1, <2>3 DEF irq_handler, keyboard_handler
    <3> QED BY <3>1 DEF ByteAnnounced
  <2> QED BY <2>2, <2>3
<1>6. CASE setup_pic BY Zenon, <1>6 DEF setup_pic, ByteAnnounced
<1>7. CASE keyboard_init \/ enable_interrupts
  BY <1>7 DEF keyboard_init, enable_interrupts, ByteAnnounced
<1>8. ASSUME KernelOnly PROVE ByteAnnounced'
  BY <1>8 DEF KernelOnly, intVars, ByteAnnounced
<1> QED BY SMTT(30), <1>1, <1>2, <1>3, <1>4, <1>5, <1>6, <1>7, <1>8, KernelActions
        DEF KeyboardNext, Kernel
-----------------------------------------------------------------------------
\* The controller holds nothing or one scancode.  shift_pressed lags behind the
\* keys by what that scancode is about to change, and no more.
ScanInv ==
    /\ down \in SUBSET ShiftKeys /\ steady \in BOOLEAN /\ shift_pressed \in BOOLEAN
    /\ \/ ps2 = <<>> /\ shift_pressed \in Suits(down, steady)
       \/ \E s \in Scancode :
             ps2 = <<s>> /\ s.suits = Suits(down, steady) /\ ShiftAfter(s) \in s.suits

\* The characters from the table that suited the shift keys.
GoodChars == {ch \in Chars : ch.suited}

\* What a scancode decodes to, and the state keyboard_handler leaves.
LEMMA DecodedGood ==
    ASSUME ScanInv, ps2 # <<>>
    PROVE  /\ Decoded(ps2[1]) = NoChar \/ Decoded(ps2[1]) \in GoodChars
           /\ ShiftAfter(ps2[1]) \in BOOLEAN
           /\ ShiftAfter(ps2[1]) \in Suits(down, steady)
<1>1. PICK s \in Scancode :
             ps2 = <<s>> /\ s.suits = Suits(down, steady) /\ ShiftAfter(s) \in s.suits
  BY DEF ScanInv
<1>2. ps2[1] = s BY <1>1
<1>3. s.release \in BOOLEAN /\ shift_pressed \in BOOLEAN BY DEF Scancode, ScanInv
<1>4. ShiftAfter(s) \in BOOLEAN BY Zenon, <1>3 DEF ShiftAfter
<1>5. ASSUME ~s.release, s.key \in Keys PROVE Decoded(s) \in GoodChars
  <2>0. s.key \notin ShiftKeys BY <1>5, KeyboardAssumption
  <2>1. shift_pressed \in s.suits BY <1>1, <2>0 DEF ShiftAfter
  <2>2. PICK suited : suited = (shift_pressed \in s.suits) BY Zenon
  <2>3. Decoded(s) = [key |-> s.key, shifted |-> shift_pressed, suited |-> suited]
    BY Zenon, <1>5, <2>2 DEF Decoded
  <2>4. suited = TRUE BY Zenon, <2>1, <2>2
  <2>5. Decoded(s) \in Chars /\ Decoded(s).suited BY <1>3, <1>5, <2>3, <2>4 DEF Chars
  <2> QED BY Zenon, <2>5 DEF GoodChars
<1>6. ASSUME ~(~s.release /\ s.key \in Keys) PROVE Decoded(s) = NoChar
  BY Zenon, <1>6 DEF Decoded
<1> QED BY Zenon, <1>1, <1>2, <1>4, <1>5, <1>6

LEMMA ScanStep ==
    ASSUME IntInv, ScanInv, KeyboardNext
    PROVE  ScanInv'
<1>0. ASSUME UNCHANGED <<ps2, down, steady, shift_pressed>> PROVE ScanInv'
  BY Zenon, <1>0 DEF ScanInv, ShiftAfter
<1>1. ASSUME NEW key \in Keys \cup ShiftKeys \cup {"other"}, NEW release \in BOOLEAN,
             NEW fake \in BOOLEAN, Key(key, release, fake)
      PROVE  ScanInv'
  <2>1. PICK held : held = CASE fake -> down
                             [] ~fake /\ release -> down \ {key}
                             [] OTHER -> down \cup ({key} \cap ShiftKeys)
    BY Zenon
  <2>2. PICK agrees : agrees = IF key \in ShiftKeys THEN release <=> held = {} ELSE steady
    BY Zenon
  <2>3. PICK s : s = [key |-> key, release |-> release, suits |-> Suits(held, agrees)]
    BY Zenon
  <2>4. /\ ps2 = <<>> /\ ps2' = <<s>> /\ down' = held /\ steady' = agrees
        /\ shift_pressed' = shift_pressed
        /\ fake => key = "lshift" \/ key \in down
    BY Zenon, <1>1, <2>1, <2>2, <2>3 DEF Key
  <2>5. /\ down \in SUBSET ShiftKeys /\ steady \in BOOLEAN /\ shift_pressed \in BOOLEAN
        /\ shift_pressed \in Suits(down, steady)
    BY <2>4 DEF ScanInv
  <2>6. held \in SUBSET ShiftKeys BY <2>1, <2>5
  <2>7. agrees \in BOOLEAN BY Zenon, <2>2, <2>5
  <2>8. Suits(held, agrees) \in SUBSET BOOLEAN BY Zenon, <2>7 DEF Suits
  <2>9. s \in Scancode /\ s.key = key /\ s.release = release /\ s.suits = Suits(held, agrees)
    BY <2>3, <2>8 DEF Scancode
  <2>10. ShiftAfter(s)' \in Suits(held, agrees)
    <3>1. CASE key \in ShiftKeys
      <4>1. ShiftAfter(s)' = ~release BY Zenon, <2>9, <3>1 DEF ShiftAfter
      <4>2. agrees => (~release <=> held # {}) BY Zenon, <2>2, <3>1
      <4>3. CASE agrees BY Zenon, <4>1, <4>2, <4>3 DEF Suits
      <4>4. CASE ~agrees BY Zenon, <4>1, <4>4 DEF Suits
      <4> QED BY <4>3, <4>4
    <3>2. CASE key \notin ShiftKeys
      <4>1. held = down
        <5>1. ~fake BY Zenon, <2>4, <2>5, <3>2 DEF ShiftKeys
        <5> QED BY <2>1, <2>5, <3>2, <5>1
      <4>2. agrees = steady BY Zenon, <2>2, <3>2
      <4>3. ShiftAfter(s)' = shift_pressed BY Zenon, <2>4, <2>9, <3>2 DEF ShiftAfter
      <4> QED BY <2>5, <4>1, <4>2, <4>3
    <3> QED BY <3>1, <3>2
  <2> QED BY Zenon, <2>4, <2>5, <2>6, <2>7, <2>9, <2>10 DEF ScanInv
<1>2. ASSUME NEW n \in Lines \ {1}, Device(n) PROVE ScanInv'
  BY <1>0, <1>2 DEF Device, kbdVars
<1>3. ASSUME NEW n \in Lines, irq_accept(n) PROVE ScanInv'
  BY <1>0, <1>3 DEF irq_accept, kbdVars
<1>4. ASSUME NEW n \in Lines, Withdrawn(n) PROVE ScanInv'
  BY <1>0, <1>4 DEF Withdrawn, kbdVars
<1>5. CASE irq_handler
  <2>1. PICK n \in {0, 1} : Last(frames) = n BY <1>5, Served
  <2>2. down' = down /\ steady' = steady BY <1>5 DEF irq_handler
  <2>3. CASE n = 0 BY SMTT(30), <1>0, <1>5, <2>1, <2>2, <2>3 DEF irq_handler
  <2>4. CASE n = 1
    <3>1. keyboard_handler BY <1>5, <2>1, <2>4 DEF irq_handler
    <3>2. CASE ps2 = <<>> BY <1>0, <2>2, <3>1, <3>2 DEF keyboard_handler
    <3>3. CASE ps2 # <<>>
      <4>1. ps2' = <<>> /\ shift_pressed' = ShiftAfter(ps2[1]) BY <3>1, <3>3 DEF keyboard_handler
      <4>2. shift_pressed' \in BOOLEAN /\ shift_pressed' \in Suits(down, steady)
        BY <3>3, <4>1, DecodedGood
      <4>3. down \in SUBSET ShiftKeys /\ steady \in BOOLEAN BY DEF ScanInv
      <4> QED BY Zenon, <2>2, <4>1, <4>2, <4>3 DEF ScanInv
    <3> QED BY <3>2, <3>3
  <2> QED BY <2>3, <2>4
<1>6. CASE setup_pic \/ keyboard_init \/ enable_interrupts
  BY <1>0, <1>6 DEF setup_pic, keyboard_init, enable_interrupts
<1>7. ASSUME KernelOnly PROVE ScanInv' BY <1>0, <1>7 DEF KernelOnly
<1> QED BY SMTT(30), <1>1, <1>2, <1>3, <1>4, <1>5, <1>6, <1>7, KernelActions DEF KeyboardNext, Kernel
-----------------------------------------------------------------------------
\* The ring is well formed and holds characters of the tables only; while
\* keyboard_pop_char runs it is not empty, and the register has its front.
RingInv ==
    /\ kbd \in Rings
    /\ \A i \in 1 .. Count(kbd) : Held(kbd)[i] \in GoodChars
    /\ c \in Chars \cup {NoChar}
    /\ got \in Seq(GoodChars)
    /\ kpc # "use" => got = <<>>
    /\ kpc \in {"pic_init", "keyboard_init", "enable_interrupts", "poll", "load", "advance", "use"}
    /\ PopUndisturbed

\* A step of the queue, or none that it shows.
QueueStep == Queue!Type \/ Queue!Read \/ Queue!Use \/ UNCHANGED <<Contents, got>>

LEMMA ContentsHeld == Contents = Held(kbd) /\ Contents' = Held(kbd')
  BY DEF Contents, Held, Count, Slot

\* The characters of a ring, as a sequence.
LEMMA HeldSeq ==
    ASSUME NEW k \in Rings, NEW S, \A i \in 1 .. Count(k) : Held(k)[i] \in S
    PROVE  /\ Held(k) \in Seq(S) /\ Len(Held(k)) = Count(k) /\ Count(k) \in Nat
           /\ Held(k) = [i \in 1 .. Count(k) |-> Held(k)[i]]
<1>1. Count(k) \in Nat BY RingCount
<1>2. Held(k) = [i \in 1 .. Count(k) |-> Held(k)[i]] BY Zenon DEF Held
<1> QED BY <1>1, <1>2, FunSeq

\* The front of a ring that is not empty.
LEMMA Front1 ==
    ASSUME NEW k \in Rings, k.head # k.tail
    PROVE  1 \in 1 .. Count(k) /\ Held(k)[1] = k.buffer[k.tail]
<1>1. Count(k) \in Nat /\ Count(k) # 0 BY RingCount
<1>2. 1 \in 1 .. Count(k) BY <1>1
<1>3. Slot(k, 1) = k.tail
  <2>1. KBD_BUFFER_SIZE \in Nat \ {0} /\ k.tail \in 0 .. KBD_BUFFER_SIZE - 1
    BY KeyboardAssumption DEF Rings, Slots
  <2>2. 1 \in 1 .. KBD_BUFFER_SIZE BY <2>1
  <2> QED BY <2>1, <2>2, RingSlot
<1> QED BY <1>2, <1>3 DEF Held

\* A push is a step of the queue that types a character, or none.
LEMMA PushStep ==
    ASSUME RingInv, NEW ch \in GoodChars, kbd' = keyboard_push_char(kbd, ch),
           UNCHANGED <<c, got, kpc>>
    PROVE  RingInv' /\ QueueStep
<1>0. kbd \in Rings /\ ch \in Chars BY DEF RingInv, GoodChars
<1>1. /\ kbd' \in Rings /\ kbd'.tail = kbd.tail
      /\ kbd.head # kbd.tail => /\ kbd'.head # kbd'.tail
                                /\ kbd'.buffer[kbd'.tail] = kbd.buffer[kbd.tail]
      /\ kbd' = kbd \/ /\ Count(kbd) < KBD_BUFFER_SIZE - 1
                       /\ Count(kbd') = Count(kbd) + 1
                       /\ \A i \in 1 .. Count(kbd) : Held(kbd')[i] = Held(kbd)[i]
                       /\ Held(kbd')[Count(kbd) + 1] = ch
  BY Zenon, <1>0, Push
<1>2. PopUndisturbed' BY <1>1 DEF RingInv, PopUndisturbed
<1>3. ASSUME kbd' = kbd PROVE RingInv' /\ QueueStep
  <2>1. Held(kbd') = Held(kbd) /\ Count(kbd') = Count(kbd) BY <1>3
  <2>2. UNCHANGED <<Contents, got>> BY <2>1, ContentsHeld
  <2>3. \A i \in 1 .. Count(kbd') : Held(kbd')[i] \in GoodChars BY <2>1 DEF RingInv
  <2> QED BY SMTT(30), <1>1, <1>2, <2>2, <2>3 DEF RingInv, QueueStep
<1>4. ASSUME kbd' # kbd PROVE RingInv' /\ QueueStep
  <2>1. Count(kbd) \in Nat BY <1>0, RingCount
  <2>2. ASSUME NEW i \in 1 .. Count(kbd') PROVE Held(kbd')[i] \in GoodChars
    <3>1. CASE i \in 1 .. Count(kbd)
      <4>1. Held(kbd)[i] \in GoodChars BY <3>1 DEF RingInv
      <4> QED BY SMTT(30), <1>1, <1>4, <3>1, <4>1
    <3>2. CASE i = Count(kbd) + 1 BY SMTT(30), <1>1, <1>4, <3>2
    <3> QED BY SMTT(30), <1>1, <1>4, <2>1, <3>1, <3>2
  <2>3. RingInv' BY <1>1, <1>2, <2>2 DEF RingInv
  <2>4. /\ Held(kbd) \in Seq(GoodChars) /\ Len(Held(kbd)) = Count(kbd)
        /\ Held(kbd') \in Seq(GoodChars) /\ Len(Held(kbd')) = Count(kbd')
    BY SMTT(30), <1>0, <1>1, <2>2, HeldSeq DEF RingInv
  <2>5. PICK h : h = Held(kbd) OBVIOUS
  <2>6. PICK g : g = Held(kbd') OBVIOUS
  <2>7. g = Append(h, ch)
    <3>1. h \in Seq(GoodChars) /\ g \in Seq(GoodChars) /\ Len(g) = Len(h) + 1
      BY SMTT(30), <1>1, <1>4, <2>4, <2>5, <2>6
    <3>2. (\A i \in 1 .. Len(h) : g[i] = h[i]) /\ g[Len(h) + 1] = ch
      BY SMTT(30), <1>1, <1>4, <2>4, <2>5, <2>6
    <3> QED BY <3>1, <3>2
  <2>8. Contents' = Append(Contents, ch) /\ Len(Contents) < KBD_BUFFER_SIZE - 1
    BY Zenon, <1>1, <1>4, <2>4, <2>5, <2>6, <2>7, ContentsHeld
  <2>9. Queue!Type BY Zenon, <1>0, <2>8 DEF Queue!Type
  <2> QED BY <2>3, <2>9 DEF QueueStep
<1> QED BY <1>3, <1>4

\* So is a read of n characters.
LEMMA PopStep ==
    ASSUME RingInv, kpc # "use", NEW n \in 1 .. Count(kbd),
           kbd' = [kbd EXCEPT !.tail = (@ + n) % KBD_BUFFER_SIZE],
           got' = SubSeq(Contents, 1, n), kpc' = "use", c' \in {c, NoChar}
    PROVE  RingInv' /\ QueueStep
<1>0. kbd \in Rings /\ got = <<>> /\ Count(kbd) \in Nat BY RingCount DEF RingInv
<1>1. /\ kbd' \in Rings /\ Count(kbd') = Count(kbd) - n
      /\ \A i \in 1 .. Count(kbd) - n : Held(kbd')[i] = Held(kbd)[i + n]
  BY Zenon, <1>0, Pop
<1>2. ASSUME NEW i \in 1 .. Count(kbd') PROVE Held(kbd')[i] \in GoodChars
  <2>1. i \in 1 .. Count(kbd) - n /\ i + n \in 1 .. Count(kbd) BY <1>0, <1>1
  <2>2. Held(kbd')[i] = Held(kbd)[i + n] BY <1>1, <2>1
  <2> QED BY Zenon, <2>1, <2>2 DEF RingInv
<1>3. /\ Held(kbd) \in Seq(GoodChars) /\ Len(Held(kbd)) = Count(kbd)
      /\ Held(kbd') \in Seq(GoodChars) /\ Len(Held(kbd')) = Count(kbd')
  BY Zenon, <1>0, <1>1, <1>2, HeldSeq DEF RingInv
<1>4. PICK h : h = Held(kbd) OBVIOUS
<1>5. PICK g : g = Held(kbd') OBVIOUS
<1>6. /\ h \in Seq(GoodChars) /\ g \in Seq(GoodChars) /\ n \in 1 .. Len(h)
      /\ Len(g) = Len(h) - n /\ \A i \in 1 .. Len(h) - n : g[i] = h[i + n]
  BY Zenon, <1>1, <1>3, <1>4, <1>5
<1>7. got' \in Seq(GoodChars) /\ got' = SubSeq(h, 1, n) BY <1>4, <1>6, ContentsHeld
<1>8. RingInv'
  <2>1. PopUndisturbed' BY DEF PopUndisturbed
  <2> QED BY SMTT(30), <1>1, <1>2, <1>7, <2>1 DEF RingInv
<1>9. g = SubSeq(h, n + 1, Len(h)) BY SMTT(30), <1>6
<1>10. Queue!Read
  <2>1. Contents = h /\ Contents' = g BY Zenon, <1>4, <1>5, ContentsHeld
  <2> QED BY Zenon, <1>0, <1>6, <1>7, <1>9, <2>1 DEF Queue!Read
<1> QED BY <1>8, <1>10 DEF QueueStep

\* Every step keeps the ring and is a step of the queue or none.
LEMMA RingStep ==
    ASSUME IntInv, ScanInv, RingInv, KeyboardNext
    PROVE  RingInv' /\ QueueStep
<1>0. ASSUME UNCHANGED <<kbd, c, got>>,
             \/ kpc' = kpc
             \/ kpc' \in {"keyboard_init", "enable_interrupts", "poll"} /\ kpc # "use"
      PROVE  RingInv' /\ QueueStep
  <2>1. UNCHANGED <<Contents, got>> BY <1>0, ContentsHeld
  <2>2. RingInv' BY <1>0 DEF RingInv, PopUndisturbed
  <2> QED BY <2>1, <2>2 DEF QueueStep
<1>1. ASSUME NEW key \in Keys \cup ShiftKeys \cup {"other"}, NEW release \in BOOLEAN,
             NEW fake \in BOOLEAN, Key(key, release, fake)
      PROVE  RingInv' /\ QueueStep
  BY <1>0, <1>1 DEF Key
<1>2. ASSUME NEW n \in Lines \ {1}, Device(n) PROVE RingInv' /\ QueueStep
  BY <1>0, <1>2 DEF Device, kbdVars
<1>3. ASSUME NEW n \in Lines, irq_accept(n) PROVE RingInv' /\ QueueStep
  BY <1>0, <1>3 DEF irq_accept, kbdVars
<1>4. ASSUME NEW n \in Lines, Withdrawn(n) PROVE RingInv' /\ QueueStep
  BY <1>0, <1>4 DEF Withdrawn, kbdVars
<1>5. CASE irq_handler
  <2>1. PICK n \in {0, 1} : Last(frames) = n BY <1>5, Served
  <2>2. UNCHANGED <<c, got, kpc>> BY <1>5 DEF irq_handler
  <2>3. CASE n = 0 BY SMTT(30), <1>0, <1>5, <2>1, <2>2, <2>3 DEF irq_handler
  <2>4. CASE n = 1
    <3>1. keyboard_handler BY <1>5, <2>1, <2>4 DEF irq_handler
    <3>2. CASE ps2 = <<>> BY <1>0, <2>2, <3>1, <3>2 DEF keyboard_handler
    <3>3. CASE ps2 # <<>>
      <4>1. kbd' = IF Decoded(ps2[1]) = NoChar THEN kbd
                   ELSE keyboard_push_char(kbd, Decoded(ps2[1]))
        BY <3>1, <3>3 DEF keyboard_handler
      <4>2. CASE Decoded(ps2[1]) = NoChar BY <1>0, <2>2, <4>1, <4>2
      <4>3. CASE Decoded(ps2[1]) # NoChar
        <5>1. PICK ch : ch = Decoded(ps2[1]) OBVIOUS
        <5>2. ch \in GoodChars BY <3>3, <4>3, <5>1, DecodedGood
        <5>3. kbd' = keyboard_push_char(kbd, ch) BY <4>1, <4>3, <5>1
        <5> QED BY Zenon, <2>2, <5>2, <5>3, PushStep
      <4> QED BY <4>2, <4>3
    <3> QED BY <3>2, <3>3
  <2> QED BY <2>3, <2>4
<1>6. CASE setup_pic \/ keyboard_init \/ enable_interrupts
  BY <1>0, <1>6 DEF setup_pic, keyboard_init, enable_interrupts, KernelAt
<1>7. CASE pop_test
  <2>1. kbd.head # kbd.tail /\ kpc = "poll" /\ kpc' = "load" /\ UNCHANGED <<kbd, c, got>>
    BY <1>7 DEF pop_test, KernelAt
  <2>2. UNCHANGED <<Contents, got>> BY <2>1, ContentsHeld
  <2>3. RingInv' BY <2>1 DEF RingInv, PopUndisturbed
  <2> QED BY <2>2, <2>3 DEF QueueStep
<1>8. CASE pop_load
  <2>1. kpc = "load" /\ kpc' = "advance" /\ c' = kbd.buffer[kbd.tail] /\ UNCHANGED <<kbd, got>>
    BY <1>8 DEF pop_load, KernelAt
  <2>2. UNCHANGED <<Contents, got>> BY <2>1, ContentsHeld
  <2>3. c' \in Chars \cup {NoChar} BY <2>1 DEF RingInv, Rings
  <2>4. RingInv' BY <2>1, <2>3 DEF RingInv, PopUndisturbed
  <2> QED BY <2>2, <2>4 DEF QueueStep
<1>9. CASE pop_advance
  <2>1. /\ kpc = "advance" /\ kpc' = "use" /\ got' = <<c>> /\ c' = NoChar
        /\ kbd' = [kbd EXCEPT !.tail = (@ + 1) % KBD_BUFFER_SIZE]
    BY <1>9 DEF pop_advance, KernelAt
  <2>2. kbd \in Rings /\ kbd.head # kbd.tail /\ c = kbd.buffer[kbd.tail]
    BY <2>1 DEF RingInv, PopUndisturbed
  <2>3. 1 \in 1 .. Count(kbd) /\ Held(kbd)[1] = c BY <2>2, Front1
  <2>4. got' = SubSeq(Contents, 1, 1)
    <3>1. PICK h : h = Held(kbd) OBVIOUS
    <3>2. h \in Seq(GoodChars) /\ Len(h) = Count(kbd) BY <2>2, <3>1, HeldSeq DEF RingInv
    <3>3. 1 \in 1 .. Len(h) /\ h[1] = c BY <2>3, <3>1, <3>2
    <3>4. SubSeq(h, 1, 1) = <<h[1]>>
      <4>1. PICK q : q = SubSeq(h, 1, 1) BY Zenon
      <4>2. q \in Seq(GoodChars) /\ Len(q) = 1 /\ q[1] = h[1] BY <3>2, <3>3, <4>1
      <4>3. PICK x : x = h[1] OBVIOUS
      <4>4. q = <<x>> BY <4>2, <4>3
      <4> QED BY Zenon, <4>1, <4>3, <4>4
    <3> QED BY <2>1, <3>1, <3>3, <3>4, ContentsHeld
  <2> QED BY Zenon, <2>1, <2>3, <2>4, PopStep
<1>10. ASSUME NEW len \in ReadLens, sys_read_kbd(len) PROVE RingInv' /\ QueueStep
  <2>1. PICK n : n = Min({len, Len(Contents)}) OBVIOUS
  <2>2. /\ kpc = "poll" /\ n > 0 /\ kbd' = [kbd EXCEPT !.tail = (@ + n) % KBD_BUFFER_SIZE]
        /\ got' = SubSeq(Contents, 1, n) /\ kpc' = "use" /\ c' = c
    BY <1>10, <2>1 DEF sys_read_kbd, KernelAt
  <2>3. Len(Contents) = Count(kbd) /\ Count(kbd) \in Nat
    BY HeldSeq, ContentsHeld DEF RingInv
  <2>4. len \in Nat BY KeyboardAssumption
  <2>5. n \in Nat /\ n <= Count(kbd)
    <3>1. PICK m : m = Count(kbd) OBVIOUS
    <3>2. \E x \in {len, m} : \A y \in {len, m} : x <= y
      <4>1. CASE len <= m BY SMTT(30), <2>3, <2>4, <3>1, <4>1
      <4>2. CASE m <= len BY <2>3, <2>4, <3>1, <4>2
      <4> QED BY SMTT(30), <2>3, <2>4, <3>1, <4>1, <4>2
    <3>3. n \in {len, m} /\ \A y \in {len, m} : n <= y
      BY Zenon, <2>1, <2>3, <3>1, <3>2 DEF Min
    <3> QED BY SMTT(30), <2>3, <2>4, <3>1, <3>3
  <2>6. n \in 1 .. Count(kbd) BY <2>2, <2>3, <2>5
  <2> QED BY <2>2, <2>6, PopStep
<1>11. CASE use_chars
  <2>1. kpc = "use" /\ kpc' = "poll" /\ got' = <<>> /\ UNCHANGED <<kbd, c>>
    BY <1>11 DEF use_chars, KernelAt
  <2>2. RingInv' BY <2>1 DEF RingInv, PopUndisturbed
  <2>3. Contents' = Contents BY <2>1, ContentsHeld
  <2>4. Queue!Use \/ UNCHANGED <<Contents, got>> BY <2>1, <2>3 DEF Queue!Use
  <2> QED BY <2>2, <2>4 DEF QueueStep
<1> QED BY SMTT(30), <1>1, <1>2, <1>3, <1>4, <1>5, <1>6, <1>7, <1>8, <1>9, <1>10, <1>11
        DEF KeyboardNext, Kernel
-----------------------------------------------------------------------------
\* The inductive invariant of keyboard input.
KeyboardInv ==
    /\ IntInv /\ ByteAnnounced /\ ScanInv /\ RingInv
    /\ early \in BOOLEAN /\ timer_ticks \in 0 .. TickModulus - 1

LEMMA KeyboardInvInit == KeyboardInit => KeyboardInv
<1> SUFFICES ASSUME KeyboardInit PROVE KeyboardInv OBVIOUS
<1>1. IntInv BY Zenon DEF KeyboardInit, InterruptsInit, IntInv, Late
<1>2. ScanInv BY Zenon DEF KeyboardInit, ScanInv, Suits
<1>3. kbd \in Rings /\ kbd.head = kbd.tail
  BY KeyboardAssumption DEF KeyboardInit, Rings, Slots
<1>4. Count(kbd) = 0 BY <1>3, RingCount
<1>5. \A i \in 1 .. Count(kbd) : Held(kbd)[i] \in GoodChars BY <1>4
<1>6. got \in Seq(GoodChars) BY DEF KeyboardInit
<1>7. RingInv
  <2>1. c = NoChar /\ got = <<>> /\ kpc = "pic_init" BY DEF KeyboardInit
  <2> QED BY SMTT(30), <1>3, <1>5, <1>6, <2>1 DEF RingInv, PopUndisturbed
<1>8. ps2 = <<>> /\ early = FALSE /\ timer_ticks = 0 BY DEF KeyboardInit
<1>9. timer_ticks \in 0 .. TickModulus - 1 BY <1>8, KeyboardAssumption
<1> QED BY Zenon, <1>1, <1>2, <1>7, <1>8, <1>9 DEF KeyboardInv, ByteAnnounced

LEMMA KeyboardInvStep ==
    ASSUME KeyboardInv, [KeyboardNext]_vars
    PROVE  KeyboardInv' /\ QueueStep
<1>1. CASE KeyboardNext
  <2>1. IntInv' /\ ByteAnnounced' /\ ScanInv' /\ RingInv' /\ QueueStep
    BY SMTT(30), <1>1, IntStep, AnnouncedStep, ScanStep, RingStep DEF KeyboardInv
  <2>2. early' \in BOOLEAN
    BY Zenon, <1>1 DEF KeyboardInv, KeyboardNext, Kernel, Key, Device, irq_accept, Withdrawn, kbdVars,
       irq_handler, setup_pic, keyboard_init, enable_interrupts, pop_test, pop_load,
       pop_advance, use_chars, sys_read_kbd
  <2>3. timer_ticks' \in {timer_ticks, (timer_ticks + 1) % TickModulus}
    BY ZenonT(30), <1>1 DEF KeyboardNext, Kernel, Key, Device, irq_accept, Withdrawn, kbdVars,
       irq_handler, timer_handler, setup_pic, keyboard_init, enable_interrupts, pop_test,
       pop_load, pop_advance, use_chars, sys_read_kbd
  <2>4. timer_ticks' \in 0 .. TickModulus - 1
    BY <2>3, KeyboardAssumption DEF KeyboardInv
  <2> QED BY <2>1, <2>2, <2>4 DEF KeyboardInv
<1>2. CASE UNCHANGED vars
  <2>1. UNCHANGED <<Contents, got>> BY <1>2 DEF vars, kbdVars, Contents
  <2>2. KeyboardInv'
    BY <1>2 DEF vars, intVars, kbdVars, KeyboardInv, IntInv, Late, ByteAnnounced, ScanInv, RingInv,
       PopUndisturbed, ShiftAfter
  <2> QED BY <2>1, <2>2 DEF QueueStep
<1> QED BY <1>1, <1>2

\* What the invariant says, in the terms of the properties.
LEMMA KeyboardInvImplies ==
    ASSUME KeyboardInv
    PROVE  /\ KeyboardTypeOK /\ ServiceMatchesFrames
           /\ PopUndisturbed /\ ShiftFollowsKeys
<1>0. IntInv /\ ScanInv /\ RingInv BY DEF KeyboardInv
<1>1. Len(frames) <= 1
  <2>1. ASSUME frames = <<>> PROVE Len(frames) <= 1 BY <2>1
  <2>2. ASSUME NEW n \in {0, 1}, frames = <<n>> PROVE Len(frames) <= 1 BY <2>2
  <2> QED BY Zenon, <1>0, <2>1, <2>2 DEF IntInv
<1>2. isr = {frames[i] : i \in DOMAIN frames} /\ isr \cap imr = {}
  <2>1. CASE frames = <<>> /\ isr = {} BY <2>1
  <2>2. ASSUME NEW n \in {0, 1}, frames = <<n>>, isr = {n} PROVE <1>2
    <3>1. {frames[i] : i \in DOMAIN frames} = {n} BY <2>2
    <3>2. imr = Lines \ {0, 1} BY <1>0, <2>2 DEF IntInv, Late
    <3> QED BY <2>2, <3>1, <3>2
  <2> QED BY <1>0, <2>1, <2>2 DEF IntInv
<1>3. ServiceMatchesFrames BY <1>1, <1>2 DEF ServiceMatchesFrames
<1>5. Contents \in Seq(GoodChars) /\ got \in Seq(GoodChars)
  BY <1>0, HeldSeq, ContentsHeld DEF RingInv
<1>6. ShiftFollowsKeys
  <2>1. ASSUME NEW q \in Seq(GoodChars), NEW ch \in ToSet(q) PROVE ch.suited
    BY <2>1 DEF ToSet, GoodChars
  <2> QED BY <1>5, <2>1 DEF ShiftFollowsKeys
<1>7. KeyboardTypeOK
  <2>1. isr \in SUBSET Lines /\ frames \in Seq(Lines)
    <3>1. ASSUME frames = <<>>, isr = {} PROVE <2>1 BY <3>1
    <3>2. ASSUME NEW n \in {0, 1}, frames = <<n>>, isr = {n} PROVE <2>1
      <4>1. n \in Lines BY LinesAssumption
      <4> QED BY <3>2, <4>1
    <3> QED BY Zenon, <1>0, <3>1, <3>2 DEF IntInv
  <2>2. panic \in {NoPanic} \cup 32 .. 39 BY <1>0 DEF IntInv
  <2>3. Len(ps2) <= 1 /\ \A i \in DOMAIN ps2 : ps2[i] \in Scancode
    <3>1. ASSUME ps2 = <<>> PROVE <2>3 BY <3>1
    <3>2. ASSUME NEW s \in Scancode, ps2 = <<s>> PROVE <2>3 BY <3>2
    <3> QED BY Zenon, <1>0, <3>1, <3>2 DEF ScanInv
  <2>4. got \in Seq(Chars) BY <1>5 DEF GoodChars
  <2>5. kbd \in [buffer : [Slots -> Chars \cup {NoChar}], head : Slots, tail : Slots]
    BY <1>0 DEF RingInv, Rings
  <2> QED BY Zenon, <1>0, <2>1, <2>2, <2>3, <2>4, <2>5
          DEF KeyboardInv, IntInv, ScanInv, RingInv, KeyboardTypeOK
<1> QED BY SMTT(30), <1>0, <1>1, <1>3, <1>6, <1>7 DEF RingInv

\* The interrupt path is sound whatever the lines, keys and sizes: handlers do
\* not nest, the 8259 has in service what is on the stack, so that no line is
\* accepted whose vector has no gate, and no byte is left in the controller
\* without its interrupt (pic.c, idt.c, keyboard.c).
THEOREM InterruptsSound ==
    KeyboardSpec => [](ServiceMatchesFrames /\ ByteAnnounced)
<1>1. KeyboardInv => ServiceMatchesFrames /\ ByteAnnounced
  BY KeyboardInvImplies DEF KeyboardInv
<1>2. KeyboardInv /\ [KeyboardNext]_vars => KeyboardInv' BY SMTT(30), KeyboardInvStep
<1> QED BY <1>1, <1>2, KeyboardInvInit, PTL DEF KeyboardSpec

\* Decoding and the ring are sound: the state stays well formed, an interrupt
\* never disturbs keyboard_pop_char, and a character is shifted exactly if a
\* shift key was down when its key was struck, unless the last shift code was a
\* fake one or the release of one of two keys (keyboard.c:20-92).
THEOREM KeyboardSound ==
    KeyboardSpec => [](KeyboardTypeOK /\ PopUndisturbed /\ ShiftFollowsKeys)
<1>1. KeyboardInv => KeyboardTypeOK /\ PopUndisturbed /\ ShiftFollowsKeys
  BY KeyboardInvImplies
<1>2. KeyboardInv /\ [KeyboardNext]_vars => KeyboardInv' BY KeyboardInvStep
<1> QED BY <1>1, <1>2, KeyboardInvInit, PTL DEF KeyboardSpec

\* The interrupt handler and the readers implement a queue of one character
\* less than the ring has slots, whatever its size: what is read is what was
\* accepted, in order, each character once (keyboard.c:20-56, syscall.c).
THEOREM RingImplementsQueue == KeyboardSpec => QueueSpec
<1>1. KeyboardInit => Queue!Init
  <2> SUFFICES ASSUME KeyboardInit PROVE Queue!Init OBVIOUS
  <2>1. kbd \in Rings /\ kbd.head = kbd.tail
    BY KeyboardAssumption DEF KeyboardInit, Rings, Slots
  <2>2. Count(kbd) = 0 BY <2>1, RingCount
  <2>3. Contents = <<>> BY SMTT(30), <2>2, ContentsHeld DEF Held
  <2>4. got = <<>> BY DEF KeyboardInit
  <2> QED BY SMTT(30), <2>3, <2>4 DEF Queue!Init
<1>2. KeyboardInv /\ [KeyboardNext]_vars
        => KeyboardInv' /\ [Queue!Type \/ Queue!Read \/ Queue!Use]_<<Contents, got>>
  BY KeyboardInvStep DEF QueueStep
<1> QED BY <1>1, <1>2, KeyboardInvInit, PTL DEF KeyboardSpec, QueueSpec, Queue!Spec
=============================================================================
