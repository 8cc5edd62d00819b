------------------------------ MODULE Console -------------------------------
(***************************************************************************)
(* The VGA text console (io/print.c) as operators on its state: the cells, *)
(* the cursor the driver keeps and the one it programs into the hardware.  *)
(* A character cell stands for its two bytes; the attribute never varies.  *)
(***************************************************************************)
EXTENDS Integers

CONSTANTS VGA_WIDTH, VGA_HEIGHT

ASSUME ScreenAssumption == VGA_WIDTH \in Nat \ {0} /\ VGA_HEIGHT \in Nat \ {0}

Cells == 0 .. VGA_WIDTH * VGA_HEIGHT - 1

\* The linear offset of the cursor.
Position(con) == con.cursor_y * VGA_WIDTH + con.cursor_x

update_hardware_cursor(con) == [con EXCEPT !.hardware = Position(con)]

clear ==
    [video_memory |-> [i \in Cells |-> " "], cursor_x |-> 0, cursor_y |-> 0, hardware |-> 0]

\* Every line moves up by one, and the last becomes blank.
Scrolled(memory) ==
    [i \in Cells |-> IF i + VGA_WIDTH \in Cells THEN memory[i + VGA_WIDTH] ELSE " "]

\* The cursor goes to the start of the next line, scrolling at the bottom.
NextLine(con) ==
    IF con.cursor_y + 1 >= VGA_HEIGHT
    THEN [con EXCEPT !.cursor_x = 0, !.cursor_y = VGA_HEIGHT - 1, !.video_memory = Scrolled(@)]
    ELSE [con EXCEPT !.cursor_x = 0, !.cursor_y = @ + 1]

\* One cell back, to the end of the line above at the left margin.
Retreat(con) ==
    IF con.cursor_x > 0 THEN [con EXCEPT !.cursor_x = @ - 1]
    ELSE [con EXCEPT !.cursor_y = @ - 1, !.cursor_x = VGA_WIDTH - 1]

\* One cell forward.
Advance(con) ==
    IF con.cursor_x + 1 >= VGA_WIDTH THEN NextLine(con) ELSE [con EXCEPT !.cursor_x = @ + 1]

Put(con, c) == [con EXCEPT !.video_memory[Position(con)] = c]

\* Mutant: a backspace forgets the hardware cursor.
printc_backspace_stale(con, c) ==
    CASE c = "bs" -> IF Position(con) = 0 THEN con ELSE Put(Retreat(con), " ")
      [] c = "\n" -> update_hardware_cursor(NextLine(con))
      [] OTHER -> update_hardware_cursor(Advance(Put(con, c)))

printc(con, c) ==
    CASE c = "bs" ->
            IF con.cursor_x = 0 /\ con.cursor_y = 0 THEN con
            ELSE update_hardware_cursor(Put(Retreat(con), " "))
      [] c = "\n" -> update_hardware_cursor(NextLine(con))
      [] OTHER ->
            IF con.cursor_x >= VGA_WIDTH \/ con.cursor_y >= VGA_HEIGHT THEN con
            ELSE update_hardware_cursor(Advance(Put(con, c)))
=============================================================================
