----------------------------- MODULE MCKeyboard -----------------------------
(***************************************************************************)
(* Keyboard with three slots (the ring holds two characters), one key with *)
(* a character, the two driven lines and one left masked, whose vector is  *)
(* also that of a spurious interrupt.                                      *)
(***************************************************************************)
EXTENDS Keyboard

MCLines == {0, 1, 7}

MCReadLens == {1, 2, 3}
=============================================================================
