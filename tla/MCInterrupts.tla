---------------------------- MODULE MCInterrupts ----------------------------
(* Lines and request budgets for TLC: 0 timer, 1 keyboard, 14 disk. *)
EXTENDS Interrupts

ThreeLines == {0, 1, 14}
TimerAndKeyboard == [n \in ThreeLines |-> IF n = 14 THEN 0 ELSE 1]
=============================================================================
