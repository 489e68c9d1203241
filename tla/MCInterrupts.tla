---------------------------- MODULE MCInterrupts ----------------------------
(* Interrupts with pins that share a register and pins that do not, and a  *)
(* clock that wraps every few microseconds.                                *)
EXTENDS Interrupts

AllPrograms == {"timer", "sonar", "syscall", "threads"} \cup Waiters
SomeTypes == {0, 2, 5, 7}
AllFamilies == {"function", "write", "event", "pull"}
SomePins == {18, 19, 33}
LowPins == {18, 19}
SomeFunctions == {1, 2, 4}
=============================================================================
