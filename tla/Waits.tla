------------------------------- MODULE Waits --------------------------------
(* Waiting by the microsecond clock: delay_us() of libpi, which subtracts,  *)
(* and usleep() and the polled timers of external-code/platform.c of lab    *)
(* 16, which compare and keep a flag for the clock's wrapping.              *)
EXTENDS Integers

CONSTANT ClockMod       (* the clock's values: 2^32                         *)
ASSUME ClockAssumption == ClockMod \in Nat \ {0}
Clock == 0 .. ClockMod - 1

(* delay_us(): us microseconds from rb are over at ra.                      *)
DelayOver(us, rb, ra) == (ra - rb) % ClockMod >= us

(* A timer that is off is due at every poll; usleep() is always armed.      *)
Off == [usec |-> 0, trigger_value |-> 0, rollover |-> FALSE]
Armed(usec, now) ==
  LET trigger == (now + usec) % ClockMod
  IN  [usec |-> usec, trigger_value |-> trigger, rollover |-> trigger <= now]
register_timer(usec, now) == IF usec > 0 THEN Armed(usec, now) ELSE Off

Due(tw, now) == now >= tw.trigger_value /\ ~tw.rollover
Polled(tw, now) == IF now < tw.trigger_value THEN [tw EXCEPT !.rollover = FALSE] ELSE tw
compare_timer(tw, now) ==
  IF Due(tw, now) THEN register_timer(tw.usec, now) ELSE Polled(tw, now)
=============================================================================
