-------------------------------- MODULE Pwm ---------------------------------
(***************************************************************************)
(* libpi/cs140e-pwm.c: spread `on' ones evenly over a vector of n choices, *)
(* with the integer arithmetic of a line from (0, 0) to (on, n - on).      *)
(* A round of the loop is two steps, each of which may write one choice.   *)
(***************************************************************************)
EXTENDS Integers

CONSTANTS MaxN     \* bound: the longest vector

ASSUME PwmAssumption == MaxN \in Nat

VARIABLES
  dx, dy,      (* ones and zeroes asked for: on, n - on                    *)
  x0, y0,      (* ones and zeroes written; pos is their sum                *)
  err, e2,     (* distance from the line, scaled; as this round began      *)
  pc           (* "one": before a round, "zero": amid it, "done"           *)

vars == <<dx, dy, x0, y0, err, e2, pc>>

n   == dx + dy
pos == x0 + y0

\* Division in C rounds to zero: -dy / 2 is -(dy \div 2).
FirstErrUnhalved == IF dx > dy THEN dx ELSE -(dy \div 2)
FirstErr == IF dx > dy THEN dx \div 2 ELSE -(dy \div 2)

\* pwm_compute(), as far as the loop
Init ==
  /\ dx \in 0 .. MaxN /\ dy \in 0 .. MaxN - dx
  /\ x0 = 0 /\ y0 = 0 /\ pc = "one"
  /\ err = FirstErr /\ e2 = err

\* the line ends in its far corner
AtEnd == x0 = dx /\ y0 = dy

\* does this round write a one?
WritesOneNoSign(e) == e > dx
WritesOneLoose(e) == e >= -dx
WritesOne(e) == e > -dx

WriteOne ==
  /\ pc = "one" /\ ~ AtEnd
  /\ e2' = err
  /\ \/ WritesOne(e2') /\ err' = err - dy /\ x0' = x0 + 1
     \/ ~ WritesOne(e2') /\ UNCHANGED <<err, x0>>
  /\ pc' = "zero"
  /\ UNCHANGED <<dx, dy, y0>>

\* does it write a zero?  The distance is that from before the one.
WritesZero(e) == e < dy

WriteZero ==
  /\ pc = "zero"
  /\ \/ WritesZero(e2) /\ err' = err + dx /\ y0' = y0 + 1
     \/ ~ WritesZero(e2) /\ UNCHANGED <<err, y0>>
  /\ pc' = "one"
  /\ UNCHANGED <<dx, dy, x0, e2>>

Finish ==
  /\ pc = "one" /\ AtEnd
  /\ pc' = "done"
  /\ UNCHANGED <<dx, dy, x0, y0, err, e2>>

Next == WriteOne \/ WriteZero \/ Finish

Spec == Init /\ [][Next]_vars

\* int_line() runs by itself until it returns.
FairSpec == Spec /\ WF_vars(Next)

-----------------------------------------------------------------------------
(***************************************************************************)
(* Properties.                                                             *)
(***************************************************************************)
\* Type invariant; the distance stays within n of the line, so an int holds it
\* (cs140e-pwm.c:21-26), and less than one step above it.
TypeOK ==
  /\ dx \in Nat /\ dy \in Nat /\ n <= MaxN
  /\ x0 \in Nat /\ y0 \in Nat
  /\ err \in Int /\ -n <= err /\ (err < dx \/ err = 0)
  /\ e2 \in Int /\ -n <= e2 /\ (e2 < dx \/ e2 = 0)
  /\ pc \in {"one", "zero", "done"}

\* int_line() writes no more ones or zeroes than it was asked for, and so never
\* behind its vector, though the loop asks only whether it is exactly at the end
\* (cs140e-pwm.c:31-34).
InBounds == x0 <= dx /\ y0 <= dy

\* Neither the vector nor the range of an int is left (cs140e-pwm.c:21-34).
StaysInside == TypeOK /\ InBounds

\* However much of the vector is written, the share of ones in it is less than one
\* choice away from on / n: what the line is drawn for (cs140e-pwm.c:13-17).
Evenly == n > 0 => -n < x0 * n - pos * dx /\ x0 * n - pos * dx < n

\* The loop ends, though it steps over its end if it ever misses it.
Terminates == <>(pc = "done")
=============================================================================
