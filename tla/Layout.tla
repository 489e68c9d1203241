------------------------------- MODULE Layout -------------------------------
(* Where the fields of a C structure or of a C bit field end up.  A layout  *)
(* is the sequence of the fields from the lowest address or bit up, as      *)
(* <<name, width>>: every field follows the widths before it.               *)
EXTENDS Integers, Sequences

Width(layout) ==
  LET upTo[n \in 0 .. Len(layout)] == IF n = 0 THEN 0 ELSE upTo[n - 1] + layout[n][2]
  IN  upTo[Len(layout)]
Offset(layout, i) == Width(SubSeq(layout, 1, i - 1))

\* The field that a mask with only bit n set reaches.
FieldAt(layout, n) ==
  layout[CHOOSE i \in DOMAIN layout :
           Offset(layout, i) <= n /\ n < Offset(layout, i) + layout[i][2]][1]

\* Every field with the place it has: what a list of <<name, offset, width>> is
\* to be part of.
Places(layout) == {<<layout[i][1], Offset(layout, i), layout[i][2]>> : i \in DOMAIN layout}

=============================================================================
