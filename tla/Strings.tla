------------------------------- MODULE Strings -------------------------------
(***************************************************************************)
(* libpi's string and memory routines (cs140e-stdlib.c), over memory as a  *)
(* function from addresses to bytes, and reference definitions for them.   *)
(***************************************************************************)
EXTENDS Integers, Sequences, FiniteSets
LOCAL INSTANCE FiniteSetsExt

Nul == 0
Newline == 10
Space == 32

aligned(ptr, n) == ptr % n = 0
aligned4(ptr) == aligned(ptr, 4)

\* One load and one store per unit, the lowest address first.
CopyUnits(m, d, s, n, unit) ==
  LET copied[i \in 0 .. (n \div unit)] ==
        IF i = 0 THEN m
        ELSE [x \in DOMAIN m |->
                IF x - d \in (i - 1) * unit .. i * unit - 1
                THEN copied[i - 1][s + x - d] ELSE copied[i - 1][x]]
  IN  copied[n \div unit]

memcpy(m, d, s, n) ==
  CopyUnits(m, d, s, n, IF aligned4(d) /\ aligned4(s) /\ aligned4(n) THEN 4 ELSE 1)

memset(m, p, c, n) == [x \in DOMAIN m |-> IF x - p \in 0 .. n - 1 THEN c ELSE m[x]]

Differ(m, a, b, n) == {i \in 0 .. n - 1 : m[a + i] # m[b + i]}

strlen(m, p) == Min({i \in 0 .. Cardinality(DOMAIN m) - 1 - p : m[p + i] = Nul})
strcmp(m, a, b) ==
  LET n == Min({strlen(m, a), strlen(m, b)})
      i == Min(Differ(m, a, b, n) \cup {n})
  IN  m[a + i] - m[b + i]

memcmp(m, a, b, n) ==
  IF Differ(m, a, b, n) = {} THEN 0
  ELSE LET i == Min(Differ(m, a, b, n)) IN m[a + i] - m[b + i]
\* It does not stop at the end of the strings.
strncmp(m, a, b, n) == memcmp(m, a, b, n)

strcpy(m, d, s) == CopyUnits(m, d, s, strlen(m, s) + 1, 1)
strcatAfterNul(m, d, s) == CopyUnits(m, d + strlen(m, d) + 1, s, strlen(m, s) + 1, 1)
strcat(m, d, s) == CopyUnits(m, d + strlen(m, d), s, strlen(m, s) + 1, 1)

-----------------------------------------------------------------------------
(***************************************************************************)
(* What C promises of them.                                                *)
(***************************************************************************)
StringAt(m, p) == [i \in 1 .. strlen(m, p) |-> m[p + i - 1]]
Sign(n) == IF n < 0 THEN -1 ELSE IF n > 0 THEN 1 ELSE 0

\* The order of two strings, the end of one before any character.
Order(s, t) ==
  IF s = t THEN 0
  ELSE LET At(u, i) == IF i <= Len(u) THEN u[i] ELSE Nul
           i == CHOOSE i \in 1 .. Len(s) + 1 :
                  At(s, i) # At(t, i) /\ \A j \in 1 .. i - 1 : At(s, j) = At(t, j)
       IN  IF At(s, i) < At(t, i) THEN -1 ELSE 1

Terminated(m, p) == \E q \in DOMAIN m : q >= p /\ m[q] = Nul

\* Elsewhere, memory stays as it was.
OnlyAt(m, new, places) == \A x \in DOMAIN m \ places : new[x] = m[x]

ComparesAsC(m, a, b) ==
  LET s == StringAt(m, a)
      t == StringAt(m, b)
      Cut(u, n) == SubSeq(u, 1, Min({n, Len(u)}))
  IN  /\ Sign(strcmp(m, a, b)) = Order(s, t)
      /\ \A n \in 0 .. Max({Len(s), Len(t)}) + 1 :
           {a + n, b + n} \subseteq DOMAIN m =>
             /\ n <= Min({Len(s), Len(t)}) + 1 => Sign(strncmp(m, a, b, n)) = Order(Cut(s, n), Cut(t, n))
             /\ Sign(memcmp(m, a, b, n)) = 0 <=> \A i \in 0 .. n - 1 : m[a + i] = m[b + i]

AppendsAsC(m, d, s) ==
  LET to == StringAt(m, d)
      from == StringAt(m, s)
      room == d .. d + Len(to) + Len(from)
  IN  /\ room \subseteq DOMAIN m /\ room \cap (s .. s + Len(from)) = {} =>
           StringAt(strcat(m, d, s), d) = to \o from /\ OnlyAt(m, strcat(m, d, s), room)
      /\ d .. d + Len(from) \subseteq DOMAIN m /\ (d .. d + Len(from)) \cap (s .. s + Len(from)) = {} =>
           StringAt(strcpy(m, d, s), d) = from /\ OnlyAt(m, strcpy(m, d, s), d .. d + Len(from))

\* Also for a source that overlaps from above.
CopiesAsC(m, d, s, n) ==
  {d + n - 1, s + n - 1} \subseteq DOMAIN m /\ (d <= s \/ s + n <= d) =>
    /\ \A i \in 0 .. n - 1 : memcpy(m, d, s, n)[d + i] = m[s + i]
    /\ OnlyAt(m, memcpy(m, d, s, n), d .. d + n - 1)
    /\ OnlyAt(m, memset(m, d, Nul, n), d .. d + n - 1)
    /\ \A i \in 0 .. n - 1 : memset(m, d, Nul, n)[d + i] = Nul
=============================================================================
