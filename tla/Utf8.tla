-------------------------------- MODULE Utf8 --------------------------------
(* The characters of long file names (external-code/unicode-utf8.c of lab  *)
(* 16): code points to UTF-8 and back, with a reference for both.           *)
EXTENDS Integers, Sequences

(* By number of bytes: how a first byte begins, how many bits of the code   *)
(* point it takes, and the code points that need that many; utf[0] is for   *)
(* all bytes but the first.                                                 *)
utf == [n \in 0 .. 4 |->
  LET Row(lead, bits, beg, end) == [lead |-> lead, bits_stored |-> bits, beg |-> beg, end |-> end]
  IN  << Row(128, 6, 0, 0), Row(0, 7, 0, 127), Row(192, 5, 128, 2047),
         Row(224, 4, 2048, 65535), Row(240, 3, 65536, 1114111) >>[n + 1]]

(* The first row that fits; OutOfTable where the loop runs on past it.      *)
OutOfTable == -1
FirstRow(Fits(_)) ==
  IF \E n \in DOMAIN utf : Fits(n)
  THEN CHOOSE n \in DOMAIN utf : Fits(n) /\ \A k \in 0 .. n - 1 : ~Fits(k)
  ELSE OutOfTable
codepoint_len(cp) == FirstRow(LAMBDA n : cp \in utf[n].beg .. utf[n].end)
utf8_len(ch) == FirstRow(LAMBDA n : ch - (ch % 2^utf[n].bits_stored) = utf[n].lead)

(* Byte i of a code point in n bytes is utf[Row(i, n)]'s, with the bits of  *)
(* the code point from Shift(i, n) on.                                      *)
Row(i, n) == IF i = 1 THEN n ELSE 0
Shift(i, n) == utf[0].bits_stored * (n - i)

to_utf8(cp) ==
  LET n == codepoint_len(cp)
  IN  [i \in 1 .. n |-> LET u == utf[Row(i, n)]
                        IN  ((cp \div 2^Shift(i, n)) % 2^u.bits_stored) + u.lead]

to_cp(chr) ==
  LET n == utf8_len(chr[1])
      upTo[i \in 0 .. n] ==
        IF i = 0 THEN 0
        ELSE upTo[i - 1] + (chr[i] % 2^utf[Row(i, n)].bits_stored) * 2^Shift(i, n)
  IN  upTo[n]

-----------------------------------------------------------------------------
(* What UTF-8 is: the shortest form, six bits to every byte but the first.  *)
InUtf8(cp) ==
  LET Later(shift) == 128 + ((cp \div shift) % 64)
  IN  IF cp < 128 THEN << cp >>
      ELSE IF cp < 2048 THEN << 192 + cp \div 64, Later(1) >>
      ELSE IF cp < 65536 THEN << 224 + cp \div 4096, Later(64), Later(1) >>
      ELSE << 240 + cp \div 262144, Later(4096), Later(64), Later(1) >>

(* Both directions are right at the ends of every row of the table.         *)
TextKept ==
  \A cp \in (UNION {{utf[n].beg, utf[n].end} : n \in 1 .. 4}) \ {0} :
    to_utf8(cp) = InUtf8(cp) /\ to_cp(to_utf8(cp)) = cp
=============================================================================
