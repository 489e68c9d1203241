-------------------------------- MODULE Wire --------------------------------
(***************************************************************************)
(* What the simple bootloader's two sides share: words on a line of bytes, *)
(* and the checksum of a program (simple-boot.h).  The protocol over them  *)
(* is not written.  A word, or a byte, is the set of its bits that are 1.  *)
(***************************************************************************)
EXTENDS Integers, Sequences, FiniteSets
LOCAL INSTANCE SequencesExt

Bits(n) == {b \in 0 .. 15 : (n \div 2^b) % 2 = 1}
shr(w, n) == {b - n : b \in {c \in w : c >= n}}
shl(w, n) == {b + n : b \in w} \cap 0 .. 31
xor(v, w) == (v \ w) \cup (w \ v)
low8(w) == w \cap 0 .. 7

\* The words of the protocol.
Codes ==
  [SOH |-> Bits(22136) \cup shl(Bits(4660), 16),   \* 0x12345678
   BAD_CKSUM |-> Bits(1), BAD_START |-> Bits(2), BAD_END |-> Bits(3), TOO_BIG |-> Bits(4),
   ACK |-> Bits(5), NAK |-> Bits(6), EOT |-> Bits(7)]

\* The Pi's side: bytes go out, and come in, with the lowest of a word first.
send_byte(line, b) == Append(line, b)
put_uint(line, u) ==
  send_byte(send_byte(send_byte(send_byte(line, low8(u)), low8(shr(u, 8))), low8(shr(u, 16))),
            low8(shr(u, 24)))
get_uint(line) == line[1] \cup shl(line[2], 8) \cup shl(line[3], 16) \cup shl(line[4], 24)

\* The error code goes out before the Pi reboots.
die(line, code) == put_uint(line, code)

\* The Unix side writes the same bytes and reads them so; expect() panics on another word.
unix_put_uint(line, u) == line \o [i \in 1 .. 4 |-> low8(shr(u, 8 * (i - 1)))]
unix_get_uint(line) == UNION {shl(line[i], 8 * (i - 1)) : i \in 1 .. 4}
expect(line, v) == unix_get_uint(line) = v

\* The table of simple-boot.h is written out as 256 literals.  Here its entry for a
\* byte is what eight steps of the division make of it.
Poly == Bits(33568) \cup shl(Bits(60856), 16)   \* 0xedb88320
Divided(w) == IF 0 \in w THEN xor(shr(w, 1), Poly) ELSE shr(w, 1)
crc32_tab ==
  [b \in SUBSET (0 .. 7) |-> Divided(Divided(Divided(Divided(Divided(Divided(Divided(Divided(b))))))))]

crc32(msg) ==
  LET crc == FoldLeft(LAMBDA c, b : xor(crc32_tab[low8(xor(c, b))], shr(c, 8)), 0 .. 31, msg)
  IN  xor(crc, 0 .. 31)

-----------------------------------------------------------------------------
Ends32 ==
  {{}, {31}, {7, 8, 23, 24}, 8 .. 15, 1 .. 31, 0 .. 31} \cup {Codes[c] : c \in DOMAIN Codes}

\* A word crosses the line either way and leaves the rest of it alone; the word that
\* is expected is the only one that passes, the code of a dying Pi among them.
WordsCross(line) ==
  \A u, v \in Ends32 :
    /\ unix_get_uint(put_uint(<<>>, u)) = u /\ get_uint(unix_put_uint(<<>>, u)) = u
    /\ LET both == put_uint(put_uint(line, u), v)
       IN  /\ SubSeq(both, 1, Len(line)) = line
           /\ expect(SubSeq(both, Len(line) + 1, Len(both)), u)
           /\ expect(SubSeq(both, Len(line) + 5, Len(both)), v)
    /\ expect(die(<<>>, u), v) <=> u = v

\* The checksum is the usual one, by its value for "123456789", and a burst of at
\* most 32 wrong bits never leaves it as it was.
Nine == [i \in 1 .. 9 |-> Bits(48 + i)]
Burst(msg, from, to) ==
  [i \in DOMAIN msg |-> xor(msg[i], {b \in 0 .. 7 : 8 * (i - 1) + b \in from .. to})]
BurstsChangeIt(msg) ==
  \A from \in 0 .. 8 * Len(msg) - 1 :
    \A to \in from .. 8 * Len(msg) - 1 :
      to - from < 32 => crc32(Burst(msg, from, to)) # crc32(msg)

WireSound ==
  /\ WordsCross(<<>>) /\ WordsCross(<<{0}>>)
  /\ crc32(Nine) = Bits(14630) \cup shl(Bits(52212), 16)   \* 0xcbf43926
  /\ BurstsChangeIt(SubSeq(Nine, 1, 5))
=============================================================================
