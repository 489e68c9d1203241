------------------------------- MODULE Printk -------------------------------
(***************************************************************************)
(* libpi's formatted output (cs140e-printf.c), and the copy of it in lab   *)
(* 4's libpi-mine.  A call is made as pieces: text, or a conversion with a *)
(* width and an argument; Spell writes the format string for them.         *)
(* Characters are their ASCII codes.  A number as an argument is a word    *)
(* below WordMod, by itself in a sequence; a string is its characters.     *)
(***************************************************************************)
EXTENDS Strings
LOCAL INSTANCE SequencesExt
LOCAL INSTANCE FiniteSetsExt

CONSTANTS
  WordBits,     (* 32                                                      *)
  BufSize       (* of printk()'s static buffer: 1024                       *)

ASSUME PrintkAssumption == WordBits \in Nat \ {0} /\ BufSize \in Nat \ {0}

WordMod == 2 ^ WordBits

NumSize == 128  \* of va_printk()'s num
MaxWidth == 32

VARIABLES
  ppc,          (* "none", "format", "put" or "panic"                      *)
  call,         (* history: the pieces that were asked for                 *)
  size,         (* n: of the buffer                                        *)
  fmt, args,    (* what is left of both                                    *)
  buf,          (* buf .. p, then what of it is not sent yet               *)
  uart          (* characters sent                                         *)

printkVars == <<ppc, call, size, fmt, args, buf, uart>>

Percent == 37
Minus == 45
Char == [bin |-> 98, chr |-> 99, dec |-> 100, float |-> 102, ptr |-> 112, str |-> 115,
         uns |-> 117, hex |-> 120]
DigitChar(d) == IF d < 10 THEN 48 + d ELSE 87 + d
isdigit(c) == c \in 48 .. 57

-----------------------------------------------------------------------------
(***************************************************************************)
(* Numbers.                                                                *)
(***************************************************************************)
Negative(val) == 2 * val >= WordMod

\* do { ... } while(u /= base): the lowest digit comes first
LowDigits(base, u) ==
  LET digits[v \in 0 .. u] ==
        <<DigitChar(v % base)>> \o IF v \div base = 0 THEN <<>> ELSE digits[v \div base]
  IN  digits[u]

pad(p, width) == IF Len(p) < width THEN p \o [i \in 1 .. width - Len(p) |-> Space] ELSE p
reverse(n, p) == Reverse(IF Len(p) + 1 > n THEN SubSeq(p, Len(p) + 2 - n, Len(p)) ELSE p)

emitNoSign(base, n, val, width, signed_p) ==
  reverse(n, pad(IF base = 8 THEN <<val>> ELSE LowDigits(base, val), width))
emit(base, n, val, width, signed_p) ==
  LET neg_p == base = 10 /\ signed_p /\ Negative(val)
      p == IF base = 8 THEN <<val>>
           ELSE IF neg_p THEN Append(LowDigits(base, (-val) % WordMod), Minus)
           ELSE LowDigits(base, val)
  IN  reverse(n, pad(p, IF width > n THEN n - 1 ELSE width))

-----------------------------------------------------------------------------
(***************************************************************************)
(* va_printk(), one turn of its loop at a time.                            *)
(***************************************************************************)
Fmt(i) == IF i <= Len(fmt) THEN fmt[i] ELSE Nul
Drop(s, n) == SubSeq(s, n + 1, Len(s))
CString(s) == SubSeq(s, 1, Min({i \in 0 .. Len(s) : i = Len(s) \/ s[i + 1] = Nul}))

\* p < e, and something is left of the format
More == fmt # <<>> /\ Len(buf) < size - 1

WidthDigits == Min({i \in 0 .. Len(fmt) : ~isdigit(Fmt(i + 2))})
Width == FoldLeft(LAMBDA w, c : w * 10 + c - 48, 0, SubSeq(fmt, 2, WidthDigits + 1))
Specifier == Fmt(WidthDigits + 2)

Converted(c, arg) ==
  CASE c = Char.dec -> emit(10, NumSize, arg[1], Width, TRUE)
    [] c = Char.uns -> emit(10, NumSize, arg[1], Width, FALSE)
    [] c \in {Char.ptr, Char.hex} -> emit(16, NumSize, arg[1], Width, FALSE)
    [] c = Char.bin -> emit(2, NumSize, arg[1], Width, FALSE)
    [] c = Char.str -> arg
    [] c = Char.chr -> emit(8, NumSize, arg[1], Width, FALSE)
Converts(c) == c \in {Char.dec, Char.uns, Char.ptr, Char.hex, Char.bin, Char.str, Char.chr}

Literal ==
  /\ ppc = "format" /\ More /\ Head(fmt) # Percent
  /\ buf' = Append(buf, Head(fmt)) /\ fmt' = Tail(fmt)
  /\ UNCHANGED <<ppc, call, size, args, uart>>

PercentSign ==
  /\ ppc = "format" /\ More /\ Head(fmt) = Percent /\ Fmt(2) = Percent
  /\ buf' = Append(buf, Percent) /\ fmt' = Drop(fmt, 2)
  /\ UNCHANGED <<ppc, call, size, args, uart>>

IsConversion == ppc = "format" /\ More /\ Head(fmt) = Percent /\ Fmt(2) # Percent
Accepted == Width < MaxWidth /\ Converts(Specifier)

Convert ==
  /\ IsConversion /\ Accepted
  /\ LET s == CString(Converted(Specifier, Head(args)))
     IN  buf' = buf \o SubSeq(s, 1, Min({Len(s), size - 1 - Len(buf)}))
  /\ fmt' = Drop(fmt, WidthDigits + 2) /\ args' = Tail(args)
  /\ UNCHANGED <<ppc, call, size, uart>>

\* The assertion on the width, a specifier it does not know, and floats, which
\* no Makefile turns on.
Refuse ==
  /\ IsConversion /\ ~Accepted
  /\ ppc' = "panic"
  /\ UNCHANGED <<call, size, fmt, args, buf, uart>>

Terminate ==
  /\ ppc = "format" /\ ~More
  /\ ppc' = "put"
  /\ UNCHANGED <<call, size, fmt, args, buf, uart>>

\* rpi_putchar() of the next character of buf
Put ==
  /\ ppc = "put" /\ buf # <<>>
  /\ uart' = Append(uart, Head(buf)) /\ buf' = Tail(buf)
  /\ UNCHANGED <<ppc, call, size, fmt, args>>

va_printk == Literal \/ PercentSign \/ Convert \/ Refuse \/ Terminate

-----------------------------------------------------------------------------
(***************************************************************************)
(* What the caller writes for the pieces of a call, and what it means by   *)
(* them.                                                                   *)
(***************************************************************************)
Text(s) == [conv |-> 0, width |-> 0, arg |-> s]
Conv(c, w, arg) == [conv |-> c, width |-> w, arg |-> arg]

Spell(p) ==
  IF p.conv # 0
  THEN <<Percent>> \o (IF p.width = 0 THEN <<>> ELSE Reverse(LowDigits(10, p.width))) \o <<p.conv>>
  ELSE FlattenSeq([i \in DOMAIN p.arg |->
                     IF p.arg[i] = Percent THEN <<Percent, Percent>> ELSE <<p.arg[i]>>])

CallArgs(c) == LET convs == SelectSeq(c, LAMBDA p : p.conv # 0)
               IN  [i \in DOMAIN convs |-> convs[i].arg]

\* printk() and snprintk(): the caller's side of va_printk()
Start(c, n) ==
  /\ ppc' = "format" /\ call' = c /\ size' = n
  /\ fmt' = FlattenSeq([i \in DOMAIN c |-> Spell(c[i])]) /\ args' = CallArgs(c)
  /\ buf' = <<>>

\* A number to a base by the powers of the base, without leading zeroes.
Numeral(base, u) ==
  LET n == Min({k \in 1 .. WordBits : u \div base ^ (k - 1) < base})
  IN  [k \in 1 .. n |-> DigitChar((u \div base ^ (n - k)) % base)]

Signed(u) == IF Negative(u) THEN <<Minus>> \o Numeral(10, WordMod - u) ELSE Numeral(10, u)
Flush(w, s) == [i \in 1 .. Max({w - Len(s), 0}) |-> Space] \o s

\* A width counts for nothing with %s, as in the code, which gives no promise of it.
Proper(p) == p.width < MaxWidth /\ (p.conv = 0 \/ Converts(p.conv))
Meaning(p) ==
  IF ~Proper(p) THEN <<>> ELSE
  CASE p.conv \in {0, Char.str} -> CString(p.arg)
    [] p.conv = Char.chr -> CString(Flush(p.width, p.arg))
    [] p.conv = Char.dec -> Flush(p.width, Signed(p.arg[1]))
    [] p.conv = Char.uns -> Flush(p.width, Numeral(10, p.arg[1]))
    [] p.conv = Char.bin -> Flush(p.width, Numeral(2, p.arg[1]))
    [] OTHER -> Flush(p.width, Numeral(16, p.arg[1]))

Wanted ==
  LET all == FlattenSeq([i \in DOMAIN call |-> Meaning(call[i])])
  IN  SubSeq(all, 1, Min({Len(all), size - 1}))

\* At every step, the buffer holds the beginning of what the caller means, the
\* extreme numbers and widths included, and in the end all of it that fits with
\* its terminator; only a width of 32 or an unknown specifier panics
\* (cs140e-printf.c:40-47, 79-220).
PrintsAsAsked ==
  /\ ppc = "format" => IsPrefix(buf, Wanted) /\ (More \/ buf = Wanted)
  /\ ppc = "panic" => \E i \in DOMAIN call : ~Proper(call[i])
=============================================================================
