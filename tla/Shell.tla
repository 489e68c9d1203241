-------------------------------- MODULE Shell --------------------------------
(***************************************************************************)
(* The shell of lab 10: pi-shell.c and the tokenizer of shell-support.c on *)
(* the Unix side, pi-shell.c on the Pi side, which answers with printk().  *)
(* Instead of its shell the Pi may run a program that makes one call to    *)
(* printk() or snprintk(), or the string routines of libpi in a memory of  *)
(* its own.  External: the keyboard, the serial line and what the lab      *)
(* leaves to be written, the built-in commands among it.                   *)
(***************************************************************************)
EXTENDS Printk, Wire
LOCAL INSTANCE SequencesExt
LOCAL INSTANCE FiniteSetsExt

CONSTANTS
  Typed,        (* what the user types, newlines included                  *)
  Calls,        (* a sequence of <<pieces, n>>: calls a Pi program makes   *)
  LineSize,     (* of shell()'s buf: 8192                                  *)
  MaxArgs,      (* maxargs: 32                                             *)
  Memories      (* where the string routines are tried                     *)

ASSUME ShellAssumption == LineSize \in Nat \ {0} /\ MaxArgs \in Nat \ {0}

echo == <<101, 99, 104, 111>>
reboot == <<114>>       \* a name of one letter for it
dot_bin == <<46, 98, 105, 110>>
PanicText == <<33>>     \* one letter for its message
DONE == <<68>>          \* one letter for it
EchoLiteral == echo \o <<Space, Nul>>

VARIABLES
  upc,          (* where shell() is                                        *)
  stdin,        (* not read yet                                            *)
  got,          (* history: what fgets() took last                         *)
  ubuf,         (* shell()'s buf, and                                      *)
  argv,         (*   the words that tokenize() left in it                  *)
  sent,         (* history: the line sent to the Pi                        *)
  reply,        (* pi_readline()'s buf                                     *)
  toPi,         (* sent and not received                                   *)
  pbuf, pos     (* notmain()'s buf, and its readline()'s i; the literal    *)
                (*   "echo " lies behind the buffer                        *)

unix == <<upc, stdin, got, ubuf, argv, sent, reply>>
piShell == <<pbuf, pos>>
vars == <<unix, toPi, piShell, printkVars>>

-----------------------------------------------------------------------------
(***************************************************************************)
(* The Unix side.                                                          *)
(***************************************************************************)
isspace(c) == c \in {Space, Newline}

skip_space(m, p) == Min({q \in p .. LineSize - 1 : ~isspace(m[q])})
skip_nonspace(m, p) == Min({q \in p .. LineSize - 1 : m[q] = Nul \/ isspace(m[q])})
TooMany == <<0>>

\* What tokenize() overwrites it has read already.
tokenizeFrom(m, past) ==
  LET word[i \in 0 .. MaxArgs - 1, p \in 0 .. LineSize - 1] ==
        IF i = MaxArgs - 1 THEN <<TooMany>>
        ELSE LET b == skip_space(m, p)
                 e == skip_nonspace(m, b)
             IN  IF m[b] = Nul THEN <<>>
                 ELSE <<[k \in 1 .. e - b |-> m[b + k - 1]]>> \o word[i + 1, e + past]
  IN  word[0, 0]
tokenizeSkipTwo(m) == tokenizeFrom(m, 2)
tokenize(m) == tokenizeFrom(m, 1)

\* fgets(): up to the newline, or as much as fits with its Nul
Taken == Min({k \in 1 .. Len(stdin) : stdin[k] = Newline \/ k \in {Len(stdin), LineSize - 1}})
fgets == [x \in DOMAIN ubuf |->
            IF x < Taken THEN stdin[x + 1] ELSE IF x = Taken THEN Nul ELSE ubuf[x]]

ReadLine ==
  /\ upc = "prompt" /\ stdin # <<>>
  /\ ubuf' = [fgets EXCEPT ![Taken - 1] = Nul]
  /\ got' = SubSeq(stdin, 1, Taken) /\ stdin' = Drop(stdin, Taken)
  /\ argv' = tokenize(ubuf')
  /\ upc' = IF Contains(argv', TooMany) THEN "panic" ELSE "command"
  /\ UNCHANGED <<sent, reply, toPi, piShell, printkVars>>

is_pi_prog(prog) == Len(prog) >= 5 /\ IsSuffix(dot_bin, prog)

PiPut(line) == toPi' = toPi \o line \o <<Newline>> /\ sent' = line /\ reply' = <<>>

\* do_builtin_cmd(): echo sends its line and reads one, reboot sends an empty one
Joined == Drop(FlattenSeq([i \in DOMAIN argv |-> <<Space>> \o argv[i]]), 1)
Builtin ==
  /\ upc = "command" /\ argv # <<>>
  /\ \/ argv[1] = echo /\ PiPut(Joined)
     \/ argv[1] = reboot /\ PiPut(<<>>)
  /\ upc' = "reading"
  /\ UNCHANGED <<stdin, got, ubuf, argv, piShell, printkVars>>

\* An empty line; run_pi_prog() and do_unix_cmd(), which leave the Pi as it was
Elsewhere ==
  /\ upc = "command"
  /\ \/ argv = <<>>
     \/ argv # <<>> /\ is_pi_prog(argv[1])
     \/ argv # <<>> /\ ~is_pi_prog(argv[1]) /\ argv[1] \notin {echo, reboot}
  /\ upc' = "prompt"
  /\ UNCHANGED <<stdin, got, ubuf, argv, sent, reply, toPi, piShell, printkVars>>

pi_readline ==
  /\ upc = "reading" /\ uart # <<>>
  /\ uart' = Tail(uart)
  /\ IF Head(uart) = Newline THEN upc' = "answered" /\ UNCHANGED reply
     ELSE reply' = Append(reply, Head(uart)) /\ UNCHANGED upc
  /\ UNCHANGED <<stdin, got, ubuf, argv, sent, toPi, piShell, ppc, call, size, fmt, args, buf>>

\* read() returns 0: nothing comes for the time that the tty waits
PiGone ==
  /\ upc = "reading" /\ uart = <<>>
  /\ (ppc = "readline" /\ toPi = <<>>) \/ ppc = "rebooted"
  /\ upc' = "gone"
  /\ UNCHANGED <<stdin, got, ubuf, argv, sent, reply, toPi, piShell, printkVars>>

Answered ==
  /\ upc = "answered"
  /\ upc' = IF sent = <<>> THEN "over" ELSE "prompt"
  /\ UNCHANGED <<stdin, got, ubuf, argv, sent, reply, toPi, piShell, printkVars>>

EndOfInput ==
  /\ upc = "prompt" /\ stdin = <<>>
  /\ upc' = "over"
  /\ UNCHANGED <<stdin, got, ubuf, argv, sent, reply, toPi, piShell, printkVars>>

-----------------------------------------------------------------------------
(***************************************************************************)
(* The Pi side.                                                            *)
(***************************************************************************)
Receives(c) == ppc = "readline" /\ toPi # <<>> /\ Head(toPi) = c /\ toPi' = Tail(toPi)
IsEcho(m) == strncmp(m, 0, BufSize, 4) = 0

readlineMore ==
  /\ \E c \in {toPi[i] : i \in DOMAIN toPi} \ {Newline} : Receives(c) /\ pbuf' = [pbuf EXCEPT ![pos] = c]
  /\ pos' = (pos + 1) % BufSize
  /\ ppc' = IF pos + 1 = BufSize THEN "too long" ELSE "readline"
  /\ UNCHANGED <<unix, call, size, fmt, args, buf, uart>>

\* The end of a line: an echo, which is printed, or nothing, which reboots
LineDoneKeepsPos == Receives(Newline) /\ pbuf' = [pbuf EXCEPT ![pos] = Nul] /\ UNCHANGED pos
LineDone == Receives(Newline) /\ pbuf' = [pbuf EXCEPT ![pos] = Nul] /\ pos' = 0
PrintLine ==
  /\ pos > 0 /\ LineDone /\ IsEcho(pbuf')
  /\ Start(<<Conv(Char.str, 0, [i \in 1 .. strlen(pbuf', 0) |-> pbuf'[i - 1]]), Text(<<Newline>>)>>,
           BufSize)
  /\ UNCHANGED <<unix, uart>>
clean_reboot ==
  /\ pos = 0 /\ LineDone
  /\ uart' = uart \o DONE \o <<Newline>> /\ ppc' = "rebooted"
  /\ UNCHANGED <<unix, call, size, fmt, args, buf>>

Printing == va_printk \/ Put
PrintkReturns ==
  /\ ppc = "put" /\ buf = <<>>
  /\ ppc' = IF upc = "none" THEN "returned" ELSE "readline"
  /\ UNCHANGED <<call, size, fmt, args, buf, uart>>

\* The macro panic() ends the line, which the message has mostly ended already; only
\* the assertion on the width and the one on floats have not.
EndsItsLine == ppc = "too long" \/ (Width < MaxWidth /\ Specifier # Char.float)
panic ==
  /\ ppc \in {"panic", "too long"}
  /\ uart' = uart \o PanicText \o (IF EndsItsLine THEN <<Newline, Newline>> ELSE <<Newline>>)
  /\ ppc' = "rebooted"
  /\ UNCHANGED <<call, size, fmt, args, buf>>

\* The shell on either side waits for its first line, or there is no shell and a
\* program makes one call.
Init ==
  /\ got = <<>> /\ argv = <<>> /\ sent = <<>> /\ reply = <<>> /\ toPi = <<>> /\ uart = <<>>
  /\ pos = 0
  /\ ubuf \in {[x \in 0 .. LineSize - 1 |-> c] : c \in {Nul, Space, echo[1]}}
  /\ fmt = <<>> /\ args = <<>> /\ buf = <<>>
  /\ \/ /\ upc = "prompt" /\ ppc = "readline"
        /\ stdin \in Typed
        /\ call = <<>> /\ size = BufSize
     \/ /\ upc = "none" /\ ppc = "call"
        /\ stdin = <<>>
        /\ \E i \in DOMAIN Calls : call = Calls[i][1] /\ size = Calls[i][2]
     \/ upc = "none" /\ ppc = "strings" /\ stdin = <<>> /\ call = <<>> /\ size = BufSize
  /\ pbuf \in IF ppc = "strings" THEN Memories
              ELSE {[x \in 0 .. BufSize + Len(EchoLiteral) - 1 |->
                       IF x < BufSize THEN Space ELSE EchoLiteral[x - BufSize + 1]]}

MakeCall ==
  /\ ppc = "call" /\ Start(call, size)
  /\ UNCHANGED <<unix, toPi, piShell, uart>>

Over == upc \in {"over", "gone", "panic", "none"} /\ ppc \in {"readline", "rebooted", "returned", "strings"}

Next ==
  \/ ReadLine \/ Builtin \/ Elsewhere \/ pi_readline \/ PiGone \/ Answered \/ EndOfInput
  \/ readlineMore \/ PrintLine \/ clean_reboot \/ MakeCall
  \/ (Printing \/ PrintkReturns \/ panic) /\ UNCHANGED <<unix, toPi, piShell>>
  \/ Over /\ UNCHANGED vars

Spec == Init /\ [][Next]_vars

-----------------------------------------------------------------------------
(***************************************************************************)
(* Properties.                                                             *)
(***************************************************************************)
\* The words of a line: its longest stretches without space, in order.
Words(line) ==
  LET At(i) == i \in DOMAIN line /\ ~isspace(line[i])
      starts == {i \in DOMAIN line : At(i) /\ ~At(i - 1)}
      End(i) == Min({j \in i .. Len(line) : ~At(j + 1)})
      ordered == SetToSortSeq(starts, <)
  IN  [k \in DOMAIN ordered |-> SubSeq(line, ordered[k], End(ordered[k]))]

\* tokenize() finds the words of the line that was typed and no others, though it
\* steps over the end of the last one into whatever earlier lines left in the
\* buffer; it panics only on too many.  A line that fgets() cuts is exempt: shell()
\* takes its last character for the newline (shell-support.c:19-49,
\* pi-shell.c:152-156).
ArgvIsWords ==
  /\ upc = "command" /\ Last(got) = Newline => argv = Words(got)
  /\ upc = "panic" => Len(Words(got)) >= MaxArgs - 1

\* An echo comes back as it was sent and the shell goes on, also after a longer one,
\* as long as the Pi's shell has not panicked on a line without room for its newline;
\* it panics on no other, and reboots with nothing left unread only when asked to.  After
\* a line that fills the Pi's buffer to its terminator the shell takes a Pi that waits
\* for the next one for gone (pi-shell.c:41-62; lab 10's Pi side 5-27).
EchoComesBack ==
  /\ upc = "answered" /\ sent # <<>> => reply = sent \/ ppc = "rebooted"
  /\ upc = "gone" => Len(sent) = BufSize - 1 \/ ppc = "rebooted"
  /\ ppc = "too long" => Len(sent) >= BufSize
  /\ ppc = "rebooted" /\ toPi = <<>> => sent = <<>>

\* libpi's string and memory routines do what C promises, for strings in a few
\* bytes and copies between any two places, aligned or not; strncmp() only as far
\* as the strings reach, which it does not look at (cs140e-stdlib.c:6-60, 68-106).
\* Nor do the words and the checksum of the simple bootloader, which the shell's
\* programs are loaded with, change on the way (simple-boot.h:83-94,
\* pi-side/bootloader.c:11-35, unix-side/simple-boot.c:15-56).
RoutinesAsPromised ==
  ppc = "strings" =>
    /\ \A p, q \in DOMAIN pbuf :
         /\ Terminated(pbuf, p) /\ Terminated(pbuf, q) =>
              ComparesAsC(pbuf, p, q) /\ AppendsAsC(pbuf, p, q)
         /\ \A n \in 1 .. Cardinality(DOMAIN pbuf) : CopiesAsC(pbuf, p, q, n)
    /\ WireSound
=============================================================================
