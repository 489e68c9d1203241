------------------------------ MODULE EchoUntil ------------------------------
(***************************************************************************)
(* The programs on the Unix side that print what the Pi sends until it     *)
(* says that it shuts down, or the connection closes:                      *)
(*                                                                         *)
(*   echo_until() of labs/lab10-shell/shell-unix-side/shell-support.c      *)
(*   echo_until_fn() of labs/lab11-fuse-fs/part2-redirection/echo-until.c  *)
(*   echo() of homeworks/1-bootloader/bootloader/unix-side/my-install.c    *)
(*     (bootloader/echo/echo.c and lab4's pi-cat.c hold copies of it)      *)
(*                                                                         *)
(* They differ in how much they read at a time, in what a zero byte does   *)
(* and in how they notice that the connection is gone: Init chooses one.   *)
(* Some print through a static matcher that lives from one read() to the   *)
(* next, here pos.  The Pi and the kernel between the two are external.    *)
(***************************************************************************)
EXTENDS Integers, Sequences

CONSTANTS
  ExitString,   (* what ends the reader: "DONE!!!\n", "CMD-DONE\n", ...    *)
  Chars, Nul,   (* what its programs print; the zero byte             *)
  Chunk,        (* the most that a read() of many asks for: 4095           *)
  Readers,      (* the programs: [chunk, stopsAtNul, closeTest], the most   *)
                (* that one read() asks for, whether a chunk is handled as *)
                (* a C string, and what a read() of nothing leads to       *)
  MayClose,     (* can the connection go away?                             *)
  MaxText       (* bound: characters before the last exit string           *)

fsm_end   == Len(ExitString)
ExitChars == { ExitString[i] : i \in 1 .. fsm_end }
AllChars  == Chars \cup ExitChars

ASSUME EchoUntilAssumption ==
  /\ ExitString \in Seq(ExitChars) /\ ExitString # <<>>
  /\ Nul \notin ExitChars
  /\ Readers \subseteq [chunk : Nat \ {0}, stopsAtNul : BOOLEAN,
                        closeTest : {"fstat", "stat", "eof"}]
  /\ MayClose \in BOOLEAN /\ MaxText \in Nat

VARIABLES
  how,       (* which of the programs this is                              *)
  sent,      (* every character that reached this machine                  *)
  rebooted,  (* has the Pi called clean_reboot()?                          *)
  open,      (* is the connection there?                                   *)
  rd,        (* how many characters were read()                            *)
  buf,       (* what is left to look at of the last chunk                  *)
  pos,       (* characters of the exit string matched                      *)
  reader     (* "reading", then "done" or "closed"                         *)

\* The programs: echo() of my-install, of bootloader/echo and of pi-cat, echo_until()
\* of lab 10 and echo_until_fn() of lab 11.
my_install == [chunk |-> Chunk, stopsAtNul |-> TRUE, closeTest |-> "fstat"]
echo == my_install
pi_cat == [my_install EXCEPT !.closeTest = "stat"]
echo_until == [chunk |-> 1, stopsAtNul |-> FALSE, closeTest |-> "fstat"]
echo_until_fn == [echo_until EXCEPT !.closeTest = "eof"]

outside == <<how, sent, rebooted, open>>
vars    == <<outside, rd, buf, pos, reader>>

\* fsm_chr_done(), done(): the position after character c
MatchNoReset(p, c) == p + 1
Match(p, c) == IF c = ExitString[p + 1] THEN p + 1 ELSE 0

\* is the exit string complete?
Complete(p) == p = fsm_end

\* the matcher outlives the read()
PosForgotten == 0
PosKept == pos

Init ==
  /\ how \in Readers
  /\ sent = <<>> /\ rebooted = FALSE /\ open = TRUE
  /\ rd = 0 /\ buf = <<>> /\ pos = 0 /\ reader = "reading"

-----------------------------------------------------------------------------
\* The Pi prints something.
Puts(c) ==
  /\ open /\ ~ rebooted
  /\ Len(sent) < MaxText
  /\ sent' = Append(sent, c)
  /\ UNCHANGED <<how, rebooted, open, rd, buf, pos, reader>>

\* clean_reboot(): it waits for the last line to get out
CleanReboot ==
  /\ open /\ ~ rebooted
  /\ sent' = sent \o ExitString
  /\ rebooted' = TRUE
  /\ UNCHANGED <<how, open, rd, buf, pos, reader>>

\* The adapter is unplugged, or the other end of the pipe closed; what was not
\* read yet may be lost.
Close ==
  /\ MayClose /\ open
  /\ open' = FALSE
  /\ sent' \in {sent, SubSeq(sent, 1, rd)}
  /\ UNCHANGED <<how, rebooted, rd, buf, pos, reader>>

-----------------------------------------------------------------------------
\* read() returns the next k characters
Read(k) ==
  /\ reader = "reading" /\ buf = <<>>
  /\ rd + k <= Len(sent)
  /\ buf' = SubSeq(sent, rd + 1, rd + k)
  /\ rd' = rd + k
  /\ pos' = PosKept
  /\ UNCHANGED <<outside, reader>>

\* read() returns 0: at the end of a pipe, of a terminal that is gone, and of one
\* that was silent for a second.  fstat() of a descriptor that is open succeeds
\* whatever became of the terminal, stat() of its name fails when that is gone.
ZeroIsIgnored == FALSE
ZeroIsTheEnd == how.closeTest \in {"eof", "stat"} /\ ~ open

ReadZero ==
  /\ reader = "reading" /\ buf = <<>>
  /\ rd = Len(sent)
  /\ ZeroIsTheEnd /\ reader' = "closed"
  /\ UNCHANGED <<outside, rd, buf, pos>>

\* read() fails, which it may do once the connection is gone
ReadError ==
  /\ reader = "reading" /\ buf = <<>> /\ ~ open
  /\ reader' = "closed"
  /\ UNCHANGED <<outside, rd, buf, pos>>

\* the next character of the chunk, which a zero byte ends where it is a C string
ScanNul ==
  /\ how.stopsAtNul /\ Head(buf) = Nul
  /\ buf' = <<>>
  /\ UNCHANGED <<pos, reader>>

ScanChar ==
  /\ ~ (how.stopsAtNul /\ Head(buf) = Nul)
  /\ buf' = Tail(buf)
  /\ pos' = Match(pos, Head(buf))
  /\ reader' = IF Complete(pos') THEN "done" ELSE reader

Scan ==
  /\ reader = "reading" /\ buf # <<>>
  /\ ScanNul \/ ScanChar
  /\ UNCHANGED <<outside, rd>>

Pi == (\E c \in Chars : Puts(c)) \/ CleanReboot
Echo == (\E k \in 1 .. how.chunk : Read(k)) \/ ReadZero \/ Scan

Next == Pi \/ Close \/ Echo \/ ReadError

Spec == Init /\ [][Next]_vars

\* The reader loops and read() returns what is there.
FairSpec == Spec /\ WF_vars(Echo)

-----------------------------------------------------------------------------
(***************************************************************************)
(* Properties.                                                             *)
(***************************************************************************)
\* how many of the characters sent the matcher is past
at == rd - Len(buf)

\* Type invariant; a matcher that is used again has room (the assertion at
\* shell-support.c:78 and my-install.c:43).
TypeOK ==
  /\ how \in Readers
  /\ sent \in Seq(AllChars) /\ rd \in 0 .. Len(sent)
  /\ buf \in Seq(AllChars) /\ at \in 0 .. rd
  /\ pos \in 0 .. fsm_end
  /\ reader \in {"reading", "done", "closed"}
  /\ reader # "done" => pos < fsm_end
  /\ rebooted \in BOOLEAN /\ open \in BOOLEAN

\* The exit string stands in what the Pi sent, from the character after i on.
ExitAt(i) ==
  /\ i + fsm_end <= Len(sent)
  /\ \A j \in 1 .. fsm_end : sent[i + j] = ExitString[j]

\* Nothing before it looks like a part of it.
CleanStart(i) == i = 0 \/ sent[i] \notin ExitChars

\* No zero byte has hidden the rest of a chunk.
Unhidden == how.stopsAtNul => \A i \in 1 .. rd : sent[i] # Nul

\* The reader shuts down only if the Pi sent the exit string, whole and in one
\* piece, however read() cuts it up (my-install.c:42-51).
ShutdownIsReal ==
  Unhidden /\ reader = "done" => at >= fsm_end /\ ExitAt(at - fsm_end)

\* The matcher stays inside the exit string, zero bytes or not, and leaves it only
\* for a shutdown that is one (shell-support.c:70-86, my-install.c:38-51).
EndsSoundly == TypeOK /\ ShutdownIsReal

\* The reader never looks past an exit string that has a clean start.
NeverPassesExit ==
  Unhidden /\ reader # "done" =>
    \A i \in 0 .. at - fsm_end : ~ (CleanStart(i) /\ ExitAt(i))

\* A Pi that says that it shuts down is heard, if the connection stays, the text
\* before the exit string does not look like its beginning and no zero byte
\* hides it.
ExitSeen ==
  (rebooted /\ open /\ CleanStart(Len(sent) - fsm_end))
    ~> (reader # "reading" \/ ~ open \/ ~ Unhidden)

\* A reader ends when its connection does, if what it asks can tell: fstat() of
\* the descriptor it holds cannot (shell-support.c:106, my-install.c:69).
CloseSeen ==
  (~ open /\ how.closeTest # "fstat") ~> reader # "reading"

\* Neither end goes unnoticed: not the one that the Pi announces, nor that of the
\* connection (shell-support.c:96-123, my-install.c:56-94).
EndSeen == ExitSeen /\ CloseSeen
=============================================================================
