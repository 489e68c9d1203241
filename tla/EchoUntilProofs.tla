--------------------------- MODULE EchoUntilProofs ---------------------------
(***************************************************************************)
(* Theorems about EchoUntil, for every exit string, every text and every   *)
(* way in which read() cuts it up.                                         *)
(*                                                                         *)
(* The inductive invariant relates pos to the text that the matcher is     *)
(* past: the last pos characters of it are the first of the exit string,   *)
(* and where an exit string with a clean start has begun, pos is how much  *)
(* of it was seen.  This holds until a zero byte hides the rest of a chunk *)
(* from the matcher.                                                       *)
(***************************************************************************)
EXTENDS EchoUntil, TLAPS

\* The first j characters of the exit string stand after character i.
BeginsAt(i, j) == \A k \in 1 .. j : sent[i + k] = ExitString[k]

ChunkIsText ==
  /\ how \in Readers
  /\ sent \in Seq(AllChars) /\ buf \in Seq(AllChars)
  /\ rd \in 0 .. Len(sent) /\ at \in 0 .. rd
  /\ \A i \in 1 .. Len(buf) : buf[i] = sent[at + i]

PosIsMatch ==
  /\ pos \in 0 .. fsm_end /\ pos <= at /\ BeginsAt(at - pos, pos)
  /\ reader \in {"reading", "done", "closed"}
  /\ reader = "done" <=> pos = fsm_end

PosIsProgress ==
  reader # "done" => \A i \in 0 .. at, j \in 0 .. fsm_end :
    i + j = at /\ CleanStart(i) /\ BeginsAt(i, j) => pos = j

NonePassed ==
  reader # "done" => \A i \in 0 .. at :
    i + fsm_end <= at /\ CleanStart(i) => ~ BeginsAt(i, fsm_end)

Matched == PosIsMatch /\ PosIsProgress /\ NonePassed

IInv == ChunkIsText /\ (Unhidden => Matched)

-----------------------------------------------------------------------------
LEMMA Facts ==
  /\ fsm_end \in Nat /\ fsm_end > 0
  /\ \A i \in 1 .. fsm_end : ExitString[i] \in ExitChars
  /\ ExitString \in Seq(AllChars)
BY EchoUntilAssumption DEF fsm_end, ExitChars, AllChars

LEMMA InitIInv == Init => IInv
<1> SUFFICES ASSUME Init PROVE IInv
  OBVIOUS
<1>1. sent = <<>> /\ buf = <<>> /\ rd = 0 /\ at = 0 /\ pos = 0 /\ reader = "reading"
  <2>1. sent = <<>> /\ buf = <<>> /\ rd = 0 /\ pos = 0 /\ reader = "reading"
    BY DEF Init
  <2>2. Len(buf) = 0
    BY <2>1
  <2>3. rd = 0
    BY <2>1
  <2>4. at = 0
    BY <2>2, <2>3 DEF at
  <2>. QED
    BY <2>1, <2>4
<1>2. ChunkIsText
  BY <1>1 DEF ChunkIsText, Init
<1>3. PosIsMatch
  BY <1>1, Facts DEF PosIsMatch, BeginsAt
<1>4. PosIsProgress
  BY <1>1, Facts DEF PosIsProgress
<1>5. NonePassed
  BY <1>1, Facts DEF NonePassed
<1>. QED
  BY <1>2, <1>3, <1>4, <1>5 DEF IInv, Matched

\* What happens to the text behind the reader's back.
LEMMA TextStays ==
  ASSUME ChunkIsText, sent' \in Seq(AllChars), rd <= Len(sent'),
         \A k \in 1 .. rd : sent'[k] = sent[k],
         UNCHANGED <<how, rd, buf, pos>>,
         reader' = reader \/ (reader = "reading" /\ reader' = "closed")
  PROVE  ChunkIsText' /\ (Matched => Matched')
<1>1. rd \in Nat /\ at \in 0 .. rd /\ at' = at
  BY DEF ChunkIsText, at
<1>2. ASSUME NEW i \in 0 .. at, NEW j \in 0 .. fsm_end, i + j <= at
      PROVE  BeginsAt(i, j)' <=> BeginsAt(i, j)
  <2>1. \A k \in 1 .. j : i + k \in 1 .. rd
    BY <1>1, <1>2, Facts
  <2>. QED
    BY <2>1 DEF BeginsAt
<1>3. ASSUME NEW i \in 0 .. at
      PROVE  CleanStart(i)' <=> CleanStart(i)
  BY <1>1 DEF CleanStart
<1>4. ChunkIsText'
  <2>1. \A i \in 1 .. Len(buf) : at + i \in 1 .. rd
    BY <1>1 DEF at, ChunkIsText
  <2>2. rd' \in 0 .. Len(sent')
    BY <1>1
  <2>. QED
    BY <1>1, <2>1, <2>2 DEF ChunkIsText
<1>5. ASSUME Matched PROVE PosIsMatch'
  <2>0. pos \in 0 .. fsm_end /\ pos <= at /\ BeginsAt(at - pos, pos)
    BY <1>5 DEF Matched, PosIsMatch
  <2>1. at - pos \in 0 .. at /\ (at - pos) + pos <= at
    BY <1>1, <2>0, Facts
  <2>2. BeginsAt(at - pos, pos)'
    BY <1>1, <1>2, <2>0, <2>1
  <2>3. /\ reader' \in {"reading", "done", "closed"}
        /\ reader' = "done" <=> pos' = fsm_end
    BY <1>5 DEF Matched, PosIsMatch
  <2>. QED
    BY <1>1, <2>0, <2>2, <2>3 DEF PosIsMatch
<1>6. ASSUME Matched PROVE PosIsProgress'
  BY <1>1, <1>2, <1>3, <1>6 DEF Matched, PosIsProgress
<1>7. ASSUME Matched PROVE NonePassed'
  BY <1>1, <1>2, <1>3, <1>7, Facts DEF Matched, NonePassed
<1>. QED
  BY <1>4, <1>5, <1>6, <1>7 DEF Matched

LEMMA ReadKeeps ==
  ASSUME ChunkIsText, NEW k \in 1 .. how.chunk, Read(k)
  PROVE  ChunkIsText' /\ (Matched => Matched')
<1>1. /\ rd \in Nat /\ k \in Nat /\ rd + k <= Len(sent) /\ Len(sent) \in Nat
      /\ buf = <<>> /\ at = rd /\ sent \in Seq(AllChars)
  BY EchoUntilAssumption DEF ChunkIsText, Read, at
<1>2. /\ buf' \in Seq(AllChars) /\ Len(buf') = k
      /\ \A i \in 1 .. k : buf'[i] = sent[rd + i]
  <2>1. buf' = SubSeq(sent, rd + 1, rd + k)
    BY DEF Read
  <2>2. \A i \in rd + 1 .. rd + k : i \in 1 .. Len(sent)
    BY <1>1
  <2>3. SubSeq(sent, rd + 1, rd + k) \in Seq(AllChars)
    BY <1>1, <2>2
  <2>4. Len(SubSeq(sent, rd + 1, rd + k)) = k
    BY <1>1
  <2>5. \A i \in 1 .. k : SubSeq(sent, rd + 1, rd + k)[i] = sent[rd + i]
    BY <1>1
  <2>. QED
    BY <2>1, <2>3, <2>4, <2>5
<1>3. /\ at' = at /\ sent' = sent /\ pos' = pos /\ reader' = reader
      /\ rd' = rd + k /\ how' = how
  BY <1>1, <1>2 DEF Read, at, outside, PosKept
<1>4. ChunkIsText'
  BY <1>1, <1>2, <1>3 DEF ChunkIsText
<1>5. \A i, j : (BeginsAt(i, j)' <=> BeginsAt(i, j)) /\ (CleanStart(i)' <=> CleanStart(i))
  BY <1>3 DEF BeginsAt, CleanStart
<1>6. ASSUME Matched PROVE PosIsMatch'
  BY <1>3, <1>5, <1>6 DEF Matched, PosIsMatch
<1>7. ASSUME Matched PROVE PosIsProgress' /\ NonePassed'
  BY <1>3, <1>5, <1>7 DEF Matched, PosIsProgress, NonePassed
<1>. QED
  BY <1>4, <1>6, <1>7 DEF Matched

LEMMA ScanTakes ==
  ASSUME ChunkIsText, Scan, ~ (how.stopsAtNul /\ Head(buf) = Nul)
  PROVE  /\ buf' = Tail(buf) /\ pos' = Match(pos, Head(buf))
         /\ reader' = IF pos' = fsm_end THEN "done" ELSE reader
         /\ sent' = sent /\ rd' = rd /\ how' = how
         /\ at \in Nat /\ rd \in Nat /\ at' = at + 1 /\ at' \in 1 .. rd
         /\ Head(buf) = sent[at']
         /\ ChunkIsText'
<1> DEFINE c == Head(buf)
<1>1. /\ sent \in Seq(AllChars) /\ buf \in Seq(AllChars) /\ buf # <<>>
      /\ rd \in 0 .. Len(sent) /\ at \in 0 .. rd /\ how \in Readers
      /\ \A i \in 1 .. Len(buf) : buf[i] = sent[at + i]
  BY DEF ChunkIsText, Scan, ScanNul, ScanChar
<1>2. Len(buf) \in Nat /\ Len(buf) > 0 /\ c = buf[1] /\ c \in AllChars
  BY <1>1
<1>3. /\ buf' = Tail(buf) /\ pos' = Match(pos, c)
      /\ reader' = IF pos' = fsm_end THEN "done" ELSE reader
      /\ sent' = sent /\ rd' = rd /\ how' = how
  BY <1>1, <1>2 DEF Scan, ScanNul, ScanChar, outside, Complete
<1>4. /\ Tail(buf) \in Seq(AllChars) /\ Len(Tail(buf)) = Len(buf) - 1
      /\ \A i \in 1 .. Len(buf) - 1 : Tail(buf)[i] = buf[i + 1]
  BY <1>1
<1>5. at' = at + 1 /\ at' \in 1 .. rd /\ at \in Nat /\ rd \in Nat
  BY <1>1, <1>2, <1>3, <1>4 DEF at
<1>6. c = sent[at']
  BY <1>1, <1>2, <1>5
<1>7. ChunkIsText'
  <2>1. \A i \in 1 .. Len(buf') : i \in 1 .. Len(buf) - 1 /\ i + 1 \in 1 .. Len(buf)
    BY <1>2, <1>3, <1>4
  <2>2. \A i \in 1 .. Len(buf') : buf'[i] = buf[i + 1] /\ buf[i + 1] = sent[at + (i + 1)]
    BY <1>1, <1>3, <1>4, <2>1
  <2>3. \A i \in 1 .. Len(buf') : at + (i + 1) = at' + i
    BY <1>5, <1>3, <1>4, <1>2
  <2>4. \A i \in 1 .. Len(buf') : buf'[i] = sent'[at' + i]
    BY <2>2, <2>3, <1>3
  <2>. QED
    BY <1>1, <1>3, <1>4, <1>5, <2>4 DEF ChunkIsText
<1>. QED
  BY <1>3, <1>5, <1>6, <1>7

LEMMA ScanText == ASSUME ChunkIsText, Scan PROVE ChunkIsText'
<1>1. CASE how.stopsAtNul /\ Head(buf) = Nul
  <2>1. buf' = <<>> /\ sent' = sent /\ rd' = rd /\ how' = how
    BY <1>1 DEF Scan, ScanNul, ScanChar, outside
  <2>2. Len(buf') = 0 /\ rd \in Nat /\ buf' \in Seq(AllChars)
    BY <2>1 DEF ChunkIsText
  <2>3. at' = rd
    BY <2>1, <2>2 DEF at
  <2>. QED
    BY <2>1, <2>2, <2>3 DEF ChunkIsText
<1>2. CASE ~ (how.stopsAtNul /\ Head(buf) = Nul)
  BY <1>2, ScanTakes
<1>. QED
  BY <1>1, <1>2

LEMMA ScanMatched ==
  ASSUME ChunkIsText, Unhidden, Matched, Scan
  PROVE  Matched'
<1> DEFINE c == Head(buf)
<1>1. reader = "reading" /\ buf \in Seq(AllChars) /\ Len(buf) > 0 /\ c = buf[1]
  BY DEF ChunkIsText, Scan, ScanNul, ScanChar
<1>2. ~ (how.stopsAtNul /\ c = Nul)
  <2>1. at + 1 \in 1 .. rd /\ buf[1] = sent[at + 1]
    BY <1>1 DEF ChunkIsText, at
  <2>. QED
    BY <1>1, <2>1 DEF Unhidden
<1>3. /\ pos' = Match(pos, c)
      /\ reader' = IF pos' = fsm_end THEN "done" ELSE reader
      /\ sent' = sent /\ rd' = rd
  BY <1>2, ScanTakes
<1>5. at' = at + 1 /\ at' \in 1 .. rd /\ at \in Nat /\ rd \in Nat
  BY <1>2, ScanTakes
<1>6. c = sent[at']
  BY <1>2, ScanTakes
<1>7. /\ pos \in Nat /\ pos < fsm_end /\ pos <= at /\ BeginsAt(at - pos, pos)
  BY <1>1, Facts DEF Matched, PosIsMatch
<1>8. \A i, j : (BeginsAt(i, j)' <=> BeginsAt(i, j)) /\ (CleanStart(i)' <=> CleanStart(i))
  BY <1>3 DEF BeginsAt, CleanStart
<1> HIDE DEF c
<1>10. PosIsMatch'
  <2>0. /\ reader' \in {"reading", "done", "closed"}
        /\ reader' = "done" <=> pos' = fsm_end
    BY <1>1, <1>3
  <2>1. CASE c = ExitString[pos + 1]
    <3>1. pos' = pos + 1 /\ at' - pos' = at - pos
      BY <2>1, <1>3, <1>5, <1>7 DEF Match
    <3>2. (at - pos) + (pos + 1) = at'
      BY <1>5, <1>7
    <3>3. ASSUME NEW k \in 1 .. pos + 1
          PROVE  sent[(at - pos) + k] = ExitString[k]
      <4>1. CASE k = pos + 1
        BY <4>1, <2>1, <3>2, <1>6
      <4>2. CASE k \in 1 .. pos
        BY <4>2, <1>7 DEF BeginsAt
      <4>. QED
        BY <4>1, <4>2, <1>7
    <3>4. BeginsAt(at - pos, pos)'
      BY <3>1, <3>3, <1>3 DEF BeginsAt
    <3>5. pos' \in 0 .. fsm_end /\ pos' <= at'
      BY <3>1, <1>5, <1>7, Facts
    <3>. QED
      BY <3>4, <3>5, <2>0 DEF PosIsMatch
  <2>2. CASE c # ExitString[pos + 1]
    <3>1. pos' = 0
      BY <2>2, <1>3 DEF Match
    <3>2. BeginsAt(at - pos, pos)'
      BY <3>1 DEF BeginsAt
    <3>3. pos' \in 0 .. fsm_end /\ pos' <= at'
      BY <3>1, <1>5, Facts
    <3>. QED
      BY <3>2, <3>3, <2>0 DEF PosIsMatch
  <2>. QED
    BY <2>1, <2>2
<1>11. PosIsProgress'
  <2> SUFFICES ASSUME NEW i \in 0 .. at', NEW j \in 0 .. fsm_end,
                      i + j = at', CleanStart(i), BeginsAt(i, j)
               PROVE  pos' = j
    BY <1>8 DEF PosIsProgress
  <2>1. CASE j = 0
    <3>1. i = at' /\ c = sent[i] /\ i # 0
      BY <2>1, <1>5, <1>6
    <3>2. c \notin ExitChars
      BY <3>1 DEF CleanStart
    <3>3. ExitString[pos + 1] \in ExitChars
      BY <1>7, Facts
    <3>. QED
      BY <2>1, <3>2, <3>3, <1>3 DEF Match
  <2>2. CASE j > 0
    <3>1. j - 1 \in 0 .. fsm_end /\ i \in 0 .. at /\ i + (j - 1) = at
      BY <2>2, <1>5, Facts
    <3>2. BeginsAt(i, j - 1)
      BY <3>1, Facts DEF BeginsAt
    <3>3. pos = j - 1
      BY <3>1, <3>2, <1>1 DEF Matched, PosIsProgress
    <3>4. j \in 1 .. j /\ pos + 1 = j
      BY <2>2, <3>3, Facts
    <3>5. c = ExitString[j]
      BY <3>4, <1>6 DEF BeginsAt
    <3>. QED
      BY <3>4, <3>5, <1>3 DEF Match
  <2>. QED
    BY <2>1, <2>2, Facts
<1>12. NonePassed'
  <2> SUFFICES ASSUME reader' # "done", NEW i \in 0 .. at', i + fsm_end <= at',
                      CleanStart(i), BeginsAt(i, fsm_end)
               PROVE  FALSE
    BY <1>8 DEF NonePassed
  <2>1. CASE i + fsm_end = at'
    <3>1. pos' = fsm_end
      BY <2>1, <1>8, <1>11, Facts DEF PosIsProgress
    <3>. QED
      BY <3>1, <1>10 DEF PosIsMatch
  <2>2. CASE i + fsm_end <= at
    BY <2>2, <1>1, <1>5, Facts DEF Matched, NonePassed
  <2>. QED
    BY <2>1, <2>2, <1>5, Facts
<1>. QED
  BY <1>10, <1>11, <1>12 DEF Matched

LEMMA NextKeeps ==
  ASSUME ChunkIsText, [Next]_vars
  PROVE  ChunkIsText' /\ (Unhidden /\ Matched => Matched')
<1>0. sent \in Seq(AllChars) /\ rd \in 0 .. Len(sent) /\ Len(sent) \in Nat
  BY DEF ChunkIsText
<1> DEFINE Goal == ChunkIsText' /\ (Unhidden /\ Matched => Matched')
<1>1. ASSUME NEW c \in Chars, Puts(c) PROVE Goal
  <2>1. sent' = Append(sent, c) /\ c \in AllChars
    BY <1>1 DEF Puts, AllChars
  <2>2. sent' \in Seq(AllChars) /\ rd <= Len(sent')
    BY <1>0, <2>1
  <2>3. \A k \in 1 .. rd : sent'[k] = sent[k]
    BY <1>0, <2>1
  <2>4. UNCHANGED <<how, rd, buf, pos, reader>>
    BY <1>1 DEF Puts
  <2>. QED
    BY <2>2, <2>3, <2>4, TextStays
<1>2. CASE CleanReboot
  <2>1. sent' = sent \o ExitString
    BY <1>2 DEF CleanReboot
  <2>2. sent' \in Seq(AllChars) /\ rd <= Len(sent')
    BY <1>0, <2>1, Facts
  <2>3. \A k \in 1 .. rd : sent'[k] = sent[k]
    BY <1>0, <2>1, Facts
  <2>4. UNCHANGED <<how, rd, buf, pos, reader>>
    BY <1>2 DEF CleanReboot
  <2>. QED
    BY <2>2, <2>3, <2>4, TextStays
<1>3. CASE Close
  <2>0. UNCHANGED <<how, rd, buf, pos, reader>>
    BY <1>3 DEF Close
  <2>1. CASE sent' = sent
    BY <1>0, <2>0, <2>1, TextStays
  <2>2. CASE sent' = SubSeq(sent, 1, rd)
    <3>1. sent' \in Seq(AllChars) /\ rd <= Len(sent')
      BY <1>0, <2>2
    <3>2. \A k \in 1 .. rd : sent'[k] = sent[k]
      BY <1>0, <2>2
    <3>. QED
      BY <2>0, <3>1, <3>2, TextStays
  <2>. QED
    BY <1>3, <2>1, <2>2 DEF Close
<1>4. ASSUME NEW k \in 1 .. how.chunk, Read(k) PROVE Goal
  BY <1>4, ReadKeeps
<1>5. CASE ReadZero \/ ReadError
  <2>1. /\ sent' = sent /\ UNCHANGED <<how, rd, buf, pos>>
        /\ reader = "reading" /\ reader' = "closed"
    BY <1>5 DEF ReadZero, ReadError, outside
  <2>. QED
    BY <1>0, <2>1, TextStays
<1>6. CASE Scan
  BY <1>6, ScanText, ScanMatched
<1>7. CASE UNCHANGED vars
  <2>1. sent' = sent /\ UNCHANGED <<how, rd, buf, pos, reader>>
    BY <1>7 DEF vars, outside
  <2>. QED
    BY <1>0, <2>1, TextStays
<1>. QED
  BY <1>1, <1>2, <1>3, <1>4, <1>5, <1>6, <1>7 DEF Next, Pi, Echo

\* A step leaves what was read.
Kept ==
  how' = how /\ rd' \in Nat /\ rd <= rd' /\ \A i \in 1 .. rd : sent'[i] = sent[i]

\* What a zero byte has hidden stays hidden: the text that was read stays.
LEMMA HiddenStays == ASSUME ChunkIsText, [Next]_vars PROVE Unhidden' => Unhidden
<1>0. sent \in Seq(AllChars) /\ rd \in 0 .. Len(sent) /\ Len(sent) \in Nat
  BY DEF ChunkIsText
<1>1. ASSUME NEW c \in Chars, Puts(c) PROVE Kept
  BY <1>0, <1>1 DEF Puts, Kept
<1>2. ASSUME CleanReboot PROVE Kept
  <2>1. sent' = sent \o ExitString /\ how' = how /\ rd' = rd
    BY <1>2 DEF CleanReboot
  <2>2. \A i \in 1 .. rd : sent'[i] = sent[i]
    BY <1>0, <2>1, Facts
  <2>. QED
    BY <1>0, <2>1, <2>2 DEF Kept
<1>3. ASSUME Close PROVE Kept
  BY <1>0, <1>3 DEF Close, Kept
<1>4. ASSUME NEW k \in 1 .. how.chunk, Read(k) PROVE Kept
  BY <1>0, <1>4, EchoUntilAssumption DEF Read, outside, ChunkIsText, Kept
<1>5. ASSUME ReadZero \/ ReadError \/ Scan \/ UNCHANGED vars PROVE Kept
  <2>1. sent' = sent /\ rd' = rd /\ how' = how
    BY <1>5 DEF ReadZero, ReadError, Scan, ScanNul, ScanChar, vars, outside
  <2>. QED
    BY <1>0, <2>1 DEF Kept
<1>6. Kept
  BY <1>1, <1>2, <1>3, <1>4, <1>5 DEF Next, Pi, Echo
<1>7. \A i \in 1 .. rd : i \in 1 .. rd'
  BY <1>0, <1>6 DEF Kept
<1>. QED
  BY <1>6, <1>7 DEF Unhidden, Kept

LEMMA Invariant == Spec => []IInv
<1>1. Init => IInv
  BY InitIInv
<1>2. IInv /\ [Next]_vars => IInv'
  BY NextKeeps, HiddenStays DEF IInv
<1>. QED
  BY <1>1, <1>2, PTL DEF Spec

-----------------------------------------------------------------------------
\* A reader that shuts down has seen the exit string, whole and in one piece,
\* however read() cut it up (my-install.c:42-51, shell-support.c:77-84), unless a
\* zero byte hid something from it.
THEOREM NoFalseShutdown == Spec => []ShutdownIsReal
<1>1. IInv => ShutdownIsReal
  <2> SUFFICES ASSUME IInv, Unhidden, reader = "done"
               PROVE  at >= fsm_end /\ ExitAt(at - fsm_end)
    BY DEF ShutdownIsReal
  <2>1. pos = fsm_end /\ fsm_end <= at /\ BeginsAt(at - fsm_end, fsm_end)
    BY DEF IInv, Matched, PosIsMatch
  <2>2. at \in Nat /\ at <= Len(sent) /\ Len(sent) \in Nat
    BY DEF IInv, ChunkIsText
  <2>3. (at - fsm_end) + fsm_end <= Len(sent)
    BY <2>2, Facts
  <2>. QED
    BY <2>1, <2>2, <2>3, Facts DEF ExitAt, BeginsAt
<1>. QED
  BY <1>1, Invariant, PTL

\* A reader never looks past an exit string with a clean start: the matcher, which
\* never goes back, misses only what follows a part of the exit string.
THEOREM CleanExitHeard == Spec => []NeverPassesExit
<1>1. IInv => NeverPassesExit
  <2> SUFFICES ASSUME IInv, Unhidden, reader # "done", NEW i \in 0 .. at - fsm_end,
                      CleanStart(i), ExitAt(i)
               PROVE  FALSE
    BY DEF NeverPassesExit
  <2>1. at \in Nat
    BY DEF IInv, ChunkIsText
  <2>2. i \in 0 .. at /\ i + fsm_end <= at
    BY <2>1, Facts
  <2>3. BeginsAt(i, fsm_end)
    BY DEF ExitAt, BeginsAt
  <2>. QED
    BY <2>2, <2>3 DEF IInv, Matched, NonePassed
<1>. QED
  BY <1>1, Invariant, PTL

-----------------------------------------------------------------------------
\* The matcher stays inside its string, whatever a zero byte hides.
Bounded ==
  /\ pos \in 0 .. fsm_end /\ reader \in {"reading", "done", "closed"}
  /\ reader # "done" => pos < fsm_end
  /\ rebooted \in BOOLEAN /\ open \in BOOLEAN

LEMMA BoundedStep == Bounded /\ [Next]_vars => Bounded'
<1> SUFFICES ASSUME Bounded, [Next]_vars PROVE Bounded'
  OBVIOUS
<1>0. fsm_end' = fsm_end
  BY DEF fsm_end
<1>1. CASE Pi \/ Close \/ UNCHANGED vars
  BY <1>0, <1>1 DEF Bounded, Pi, Puts, CleanReboot, Close, outside, vars
<1>4. CASE \E k \in 1 .. how.chunk : Read(k)
  BY <1>0, <1>4 DEF Bounded, Read, PosKept, outside
<1>2. CASE ReadZero \/ ReadError
  BY <1>0, <1>2 DEF Bounded, ReadZero, ReadError, outside
<1>3. CASE Scan
  <2>1. UNCHANGED <<rebooted, open>> /\ reader = "reading"
    BY <1>3 DEF Scan, ScanNul, ScanChar, outside
  <2>2. CASE UNCHANGED <<pos, reader>>
    BY <1>0, <2>1, <2>2 DEF Bounded
  <2>3. CASE /\ pos' = Match(pos, Head(buf))
             /\ reader' = IF Complete(pos') THEN "done" ELSE reader
    <3>1. pos' \in 0 .. fsm_end
      BY <2>1, <2>3, Facts DEF Bounded, Match
    <3>. QED
      BY <1>0, <2>1, <2>3, <3>1, Facts DEF Bounded, Complete
  <2>4. \/ UNCHANGED <<pos, reader>>
        \/ /\ pos' = Match(pos, Head(buf))
           /\ reader' = IF Complete(pos') THEN "done" ELSE reader
    BY <1>3, Zenon DEF Scan, ScanNul, ScanChar
  <2>. QED
    BY <2>2, <2>3, <2>4
<1>. QED
  BY <1>1, <1>2, <1>3, <1>4 DEF Next, Echo

\* Every variable keeps its type, and a matcher that is used again has room.
THEOREM TypeCorrect == Spec => []TypeOK
<1>1. Init => Bounded
  <2>1. 0 \in 0 .. fsm_end /\ 0 < fsm_end
    BY Facts
  <2>. QED
    BY <2>1, Zenon DEF Init, Bounded
<1>2. IInv /\ Bounded => TypeOK
  BY DEF IInv, ChunkIsText, Bounded, TypeOK
<1>. QED
  BY <1>1, <1>2, BoundedStep, Invariant, PTL DEF Spec

\* The matcher leaves its string only for a shutdown that is one.
THEOREM AlwaysEndsSoundly == Spec => []EndsSoundly
<1>1. TypeOK /\ ShutdownIsReal => EndsSoundly
  BY DEF EndsSoundly
<1>. QED
  BY <1>1, TypeCorrect, NoFalseShutdown, PTL
=============================================================================
