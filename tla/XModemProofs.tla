---------------------------- MODULE XModemProofs ----------------------------
(***************************************************************************)
(* Whatever the line's delays and the two timers do, a plain image is      *)
(* loaded in order, exactly once, and started only when complete.          *)
(*                                                                         *)
(* The safety properties are not inductive: that a byte taken for a        *)
(* command is a command depends on where in the stream of packets the      *)
(* receiver stands.  IInv adds the shape of the stream (StreamOK), the     *)
(* receiver's place in it (InSync) and the life of an ACK (AckOK).         *)
(***************************************************************************)
EXTENDS XModem, SequenceTheorems, TLAPS

\* The images sent are plain.
AllPlain == \A img \in Images : Plain(img)

\* On the line, byte f can come right after byte e.
Follows(e, f) ==
  \/ f = <<e[1], e[2] + 1>>
  \/ e[2] = PacketSize - 1 /\ f \in {<<e[1], 0>>, <<e[1] + 1, 0>>}

\* What is in flight is an uninterrupted piece of the sender's stream, which
\* ends where the sender stands; block numbers never go down along it.
StreamOK ==
  /\ \A i \in 1 .. Len(u2p) - 1 : Follows(u2p[i], u2p[i + 1])
  /\ u2p # <<>> => Follows(u2p[Len(u2p)], <<blk, pos>>)
  /\ \A i, j \in 1 .. Len(u2p) : i <= j => u2p[i][1] <= u2p[j][1]
  /\ \A i \in 1 .. Len(u2p) :
       /\ Len(mem) <= u2p[i][1] /\ u2p[i][1] <= blk
       /\ u2p[i][1] = N + 1 =>
            u2p[i][2] = 0 /\ spc \in {"eot", "done", "panic"}

\* The phases of the sender and the byte it sends next.
SenderOK ==
  /\ spc = "flush" => blk = 1 /\ pos = 0 /\ u2p = <<>>
  /\ spc = "send" => pos < PacketSize /\ (blk = N + 1 => pos = 0)
  /\ spc \in {"flush", "reply", "drain"} => blk <= N \/ spc = "flush"
  /\ spc \in {"reply", "drain"} => pos = PacketSize
  /\ spc \in {"eot", "done"} => blk = N + 1

\* The byte the receiver reads next.
NextIn == IF u2p = <<>> THEN <<blk, pos>> ELSE Head(u2p)

\* A receiver inside a packet stands at the right byte of it, past the block
\* number only in the packet it waits for; one that waits for a packet is never
\* about to read a block number, the one byte that may look like a command.
InSync ==
  rpc = "loop" =>
    /\ state # 0 => NextIn[2] = state
    /\ state = 0 => NextIn[2] # 1
    /\ state >= 2 => /\ NextIn[1] = Len(mem) + 1
                     /\ xstring[1] = block
                     /\ NextIn[1] <= N
    /\ \A i \in 3 .. PAYLOAD_SZ + 2 :
         i < state => xstring[i] = image[Len(mem) + 1][i - 2]

\* An ACK on its way is the only one: the one for the block the sender waits
\* on, or, once the program runs, the one for the EOT.
AckOK ==
  \A i \in 1 .. Len(p2u) : p2u[i] = ACK =>
    /\ \A j \in 1 .. Len(p2u) : p2u[j] = ACK => i = j
    /\ Len(mem) = blk \/ (rpc = "booted" /\ spc \in {"eot", "done", "panic"})

IInv ==
  /\ TypeOK /\ LoadsPrefix /\ CountersAgree /\ BootsComplete /\ SentMeansBooted
  /\ StreamOK /\ SenderOK /\ InSync /\ AckOK

-----------------------------------------------------------------------------
\* Two block numbers that differ by one stay apart as bytes.
LEMMA NextDiffers ==
  ASSUME NEW a \in Nat, NEW m \in Nat, m > 1
  PROVE  a % m # (a + 1) % m
<1> DEFINE p == a \div m
           q == (a + 1) \div m
           r == a % m
<1> SUFFICES ASSUME r = (a + 1) % m PROVE FALSE
  OBVIOUS
<1>1. p \in Int /\ q \in Int /\ r \in Int /\ a = m * p + r
  OBVIOUS
<1>2. a + 1 = m * q + r
  OBVIOUS
<1> HIDE DEF p, q, r
<1>3. m * (q - p) = 1
  BY <1>1, <1>2
<1>4. q - p = 0 \/ q - p >= 1 \/ q - p <= -1
  BY <1>1
<1>. QED
  BY <1>1, <1>3, <1>4, SMTT(30)

\* Division leaves one remainder.
LEMMA OneRemainder ==
  ASSUME NEW m \in Nat, m > 1, NEW p \in Int, NEW q \in Int,
         NEW r \in 0 .. m - 1, NEW s \in 0 .. m - 1, m * p + r = m * q + s
  PROVE  r = s
<1>1. CASE p < q
  <2>1. q - p >= 1
    BY <1>1
  <2>2. m * (q - p) >= m
    BY <2>1, SMTT(30)
  <2>3. m * (q - p) = r - s
    OBVIOUS
  <2>. QED
    BY <2>2, <2>3
<1>2. CASE p > q
  <2>1. p - q >= 1
    BY <1>2
  <2>2. m * (p - q) >= m
    BY <2>1, SMTT(30)
  <2>3. m * (p - q) = s - r
    OBVIOUS
  <2>. QED
    BY <2>2, <2>3
<1>3. CASE p = q
  BY <1>3
<1>. QED
  BY <1>1, <1>2, <1>3

\* Counting modulo m is counting, taken modulo m.
LEMMA ModPlusOne ==
  ASSUME NEW a \in Nat, NEW m \in Nat, m > 1
  PROVE  ((a % m) + 1) % m = (a + 1) % m
<1> DEFINE r == a % m
           p == a \div m
           s == (a + 1) % m
           q == (a + 1) \div m
           t == (r + 1) % m
           u == (r + 1) \div m
<1>1. a = m * p + r /\ p \in Int /\ r \in 0 .. m - 1
  OBVIOUS
<1>2. a + 1 = m * q + s /\ q \in Int /\ s \in 0 .. m - 1
  OBVIOUS
<1>3. r + 1 = m * u + t /\ u \in Int /\ t \in 0 .. m - 1
  BY <1>1
<1> HIDE DEF r, p, s, q, t, u
<1>4. m * (p + u) + t = m * q + s /\ p + u \in Int
  BY <1>1, <1>2, <1>3
<1>5. t = s
  BY <1>2, <1>3, <1>4, OneRemainder
<1>. QED
  BY <1>5 DEF r, s, t

LEMMA HeadAndTail ==
  ASSUME NEW S, NEW q \in Seq(S), q # <<>>
  PROVE  /\ Len(q) \in Nat \ {0} /\ Head(q) = q[1] /\ Head(q) \in S
         /\ Tail(q) \in Seq(S) /\ Len(Tail(q)) = Len(q) - 1
         /\ \A i \in 1 .. Len(q) - 1 : Tail(q)[i] = q[i + 1]
OBVIOUS

LEMMA Appended ==
  ASSUME NEW S, NEW q \in Seq(S), NEW e \in S
  PROVE  /\ Append(q, e) \in Seq(S) /\ Len(Append(q, e)) = Len(q) + 1
         /\ \A i \in 1 .. Len(q) : Append(q, e)[i] = q[i]
         /\ Append(q, e)[Len(q) + 1] = e /\ Append(q, e) # <<>>
OBVIOUS

LEMMA InitIInv == Init => IInv
<1> USE XModemAssumption
<1> SUFFICES ASSUME Init PROVE IInv
  OBVIOUS
<1>1. N \in Nat /\ N = Len(image)
  BY DEF Init, N
<1>2. TypeOK
  BY <1>1 DEF Init, TypeOK, Byte, Pos, PacketSize
<1>3. StreamOK /\ SenderOK /\ InSync /\ AckOK
  BY <1>1 DEF Init, StreamOK, SenderOK, InSync, AckOK, NextIn
<1>4. LoadsPrefix /\ BootsComplete /\ SentMeansBooted
  BY <1>1 DEF Init, LoadsPrefix, BootsComplete, SentMeansBooted
<1>5. CountersAgree
  BY DEF Init, CountersAgree
<1>. QED
  BY <1>2, <1>3, <1>4, <1>5 DEF IInv

\* The numbers of the model: what nearly every step uses of TypeOK.
LEMMA Facts ==
  ASSUME TypeOK
  PROVE  /\ N \in Nat /\ Len(mem) \in Nat /\ blk \in Nat /\ pos \in Nat
         /\ PAYLOAD_SZ \in Nat /\ PAYLOAD_SZ > 0
         /\ PacketSize \in Nat /\ PacketSize = PAYLOAD_SZ + 4
<1>1. image \in Seq(Payload) /\ mem \in Seq(Payload)
  BY XModemAssumption DEF TypeOK
<1>2. N \in Nat /\ Len(mem) \in Nat
  BY <1>1 DEF N
<1>3. PAYLOAD_SZ \in Nat /\ PAYLOAD_SZ > 0
  BY XModemAssumption
<1>4. PacketSize \in Nat /\ PacketSize = PAYLOAD_SZ + 4
  BY <1>3 DEF PacketSize
<1>. QED
  BY <1>2, <1>3, <1>4 DEF TypeOK

\* The sender's block number against the blocks in memory.
LEMMA Window ==
  ASSUME IInv
  PROVE  blk <= Len(mem) + 1 /\ Len(mem) <= blk /\ Len(mem) <= N
<1>1. blk - 1 <= Len(mem) /\ Len(mem) <= blk /\ Len(mem) <= N /\ TypeOK
  BY DEF IInv, CountersAgree, LoadsPrefix
<1>. QED
  BY <1>1, Facts

\* Reading a reply leaves at most the one ACK there was.
LEMMA AckTail ==
  ASSUME TypeOK, AckOK, p2u # <<>>, p2u' = Tail(p2u), UNCHANGED <<mem, rpc, blk>>,
         spc \in {"eot", "done", "panic"} => spc' \in {"eot", "done", "panic"}
  PROVE  AckOK'
<1>1. /\ p2u' \in Seq(Byte) /\ Len(p2u) \in Nat /\ Len(p2u') = Len(p2u) - 1
      /\ \A i \in 1 .. Len(p2u) - 1 : p2u'[i] = p2u[i + 1]
  BY HeadAndTail DEF TypeOK
<1> SUFFICES ASSUME NEW i \in 1 .. Len(p2u'), p2u'[i] = ACK
             PROVE  /\ \A j \in 1 .. Len(p2u') : p2u'[j] = ACK => i = j
                    /\ \/ Len(mem') = blk'
                       \/ rpc' = "booted" /\ spc' \in {"eot", "done", "panic"}
  BY DEF AckOK
<1>2. i + 1 \in 1 .. Len(p2u) /\ p2u[i + 1] = ACK
  BY <1>1
<1>3. Len(mem) = blk \/ (rpc = "booted" /\ spc \in {"eot", "done", "panic"})
  BY <1>2 DEF AckOK
<1>4. ASSUME NEW j \in 1 .. Len(p2u'), p2u'[j] = ACK PROVE i = j
  <2>1. j + 1 \in 1 .. Len(p2u) /\ p2u[j + 1] = ACK
    BY <1>1, <1>4
  <2>2. i + 1 = j + 1
    BY <1>2, <2>1 DEF AckOK
  <2>. QED
    BY <2>2, <1>1
<1>. QED
  BY <1>3, <1>4

\* A NAK joins the replies.
LEMMA AckNak ==
  ASSUME TypeOK, AckOK, p2u' = Append(p2u, NAK), UNCHANGED <<mem, rpc, blk, spc>>
  PROVE  AckOK' /\ p2u' \in Seq(Byte)
<1>1. NAK \in Byte /\ NAK # ACK /\ p2u \in Seq(Byte)
  BY XModemAssumption DEF TypeOK
<1>2. /\ p2u' \in Seq(Byte) /\ Len(p2u) \in Nat /\ Len(p2u') = Len(p2u) + 1
      /\ \A i \in 1 .. Len(p2u) : p2u'[i] = p2u[i]
      /\ p2u'[Len(p2u) + 1] = NAK
  BY <1>1, Appended
<1>3. \A i \in 1 .. Len(p2u') : p2u'[i] = ACK => i \in 1 .. Len(p2u) /\ p2u[i] = ACK
  BY <1>1, <1>2
<1>. QED
  BY <1>2, <1>3 DEF AckOK

LEMMA StepDrainByte == IInv /\ DrainByte => IInv'
<1> SUFFICES ASSUME IInv, DrainByte PROVE IInv'
  OBVIOUS
<1>1. TypeOK /\ p2u \in Seq(Byte) /\ p2u # <<>>
  BY DEF IInv, TypeOK, DrainByte
<1>2. /\ p2u' \in Seq(Byte) /\ Len(p2u) \in Nat /\ Len(p2u') = Len(p2u) - 1
      /\ \A i \in 1 .. Len(p2u) - 1 : p2u'[i] = p2u[i + 1]
  BY <1>1, HeadAndTail DEF DrainByte
<1>3. AckOK'
  BY <1>1, AckTail DEF IInv, DrainByte, sender, receiver
<1>4. TypeOK'
  BY <1>1, <1>2 DEF TypeOK, DrainByte, sender, receiver, N
<1>. QED
  BY <1>3, <1>4 DEF IInv, DrainByte, sender, receiver, LoadsPrefix, CountersAgree,
     BootsComplete, SentMeansBooted, StreamOK, SenderOK, InSync, NextIn, N, Follows

\* After a whole packet comes this block again or the next one.
LEMMA LastOfPacket ==
  ASSUME TypeOK, StreamOK, pos = PacketSize, u2p # <<>>
  PROVE  /\ Follows(u2p[Len(u2p)], <<blk, 0>>)
         /\ Follows(u2p[Len(u2p)], <<blk + 1, 0>>)
<1> USE Facts
<1> DEFINE e == u2p[Len(u2p)]
<1>1. e \in (1 .. N + 1) \X Pos /\ blk \in Nat
  BY DEF TypeOK
<1>2. Follows(e, <<blk, PacketSize>>)
  BY DEF StreamOK
<1> HIDE DEF e
<1>3. e[1] = blk /\ e[2] = PacketSize - 1
  BY <1>1, <1>2 DEF Follows, Pos
<1>. QED
  BY <1>3 DEF Follows, e

LEMMA StepDrainEnd == IInv /\ DrainEnd => IInv'
<1> SUFFICES ASSUME IInv, DrainEnd PROVE IInv'
  OBVIOUS
<1> USE Facts DEF DrainEnd, receiver
<1>1. TypeOK
  BY DEF IInv
<1>2. TypeOK'
  BY <1>1 DEF TypeOK, N
<1>3. StreamOK'
  <2>1. CASE spc = "flush"
    BY <2>1 DEF IInv, SenderOK, StreamOK, N
  <2>2. CASE spc = "drain"
    <3>1. u2p # <<>> => Follows(u2p[Len(u2p)], <<blk, 0>>)
      BY <1>1, <2>2, LastOfPacket DEF IInv, SenderOK
    <3>. QED
      BY <3>1, <2>2 DEF IInv, StreamOK, SenderOK, N
  <2>. QED
    BY <2>1, <2>2
<1>31. SenderOK'
  BY <1>1 DEF IInv, TypeOK, SenderOK, N
<1>4. InSync'
  BY <1>1, SMTT(30) DEF IInv, TypeOK, InSync, NextIn, SenderOK, N, Pos
<1>5. AckOK'
  BY DEF IInv, AckOK
<1>. QED
  BY <1>2, <1>3, <1>31, <1>4, <1>5
     DEF IInv, LoadsPrefix, CountersAgree, BootsComplete, SentMeansBooted, N

\* A byte goes out: what SendByte and SendEOT have in common.
LEMMA StepOut ==
  ASSUME IInv, spc = "send", u2p' = Append(u2p, <<blk, pos>>), pos' = pos + 1,
         UNCHANGED <<image, blk, p2u, receiver, naks>>,
         \/ blk <= N /\ spc' = IF pos' = PacketSize THEN "reply" ELSE "send"
         \/ blk = N + 1 /\ spc' = "eot"
  PROVE  IInv'
<1> USE Facts DEF receiver
<1>1. TypeOK /\ u2p \in Seq((1 .. N + 1) \X Pos)
  BY DEF IInv, TypeOK
<1>2. blk \in 1 .. N + 1 /\ pos \in Pos /\ (blk = N + 1 => pos = 0)
  BY <1>1 DEF IInv, TypeOK, SenderOK, Pos
<1> DEFINE e == <<blk, pos>>
<1>3. e \in (1 .. N + 1) \X Pos /\ e[1] = blk /\ e[2] = pos
  BY <1>2
<1> HIDE DEF e
<1>0. u2p' = Append(u2p, e)
  BY DEF e
<1>4. /\ u2p' \in Seq((1 .. N + 1) \X Pos) /\ Len(u2p) \in Nat
      /\ Len(u2p') = Len(u2p) + 1
      /\ \A i \in 1 .. Len(u2p) : u2p'[i] = u2p[i]
      /\ u2p'[Len(u2p) + 1] = e /\ u2p' # <<>>
  BY <1>0, <1>1, <1>3, Appended
<1>5. u2p = <<>> <=> Len(u2p) = 0
  BY <1>1
<1>6. TypeOK'
  <2>1. pos' \in 0 .. PacketSize /\ spc' \in {"send", "reply", "eot"}
    BY <1>1, <1>2 DEF Pos
  <2>. QED
    BY <2>1, <1>1, <1>4 DEF TypeOK, N
<1>7. StreamOK'
  <2>1. \A i \in 1 .. Len(u2p') - 1 : Follows(u2p'[i], u2p'[i + 1])
    BY <1>4, <1>5, SMTT(30) DEF IInv, StreamOK
  <2>2. Follows(u2p'[Len(u2p')], <<blk', pos'>>)
    BY <1>3, <1>4 DEF Follows
  <2>3. \A i, j \in 1 .. Len(u2p') : i <= j => u2p'[i][1] <= u2p'[j][1]
    <3> SUFFICES ASSUME NEW i \in 1 .. Len(u2p'), NEW j \in 1 .. Len(u2p'), i <= j
                 PROVE  u2p'[i][1] <= u2p'[j][1]
      OBVIOUS
    <3>1. CASE j <= Len(u2p)
      BY <3>1, <1>4, SMTT(30) DEF IInv, StreamOK
    <3>2. CASE j = Len(u2p) + 1
      BY <3>2, <1>2, <1>3, <1>4, SMTT(30) DEF IInv, StreamOK
    <3>. QED
      BY <3>1, <3>2, <1>4
  <2>4. \A i \in 1 .. Len(u2p') :
          /\ Len(mem) <= u2p'[i][1] /\ u2p'[i][1] <= blk
          /\ u2p'[i][1] = N + 1 =>
               u2p'[i][2] = 0 /\ spc' \in {"eot", "done", "panic"}
    <3> SUFFICES ASSUME NEW i \in 1 .. Len(u2p')
                 PROVE  /\ Len(mem) <= u2p'[i][1] /\ u2p'[i][1] <= blk
                        /\ u2p'[i][1] = N + 1 =>
                             u2p'[i][2] = 0 /\ spc' \in {"eot", "done", "panic"}
      OBVIOUS
    <3>1. CASE i <= Len(u2p)
      BY <3>1, <1>1, <1>4, SMTT(30) DEF IInv, StreamOK, TypeOK
    <3>2. CASE i = Len(u2p) + 1
      <4>1. Len(mem) <= blk
        BY Window
      <4>. QED
        BY <4>1, <3>2, <1>1, <1>2, <1>3, <1>4
    <3>. QED
      BY <3>1, <3>2, <1>4
  <2>. QED
    BY <2>1, <2>2, <2>3, <2>4 DEF StreamOK, N
<1>8. SenderOK'
  <2>1. CASE blk <= N /\ spc' = IF pos' = PacketSize THEN "reply" ELSE "send"
    <3>1. pos' \in 1 .. PacketSize /\ blk' \in 1 .. N'
      BY <2>1, <1>1, <1>2 DEF Pos, N
    <3>2. CASE pos' = PacketSize
      BY <2>1, <3>1, <3>2, <1>1 DEF SenderOK
    <3>3. CASE pos' # PacketSize
      BY <2>1, <3>1, <3>3, <1>1 DEF SenderOK, N
    <3>. QED
      BY <3>2, <3>3
  <2>2. CASE blk = N + 1 /\ spc' = "eot"
    BY <2>2 DEF SenderOK, N
  <2>. QED
    BY <2>1, <2>2
<1>9. NextIn' = NextIn
  <2>1. CASE u2p = <<>>
    BY <2>1, <1>3, <1>4, <1>5, HeadAndTail DEF NextIn
  <2>2. CASE u2p # <<>>
    BY <2>2, <1>1, <1>4, <1>5, HeadAndTail, SMTT(30) DEF NextIn
  <2>. QED
    BY <2>1, <2>2
<1>10. InSync'
  BY <1>9 DEF IInv, InSync, N
<1>11. AckOK'
  BY <1>1 DEF IInv, AckOK, TypeOK
<1>. QED
  BY <1>6, <1>7, <1>8, <1>10, <1>11
     DEF IInv, LoadsPrefix, CountersAgree, BootsComplete, SentMeansBooted, N

LEMMA StepReadReply == IInv /\ ReadReply => IInv'
<1> SUFFICES ASSUME IInv, ReadReply PROVE IInv'
  OBVIOUS
<1> USE Facts DEF receiver
<1>1. TypeOK /\ p2u \in Seq(Byte) /\ p2u # <<>>
  BY DEF IInv, TypeOK, ReadReply
<1>2. /\ p2u' \in Seq(Byte) /\ Len(p2u) \in Nat \ {0}
      /\ Len(p2u') = Len(p2u) - 1 /\ Head(p2u) = p2u[1]
      /\ \A i \in 1 .. Len(p2u) - 1 : p2u'[i] = p2u[i + 1]
  BY <1>1, HeadAndTail DEF ReadReply
<1>3. spc = "reply" /\ blk \in 1 .. N /\ pos = PacketSize
  BY <1>1 DEF IInv, ReadReply, SenderOK, TypeOK
<1>4. CASE Head(p2u) = ACK
  <2>1. spc' = "send" /\ blk' = blk + 1 /\ pos' = 0
        /\ UNCHANGED <<image, u2p, receiver, naks>>
    BY <1>4 DEF ReadReply, IsAck
  <2>2. Len(mem) = blk /\ \A i \in 2 .. Len(p2u) : p2u[i] # ACK
    BY <1>2, <1>3, <1>4 DEF IInv, AckOK
  <2>3. AckOK'
    BY <1>2, <2>2 DEF AckOK
  <2>4. TypeOK'
    BY <1>1, <1>2, <1>3, <2>1 DEF TypeOK, N
  <2>5. StreamOK'
    <3>1. u2p # <<>> => Follows(u2p[Len(u2p)], <<blk + 1, 0>>)
      BY <1>1, <1>3, LastOfPacket DEF IInv
    <3>. QED
      BY <3>1, <1>1, <1>3, <2>1, SMTT(30) DEF IInv, StreamOK, N, TypeOK
  <2>6. SenderOK'
    BY <1>1, <1>3, <2>1 DEF SenderOK, N
  <2>7. InSync'
    BY <1>1, <1>3, <2>1, SMTT(30) DEF IInv, InSync, NextIn, N, Pos, TypeOK
  <2>8. CountersAgree'
    <3>1. blk' - 1 <= Len(mem') /\ Len(mem') <= blk'
      BY <1>1, <2>1, <2>2
    <3>2. block' = (Len(mem') + 1) % ByteMod
      BY <2>1 DEF IInv, CountersAgree
    <3>. QED
      BY <3>1, <3>2 DEF CountersAgree
  <2>. QED
    BY <2>1, <2>3, <2>4, <2>5, <2>6, <2>7, <2>8
       DEF IInv, LoadsPrefix, BootsComplete, SentMeansBooted, N
<1>5. CASE Head(p2u) # ACK
  <2>1. /\ spc' \in {"drain", "panic"}
        /\ UNCHANGED <<image, blk, pos, u2p, receiver, naks>>
    BY <1>5 DEF ReadReply, IsAck
  <2>2. AckOK'
    BY <1>1, <1>3, <2>1, AckTail DEF IInv, ReadReply
  <2>3. TypeOK'
    BY <1>1, <1>2, <2>1 DEF TypeOK, N
  <2>4. StreamOK' /\ SenderOK'
    BY <1>1, <1>3, <2>1 DEF IInv, StreamOK, SenderOK, Follows, N
  <2>. QED
    BY <2>1, <2>2, <2>3, <2>4 DEF IInv, LoadsPrefix, BootsComplete,
       SentMeansBooted, CountersAgree, InSync, NextIn, N
<1>. QED
  BY <1>4, <1>5

LEMMA StepReadEOTReply == IInv /\ ReadEOTReply => IInv'
<1> SUFFICES ASSUME IInv, ReadEOTReply PROVE IInv'
  OBVIOUS
<1> USE Facts DEF receiver
<1>1. TypeOK /\ p2u \in Seq(Byte) /\ p2u # <<>>
  BY DEF IInv, TypeOK, ReadEOTReply
<1>2. /\ p2u' \in Seq(Byte) /\ Len(p2u) \in Nat \ {0}
      /\ Len(p2u') = Len(p2u) - 1 /\ Head(p2u) = p2u[1]
      /\ \A i \in 1 .. Len(p2u) - 1 : p2u'[i] = p2u[i + 1]
  BY <1>1, HeadAndTail DEF ReadEOTReply
<1>3. /\ spc = "eot" /\ blk = N + 1 /\ spc' \in {"done", "panic"}
      /\ spc' = "done" => Head(p2u) = ACK
      /\ UNCHANGED <<image, blk, pos, u2p, receiver, naks>>
  BY DEF IInv, ReadEOTReply, SenderOK, IsAck
<1>4. Len(mem) <= N /\ Len(mem) \in Nat
  BY <1>1 DEF IInv, LoadsPrefix, TypeOK
<1>5. SentMeansBooted'
  BY <1>1, <1>2, <1>3, <1>4 DEF IInv, AckOK, SentMeansBooted, BootsComplete
<1>6. AckOK'
  BY <1>1, <1>3, AckTail DEF IInv, ReadEOTReply
<1>7. TypeOK'
  BY <1>1, <1>2, <1>3 DEF TypeOK, N
<1>8. StreamOK' /\ SenderOK'
  BY <1>1, <1>3 DEF IInv, StreamOK, SenderOK, Follows, N
<1>. QED
  BY <1>3, <1>5, <1>6, <1>7, <1>8
     DEF IInv, LoadsPrefix, BootsComplete, CountersAgree, InSync, NextIn, N

LEMMA StepGetByteTimeout == IInv /\ GetByteTimeout => IInv'
<1> SUFFICES ASSUME IInv, GetByteTimeout PROVE IInv'
  OBVIOUS
<1> USE DEF GetByteTimeout, receiver
<1>1. AckOK'
  <2>1. /\ spc \notin {"done", "panic"} /\ spc' = "panic"
        /\ UNCHANGED <<mem, blk, rpc, p2u>>
    OBVIOUS
  <2>2. AckOK
    BY DEF IInv
  <2>. QED
    BY <2>1, <2>2 DEF AckOK
<1>2. TypeOK'
  BY DEF IInv, TypeOK, N
<1>3. StreamOK' /\ SenderOK'
  BY DEF IInv, StreamOK, SenderOK, Follows, N
<1>. QED
  BY <1>1, <1>2, <1>3 DEF IInv, LoadsPrefix, BootsComplete,
     SentMeansBooted, CountersAgree, InSync, NextIn, N

LEMMA StepTimerNak == IInv /\ TimerNak => IInv'
<1> SUFFICES ASSUME IInv, TimerNak PROVE IInv'
  OBVIOUS
<1> USE Facts DEF receiver, sender
<1>1. TypeOK
  BY DEF IInv
<1>3. UNCHANGED <<sender, u2p, receiver>>
  BY DEF TimerNak
<1>4. AckOK' /\ p2u' \in Seq(Byte)
  BY <1>1, <1>3, AckNak DEF IInv, TimerNak
<1>5. TypeOK'
  BY <1>1, <1>3, <1>4, XModemAssumption DEF TypeOK, TimerNak, N
<1>. QED
  BY <1>3, <1>4, <1>5, SMTT(30) DEF IInv, LoadsPrefix, BootsComplete, SentMeansBooted,
     CountersAgree, StreamOK, SenderOK, Follows, InSync, NextIn, N

-----------------------------------------------------------------------------
(***************************************************************************)
(* The receiver reads a byte.                                              *)
(***************************************************************************)
\* The line moves on by one byte: what Receive does to u2p alone.
LEMMA LineAdvances ==
  ASSUME TypeOK, StreamOK, Receive
  PROVE  /\ NextIn = Head(u2p) /\ Head(u2p) = u2p[1]
         /\ NextIn \in (1 .. N + 1) \X Pos
         /\ Len(mem) <= NextIn[1] /\ NextIn[1] <= blk
         /\ NextIn[1] = N + 1 => NextIn[2] = 0 /\ spc \in {"eot", "done", "panic"}
         /\ u2p' \in Seq((1 .. N + 1) \X Pos)
         /\ Len(u2p) \in Nat \ {0} /\ Len(u2p') = Len(u2p) - 1
         /\ \A i \in 1 .. Len(u2p') : u2p'[i] = u2p[i + 1]
         /\ Follows(NextIn, NextIn')
         /\ \A i \in 1 .. Len(u2p') : NextIn[1] <= u2p'[i][1]
<1> USE Facts
<1>1. /\ u2p \in Seq((1 .. N + 1) \X Pos) /\ u2p # <<>> /\ u2p' = Tail(u2p)
      /\ UNCHANGED <<blk, pos>>
  BY DEF TypeOK, Receive, sender
<1>2. /\ Len(u2p) \in Nat \ {0} /\ Head(u2p) = u2p[1]
      /\ Head(u2p) \in (1 .. N + 1) \X Pos
      /\ u2p' \in Seq((1 .. N + 1) \X Pos) /\ Len(u2p') = Len(u2p) - 1
      /\ \A i \in 1 .. Len(u2p') : u2p'[i] = u2p[i + 1]
  BY <1>1, HeadAndTail
<1>3. NextIn = u2p[1]
  BY <1>1, <1>2 DEF NextIn
<1>4. Follows(NextIn, NextIn')
  <2>1. CASE u2p' = <<>>
    <3>1. Len(u2p) = 1
      BY <2>1, <1>2
    <3>. QED
      BY <2>1, <3>1, <1>1, <1>3 DEF NextIn, StreamOK
  <2>2. CASE u2p' # <<>>
    <3>1. 1 \in 1 .. Len(u2p) - 1 /\ NextIn' = u2p[1 + 1]
      BY <2>2, <1>2, HeadAndTail, SMTT(30) DEF NextIn
    <3>2. Follows(u2p[1], u2p[1 + 1])
      BY <3>1 DEF StreamOK
    <3>. QED
      BY <3>1, <3>2, <1>3
  <2>. QED
    BY <2>1, <2>2
<1>5. ASSUME NEW i \in 1 .. Len(u2p') PROVE NextIn[1] <= u2p'[i][1]
  <2>1. 1 \in 1 .. Len(u2p) /\ i + 1 \in 1 .. Len(u2p) /\ 1 <= i + 1
    BY <1>2
  <2>2. u2p[1][1] <= u2p[i + 1][1]
    BY <2>1 DEF StreamOK
  <2>. QED
    BY <2>2, <1>2, <1>3
<1>6. /\ Len(mem) <= u2p[1][1] /\ u2p[1][1] <= blk
      /\ u2p[1][1] = N + 1 => u2p[1][2] = 0 /\ spc \in {"eot", "done", "panic"}
  BY <1>2 DEF StreamOK
<1>. QED
  BY <1>2, <1>3, <1>4, <1>5, <1>6

\* The stream stays in shape when the block just read is the last in memory.
LEMMA StreamAdvances ==
  ASSUME TypeOK, StreamOK, Receive, Len(mem') \in {Len(mem), NextIn[1]},
         NextIn[1] <= Len(mem) + 1
  PROVE  StreamOK'
<1> USE Facts
<1>1. UNCHANGED <<blk, pos, image, spc>>
  BY DEF Receive, sender
<1>2. /\ Len(u2p) \in Nat \ {0} /\ Len(u2p') = Len(u2p) - 1
      /\ \A i \in 1 .. Len(u2p') : u2p'[i] = u2p[i + 1]
      /\ \A i \in 1 .. Len(u2p') : NextIn[1] <= u2p'[i][1]
      /\ u2p' \in Seq((1 .. N + 1) \X Pos) /\ NextIn[1] \in Nat
  BY LineAdvances
<1>3. ASSUME NEW i \in 1 .. Len(u2p')
      PROVE  i + 1 \in 1 .. Len(u2p) /\ u2p'[i] = u2p[i + 1] /\ u2p'[i][1] \in Nat
  <2>1. i + 1 \in 1 .. Len(u2p) /\ u2p'[i] = u2p[i + 1]
    BY <1>2
  <2>2. u2p'[i] \in (1 .. N + 1) \X Pos
    BY <1>2, SMTT(30)
  <2>. QED
    BY <2>1, <2>2, SMTT(30)
<1>4. ASSUME NEW i \in 1 .. Len(u2p') - 1 PROVE Follows(u2p'[i], u2p'[i + 1])
  <2>1. i \in 1 .. Len(u2p') /\ i + 1 \in 1 .. Len(u2p')
        /\ i + 1 \in 1 .. Len(u2p) - 1
    BY <1>2
  <2>2. u2p'[i] = u2p[i + 1] /\ u2p'[i + 1] = u2p[(i + 1) + 1]
    BY <2>1, <1>2
  <2>. QED
    BY <2>1, <2>2 DEF StreamOK
<1>5. ASSUME u2p' # <<>> PROVE Follows(u2p'[Len(u2p')], <<blk', pos'>>)
  <2>1. Len(u2p') \in 1 .. Len(u2p') /\ u2p # <<>>
    BY <1>2, <1>5
  <2>2. u2p'[Len(u2p')] = u2p[Len(u2p)]
    BY <1>2, <2>1, SMTT(30)
  <2>. QED
    BY <2>1, <2>2, <1>1 DEF StreamOK
<1>6. ASSUME NEW i \in 1 .. Len(u2p'), NEW j \in 1 .. Len(u2p'), i <= j
      PROVE  u2p'[i][1] <= u2p'[j][1]
  <2>1. u2p[i + 1][1] <= u2p[j + 1][1]
    BY <1>3, <1>6 DEF StreamOK
  <2>. QED
    BY <2>1, <1>3
<1>7. ASSUME NEW i \in 1 .. Len(u2p')
      PROVE  /\ Len(mem') <= u2p'[i][1] /\ u2p'[i][1] <= blk'
             /\ u2p'[i][1] = N' + 1 =>
                  u2p'[i][2] = 0 /\ spc' \in {"eot", "done", "panic"}
  <2>1. /\ Len(mem) <= u2p[i + 1][1] /\ u2p[i + 1][1] <= blk
        /\ u2p[i + 1][1] = N + 1 =>
             u2p[i + 1][2] = 0 /\ spc \in {"eot", "done", "panic"}
    BY <1>3 DEF StreamOK
  <2>2. NextIn[1] <= u2p'[i][1]
    BY <1>2
  <2>. QED
    BY <2>1, <2>2, <1>1, <1>3 DEF N
<1>. QED
  BY <1>4, <1>5, <1>6, <1>7 DEF StreamOK

\* What the values on the line say to a receiver in sync.
LEMMA Values ==
  ASSUME IInv, AllPlain, Receive
  PROVE  LET v == ValueOf(NextIn) IN
         /\ NextIn[1] = N + 1 => v = EOT
         /\ NextIn[1] <= N /\ NextIn[2] < PacketSize - 1 => v \in Byte
         /\ NextIn[1] <= N /\ NextIn[2] = 0 => v = SOH
         /\ NextIn[1] <= N /\ NextIn[2] = 1 => v = NextIn[1] % ByteMod
         /\ NextIn[1] <= N /\ NextIn[2] >= 2 => v \notin {SOH, EOT}
         /\ NextIn[1] <= N /\ NextIn[2] \in 3 .. PAYLOAD_SZ + 2 =>
              v = image[NextIn[1]][NextIn[2] - 2]
<1> USE Facts
<1>1. TypeOK /\ NextIn \in (1 .. N + 1) \X Pos /\ image \in Seq(Payload)
      /\ ByteMod \in Nat /\ ByteMod > 4
  BY LineAdvances, XModemAssumption DEF IInv, TypeOK
<1>2. CASE NextIn[1] = N + 1
  BY <1>1, <1>2 DEF ValueOf
<1>3. CASE NextIn[1] # N + 1
  <2> DEFINE k == NextIn[1]
             i == NextIn[2]
  <2>1. k \in 1 .. N /\ i \in Pos /\ ValueOf(NextIn) = PacketByte(image, k, i)
    BY <1>1, <1>3 DEF ValueOf
  <2>2. k % ByteMod \in Byte /\ image[k] \in Payload
    BY <2>1, <1>1 DEF Byte, N
  <2> HIDE DEF k, i
  <2>3. i = 0 => PacketByte(image, k, i) = SOH
    BY DEF PacketByte
  <2>4. i = 1 => PacketByte(image, k, i) = k % ByteMod
    BY DEF PacketByte
  <2>5. i = 2 => PacketByte(image, k, i) \in Byte
    BY <1>1, <2>2, SMTT(30) DEF PacketByte, Byte
  <2>6. i \in 3 .. PAYLOAD_SZ + 2 =>
          PacketByte(image, k, i) = image[k][i - 2] /\ image[k][i - 2] \in Byte
    BY <2>2, XModemAssumption DEF PacketByte, Payload
  <2>7. i >= 2 => PacketByte(image, k, i) \notin {SOH, EOT}
    BY <1>1, <2>1 DEF AllPlain, Plain, TypeOK, N, Pos
  <2>8. i < PacketSize - 1 =>
          i \in {0, 1, 2} \/ i \in 3 .. PAYLOAD_SZ + 2
    BY <1>1, <2>1, SMTT(30) DEF Pos
  <2>9. SOH \in Byte
    BY XModemAssumption
  <2>. QED
    BY <2>1, <2>2, <2>3, <2>4, <2>5, <2>6, <2>7, <2>8, <2>9, <1>3, <1>1 DEF k, i
<1>. QED
  BY <1>2, <1>3

\* A receiver that reads is one whose sender has left its first drain.
LEMMA SenderStill ==
  ASSUME TypeOK, SenderOK, Receive
  PROVE  SenderOK'
  BY DEF SenderOK, Receive, sender, N

\* The receiver takes v for the next byte of the packet it is reading.
LEMMA StepAccept ==
  ASSUME IInv, Receive, NextIn[1] <= N, state' = state + 1, NextIn[2] = state,
         state < PacketSize - 1, crc' \in Nat, ValueOf(NextIn) \in Byte,
         UNCHANGED <<p2u, rpc, block, mem>>,
         state >= 1 => NextIn[1] = Len(mem) + 1,
         state = 1 => ValueOf(NextIn) = block,
         state \in 3 .. PAYLOAD_SZ + 2 =>
           ValueOf(NextIn) = image[NextIn[1]][state - 2]
  PROVE  IInv'
<1> USE Facts
<1>1. /\ TypeOK /\ StreamOK /\ SenderOK /\ InSync /\ AckOK
      /\ state \in Pos /\ mem \in Seq(Payload) /\ rpc = "loop"
  BY DEF IInv, TypeOK, Receive
<1>2. /\ UNCHANGED <<image, spc, blk, pos, naks, p2u, rpc, block, mem>>
      /\ xstring' = [xstring EXCEPT ![state] = ValueOf(NextIn)]
  BY <1>1, LineAdvances DEF Receive, sender
<1>3. /\ NextIn \in (1 .. N + 1) \X Pos /\ Follows(NextIn, NextIn')
      /\ u2p' \in Seq((1 .. N + 1) \X Pos) /\ NextIn[1] <= blk
  BY <1>1, LineAdvances
<1>4. DOMAIN xstring = Pos /\ DOMAIN xstring' = Pos /\ state' \in Pos
      /\ \A i \in Pos : xstring'[i] = IF i = state THEN ValueOf(NextIn) ELSE xstring[i]
  <2>1. state \in Nat /\ state + 1 < PacketSize /\ 0 <= state + 1
    BY <1>1 DEF Pos
  <2>2. state' \in Pos
    BY <2>1, <1>1 DEF Pos
  <2>3. DOMAIN xstring = Pos
    BY <1>1 DEF TypeOK
  <2>. QED
    BY <2>2, <2>3, <1>2
<1>5. TypeOK'
  <2>1. \A i \in Pos : i < state' => xstring'[i] \in Byte
    <3> SUFFICES ASSUME NEW i \in Pos, i < state + 1
                 PROVE  xstring'[i] \in Byte
      OBVIOUS
    <3>1. CASE i = state
      BY <3>1, <1>4
    <3>2. CASE i < state
      BY <3>2, <1>1, <1>4 DEF TypeOK
    <3>. QED
      BY <3>1, <3>2, <1>1 DEF Pos
  <2>. QED
    BY <2>1, <1>1, <1>2, <1>3, <1>4 DEF TypeOK, N
<1>6. StreamOK'
  <2>1. NextIn[1] <= Len(mem) + 1
    BY <1>1, <1>3, Window
  <2>. QED
    BY <2>1, <1>1, <1>2, StreamAdvances
<1>7. InSync'
  <2>0. state \in Nat /\ 1 \in Pos
    BY <1>1 DEF Pos
  <2>1. NextIn'[2] = state + 1 /\ NextIn'[1] = NextIn[1]
    BY <2>0, <1>1, <1>3, SMTT(30) DEF Follows
  <2>2. state' >= 2 => xstring'[1] = block
    <3>1. CASE state = 1
      BY <3>1, <2>0, <1>4
    <3>2. CASE state >= 2
      BY <3>2, <2>0, <1>1, <1>4 DEF InSync
    <3>. QED
      BY <3>1, <3>2, <2>0
  <2>3. \A i \in 3 .. PAYLOAD_SZ + 2 :
          i < state' => xstring'[i] = image[Len(mem) + 1][i - 2]
    <3> SUFFICES ASSUME NEW i \in 3 .. PAYLOAD_SZ + 2, i < state + 1
                 PROVE  xstring'[i] = image[Len(mem) + 1][i - 2]
      OBVIOUS
    <3>0. i \in Pos
      BY <1>1 DEF Pos
    <3>1. CASE i = state
      BY <3>0, <3>1, <2>0, <1>4
    <3>2. CASE i < state
      <4>1. xstring'[i] = xstring[i]
        BY <3>0, <3>2, <2>0, <1>4
      <4>. QED
        BY <4>1, <3>2, <1>1 DEF InSync
    <3>. QED
      BY <3>1, <3>2, <2>0
  <2>4. NextIn'[2] = state' /\ state' # 0
    BY <2>0, <2>1
  <2>5. state' >= 2 => NextIn'[1] = Len(mem') + 1 /\ NextIn'[1] <= N'
    BY <2>0, <2>1, <1>2 DEF N
  <2>. QED
    BY <2>2, <2>3, <2>4, <2>5, <1>2 DEF InSync
<1>. QED
  BY <1>1, <1>2, <1>5, <1>6, <1>7, SenderStill DEF IInv, LoadsPrefix, CountersAgree,
     BootsComplete, SentMeansBooted, AckOK, N

\* The receiver gives up on the packet, anywhere but before a block number.
LEMMA StepReject ==
  ASSUME IInv, Receive, state' = 0, p2u' = Append(p2u, NAK), crc' \in Nat,
         UNCHANGED <<rpc, block, mem>>, NextIn[2] # 0, NextIn[1] <= N
  PROVE  IInv'
<1> USE Facts
<1>1. /\ TypeOK /\ StreamOK /\ SenderOK /\ AckOK
      /\ mem \in Seq(Payload) /\ rpc = "loop"
  BY DEF IInv, TypeOK, Receive
<1>2. /\ UNCHANGED <<image, spc, blk, pos, naks, rpc, block, mem>>
      /\ xstring' = [xstring EXCEPT ![state] = ValueOf(NextIn)]
  BY <1>1, LineAdvances DEF Receive, sender
<1>3. /\ NextIn \in (1 .. N + 1) \X Pos /\ Follows(NextIn, NextIn')
      /\ u2p' \in Seq((1 .. N + 1) \X Pos) /\ NextIn[1] <= blk
  BY <1>1, LineAdvances
<1>4. AckOK' /\ p2u' \in Seq(Byte)
  BY <1>1, <1>2, AckNak
<1>5. TypeOK'
  <2>1. state' \in Pos /\ \A i \in Pos : ~ (i < state')
    BY <1>1 DEF Pos
  <2>2. DOMAIN xstring' = Pos
    BY <1>1, <1>2 DEF TypeOK
  <2>. QED
    BY <2>1, <2>2, <1>1, <1>2, <1>3, <1>4 DEF TypeOK, N
<1>6. StreamOK'
  <2>1. NextIn[1] <= Len(mem) + 1
    BY <1>1, <1>3, Window
  <2>. QED
    BY <2>1, <1>1, <1>2, StreamAdvances
<1>7. InSync'
  <2>1. NextIn[2] \in Nat
    BY <1>3 DEF Pos
  <2>2. NextIn'[2] # 1
    BY <2>1, <1>3 DEF Follows
  <2>. QED
    BY <2>2 DEF InSync
<1>. QED
  BY <1>1, <1>2, <1>4, <1>5, <1>6, <1>7, SenderStill DEF IInv, LoadsPrefix,
     CountersAgree, BootsComplete, SentMeansBooted, N

\* The receiver finds an EOT where a packet may begin: all blocks are in.
LEMMA StepBoot ==
  ASSUME IInv, Receive, NextIn[1] = N + 1, rpc' = "booted", p2u' = Append(p2u, ACK),
         UNCHANGED <<state, crc, block, mem>>, state = 0
  PROVE  IInv'
<1> USE Facts
<1>1. /\ TypeOK /\ StreamOK /\ SenderOK /\ AckOK
      /\ mem \in Seq(Payload) /\ rpc = "loop"
  BY DEF IInv, TypeOK, Receive
<1>2. /\ UNCHANGED <<image, spc, blk, pos, naks, block, mem, state, crc>>
      /\ xstring' = [xstring EXCEPT ![state] = ValueOf(NextIn)]
  BY <1>1, LineAdvances DEF Receive, sender
<1>3. /\ u2p' \in Seq((1 .. N + 1) \X Pos) /\ NextIn[1] <= blk
      /\ spc \in {"eot", "done", "panic"}
  BY <1>1, LineAdvances
<1>4. Len(mem) = N /\ blk = N + 1
  BY <1>1, <1>3, Window
<1>5. mem = image
  <2>1. image \in Seq(Payload) /\ Len(image) = Len(mem)
    BY <1>1, <1>4, XModemAssumption DEF TypeOK, N
  <2>2. \A i \in 1 .. Len(mem) : mem[i] = image[i]
    BY DEF IInv, LoadsPrefix
  <2>. QED
    BY <2>1, <2>2, <1>1, SeqEqual
<1>6. /\ ACK \in Byte /\ p2u \in Seq(Byte) /\ p2u' \in Seq(Byte)
      /\ Len(p2u) \in Nat /\ Len(p2u') = Len(p2u) + 1
      /\ \A i \in 1 .. Len(p2u) : p2u'[i] = p2u[i]
  BY <1>1, Appended, XModemAssumption DEF TypeOK
<1>7. \A i \in 1 .. Len(p2u) : p2u[i] # ACK
  BY <1>1, <1>4 DEF AckOK
<1>8. AckOK'
  BY <1>2, <1>3, <1>6, <1>7 DEF AckOK
<1>9. TypeOK'
  <2>1. DOMAIN xstring' = Pos /\ \A i \in Pos : ~ (i < state')
    BY <1>1, <1>2 DEF TypeOK, Pos
  <2>. QED
    BY <2>1, <1>1, <1>2, <1>3, <1>6 DEF TypeOK, N
<1>10. StreamOK'
  BY <1>1, <1>2, <1>4, StreamAdvances
<1>11. InSync' /\ BootsComplete' /\ SentMeansBooted'
  BY <1>2, <1>5 DEF InSync, BootsComplete, SentMeansBooted
<1>. QED
  BY <1>1, <1>2, <1>8, <1>9, <1>10, <1>11, SenderStill
     DEF IInv, LoadsPrefix, CountersAgree, N

\* The checksum is right: the block goes to memory, its ACK to the sender.
LEMMA StepStore ==
  ASSUME IInv, Receive, state = PacketSize - 1, state' = 0, crc' \in Nat,
         mem' = Append(mem, Received), block' = NextBlock, UNCHANGED rpc,
         p2u' = Append(p2u, ACK)
  PROVE  IInv'
<1> USE Facts
<1>1. /\ TypeOK /\ StreamOK /\ SenderOK /\ AckOK /\ InSync
      /\ mem \in Seq(Payload) /\ rpc = "loop" /\ image \in Seq(Payload)
      /\ p2u \in Seq(Byte) /\ block \in Byte /\ ByteMod \in Nat /\ ByteMod > 4
      /\ ACK \in Byte
  BY XModemAssumption DEF IInv, TypeOK, Receive
<1>2. /\ UNCHANGED <<image, spc, blk, pos, naks, rpc>>
      /\ xstring' = [xstring EXCEPT ![state] = ValueOf(NextIn)]
  BY <1>1, LineAdvances DEF Receive, sender
<1>3. /\ NextIn \in (1 .. N + 1) \X Pos /\ Follows(NextIn, NextIn')
      /\ u2p' \in Seq((1 .. N + 1) \X Pos) /\ NextIn[1] <= blk
  BY <1>1, LineAdvances
<1>4. NextIn[1] = Len(mem) + 1 /\ Len(mem) + 1 \in 1 .. N /\ NextIn[2] = state
  <2>1. state # 0 /\ state >= 2
    BY <1>1
  <2>2. NextIn[2] = state /\ NextIn[1] = Len(mem) + 1 /\ NextIn[1] <= N
    BY <2>1, <1>1 DEF InSync
  <2>3. Len(mem) \in Nat /\ N \in Nat
    BY <1>1 DEF N
  <2>. QED
    BY <2>2, <2>3
<1>5. blk = Len(mem) + 1
  BY <1>1, <1>3, <1>4, Window, SMTT(30)
<1> DEFINE p == image[Len(mem) + 1]
<1>6. p \in Payload /\ Received = p
  <2>1. p \in Payload
    BY <1>1, <1>4 DEF N
  <2>2. ASSUME NEW i \in 1 .. PAYLOAD_SZ PROVE xstring[i + 2] = p[i]
    <3>1. i + 2 \in 3 .. PAYLOAD_SZ + 2 /\ i + 2 < state /\ (i + 2) - 2 = i
      BY <1>1, SMTT(30)
    <3>. QED
      BY <3>1, <1>1 DEF InSync
  <2>3. Received = [i \in 1 .. PAYLOAD_SZ |-> p[i]]
    BY <2>2 DEF Received
  <2>. QED
    BY <2>1, <2>3 DEF Payload
<1> HIDE DEF p
<1>7. /\ mem' \in Seq(Payload) /\ Len(mem') = Len(mem) + 1
      /\ \A j \in 1 .. Len(mem) : mem'[j] = mem[j]
      /\ mem'[Len(mem) + 1] = p
  BY <1>1, <1>6, Appended
<1>8. LoadsPrefix'
  <2>1. ASSUME NEW j \in 1 .. Len(mem') PROVE mem'[j] = image[j]
    <3>1. CASE j = Len(mem) + 1
      BY <3>1, <1>7 DEF p
    <3>2. CASE j # Len(mem) + 1
      <4>1. j \in 1 .. Len(mem) /\ \A l \in 1 .. Len(mem) : mem[l] = image[l]
        BY <3>2, <1>1, <1>7, SMTT(30) DEF IInv, LoadsPrefix
      <4>. QED
        BY <4>1, <1>7
    <3>. QED
      BY <3>1, <3>2
  <2>2. Len(mem') <= N
    BY <1>1, <1>4, <1>7
  <2>. QED
    BY <2>1, <2>2, <1>2 DEF LoadsPrefix, N
<1>9. CountersAgree' /\ block' \in Byte
  <2>1. block' \in Byte
    BY <1>1, SMTT(30) DEF NextBlock, Byte
  <2>2. blk' - 1 <= Len(mem') /\ Len(mem') <= blk'
    BY <1>1, <1>2, <1>5, <1>7
  <2>3. block' = (Len(mem') + 1) % ByteMod
    <3>1. block = (Len(mem) + 1) % ByteMod /\ Len(mem) \in Nat
      BY <1>1 DEF IInv, CountersAgree
    <3>2. block' = (((Len(mem) + 1) % ByteMod) + 1) % ByteMod
      BY <3>1 DEF NextBlock
    <3>3. Len(mem) + 1 \in Nat /\ ByteMod > 1
      BY <3>1, <1>1
    <3>4. block' = ((Len(mem) + 1) + 1) % ByteMod
      BY <3>2, <3>3, <1>1, ModPlusOne
    <3>. QED
      BY <3>4, <1>7
  <2>. QED
    BY <2>1, <2>2, <2>3 DEF CountersAgree
<1>10. /\ p2u' \in Seq(Byte) /\ Len(p2u) \in Nat /\ Len(p2u') = Len(p2u) + 1
       /\ \A i \in 1 .. Len(p2u) : p2u'[i] = p2u[i]
  BY <1>1, Appended
<1>11. \A i \in 1 .. Len(p2u) : p2u[i] # ACK
  BY <1>1, <1>5, SMTT(30) DEF AckOK
<1>12. AckOK'
  BY <1>1, <1>2, <1>5, <1>7, <1>10, <1>11, SMTT(30) DEF AckOK
<1>13. TypeOK'
  <2>1. DOMAIN xstring' = Pos /\ \A i \in Pos : ~ (i < state')
    BY <1>1, <1>2 DEF TypeOK, Pos
  <2>2. state' \in Pos
    BY <1>1 DEF Pos
  <2>. QED
    BY <2>1, <2>2, <1>1, <1>2, <1>3, <1>7, <1>9, <1>10 DEF TypeOK, N
<1>14. StreamOK'
  BY <1>1, <1>4, <1>7, StreamAdvances
<1>15. InSync'
  <2>1. NextIn[2] \in Nat /\ NextIn[2] # 0
    BY <1>1, <1>4, SMTT(30)
  <2>2. NextIn'[2] # 1
    BY <2>1, <1>3 DEF Follows
  <2>. QED
    BY <2>2 DEF InSync
<1>. QED
  BY <1>1, <1>2, <1>8, <1>9, <1>12, <1>13, <1>14, <1>15, SenderStill
     DEF IInv, BootsComplete, SentMeansBooted, N

LEMMA StepReceive == IInv /\ AllPlain /\ Receive => IInv'
<1> SUFFICES ASSUME IInv, AllPlain, Receive PROVE IInv'
  OBVIOUS
<1> USE Facts
<1> DEFINE v == ValueOf(NextIn)
<1>1. /\ TypeOK /\ StreamOK /\ InSync /\ rpc = "loop" /\ state \in Nat
      /\ state < PacketSize /\ crc \in Nat /\ SOH \in Nat /\ SOH # EOT
      /\ \A w \in Byte : w \in Nat
      /\ ByteMod \in Nat /\ ByteMod > 4
  BY XModemAssumption DEF IInv, TypeOK, Receive, Pos, Byte
<1>2. /\ NextIn = Head(u2p) /\ NextIn \in (1 .. N + 1) \X Pos
      /\ NextIn[1] = N + 1 => NextIn[2] = 0 /\ v = EOT
      /\ NextIn[1] # N + 1 => NextIn[1] <= N
      /\ Len(mem) <= NextIn[1] /\ NextIn[1] <= blk
      /\ NextIn[1] \in Nat /\ NextIn[2] \in Nat /\ NextIn[2] < PacketSize
  BY <1>1, LineAdvances, Values, SMTT(30) DEF Pos
<1>3. /\ state # 0 => NextIn[2] = state /\ NextIn[1] <= N
      /\ state = 0 => NextIn[2] # 1
      /\ state >= 2 => NextIn[1] = Len(mem) + 1
  BY <1>1, <1>2 DEF InSync
<1>4. /\ NextIn[1] <= N /\ NextIn[2] < PacketSize - 1 => v \in Byte
      /\ NextIn[1] <= N /\ NextIn[2] = 0 => v = SOH
      /\ NextIn[1] <= N /\ NextIn[2] = 1 => v = NextIn[1] % ByteMod
      /\ NextIn[1] <= N /\ NextIn[2] >= 2 => v \notin {SOH, EOT}
      /\ NextIn[1] <= N /\ NextIn[2] \in 3 .. PAYLOAD_SZ + 2 =>
           v = image[NextIn[1]][NextIn[2] - 2]
  BY Values
<1>5. \/ RecvStart(v) \/ RecvBlockNumber(v) \/ RecvComplement(v)
      \/ RecvPayload(v) \/ RecvChecksum(v)
  BY <1>2 DEF Receive
<1> HIDE DEF v
<1>6. CASE RecvStart(v)
  <2>1. CASE v = EOT
    <3>1. NextIn[1] = N + 1
      <4> SUFFICES ASSUME NextIn[1] <= N PROVE FALSE
        BY <1>2
      <4>1. v # SOH /\ NextIn[2] # 1 /\ ~ (NextIn[2] >= 2)
        BY <2>1, <1>1, <1>3, <1>4, <1>6 DEF RecvStart
      <4>. QED
        BY <4>1, <1>2, <1>4
    <3>. QED
      BY <2>1, <3>1, <1>1, <1>6, StepBoot DEF RecvStart
  <2>2. CASE v = SOH
    <3>1. NextIn[1] <= N /\ NextIn[2] = 0
      BY <2>2, <1>1, <1>2, <1>3, <1>4, <1>6, SMTT(30) DEF RecvStart
    <3>2. /\ state = 0 /\ state' = state + 1 /\ crc' \in Nat
          /\ UNCHANGED <<p2u, rpc, block, mem>>
      BY <2>2, <1>1, <1>6 DEF RecvStart, Accept
    <3>3. v \in Byte
      BY <3>1, <1>1, <1>4
    <3>. QED
      BY <3>1, <3>2, <3>3, <1>1, StepAccept DEF v
  <2>3. CASE v \notin {SOH, EOT}
    <3>1. NextIn[1] <= N /\ NextIn[2] # 0
      BY <2>3, <1>2, <1>4
    <3>. QED
      BY <2>3, <3>1, <1>1, <1>6, StepReject DEF RecvStart, Reject
  <2>. QED
    BY <2>1, <2>2, <2>3
<1>7. CASE RecvBlockNumber(v)
  <2>1. state = 1 /\ NextIn[2] = 1 /\ NextIn[1] <= N /\ v \in Byte
    BY <1>1, <1>3, <1>4, <1>7 DEF RecvBlockNumber
  <2>2. CASE v = block
    <3>1. NextIn[1] = Len(mem) + 1
      <4>1. v = NextIn[1] % ByteMod
        BY <2>1, <1>4
      <4>2. block = (Len(mem) + 1) % ByteMod
        BY DEF IInv, CountersAgree
      <4>3. Len(mem) % ByteMod # (Len(mem) + 1) % ByteMod
        <5>1. Len(mem) \in Nat /\ ByteMod \in Nat /\ ByteMod > 1
          BY <1>1
        <5>. QED
          BY <5>1, NextDiffers
      <4>4. NextIn[1] # Len(mem)
        BY <4>1, <4>2, <4>3, <2>2
      <4>. QED
        BY <4>4, <1>1, <1>2, Window
    <3>2. /\ state' = state + 1 /\ crc' = crc + v
          /\ UNCHANGED <<p2u, rpc, block, mem>>
      BY <2>2, <1>7 DEF RecvBlockNumber, Accept
    <3>. QED
      BY <2>1, <2>2, <3>1, <3>2, <1>1, StepAccept DEF v
  <2>3. CASE v # block
    BY <2>1, <2>3, <1>1, <1>7, StepReject DEF RecvBlockNumber, Reject
  <2>. QED
    BY <2>2, <2>3
<1>8. CASE RecvComplement(v)
  <2>1. state = 2 /\ NextIn[2] = 2 /\ NextIn[1] <= N /\ v \in Byte
        /\ NextIn[1] = Len(mem) + 1
    BY <1>1, <1>3, <1>4, <1>8 DEF RecvComplement
  <2>2. CASE v = (ByteMod - 1) - xstring[1]
    <3>1. /\ state' = state + 1 /\ crc' = crc + v
          /\ UNCHANGED <<p2u, rpc, block, mem>>
      BY <2>2, <1>8 DEF RecvComplement, Accept
    <3>. QED
      BY <2>1, <3>1, <1>1, StepAccept DEF v
  <2>3. CASE v # (ByteMod - 1) - xstring[1]
    BY <2>1, <2>3, <1>1, <1>8, StepReject DEF RecvComplement, Reject
  <2>. QED
    BY <2>2, <2>3
<1>9. CASE RecvPayload(v)
  <2>1. /\ state \in 3 .. PAYLOAD_SZ + 2 /\ state' = state + 1 /\ crc' = crc + v
        /\ UNCHANGED <<p2u, rpc, block, mem>>
    BY <1>9 DEF RecvPayload, Accept
  <2>2. /\ NextIn[2] = state /\ NextIn[1] <= N /\ v \in Byte
        /\ NextIn[1] = Len(mem) + 1 /\ v = image[NextIn[1]][state - 2]
    <3>1. NextIn[2] = state /\ NextIn[1] <= N /\ NextIn[1] = Len(mem) + 1
      BY <2>1, <1>1, <1>3
    <3>2. state < PacketSize - 1
      BY <2>1, <1>1
    <3>. QED
      BY <2>1, <3>1, <3>2, <1>4
  <2>3. state < PacketSize - 1 /\ crc' \in Nat /\ state # 1
    <3>1. v \in Nat
      BY <2>2 DEF Byte
    <3>. QED
      BY <2>1, <3>1, <1>1
  <2>. QED
    BY <2>1, <2>2, <2>3, StepAccept DEF v
<1>10. CASE RecvChecksum(v)
  <2>1. /\ state = PacketSize - 1 /\ state' = 0 /\ UNCHANGED rpc
        /\ NextIn[2] # 0 /\ NextIn[1] <= N
    BY <1>1, <1>3, <1>10, SMTT(30) DEF RecvChecksum
  <2>2. crc' \in Nat
    BY <1>1, <1>10 DEF RecvChecksum
  <2>3. CASE v = crc'
    BY <2>1, <2>2, <2>3, <1>10, StepStore DEF RecvChecksum
  <2>4. CASE v # crc'
    BY <2>1, <2>2, <2>4, <1>10, StepReject DEF RecvChecksum
  <2>. QED
    BY <2>3, <2>4
<1>. QED
  BY <1>5, <1>6, <1>7, <1>8, <1>9, <1>10

LEMMA NextIInv == AllPlain /\ IInv /\ [Next]_vars => IInv'
<1> SUFFICES ASSUME AllPlain, IInv, [Next]_vars PROVE IInv'
  OBVIOUS
<1>1. CASE SendByte
  BY <1>1, StepOut DEF SendByte
<1>2. CASE SendEOT
  BY <1>2, StepOut DEF SendEOT
<1>3. CASE UNCHANGED vars
  <2>1. /\ UNCHANGED <<image, spc, blk, pos, u2p, p2u>>
        /\ UNCHANGED <<rpc, state, xstring, crc, block, mem, naks>>
    BY <1>3 DEF vars, sender, receiver
  <2>2. TypeOK'
    BY <2>1 DEF IInv, TypeOK, N
  <2>3. StreamOK'
    BY <2>1 DEF IInv, StreamOK, N
  <2>4. InSync' /\ SenderOK' /\ AckOK'
    BY <2>1 DEF IInv, InSync, SenderOK, AckOK, NextIn, N
  <2>. QED
    BY <2>1, <2>2, <2>3, <2>4 DEF IInv, LoadsPrefix, CountersAgree, BootsComplete,
       SentMeansBooted, N
<1>. QED
  BY <1>1, <1>2, <1>3, StepDrainByte, StepDrainEnd, StepReadReply, StepReadEOTReply,
     StepGetByteTimeout, StepReceive, StepTimerNak
     DEF Next, Sender, Finished

-----------------------------------------------------------------------------
(***************************************************************************)
(* The theorems.                                                           *)
(***************************************************************************)
LEMMA Invariant == AllPlain /\ Spec => []IInv
<1> SUFFICES ASSUME AllPlain PROVE Spec => []IInv
  OBVIOUS
<1>1. IInv /\ [Next]_vars => IInv'
  BY NextIInv
<1>. QED
  BY InitIInv, <1>1, PTL DEF Spec

\* Every variable of the two programs keeps its type.
THEOREM TypeCorrect == AllPlain /\ Spec => []TypeOK
<1>1. IInv => TypeOK
  BY DEF IInv
<1>. QED
  BY Invariant, <1>1, PTL

\* Memory holds the first blocks of the program, in order, at every moment.
THEOREM LoadsInOrder == AllPlain /\ Spec => []LoadsPrefix
<1>1. IInv => LoadsPrefix
  BY DEF IInv
<1>. QED
  BY Invariant, <1>1, PTL

\* The receiver never branches into a program that is not all there.
THEOREM NeverBootsEarly == AllPlain /\ Spec => []BootsComplete
<1>1. IInv => BootsComplete
  BY DEF IInv
<1>. QED
  BY Invariant, <1>1, PTL

\* The three together: what the receiver holds is the program as far as it came.
THEOREM LoadIsSound == AllPlain /\ Spec => []LoadsSoundly
<1>1. TypeOK /\ LoadsPrefix /\ BootsComplete => LoadsSoundly
  BY DEF LoadsSoundly
<1>. QED
  BY <1>1, TypeCorrect, LoadsInOrder, NeverBootsEarly, PTL

\* The two block counters stay within one of each other, through every wrap.
THEOREM CountersStayClose == AllPlain /\ Spec => []CountersAgree
<1>1. IInv => CountersAgree
  BY DEF IInv
<1>. QED
  BY Invariant, <1>1, PTL

\* The sender reports success only for a program that runs.
THEOREM ReportIsTrue == AllPlain /\ Spec => []SentMeansBooted
<1>1. IInv => SentMeansBooted
  BY DEF IInv
<1>. QED
  BY Invariant, <1>1, PTL

-----------------------------------------------------------------------------
(***************************************************************************)
(* The two programs implement ImageTransfer: IInv before and after a step  *)
(* says which abstract step it is.                                         *)
(***************************************************************************)
LEMMA StepsTransfer ==
  ASSUME IInv, IInv', [Next]_vars
  PROVE  [Transfer!Next]_(Transfer!vars)
<1>1. /\ mem \in Seq(Payload) /\ image \in Seq(Payload) /\ Len(mem) \in Nat
      /\ Len(image) \in Nat
  BY XModemAssumption, SMTT(30) DEF IInv, TypeOK
<1>2. CASE Receive
  <2>1. image' = image /\ spc' = spc /\ rpc = "loop"
    BY <1>2 DEF Receive, sender
  <2>2. CASE mem' # mem
    <3>1. rpc' = rpc /\ mem' = Append(mem, Received)
      BY <1>2, <2>2 DEF Receive, RecvStart, RecvBlockNumber, RecvComplement,
         RecvPayload, RecvChecksum, Accept, Reject
    <3>2. Len(mem') = Len(mem) + 1 /\ mem'[Len(mem) + 1] = Received
      BY <1>1, <3>1
    <3>3. Len(mem) + 1 <= Len(image) /\ Received = image[Len(mem) + 1]
      BY <1>1, <2>1, <3>2 DEF IInv, LoadsPrefix, N
    <3>4. Transfer!Deliver
      BY <1>1, <2>1, <3>1, <3>3 DEF Transfer!Deliver
    <3>. QED
      BY <3>4 DEF Transfer!Next
  <2>3. CASE mem' = mem /\ rpc' = rpc
    BY <2>1, <2>3 DEF Transfer!vars
  <2>4. CASE mem' = mem /\ rpc' # rpc
    <3>1. rpc' = "booted" /\ mem = image
      BY <2>1, <2>4 DEF IInv, TypeOK, BootsComplete
    <3>. QED
      BY <2>1, <2>4, <3>1 DEF Transfer!Start, Transfer!Next
  <2>. QED
    BY <2>2, <2>3, <2>4
<1>3. CASE ReadEOTReply
  <2>1. UNCHANGED <<image, mem, rpc>> /\ spc = "eot" /\ spc' \in {"done", "panic"}
    BY <1>3 DEF ReadEOTReply, receiver
  <2>2. CASE spc' = "done"
    BY <2>1, <2>2 DEF IInv, SentMeansBooted, Transfer!Report, Transfer!Next
  <2>3. CASE spc' = "panic"
    BY <2>1, <2>3 DEF Transfer!vars
  <2>. QED
    BY <2>1, <2>2, <2>3
<1>4. CASE \/ DrainByte \/ DrainEnd \/ SendByte \/ ReadReply \/ SendEOT
           \/ GetByteTimeout \/ TimerNak \/ UNCHANGED vars
  <2>1. UNCHANGED <<image, mem, rpc>> /\ (spc' = "done" <=> spc = "done")
    BY <1>4 DEF DrainByte, DrainEnd, SendByte, ReadReply, SendEOT, GetByteTimeout,
       TimerNak, vars, sender, receiver
  <2>. QED
    BY <2>1 DEF Transfer!vars
<1>. QED
  BY <1>2, <1>3, <1>4 DEF Next, Sender, Finished

\* For plain images the sender and the receiver, with the line between them,
\* implement the abstract transfer.
THEOREM ImplementsTransfer == AllPlain /\ Spec => Implements
<1> SUFFICES ASSUME AllPlain PROVE Spec => Implements
  OBVIOUS
<1>1. Init => Transfer!Init
  BY DEF Init, Transfer!Init
<1>2. IInv /\ IInv' /\ [Next]_vars => [Transfer!Next]_(Transfer!vars)
  BY StepsTransfer
<1>3. Spec => []IInv
  BY Invariant
<1>. QED
  BY <1>1, <1>2, <1>3, PTL DEF Spec, Implements, Transfer!Spec

-----------------------------------------------------------------------------
(***************************************************************************)
(* When no timer fires late the two programs move in lockstep, and images  *)
(* need not be plain: whatever bytes a block holds, the receiver stands at *)
(* the byte it takes it for, so no payload is read as a command.           *)
(***************************************************************************)
\* The receiver's timer fires only before the sender has drained the line, and reads
\* do not time out while bytes are on their way.
Timely == LateNaks = FALSE /\ Prompt = TRUE

\* What the receiver has of the packet it is reading; images need not be plain.
PacketSoFar ==
  /\ block = (Len(mem) + 1) % ByteMod
  /\ state >= 2 => xstring[1] = block
  /\ \A i \in 3 .. PAYLOAD_SZ + 2 : i < state => xstring[i] = image[Len(mem) + 1][i - 2]

\* The bytes of the block being sent are in flight, the ones before them read.
UnderWay ==
  /\ rpc = "loop" /\ p2u = <<>> /\ Len(mem) = blk - 1
  /\ pos = state + Len(u2p)
  /\ \A i \in 1 .. Len(u2p) : u2p[i] = <<blk, state + i - 1>>

\* The whole block was read and r is on its way back.
Answered(r) == u2p = <<>> /\ state = 0 /\ p2u = <<r>>

Quiet == u2p = <<>> /\ p2u = <<>> /\ state = 0

Lockstep ==
  /\ spc = "flush" => rpc = "loop" /\ blk = 1 /\ pos = 0 /\ u2p = <<>> /\ state = 0 /\ mem = <<>>
  /\ spc = "send" => UnderWay /\ pos < PacketSize /\ (blk = N + 1 => pos = 0)
  /\ spc = "reply" =>
       /\ blk <= N
       /\ \/ UnderWay /\ pos = PacketSize
          \/ rpc = "loop" /\ Answered(ACK) /\ Len(mem) = blk
          \/ rpc = "loop" /\ Answered(NAK) /\ Len(mem) = blk - 1
  /\ spc = "drain" => rpc = "loop" /\ Quiet /\ blk <= N /\ Len(mem) = blk - 1
  /\ spc = "eot" =>
       /\ blk = N + 1 /\ Len(mem) = N
       /\ \/ UnderWay /\ state = 0 /\ pos = 1
          \/ rpc = "booted" /\ Answered(ACK)
  /\ spc = "done" => rpc = "booted" /\ Quiet /\ Len(mem) = N
  /\ spc # "panic"

TimelyInv == TypeOK /\ LoadsPrefix /\ PacketSoFar /\ Lockstep

LEMMA InitTimely == Init => TimelyInv
<1> USE XModemAssumption
<1> SUFFICES ASSUME Init PROVE TimelyInv
  OBVIOUS
<1>1. TypeOK /\ LoadsPrefix
  BY InitIInv DEF IInv
<1>2. PacketSoFar /\ Lockstep
  BY DEF Init, PacketSoFar, Lockstep
<1>. QED
  BY <1>1, <1>2 DEF TimelyInv

\* The sender takes no byte that the receiver looks at.
LEMMA SenderKeepsPacket ==
  ASSUME LoadsPrefix, PacketSoFar, UNCHANGED <<image, receiver>>
  PROVE  LoadsPrefix' /\ PacketSoFar'
  BY DEF LoadsPrefix, PacketSoFar, receiver, N

LEMMA TimelyDrain == TimelyInv /\ (DrainByte \/ DrainEnd) => TimelyInv'
<1> SUFFICES ASSUME TimelyInv, DrainByte \/ DrainEnd PROVE TimelyInv'
  OBVIOUS
<1>1. TypeOK /\ Lockstep /\ LoadsPrefix /\ PacketSoFar
  BY DEF TimelyInv
<1> USE Facts DEF receiver, sender
<1>2. UNCHANGED <<image, blk, u2p, receiver, naks>>
  BY DEF DrainByte, DrainEnd
<1>3. CASE DrainByte
  <2>1. spc = "flush" /\ p2u # <<>> /\ p2u \in Seq(Byte)
    BY <1>1, <1>3 DEF DrainByte, Lockstep, Quiet, TypeOK
  <2>2. p2u' \in Seq(Byte) /\ spc' = spc /\ pos' = pos
    BY <2>1, <1>3, HeadAndTail DEF DrainByte
  <2>3. TypeOK'
    BY <2>2, <1>1, <1>2 DEF TypeOK, N
  <2>. QED
    BY <2>1, <2>2, <2>3, <1>1, <1>2, SenderKeepsPacket DEF TimelyInv, Lockstep
<1>4. CASE DrainEnd
  <2>1. spc' = "send" /\ pos' = 0 /\ p2u' = p2u /\ p2u = <<>>
    BY <1>4 DEF DrainEnd, ReadTimesOut
  <2>2. rpc = "loop" /\ u2p = <<>> /\ state = 0 /\ Len(mem) = blk - 1
    BY <1>1, <1>4 DEF DrainEnd, Lockstep, Quiet
  <2>3. TypeOK'
    BY <2>1, <1>1, <1>2 DEF TypeOK, N
  <2>4. UnderWay' /\ pos' < PacketSize
    BY <2>1, <2>2, <1>1, <1>2 DEF UnderWay
  <2>. QED
    BY <2>1, <2>3, <2>4, <1>1, <1>2, SenderKeepsPacket DEF TimelyInv, Lockstep
<1>. QED
  BY <1>3, <1>4

LEMMA TimelySend == TimelyInv /\ (SendByte \/ SendEOT) => TimelyInv'
<1> SUFFICES ASSUME TimelyInv, SendByte \/ SendEOT PROVE TimelyInv'
  OBVIOUS
<1>1. TypeOK /\ Lockstep /\ LoadsPrefix /\ PacketSoFar
  BY DEF TimelyInv
<1> USE Facts DEF receiver, sender
<1> DEFINE e == <<blk, pos>>
<1>2. /\ UNCHANGED <<image, blk, p2u, receiver, naks>> /\ spc = "send"
      /\ u2p' = Append(u2p, e) /\ pos' = pos + 1
  BY DEF SendByte, SendEOT
<1>3. /\ UnderWay /\ pos < PacketSize /\ (blk = N + 1 => pos = 0)
      /\ u2p \in Seq((1 .. N + 1) \X Pos) /\ blk \in 1 .. N + 1 /\ state \in Nat
      /\ pos \in Nat /\ Len(u2p) \in Nat
  BY <1>1, <1>2 DEF Lockstep, TypeOK, Pos
<1>4. e \in (1 .. N + 1) \X Pos
  BY <1>1, <1>3 DEF Pos
<1> HIDE DEF e
<1>5. /\ u2p' \in Seq((1 .. N + 1) \X Pos) /\ Len(u2p') = Len(u2p) + 1
      /\ \A i \in 1 .. Len(u2p) : u2p'[i] = u2p[i]
      /\ u2p'[Len(u2p) + 1] = e
  BY <1>2, <1>3, <1>4, Appended
<1>6. UnderWay'
  <2>1. rpc' = "loop" /\ p2u' = <<>> /\ Len(mem') = blk' - 1 /\ pos' = state' + Len(u2p')
    BY <1>1, <1>2, <1>3, <1>5 DEF UnderWay
  <2>2. ASSUME NEW i \in 1 .. Len(u2p') PROVE u2p'[i] = <<blk', state' + i - 1>>
    <3>1. CASE i = Len(u2p) + 1
      <4>1. pos = state + i - 1
        BY <3>1, <1>3 DEF UnderWay
      <4>. QED
        BY <4>1, <3>1, <1>2, <1>5 DEF e
    <3>2. CASE i # Len(u2p) + 1
      <4>1. i \in 1 .. Len(u2p) /\ u2p'[i] = u2p[i]
        BY <3>2, <1>3, <1>5
      <4>2. u2p[i] = <<blk, state + i - 1>>
        BY <4>1, <1>3 DEF UnderWay
      <4>. QED
        BY <4>1, <4>2, <1>2
    <3>. QED
      BY <3>1, <3>2
  <2>. QED
    BY <2>1, <2>2 DEF UnderWay
<1>7. spc' \in {"send", "reply", "eot"} /\ pos' \in 0 .. PacketSize
  <2>1. pos' \in 0 .. PacketSize
    BY <1>1, <1>2, <1>3
  <2>. QED
    BY <2>1 DEF SendByte, SendEOT
<1>8. TypeOK'
  BY <1>1, <1>2, <1>5, <1>7 DEF TypeOK, N
<1>9. Lockstep'
  <2>1. CASE SendByte
    BY <2>1, <1>1, <1>2, <1>3, <1>6 DEF SendByte, Lockstep, N
  <2>2. CASE SendEOT
    <3>1. spc' = "eot" /\ blk' = N' + 1 /\ pos' = 1 /\ Len(mem') = N'
      BY <2>2, <1>1, <1>2, <1>3 DEF SendEOT, UnderWay, N
    <3>2. state' = 0
      BY <3>1, <1>1, <1>2, <1>3, <1>5 DEF UnderWay
    <3>. QED
      BY <3>1, <3>2, <1>6 DEF Lockstep
  <2>. QED
    BY <2>1, <2>2
<1>. QED
  BY <1>1, <1>2, <1>8, <1>9, SenderKeepsPacket DEF TimelyInv

\* The one reply that there is answers the block that was sent.
LEMMA TimelyReply == TimelyInv /\ (ReadReply \/ ReadEOTReply) => TimelyInv'
<1> SUFFICES ASSUME TimelyInv, ReadReply \/ ReadEOTReply PROVE TimelyInv'
  OBVIOUS
<1>1. TypeOK /\ Lockstep /\ LoadsPrefix /\ PacketSoFar
  BY DEF TimelyInv
<1> USE Facts DEF receiver, sender
<1>2. /\ UNCHANGED <<image, u2p, receiver, naks>> /\ p2u # <<>> /\ p2u' = Tail(p2u)
      /\ ACK # NAK
  BY XModemAssumption DEF ReadReply, ReadEOTReply
<1>3. PICK r \in {ACK, NAK} : Answered(r)
  BY <1>1, <1>2 DEF ReadReply, ReadEOTReply, Lockstep, UnderWay
<1>4. Head(p2u) = r /\ p2u' = <<>> /\ u2p = <<>> /\ state = 0
  BY <1>2, <1>3 DEF Answered
<1>5. p2u' \in Seq(Byte)
  BY <1>4
<1>6. CASE ReadReply /\ r = ACK
  <2>1. spc' = "send" /\ blk' = blk + 1 /\ pos' = 0 /\ blk <= N
    BY <1>1, <1>2, <1>4, <1>6 DEF ReadReply, IsAck, Lockstep
  <2>2. rpc = "loop" /\ Len(mem) = blk
    BY <1>1, <1>2, <1>3, <1>6 DEF ReadReply, Lockstep, UnderWay, Answered
  <2>3. TypeOK'
    BY <2>1, <1>1, <1>2, <1>5 DEF TypeOK, N
  <2>4. UnderWay'
    BY <2>1, <2>2, <1>1, <1>2, <1>4 DEF UnderWay
  <2>. QED
    BY <2>1, <2>3, <2>4, <1>1, <1>2, SenderKeepsPacket DEF TimelyInv, Lockstep
<1>7. CASE ReadReply /\ r = NAK
  <2>1. spc' = "drain" /\ blk' = blk /\ pos' = pos /\ blk <= N
    BY <1>1, <1>2, <1>4, <1>7 DEF ReadReply, IsAck, Lockstep
  <2>2. rpc = "loop" /\ Len(mem) = blk - 1
    BY <1>1, <1>2, <1>3, <1>7 DEF ReadReply, Lockstep, UnderWay, Answered
  <2>3. TypeOK'
    BY <2>1, <1>1, <1>2, <1>5 DEF TypeOK, N
  <2>. QED
    BY <2>1, <2>2, <2>3, <1>1, <1>2, <1>4, SenderKeepsPacket
       DEF TimelyInv, Lockstep, Quiet, N
<1>8. CASE ReadEOTReply
  <2>1. rpc = "booted" /\ r = ACK /\ Len(mem) = N
    BY <1>1, <1>2, <1>3, <1>8 DEF ReadEOTReply, Lockstep, UnderWay, Answered
  <2>2. spc' = "done" /\ UNCHANGED <<blk, pos>>
    BY <2>1, <1>4, <1>8 DEF ReadEOTReply, IsAck
  <2>3. TypeOK'
    BY <2>2, <1>1, <1>2, <1>5 DEF TypeOK, N
  <2>. QED
    BY <2>1, <2>2, <2>3, <1>1, <1>2, <1>4, SenderKeepsPacket
       DEF TimelyInv, Lockstep, Quiet, N
<1>. QED
  BY <1>6, <1>7, <1>8

\* The sender always hears within the second.
LEMMA TimelyNeverTimesOut == Timely /\ TimelyInv => ~ GetByteTimeout
<1> SUFFICES ASSUME Timely, TimelyInv, GetByteTimeout PROVE FALSE
  OBVIOUS
<1>1. TypeOK /\ Lockstep
  BY DEF TimelyInv
<1>2. p2u = <<>> /\ (u2p = <<>> \/ rpc = "booted") /\ spc \in {"reply", "eot"}
  BY DEF Timely, GetByteTimeout, ReadTimesOut
<1>3. UnderWay /\ (pos = PacketSize \/ (state = 0 /\ pos = 1))
  BY <1>1, <1>2 DEF Lockstep, Answered
<1>4. u2p = <<>> /\ state \in Nat
  BY <1>1, <1>2, <1>3, Facts DEF UnderWay, TypeOK, Pos
<1>5. pos = state
  <2>1. pos = state + Len(u2p) /\ Len(u2p) = 0
    BY <1>3, <1>4 DEF UnderWay
  <2>. QED
    BY <2>1, <1>4
<1>. QED
  BY <1>1, <1>3, <1>5, Facts DEF TypeOK, Pos

LEMMA TimelyTimerNak == Timely /\ TimelyInv /\ TimerNak => TimelyInv'
<1> SUFFICES ASSUME Timely, TimelyInv, TimerNak PROVE TimelyInv'
  OBVIOUS
<1>1. TypeOK /\ Lockstep /\ LoadsPrefix /\ PacketSoFar
  BY DEF TimelyInv
<1> USE DEF receiver, sender
<1>2. /\ spc = "flush" /\ UNCHANGED <<sender, u2p, receiver>> /\ p2u' = Append(p2u, NAK)
      /\ naks' \in 0 .. MaxNaks
  BY <1>1, XModemAssumption DEF Timely, TimerNak, TypeOK
<1>3. p2u' \in Seq(Byte)
  BY <1>1, <1>2, XModemAssumption, Appended DEF TypeOK
<1>4. TypeOK'
  BY <1>1, <1>2, <1>3 DEF TypeOK, N
<1>. QED
  BY <1>1, <1>2, <1>4, SenderKeepsPacket DEF TimelyInv, Lockstep

\* The byte that is read is the one the receiver stands at.
LEMMA TimelyByte ==
  ASSUME TimelyInv, Receive
  PROVE  /\ UnderWay /\ Head(u2p) = <<blk, state>> /\ Len(u2p) \in Nat \ {0}
         /\ state < pos /\ pos <= PacketSize
         /\ \/ spc = "send" /\ pos < PacketSize /\ blk <= N
            \/ spc = "reply" /\ pos = PacketSize /\ blk <= N
            \/ spc = "eot" /\ state = 0 /\ pos = 1 /\ blk = N + 1 /\ Len(mem) = N
         /\ u2p' \in Seq((1 .. N + 1) \X Pos) /\ Len(u2p') = Len(u2p) - 1
         /\ \A i \in 1 .. Len(u2p') : u2p'[i] = <<blk, state + i>>
<1>1. TypeOK /\ Lockstep /\ u2p # <<>> /\ rpc = "loop" /\ u2p' = Tail(u2p)
  BY DEF TimelyInv, Receive
<1> USE Facts
<1>2. /\ Len(u2p) \in Nat \ {0} /\ Head(u2p) = u2p[1] /\ u2p' \in Seq((1 .. N + 1) \X Pos)
      /\ Len(u2p') = Len(u2p) - 1 /\ \A i \in 1 .. Len(u2p) - 1 : u2p'[i] = u2p[i + 1]
  BY <1>1, HeadAndTail DEF TypeOK
<1>3. blk \in 1 .. N + 1 /\ state \in Nat /\ blk \in Nat /\ pos \in Nat
  BY <1>1 DEF TypeOK, Pos
<1>4. /\ UnderWay
      /\ \/ spc = "send" /\ pos < PacketSize /\ (blk = N + 1 => pos = 0)
         \/ spc = "reply" /\ pos = PacketSize /\ blk <= N
         \/ spc = "eot" /\ state = 0 /\ pos = 1 /\ blk = N + 1 /\ Len(mem) = N
  <2>1. spc \in {"send", "reply", "eot"}
    BY <1>1 DEF TypeOK, Lockstep, Quiet
  <2>. QED
    BY <2>1, <1>1 DEF Lockstep, Answered
<1>5. pos = state + Len(u2p) /\ \A i \in 1 .. Len(u2p) : u2p[i] = <<blk, state + i - 1>>
  BY <1>4 DEF UnderWay
<1>6. Head(u2p) = <<blk, state>> /\ state < pos
  BY <1>2, <1>3, <1>5
<1>7. pos <= PacketSize /\ (spc = "send" => blk <= N)
  BY <1>1, <1>3, <1>4, <1>6
<1>8. ASSUME NEW i \in 1 .. Len(u2p') PROVE u2p'[i] = <<blk, state + i>>
  <2>1. i + 1 \in 1 .. Len(u2p) /\ u2p'[i] = u2p[i + 1] /\ state + (i + 1) - 1 = state + i
    BY <1>2, <1>3
  <2>. QED
    BY <2>1, <1>5
<1>. QED
  BY <1>2, <1>4, <1>6, <1>7, <1>8

\* What it stands for, whatever the image.
LEMMA TimelyValue ==
  ASSUME TypeOK, blk \in 1 .. N, NEW i \in Pos
  PROVE  LET v == ValueOf(<<blk, i>>) IN
         /\ i = 0 => v = SOH
         /\ i = 1 => v = blk % ByteMod
         /\ i = 2 => v = (ByteMod - 1) - (blk % ByteMod)
         /\ i \in 3 .. PAYLOAD_SZ + 2 => v = image[blk][i - 2]
         /\ i < PacketSize - 1 => v \in Byte
<1> USE Facts
<1>1. image \in Seq(Payload) /\ ByteMod \in Nat /\ ByteMod > 4 /\ SOH \in Byte
  BY XModemAssumption DEF TypeOK
<1>2. blk % ByteMod \in Byte /\ image[blk] \in Payload
  BY <1>1 DEF Byte, N
<1>3. ValueOf(<<blk, i>>) = PacketByte(image, blk, i)
  BY DEF ValueOf
<1>4. i = 0 => PacketByte(image, blk, i) = SOH
  BY DEF PacketByte
<1>5. i = 1 => PacketByte(image, blk, i) = blk % ByteMod
  BY DEF PacketByte
<1>6. i = 2 => PacketByte(image, blk, i) = (ByteMod - 1) - (blk % ByteMod)
               /\ (ByteMod - 1) - (blk % ByteMod) \in Byte
  BY <1>1, <1>2, SMTT(30) DEF PacketByte, Byte
<1>7. i \in 3 .. PAYLOAD_SZ + 2 =>
        PacketByte(image, blk, i) = image[blk][i - 2] /\ image[blk][i - 2] \in Byte
  <2> SUFFICES ASSUME i \in 3 .. PAYLOAD_SZ + 2
               PROVE  PacketByte(image, blk, i) = image[blk][i - 2] /\ image[blk][i - 2] \in Byte
    OBVIOUS
  <2>1. i # 0 /\ i # 1 /\ i # 2 /\ i - 2 \in 1 .. PAYLOAD_SZ
    OBVIOUS
  <2>2. PacketByte(image, blk, i) = image[blk][i - 2]
    BY <2>1 DEF PacketByte
  <2>3. image[blk][i - 2] \in Byte
    BY <2>1, <1>2 DEF Payload
  <2>. QED
    BY <2>2, <2>3
<1>8. i < PacketSize - 1 => i \in {0, 1, 2} \/ i \in 3 .. PAYLOAD_SZ + 2
  BY SMTT(30) DEF Pos
<1>. QED
  BY <1>1, <1>2, <1>3, <1>4, <1>5, <1>6, <1>7, <1>8

\* A byte of the packet, its checksum apart: it is the one expected.
LEMMA TimelyAccept ==
  ASSUME TimelyInv, Receive, blk <= N, state < PacketSize - 1
  PROVE  TimelyInv'
<1>1. TypeOK /\ Lockstep /\ LoadsPrefix /\ PacketSoFar
  BY DEF TimelyInv
<1> USE Facts
<1> DEFINE v == ValueOf(Head(u2p))
<1>2. /\ Head(u2p) = <<blk, state>> /\ UnderWay /\ blk \in 1 .. N /\ state \in Pos
      /\ Len(mem) + 1 = blk /\ Len(mem) \in Nat
  <2>1. Head(u2p) = <<blk, state>> /\ UnderWay
    BY TimelyByte
  <2>2. Len(mem) = blk - 1
    BY <2>1 DEF UnderWay
  <2>3. blk \in 1 .. N /\ state \in Pos
    BY <1>1 DEF TypeOK
  <2>. QED
    BY <2>1, <2>2, <2>3, <1>1
<1>3. /\ state = 0 => v = SOH
      /\ state = 1 => v = blk % ByteMod
      /\ state = 2 => v = (ByteMod - 1) - (blk % ByteMod)
      /\ state \in 3 .. PAYLOAD_SZ + 2 => v = image[blk][state - 2]
      /\ v \in Byte
  BY <1>1, <1>2, TimelyValue
<1> HIDE DEF v
<1>4. /\ xstring' = [xstring EXCEPT ![state] = v] /\ UNCHANGED <<image, spc, blk, pos, naks>>
      /\ \/ RecvStart(v) \/ RecvBlockNumber(v) \/ RecvComplement(v)
         \/ RecvPayload(v) \/ RecvChecksum(v)
  BY DEF Receive, v, sender
<1>5. block = blk % ByteMod /\ (state >= 2 => xstring[1] = block)
  BY <1>1, <1>2 DEF PacketSoFar
<1>6. SOH # EOT /\ SOH \in Nat /\ Byte \subseteq Nat
  BY XModemAssumption DEF Byte
<1>7. /\ state' = state + 1 /\ UNCHANGED <<p2u, rpc, block, mem>>
      /\ crc' = SOH \/ crc' = crc + v
  <2>1. state = 0 \/ state = 1 \/ state = 2 \/ state \in 3 .. PAYLOAD_SZ + 2
    <3>1. state \in Nat /\ state < PAYLOAD_SZ + 3 /\ PAYLOAD_SZ \in Nat
      BY <1>1, <1>2 DEF Pos
    <3>. QED
      BY <3>1
  <2>2. CASE state = 0
    BY <2>2, <1>3, <1>4, <1>6 DEF RecvStart, RecvBlockNumber, RecvComplement,
       RecvPayload, RecvChecksum, Accept
  <2>3. CASE state = 1
    BY <2>3, <1>3, <1>4, <1>5 DEF RecvStart, RecvBlockNumber, RecvComplement,
       RecvPayload, RecvChecksum, Accept
  <2>4. CASE state = 2
    BY <2>4, <1>3, <1>4, <1>5 DEF RecvStart, RecvBlockNumber, RecvComplement,
       RecvPayload, RecvChecksum, Accept
  <2>5. CASE state \in 3 .. PAYLOAD_SZ + 2
    BY <2>5, <1>4 DEF RecvStart, RecvBlockNumber, RecvComplement,
       RecvPayload, RecvChecksum, Accept
  <2>. QED
    BY <2>1, <2>2, <2>3, <2>4, <2>5
<1>8. DOMAIN xstring' = Pos /\ state' \in Pos
      /\ \A i \in Pos : xstring'[i] = IF i = state THEN v ELSE xstring[i]
  <2>1. DOMAIN xstring = Pos
    BY <1>1 DEF TypeOK
  <2>2. state' \in Pos
    BY <1>1, <1>2, <1>7 DEF Pos
  <2>. QED
    BY <2>1, <2>2, <1>4
<1>9. TypeOK'
  <2>1. ASSUME NEW i \in Pos, i < state' PROVE xstring'[i] \in Byte
    <3>1. i = state \/ i < state
      BY <2>1, <1>2, <1>7 DEF Pos
    <3>2. i < state => xstring[i] \in Byte
      BY <1>1 DEF TypeOK
    <3>. QED
      BY <3>1, <3>2, <1>2, <1>3, <1>8
  <2>2. crc' \in Nat
    <3>1. crc \in Nat /\ v \in Nat
      BY <1>1, <1>3, <1>6 DEF TypeOK
    <3>. QED
      BY <3>1, <1>6, <1>7
  <2>. QED
    BY <2>1, <2>2, <1>1, <1>4, <1>7, <1>8, TimelyByte DEF TypeOK, N
<1>10. PacketSoFar'
  <2>0. 1 \in Pos /\ state \in Nat
    BY <1>1, <1>2 DEF Pos
  <2>1. state' >= 2 => xstring'[1] = block'
    <3>1. CASE state = 1
      BY <3>1, <2>0, <1>3, <1>5, <1>7, <1>8
    <3>2. CASE state # 1
      BY <3>2, <2>0, <1>5, <1>7, <1>8
    <3>. QED
      BY <3>1, <3>2
  <2>2. ASSUME NEW i \in 3 .. PAYLOAD_SZ + 2, i < state'
        PROVE  xstring'[i] = image'[Len(mem') + 1][i - 2]
    <3>1. i \in Pos
      BY <1>1 DEF Pos
    <3>2. CASE i = state
      BY <3>1, <3>2, <1>2, <1>3, <1>4, <1>7, <1>8
    <3>3. CASE i # state
      <4>1. i < state /\ xstring'[i] = xstring[i]
        BY <3>1, <3>3, <2>2, <1>2, <1>7, <1>8 DEF Pos
      <4>. QED
        BY <4>1, <1>1, <1>4, <1>7 DEF PacketSoFar
    <3>. QED
      BY <3>2, <3>3
  <2>. QED
    BY <2>1, <2>2, <1>1, <1>7 DEF PacketSoFar
<1>11. UnderWay'
  <2>1. /\ Len(u2p') = Len(u2p) - 1 /\ Len(u2p) \in Nat \ {0}
        /\ \A i \in 1 .. Len(u2p') : u2p'[i] = <<blk, state + i>>
    BY TimelyByte
  <2>2. state \in Nat /\ pos = state + Len(u2p) /\ pos' = pos
    BY <1>2, <1>4 DEF UnderWay, Pos
  <2>3. pos' = state' + Len(u2p')
    BY <2>1, <2>2, <1>7
  <2>4. \A i \in 1 .. Len(u2p') : u2p'[i] = <<blk', state' + i - 1>>
    BY <2>1, <2>2, <1>4, <1>7
  <2>. QED
    BY <2>3, <2>4, <1>2, <1>4, <1>7 DEF UnderWay
<1>12. Lockstep'
  <2>1. (spc = "send" /\ pos < PacketSize) \/ (spc = "reply" /\ pos = PacketSize)
    <3>1. blk # N + 1
      BY <1>1
    <3>. QED
      BY <3>1, TimelyByte
  <2>. QED
    BY <2>1, <1>1, <1>2, <1>4, <1>11 DEF Lockstep, N
<1>. QED
  BY <1>1, <1>4, <1>7, <1>9, <1>10, <1>12 DEF TimelyInv, LoadsPrefix, N

\* The checksum: the block is answered, and stored if the answer is an ACK.
LEMMA TimelyChecksum ==
  ASSUME TimelyInv, Receive, blk <= N, state = PacketSize - 1
  PROVE  TimelyInv'
<1>1. TypeOK /\ Lockstep /\ LoadsPrefix /\ PacketSoFar
  BY DEF TimelyInv
<1> USE Facts
<1> DEFINE v == ValueOf(Head(u2p))
<1>2. /\ UnderWay /\ blk \in 1 .. N /\ Len(mem) + 1 = blk /\ Len(mem) \in Nat
      /\ rpc = "loop" /\ p2u = <<>>
  <2>1. UnderWay
    BY TimelyByte
  <2>2. rpc = "loop" /\ p2u = <<>> /\ Len(mem) = blk - 1
    BY <2>1 DEF UnderWay
  <2>3. blk \in 1 .. N
    BY <1>1 DEF TypeOK
  <2>. QED
    BY <2>1, <2>2, <2>3, <1>1
<1>3. /\ spc = "reply" /\ pos = PacketSize /\ Len(u2p') = 0 /\ u2p' \in Seq((1 .. N + 1) \X Pos)
  <2>1. pos = state + Len(u2p)
    BY <1>2 DEF UnderWay
  <2>2. /\ Len(u2p) \in Nat \ {0} /\ pos <= PacketSize /\ state < pos
        /\ u2p' \in Seq((1 .. N + 1) \X Pos) /\ Len(u2p') = Len(u2p) - 1
        /\ blk # N + 1 => (spc = "send" /\ pos < PacketSize) \/ (spc = "reply" /\ pos = PacketSize)
    BY TimelyByte
  <2>3. pos = PacketSize /\ Len(u2p) = 1
    <3>1. PacketSize \in Nat /\ pos \in Nat
      BY <1>1
    <3>. QED
      BY <3>1, <2>1, <2>2
  <2>4. blk # N + 1
    BY <1>1
  <2>. QED
    BY <2>2, <2>3, <2>4, <1>1
<1>4. u2p' = <<>>
  BY <1>3
<1>5. /\ xstring' = [xstring EXCEPT ![state] = v] /\ UNCHANGED <<image, spc, blk, pos, naks>>
      /\ RecvChecksum(v)
  <2>1. state # 0 /\ state # 1 /\ state # 2 /\ state \notin 3 .. PAYLOAD_SZ + 2
    BY <1>1
  <2>. QED
    BY <2>1 DEF Receive, v, sender, RecvStart, RecvBlockNumber, RecvComplement, RecvPayload
<1> HIDE DEF v
<1>6. /\ image \in Seq(Payload) /\ mem \in Seq(Payload) /\ ByteMod \in Nat /\ ByteMod > 4
      /\ crc \in Nat /\ ACK \in Byte /\ NAK \in Byte
  BY <1>1, XModemAssumption DEF TypeOK
<1>7. crc' \in Nat /\ state' = 0 /\ 0 \in Pos /\ rpc' = rpc
  <2>1. 0 \in Pos
    BY <1>1 DEF Pos
  <2>. QED
    BY <2>1, <1>5, <1>6, SMTT(30) DEF RecvChecksum
<1>8. DOMAIN xstring' = Pos /\ \A i \in Pos : ~ (i < state')
  BY <1>1, <1>5, <1>7 DEF TypeOK, Pos
<1>9. CASE v = crc'
  <2>1. mem' = Append(mem, Received) /\ block' = NextBlock /\ p2u' = <<ACK>>
    BY <1>2, <1>5, <1>9 DEF RecvChecksum
  <2> DEFINE p == image[Len(mem) + 1]
  <2>2. p \in Payload /\ Received = p
    <3>1. p \in Payload
      BY <1>2, <1>6 DEF N
    <3>2. ASSUME NEW i \in 1 .. PAYLOAD_SZ PROVE xstring[i + 2] = p[i]
      <4>1. i + 2 \in 3 .. PAYLOAD_SZ + 2 /\ i + 2 < state /\ (i + 2) - 2 = i
        BY <1>1, SMTT(30)
      <4>. QED
        BY <4>1, <1>1 DEF PacketSoFar
    <3>3. Received = [i \in 1 .. PAYLOAD_SZ |-> p[i]]
      BY <3>2 DEF Received
    <3>. QED
      BY <3>1, <3>3 DEF Payload
  <2> HIDE DEF p
  <2>3. /\ mem' \in Seq(Payload) /\ Len(mem') = Len(mem) + 1
        /\ \A j \in 1 .. Len(mem) : mem'[j] = mem[j]
        /\ mem'[Len(mem) + 1] = p
    BY <2>1, <2>2, <1>6, Appended
  <2>4. LoadsPrefix'
    <3>1. \A j \in 1 .. Len(mem) : mem[j] = image[j]
      BY <1>1 DEF LoadsPrefix
    <3>2. ASSUME NEW j \in 1 .. Len(mem') PROVE mem'[j] = image[j]
      <4>1. CASE j = Len(mem) + 1
        BY <4>1, <2>3 DEF p
      <4>2. CASE j # Len(mem) + 1
        BY <4>2, <3>1, <2>3, <1>2
      <4>. QED
        BY <4>1, <4>2
    <3>. QED
      BY <3>2, <2>3, <1>2, <1>5 DEF LoadsPrefix, N
  <2>5. block' \in Byte /\ block' = (Len(mem') + 1) % ByteMod
    <3>1. block = (Len(mem) + 1) % ByteMod
      BY <1>1 DEF PacketSoFar
    <3>2. block' = (((Len(mem) + 1) % ByteMod) + 1) % ByteMod
      BY <3>1, <2>1 DEF NextBlock
    <3>3. block' = ((Len(mem) + 1) + 1) % ByteMod
      <4>1. Len(mem) + 1 \in Nat /\ ByteMod > 1
        BY <1>2, <1>6
      <4>. QED
        BY <4>1, <3>2, <1>6, ModPlusOne
    <3>. QED
      BY <3>3, <2>3, <1>2, <1>6, SMTT(30) DEF Byte
  <2>6. TypeOK'
    BY <2>1, <2>3, <2>5, <1>1, <1>3, <1>5, <1>6, <1>7, <1>8 DEF TypeOK, N
  <2>7. PacketSoFar'
    BY <2>5, <1>7 DEF PacketSoFar
  <2>8. Lockstep'
    BY <2>1, <2>3, <1>2, <1>3, <1>4, <1>5, <1>7 DEF Lockstep, Answered, N
  <2>. QED
    BY <2>4, <2>6, <2>7, <2>8 DEF TimelyInv
<1>10. CASE v # crc'
  <2>1. UNCHANGED <<mem, block>> /\ p2u' = <<NAK>>
    BY <1>2, <1>5, <1>10 DEF RecvChecksum
  <2>2. TypeOK'
    <3>1. p2u' \in Seq(Byte) /\ block \in Byte /\ state' \in Pos
      BY <2>1, <1>1, <1>6, <1>7 DEF TypeOK
    <3>. QED
      BY <3>1, <2>1, <1>1, <1>3, <1>5, <1>6, <1>7, <1>8 DEF TypeOK, N
  <2>3. PacketSoFar' /\ LoadsPrefix'
    BY <2>1, <1>1, <1>5, <1>7 DEF PacketSoFar, LoadsPrefix, N
  <2>4. Lockstep'
    BY <2>1, <1>2, <1>3, <1>4, <1>5, <1>7 DEF Lockstep, Answered, N
  <2>. QED
    BY <2>2, <2>3, <2>4 DEF TimelyInv
<1>. QED
  BY <1>9, <1>10

\* The EOT after the last block.
LEMMA TimelyBoot ==
  ASSUME TimelyInv, Receive, blk = N + 1
  PROVE  TimelyInv'
<1>1. TypeOK /\ Lockstep /\ LoadsPrefix /\ PacketSoFar
  BY DEF TimelyInv
<1> USE Facts
<1> DEFINE v == ValueOf(Head(u2p))
<1>2. /\ UnderWay /\ spc = "eot" /\ state = 0 /\ pos = 1 /\ Len(mem) = N
      /\ Head(u2p) = <<blk, state>> /\ p2u = <<>>
  <2>1. UnderWay /\ Head(u2p) = <<blk, state>>
    BY TimelyByte
  <2>2. ~ (blk <= N)
    BY <1>1
  <2>3. spc = "eot" /\ state = 0 /\ pos = 1 /\ Len(mem) = N
    BY <2>2, TimelyByte
  <2>. QED
    BY <2>1, <2>3 DEF UnderWay
<1>3. v = EOT
  BY <1>1, <1>2 DEF ValueOf
<1>4. Len(u2p') = 0 /\ u2p' \in Seq((1 .. N + 1) \X Pos)
  <2>1. pos = state + Len(u2p)
    BY <1>2 DEF UnderWay
  <2>2. /\ Len(u2p) \in Nat \ {0} /\ Len(u2p') = Len(u2p) - 1
        /\ u2p' \in Seq((1 .. N + 1) \X Pos)
    BY TimelyByte
  <2>. QED
    BY <2>1, <2>2, <1>2
<1>5. u2p' = <<>>
  BY <1>4
<1> HIDE DEF v
<1>6. /\ xstring' = [xstring EXCEPT ![state] = v] /\ UNCHANGED <<image, spc, blk, pos, naks>>
      /\ RecvStart(v)
  <2>1. state # 1 /\ state # 2 /\ state \notin 3 .. PAYLOAD_SZ + 2 /\ state # PacketSize - 1
    BY <1>1, <1>2
  <2>. QED
    BY <2>1 DEF Receive, v, sender, RecvBlockNumber, RecvComplement, RecvPayload,
       RecvChecksum
<1>7. /\ rpc' = "booted" /\ p2u' = <<ACK>> /\ UNCHANGED <<state, crc, block, mem>>
  BY <1>2, <1>3, <1>6, XModemAssumption DEF RecvStart, Accept, Reject
<1>8. DOMAIN xstring' = Pos /\ \A i \in Pos : ~ (i < state') /\ p2u' \in Seq(Byte)
  BY <1>1, <1>2, <1>6, <1>7, XModemAssumption DEF TypeOK, Pos
<1>9. TypeOK'
  BY <1>1, <1>4, <1>6, <1>7, <1>8, XModemAssumption DEF TypeOK, N
<1>10. PacketSoFar' /\ LoadsPrefix'
  BY <1>1, <1>2, <1>6, <1>7 DEF PacketSoFar, LoadsPrefix, N
<1>11. Lockstep'
  BY <1>1, <1>2, <1>5, <1>6, <1>7 DEF Lockstep, Answered, N
<1>. QED
  BY <1>9, <1>10, <1>11 DEF TimelyInv

LEMMA NextTimely == Timely /\ TimelyInv /\ [Next]_vars => TimelyInv'
<1> SUFFICES ASSUME Timely, TimelyInv, [Next]_vars PROVE TimelyInv'
  OBVIOUS
<1>1. CASE Receive
  <2>1. TypeOK /\ blk \in Nat /\ state \in Nat /\ state <= PacketSize - 1
    BY Facts DEF TimelyInv, TypeOK, Pos
  <2>2. blk <= N \/ blk = N + 1
    BY <1>1, TimelyByte
  <2>3. state < PacketSize - 1 \/ state = PacketSize - 1
    BY <2>1, Facts
  <2>. QED
    BY <2>2, <2>3, <1>1, TimelyAccept, TimelyChecksum, TimelyBoot
<1>2. CASE UNCHANGED vars
  BY <1>2 DEF vars, sender, receiver, TimelyInv, TypeOK, LoadsPrefix, PacketSoFar,
     Lockstep, UnderWay, Answered, Quiet, N
<1>. QED
  BY <1>1, <1>2, TimelyDrain, TimelySend, TimelyReply, TimelyNeverTimesOut,
     TimelyTimerNak DEF Next, Sender, Finished

LEMMA AlwaysTimely == Timely /\ Spec => []TimelyInv
<1> SUFFICES ASSUME Timely PROVE Spec => []TimelyInv
  OBVIOUS
<1>1. TimelyInv /\ [Next]_vars => TimelyInv'
  BY NextTimely
<1>. QED
  BY InitTimely, <1>1, PTL DEF Spec

\* Without late timers there is at most one reply in flight, for a block that was read
\* whole, so that get_byte() reads the answer to the block just sent - for every image,
\* every capacity of the line and any number of NAKs before the start.
THEOREM OnlyOneReply == Timely /\ Spec => []OneReply
<1>1. TimelyInv => OneReply
  <2> SUFFICES ASSUME TimelyInv, spc \notin {"flush", "panic"}
               PROVE  /\ Len(p2u) <= 1
                      /\ p2u # <<>> => u2p = <<>> /\ spc \in {"reply", "eot"}
    BY DEF OneReply
  <2>1. spc \in {"send", "reply", "drain", "eot", "done"} /\ Lockstep
    BY DEF TimelyInv, TypeOK
  <2>2. \A r : Answered(r) => Len(p2u) = 1 /\ u2p = <<>>
    BY DEF Answered
  <2>3. p2u = <<>> => Len(p2u) = 0
    OBVIOUS
  <2>. QED
    BY <2>1, <2>2, <2>3 DEF Lockstep, UnderWay, Quiet
<1>. QED
  BY <1>1, AlwaysTimely, PTL

\* And then the image need not be plain to be loaded in order, once, and run only when it
\* is all there: no byte of it is taken for a command (pi-xmodem.c:60-175).
THEOREM TimelyLoadIsSound == Timely /\ Spec => []LoadsSoundly
<1>1. TimelyInv => LoadsSoundly
  <2> SUFFICES ASSUME TimelyInv PROVE LoadsSoundly
    OBVIOUS
  <2>1. TypeOK /\ LoadsPrefix /\ Lockstep
    BY DEF TimelyInv
  <2>2. BootsComplete
    <3> SUFFICES ASSUME rpc = "booted" PROVE mem = image
      BY DEF BootsComplete
    <3>1. Len(mem) = N
      BY <2>1 DEF Lockstep, UnderWay, Quiet, TypeOK
    <3>2. mem \in Seq(Payload) /\ image \in Seq(Payload)
      BY <2>1, XModemAssumption DEF TypeOK
    <3>3. \A j \in 1 .. Len(mem) : mem[j] = image[j]
      BY <2>1 DEF LoadsPrefix
    <3>. QED
      BY <3>1, <3>2, <3>3 DEF N
  <2>. QED
    BY <2>1, <2>2 DEF LoadsSoundly
<1>. QED
  BY <1>1, AlwaysTimely, PTL

=============================================================================
