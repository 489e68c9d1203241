------------------------------- MODULE XModem -------------------------------
(***************************************************************************)
(* The xmodem boot loader of homeworks/1-bootloader/sample-code-xmodem:    *)
(* unix-xmodem.c (the sender, on the laptop) and pi-xmodem.c (the          *)
(* receiver, on the Pi), joined by a serial line that loses nothing and    *)
(* keeps the order of bytes in each direction.                             *)
(*                                                                         *)
(* A packet is SOH, block number, 0xff - block number, PAYLOAD_SZ payload  *)
(* bytes and a checksum.  The receiver sees only byte VALUES.  On the line *)
(* a byte is written <<k, i>>: byte i of a packet for block k; the EOT     *)
(* that follows the N blocks of the program is <<N + 1, 0>>.  ValueOf      *)
(* gives the value, which is all that Receive looks at.                    *)
(*                                                                         *)
(* What is uninitialised in the code, the tail of the stack buffer of a    *)
(* short last block (unix-xmodem.c:55), is part of `image': Init chooses   *)
(* the image, padding included, among Images.                              *)
(***************************************************************************)
EXTENDS Integers, Sequences

CONSTANTS
  ByteMod,      (* number of byte values: 256 in the code                  *)
  PAYLOAD_SZ,   (* payload bytes in a packet: 128 in the code              *)
  SOH, ACK, NAK, EOT,
  Banner,       (* any byte of the two hexstring() lines the receiver      *)
                (* prints at start-up: neither ACK nor NAK                 *)
  Images,       (* the programs: sequences of padded payload blocks        *)
  MaxNaks,      (* bound: how often the receiver's 4 second timer fires    *)
  LateNaks,     (* may that timer fire after the sender's first drain()?   *)
  Prompt,       (* does a read time out only on a line quiet both ways?    *)
  LineCapacity  (* bytes the tty accepts before write() blocks             *)

Byte == 0 .. ByteMod - 1
PacketSize == PAYLOAD_SZ + 4
Payload == [1 .. PAYLOAD_SZ -> Byte]
Pos == 0 .. PacketSize - 1

ASSUME XModemAssumption ==
  /\ ByteMod \in Nat /\ ByteMod > 4
  /\ PAYLOAD_SZ \in Nat \ {0}
  /\ {SOH, ACK, NAK, EOT, Banner} \subseteq Byte
  /\ SOH # EOT /\ ACK \notin {NAK, Banner} /\ NAK # Banner
  /\ Images \subseteq Seq(Payload)
  /\ MaxNaks \in Nat /\ LineCapacity \in Nat \ {0}
  /\ LateNaks \in BOOLEAN /\ Prompt \in BOOLEAN

VARIABLES
  image,    (* the program being sent, one payload per block               *)
  spc,      (* sender: "flush", "send", "reply", "drain", "eot", "done",   *)
            (* "panic"                                                     *)
  blk,      (* sender: block number, counted from 1                        *)
  pos,      (* sender: next byte of the packet to send                     *)
  u2p,      (* bytes on their way to the Pi                                *)
  p2u,      (* replies on their way to the laptop                          *)
  rpc,      (* receiver: "loop", or "booted" after BRANCHTO                *)
  state,    (* receiver: index of the next byte of the packet              *)
  xstring,  (* receiver: the bytes of the packet so far                    *)
  crc,      (* receiver: their running sum                                 *)
  block,    (* receiver: block number it expects                           *)
  mem,      (* receiver: blocks copied to ARMBASE, ARMBASE + 128, ...      *)
  naks      (* how often the receiver's timer fired                        *)

sender   == <<image, spc, blk, pos>>
receiver == <<rpc, state, xstring, crc, block, mem>>
vars     == <<sender, u2p, p2u, receiver, naks>>

N == Len(image)

(***************************************************************************)
(* The bytes of a packet.                                                  *)
(***************************************************************************)
\* the 8-bit sum over payload p that send_block() accumulates in cksum
Checksum(p) ==
  LET sum[i \in 0 .. PAYLOAD_SZ] ==
        IF i = 0 THEN 0 ELSE (sum[i - 1] + p[i]) % ByteMod
  IN  sum[PAYLOAD_SZ]

PacketByte(img, k, i) ==
  CASE i = 0 -> SOH
    [] i = 1 -> k % ByteMod
    [] i = 2 -> (ByteMod - 1) - (k % ByteMod)
    [] i \in 3 .. PAYLOAD_SZ + 2 -> img[k][i - 2]
    [] OTHER -> Checksum(img[k])

ValueOf(b) == IF b[1] > N THEN EOT ELSE PacketByte(image, b[1], b[2])

(***************************************************************************)
(* A plain image holds no byte, past the block number of a packet, that    *)
(* the receiver would take for a command if it looked for one there.  In   *)
(* the code this also excludes images of 251 blocks and more, because of   *)
(* 0xff - 251 = EOT.                                                       *)
(***************************************************************************)
Plain(img) ==
  \A k \in 1 .. Len(img) : \A i \in 2 .. PacketSize - 1 :
    PacketByte(img, k, i) \notin {SOH, EOT}

-----------------------------------------------------------------------------
(***************************************************************************)
(* The sender.  A read() waits one second (VMIN = 0, VTIME = 10, set in    *)
(* bootloader/unix-side/tty.c) and then returns 0 bytes: drain() stops     *)
(* there, get_byte() panics.                                               *)
(***************************************************************************)
ReadTimesOutAtOnce == TRUE
ReadTimesOut ==
  /\ p2u = <<>>
  /\ Prompt => (u2p = <<>> \/ rpc = "booted")

\* drain(): swallow one byte of whatever the line holds
DrainByte ==
  /\ spc \in {"flush", "drain"}
  /\ p2u # <<>>
  /\ p2u' = Tail(p2u)
  /\ UNCHANGED <<sender, u2p, receiver, naks>>

\* drain() returns: to the first block, or to sending this block again
DrainEnd ==
  /\ spc \in {"flush", "drain"}
  /\ ReadTimesOut
  /\ spc' = "send" /\ pos' = 0
  /\ UNCHANGED <<image, blk, u2p, p2u, receiver, naks>>

\* send_byte() for the next byte of the packet
SendByte ==
  /\ spc = "send" /\ blk <= N
  /\ Len(u2p) < LineCapacity
  /\ u2p' = Append(u2p, <<blk, pos>>)
  /\ pos' = pos + 1
  /\ spc' = IF pos' = PacketSize THEN "reply" ELSE "send"
  /\ UNCHANGED <<image, blk, p2u, receiver, naks>>

IsAckOrNak(r) == r # Banner
IsAck(r) == r = ACK

\* the one byte that get_byte() reads is the reply to this block
ReadReply ==
  /\ spc = "reply"
  /\ p2u # <<>>
  /\ p2u' = Tail(p2u)
  /\ \/ /\ IsAck(Head(p2u))
        /\ spc' = "send" /\ blk' = blk + 1 /\ pos' = 0
     \/ /\ ~ IsAck(Head(p2u)) /\ Head(p2u) = NAK
        /\ spc' = "drain"
        /\ UNCHANGED <<blk, pos>>
     \/ /\ ~ IsAck(Head(p2u)) /\ Head(p2u) # NAK
        /\ spc' = "panic"
        /\ UNCHANGED <<blk, pos>>
  /\ UNCHANGED <<image, u2p, receiver, naks>>

\* after the last block
SendEOT ==
  /\ spc = "send" /\ blk = N + 1
  /\ Len(u2p) < LineCapacity
  /\ u2p' = Append(u2p, <<blk, pos>>)
  /\ pos' = pos + 1
  /\ spc' = "eot"
  /\ UNCHANGED <<image, blk, p2u, receiver, naks>>

\* the answer to the EOT must be an ACK; then "sent True"
ReadEOTReply ==
  /\ spc = "eot"
  /\ p2u # <<>>
  /\ p2u' = Tail(p2u)
  /\ spc' = IF IsAck(Head(p2u)) THEN "done" ELSE "panic"
  /\ UNCHANGED <<image, blk, pos, u2p, receiver, naks>>

\* no answer within the second: "expected 1 byte, got 0"
GetByteTimeout ==
  /\ spc \in {"reply", "eot"}
  /\ ReadTimesOut
  /\ spc' = "panic"
  /\ UNCHANGED <<image, blk, pos, u2p, p2u, receiver, naks>>

-----------------------------------------------------------------------------
(***************************************************************************)
(* The receiver's loop.                                                    *)
(***************************************************************************)
\* four seconds since the last byte: NAK, whatever the state, and keep it
TimerNak ==
  /\ rpc = "loop"
  /\ naks < MaxNaks
  /\ LateNaks \/ spc = "flush"
  /\ naks' = naks + 1
  /\ p2u' = Append(p2u, NAK)
  /\ UNCHANGED <<sender, u2p, receiver>>

\* one more byte of the packet is as expected
Accept(sum) ==
  /\ state' = state + 1
  /\ crc' = sum
  /\ UNCHANGED <<p2u, rpc, block, mem>>

\* NAK, and take the next byte for the start of a packet
Reject ==
  /\ state' = 0
  /\ p2u' = Append(p2u, NAK)
  /\ UNCHANGED <<rpc, crc, block, mem>>

RecvStart(v) ==
  /\ state = 0
  /\ \/ /\ v = EOT
        /\ rpc' = "booted"
        /\ p2u' = Append(p2u, ACK)
        /\ UNCHANGED <<state, crc, block, mem>>
     \/ v = SOH /\ Accept(SOH)
     \/ v \notin {SOH, EOT} /\ Reject

RecvBlockNumber(v) ==
  /\ state = 1
  /\ IF v = block THEN Accept(crc + v) ELSE Reject

RecvComplement(v) ==
  /\ state = 2
  /\ IF v = (ByteMod - 1) - xstring[1] THEN Accept(crc + v) ELSE Reject

RecvPayload(v) ==
  /\ state \in 3 .. PAYLOAD_SZ + 2
  /\ Accept(crc + v)

\* the payload the copy loop takes out of the packet, and the next number
ReceivedEarly == [i \in 1 .. PAYLOAD_SZ |-> xstring[i + 1]]
Received == [i \in 1 .. PAYLOAD_SZ |-> xstring[i + 2]]
NextBlockStays == block
NextBlock == (block + 1) % ByteMod

RecvChecksum(v) ==
  /\ state = PacketSize - 1
  /\ state' = 0
  /\ crc' = crc % ByteMod
  /\ IF v = crc'
     THEN /\ mem' = Append(mem, Received)
          /\ block' = NextBlock
          /\ p2u' = Append(p2u, ACK)
     ELSE /\ p2u' = Append(p2u, NAK)
          /\ UNCHANGED <<mem, block>>
  /\ UNCHANGED rpc

Receive ==
  /\ rpc = "loop"
  /\ u2p # <<>>
  /\ u2p' = Tail(u2p)
  /\ LET v == ValueOf(Head(u2p)) IN
       /\ xstring' = [xstring EXCEPT ![state] = v]
       /\ \/ RecvStart(v) \/ RecvBlockNumber(v) \/ RecvComplement(v)
          \/ RecvPayload(v) \/ RecvChecksum(v)
  /\ UNCHANGED <<sender, naks>>

-----------------------------------------------------------------------------
Init ==
  /\ image \in Images
  /\ spc = "flush" /\ blk = 1 /\ pos = 0
  /\ u2p = <<>> /\ p2u = <<Banner>>
  /\ rpc = "loop" /\ state = 0 /\ crc = 0 /\ block = 1
  /\ xstring = [i \in Pos |-> 0]
  /\ mem = <<>> /\ naks = 0

Sender == \/ DrainByte \/ DrainEnd \/ SendByte \/ ReadReply
          \/ SendEOT \/ ReadEOTReply \/ GetByteTimeout

\* the sender has exited and the receiver has nothing left to read
Finished ==
  /\ spc \in {"done", "panic"}
  /\ u2p = <<>> \/ rpc = "booted"
  /\ UNCHANGED vars

Next == Sender \/ Receive \/ TimerNak \/ Finished

Spec == Init /\ [][Next]_vars

\* Both loops keep running: each process takes the step it can take.
FairSpec == Spec /\ WF_vars(Sender) /\ WF_vars(Receive)

-----------------------------------------------------------------------------
(***************************************************************************)
(* Properties.                                                             *)
(***************************************************************************)
\* Type invariant: what each variable of the two programs and the line holds.
TypeOK ==
  /\ image \in Images
  /\ spc \in {"flush", "send", "reply", "drain", "eot", "done", "panic"}
  /\ blk \in 1 .. N + 1 /\ pos \in 0 .. PacketSize
  /\ u2p \in Seq((1 .. N + 1) \X Pos) /\ p2u \in Seq(Byte)
  /\ rpc \in {"loop", "booted"} /\ state \in Pos
  /\ DOMAIN xstring = Pos /\ \A i \in Pos : i < state => xstring[i] \in Byte
  /\ crc \in Nat /\ block \in Byte
  /\ mem \in Seq(Payload) /\ naks \in 0 .. MaxNaks

\* What lies at ARMBASE is at every moment the first blocks of the program, in
\* order, none twice and none skipped (the copy loop of pi-xmodem.c:155-158).
LoadsPrefix == Len(mem) <= N /\ \A j \in 1 .. Len(mem) : mem[j] = image[j]

\* The receiver branches to ARMBASE only into a complete program
\* (pi-xmodem.c:70, "a single EOT instead of SOH when done").
BootsComplete == rpc = "booted" => mem = image

\* The receiver's memory is never anything but the program as far as it has come,
\* and all of it when it runs (pi-xmodem.c:60-175).
LoadsSoundly == TypeOK /\ LoadsPrefix /\ BootsComplete

\* The two block counters never drift apart: the sender's block is the one the
\* receiver expects or the one it has just accepted (send_block returns on
\* its ACK alone), also when `block' has wrapped round.
CountersAgree ==
  /\ blk - 1 <= Len(mem) /\ Len(mem) <= blk
  /\ block = (Len(mem) + 1) % ByteMod

\* "sent True" is printed only when the Pi runs the whole program: the ACK that
\* xmodem() takes for the answer to its EOT is not left over from a block.
SentMeansBooted == spc = "done" => rpc = "booted" /\ mem = image

\* Stop and wait: once the sender has flushed the line, a reply is in flight
\* only when every byte of its packet has been read, and it is the only one, so
\* get_byte() reads the answer to the block it has just sent.
OneReply ==
  spc \notin {"flush", "panic"} =>
    /\ Len(p2u) <= 1
    /\ p2u # <<>> => u2p = <<>> /\ spc \in {"reply", "eot"}

\* unix-xmodem.c:47-49: with the queue of NAKs the sender keeps sending until it
\* gets its ACK, so the transfer ends with the program running.
Completes == <>(spc = "done" /\ rpc = "booted")

\* What the pair promises, whatever the line does: the image, in order, once.
Transfer == INSTANCE ImageTransfer
  WITH delivered <- mem, started <- rpc = "booted", reported <- spc = "done"

\* The two programs implement that promise (abstract specification ImageTransfer).
Implements == Transfer!Spec

=============================================================================
