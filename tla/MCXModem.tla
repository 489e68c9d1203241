------------------------------ MODULE MCXModem ------------------------------
(***************************************************************************)
(* Small instances of XModem.  Bytes are taken modulo 8, which keeps the   *)
(* codes of the protocol apart: SOH = 1, EOT = 4, ACK = 6, NAK = 0x15 % 8. *)
(* The byte 0xff - blk is then 4 (EOT) for block 3 and 1 (SOH) for block   *)
(* 6, as it is for blocks 251 and 254 of the code.                         *)
(***************************************************************************)
EXTENDS XModem

\* Images of up to two blocks, any byte that can steer the receiver among
\* them, and one of nine blocks, past the point where block numbers wrap.
AnyImages ==
  {<<>>} \cup { <<p, q>> : p, q \in [1 .. PAYLOAD_SZ -> {0, SOH, EOT, 7}] }
         \cup { [k \in 1 .. 9 |-> [i \in 1 .. PAYLOAD_SZ |-> k % ByteMod]] }

\* Plain images of one and two blocks.
PlainImages ==
  { img \in { <<p>> : p \in [1 .. PAYLOAD_SZ -> {0, 3, 5}] }
            \cup { <<p, q>> : p, q \in [1 .. PAYLOAD_SZ -> {0, 3}] } :
      Plain(img) }

=============================================================================
