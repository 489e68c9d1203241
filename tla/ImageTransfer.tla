--------------------------- MODULE ImageTransfer ---------------------------
(***************************************************************************)
(* What a boot loader promises: the blocks of the program arrive in order  *)
(* and once each, the program is started only when all of them have, and   *)
(* success is reported only for a program that was started.                *)
(***************************************************************************)
EXTENDS Integers, Sequences

VARIABLES
  image,      (* the program, a sequence of blocks, chosen by the user     *)
  delivered,  (* the blocks that are in the memory of the Pi               *)
  started,    (* the Pi has branched to the program                        *)
  reported    (* the laptop has said so                                    *)

vars == <<image, delivered, started, reported>>

Init == delivered = <<>> /\ started = FALSE /\ reported = FALSE

Deliver ==
  /\ ~ started /\ Len(delivered) < Len(image)
  /\ delivered' = Append(delivered, image[Len(delivered) + 1])
  /\ UNCHANGED <<image, started, reported>>

Start ==
  /\ ~ started /\ delivered = image
  /\ started' = TRUE
  /\ UNCHANGED <<image, delivered, reported>>

Report ==
  /\ started /\ ~ reported
  /\ reported' = TRUE
  /\ UNCHANGED <<image, delivered, started>>

Next == Deliver \/ Start \/ Report

Spec == Init /\ [][Next]_vars

=============================================================================
