----------------------------- MODULE MCEchoUntil -----------------------------
(***************************************************************************)
(* Instances of EchoUntil: the programs with chunks of three characters in *)
(* place of 4095, an exit string of three characters that repeats one, as  *)
(* "DONE!!!" does, and text made of its characters and others.             *)
(***************************************************************************)
EXTENDS EchoUntil

MCExitString == <<"D", "!", "!">>

AllReaders == {my_install, echo, pi_cat, echo_until, echo_until_fn}
=============================================================================
