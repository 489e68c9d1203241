-------------------------------- MODULE MCPwm -------------------------------
(***************************************************************************)
(* Pwm for every vector of up to MaxN choices.                             *)
(***************************************************************************)
EXTENDS Pwm
=============================================================================
