------------------------------- MODULE MCCp15 -------------------------------
(***************************************************************************)
(* Two environments, two stores to each cell: enough for a descriptor to   *)
(* be mapped and then changed, and for a line to be stale.                 *)
(***************************************************************************)
EXTENDS Cp15, TLC

CONSTANTS a1, a2

MCAsids == {a1, a2}
Symmetry == Permutations(MCAsids)
=============================================================================
