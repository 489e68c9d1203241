---------------------------- MODULE MCAddrSpace ----------------------------
(* A small instance of AddrSpace: a few environments, addresses in one      *)
(* section mapped to either of two.                                         *)
EXTENDS AddrSpace

SomeVAs == {0, 16, 32}    \* a section's address, one refused, one taken for 0
TwoPAs == {Section, 2 * Section}
=============================================================================
