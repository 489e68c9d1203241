----------------------------- MODULE Cp15Layout -----------------------------
(***************************************************************************)
(* The control register as labs/lab15-syscall and lab12-vm.0 declare it,   *)
(* in bit fields, and what their control_reg1_valid() asserts of it.  A    *)
(* structure of bit fields is a function from the names of its fields to   *)
(* their values.                                                           *)
(***************************************************************************)
EXTENDS Integers, Sequences, Layout

\* A run of fields of one bit each.
Bits(names) == [i \in DOMAIN names |-> <<names[i], 1>>]

\* cp15-arm.h: the control register.
control_reg1 ==
  Bits(<<"MMU_enabled", "A_alignment", "C_unified_enable", "W_write_buf">>)
  \o << <<"_unused1", 3>> >>
  \o Bits(<<"B_endian", "S_prot", "R_rom_prot", "F", "Z_branch_pred",
            "I_icache_enable", "V_high_except_v", "RR_cache_rep", "L4", "_dt",
            "_sbz0", "_it", "_sbz1", "_st", "F1", "U_unaligned", "XP_pt",
            "VE_vect_int", "EE", "L2_enabled", "_reserved0", "TR_tex_remap",
            "FA_force_ap">>)
  \o << <<"_reserved1", 2>> >>

\* vm.h of lab 12: the same fields.
lab12_control_reg1 == control_reg1

Fields(layout) == {layout[i][1] : i \in DOMAIN layout}

\* The bits that should be 1, and those the labs keep at 0.
control_reg1_valid(r) ==
  /\ r["_unused1"] = 7 /\ r["_dt"] = 1 /\ r["_it"] = 1
  /\ \A f \in {"_sbz0", "_sbz1", "_st", "L2_enabled", "I_icache_enable", "C_unified_enable"} :
       r[f] = 0
lab12_control_reg1_valid(r) == control_reg1_valid(r)
=============================================================================
