----------------------------- MODULE Cp15Proofs -----------------------------
(***************************************************************************)
(* Theorems about the MMU and cache routines, for every number of          *)
(* environments and of stores, wherever the hardware acts.                 *)
(*                                                                         *)
(* What is right in the middle of a routine depends on the instructions    *)
(* around it: so the invariants speak of the instructions still to be      *)
(* done, and where a window of them has begun, of the state that the       *)
(* instructions done have left.                                            *)
(***************************************************************************)
EXTENDS Cp15, SequenceTheorems, TLAPS

\* The fields of control register 1.
ControlFields == Fields(control_reg1)

\* What a routine of vm-asm.S or mmu.c, or one of the two programs, is made of.
Insts ==
  {DSB, PREFETCH_FLUSH, FLUSH_BTB, INV_ICACHE, CLEAN_INV_DCACHE, INV_DCACHE, INV_TLB,
   Bic(2), Compiled, Get32, Reboot}
  \cup {CONTROL_REG1_WR(c) : c \in SUBSET ControlFields}
  \cup {ASID_SET(a) : a \in Cells} \cup {TTBR0_SET(a) : a \in Asids}
  \cup {Str(c) : c \in Cells}
  \cup {Expect(f, on) : f \in ControlFields, on \in BOOLEAN}

Code == Seq(Insts)

\* Kinds of instructions.
WritesControl(x) == x[1] \in {"control_reg1_wr", "bic"}
TurnsOn(x) == x[1] = "control_reg1_wr" /\ "MMU_enabled" \in x[2]
KeepsCache(x) == x[1] = "control_reg1_wr" /\ {"MMU_enabled", "C_unified_enable"} \subseteq x[2]
Touches(x) == x[1] \in {"compiled", "get32", "str"}
Checks(x) == x[1] \in {"get32", "expect"}
StoresTable(x) == x[1] = "str" /\ x[2] # 0

(***************************************************************************)
(* Below, r is the code that is left of a routine, and k the place of an   *)
(* instruction in it.                                                      *)
(***************************************************************************)
Ahead(r) == 1 .. Len(r)

\* Instruction k finds the MMU off.
Early(r, k) == ~MmuOn /\ \A j \in 1 .. k - 1 : ~TurnsOn(r[j])

\* No load or store touches the data cache between two instructions.
Untouched(r, j, k) == \A i \in j + 1 .. k - 1 : ~Touches(r[i])

\* What there is of a cell behind the data cache.
Behind(c) == IF wb[c] # None THEN wb[c] ELSE mem[c]
CacheEmpty == \A c \in Cells : dc[c] = NoLine

-----------------------------------------------------------------------------
(***************************************************************************)
(* Switching address spaces: the ASID is 0 while the table is changed, and *)
(* the table of an ASID is in effect before the ASID is.                   *)
(***************************************************************************)
Matched == \A i \in 1 .. Len(asid), j \in 1 .. Len(ttbr0) :
             asid[i] = 0 \/ ttbr0[j] = 0 \/ asid[i] = ttbr0[j]
Owned == \A e \in tlb : e.asid = 0 \/ e.asid = e.table

\* Where the table is written, the ASID in effect is 0: a prefetch flush has made it so.
TableAfterAsid(r, k) ==
  r[k][1] = "ttbr0_set" =>
    \/ k = 1 /\ Len(asid) = 1 /\ asid[1] = 0
    \/ k = 2 /\ r[1] = PREFETCH_FLUSH /\ asid[Len(asid)] = 0
    \/ k > 2 /\ r[k - 1] = PREFETCH_FLUSH /\ r[k - 2] = ASID_SET(0)

\* Where an ASID is written, its own table is in effect.
AsidAfterTable(r, k) ==
  r[k][1] = "asid_set" /\ r[k][2] # 0 =>
    \/ k = 1 /\ Len(ttbr0) = 1 /\ ttbr0[1] = r[k][2]
    \/ k = 2 /\ r[1] = PREFETCH_FLUSH /\ ttbr0[Len(ttbr0)] = r[k][2]
    \/ k > 2 /\ r[k - 1] = PREFETCH_FLUSH /\ r[k - 2] = TTBR0_SET(r[k][2])

SwitchingCode(r) == \A k \in Ahead(r) : TableAfterAsid(r, k) /\ AsidAfterTable(r, k)

-----------------------------------------------------------------------------
(***************************************************************************)
(* The data cache.  Cold, it holds junk, which is thrown away before the   *)
(* cache is used; then it holds no line while it is off, but for what a    *)
(* clean that follows writes back.                                         *)
(***************************************************************************)
Cold(r) == \E k \in Ahead(r) : r[k] = INV_DCACHE

\* The junk is thrown away once, before anything would use it or write it back.
ColdStart(r) ==
  \A k \in Ahead(r) : r[k] = INV_DCACHE =>
    /\ Early(r, k)
    /\ \A j \in 1 .. k - 1 :
         r[j] # INV_DCACHE /\ r[j] # CLEAN_INV_DCACHE /\ r[j] # Get32
    /\ \A c \in Cells : Behind(c) = last[c]

\* After k, what is done before the cache is cleaned only lets the stack be stored.
CleanAfter(r, k) ==
  \E n \in Ahead(r) :
    /\ n > k /\ r[n] = CLEAN_INV_DCACHE
    /\ \A j \in k + 1 .. n - 1 : r[j] \in {DSB, PREFETCH_FLUSH, FLUSH_BTB, Compiled}

\* The cache was cleaned before k and nothing has used it since.
CleanBefore(r, k) ==
  \/ CacheEmpty /\ Untouched(r, 0, k)
  \/ \E j \in 1 .. k - 1 : r[j] = CLEAN_INV_DCACHE /\ Untouched(r, j, k)

\* Where the control register is written, the cache is unused, kept in use, or cleaned.
CacheCleaned(r, k) ==
  WritesControl(r[k]) =>
    Early(r, k) \/ KeepsCache(r[k]) \/ CleanBefore(r, k) \/ CleanAfter(r, k)

CachingCode(r) == ColdStart(r) /\ \A k \in Ahead(r) : CacheCleaned(r, k)

\* The line of c, or what is behind it, is what was stored last.
Right(c) ==
  \/ c = 0 /\ windowed
  \/ /\ IF dc[c].dirty THEN dc[c].v = last[c] ELSE Behind(c) = last[c]
     /\ DcacheUsed /\ dc[c] # NoLine => dc[c].v = last[c]

LinesRight == \A c \in Cells : Right(c) /\ dc[c] # [v |-> Junk, dirty |-> TRUE]

Caching ==
  Cold(todo) \/ (LinesRight /\ (DcacheUsed \/ CacheEmpty \/ CleanAfter(todo, 0)))

-----------------------------------------------------------------------------
(***************************************************************************)
(* The page tables.  With the MMU on, a store to a table is cleaned to     *)
(* memory, and the TLB invalidated after that.                             *)
(***************************************************************************)
\* Memory has the table of a as it was stored last, and nothing holds another value.
Settled(a) == mem[a] = last[a] /\ wb[a] = None /\ ~dc[a].dirty

\* A store to a table has been made: it is still cleaned, drained, and the TLB invalidated.
StoreUnderway(r) ==
  \/ Len(r) >= 3 /\ r[1] = CLEAN_INV_DCACHE /\ r[2] = DSB /\ r[3] = INV_TLB
  \/ Len(r) >= 2 /\ r[1] = DSB /\ r[2] = INV_TLB /\ CacheEmpty

\* A store to a table is the first, with the MMU off, or is made as STORE_PTE does.
StoresSettle(r, k) ==
  StoresTable(r[k]) =>
    \/ /\ Early(r, k) /\ \A a \in Asids : last[a] = 0
       /\ \A j \in 1 .. k - 1 : ~StoresTable(r[j])
    \/ /\ k + 3 <= Len(r) /\ r[k + 1] = CLEAN_INV_DCACHE
       /\ r[k + 2] = DSB /\ r[k + 3] = INV_TLB

\* When the MMU is turned on, the store buffer has been drained.
DrainedBefore(r, k) ==
  TurnsOn(r[k]) =>
    \/ k = 1 /\ (MmuOn \/ \A c \in Cells : wb[c] = None)
    \/ k > 1 /\ r[k - 1] = DSB

WalkingCode(r) == \A k \in Ahead(r) : StoresSettle(r, k) /\ DrainedBefore(r, k)

\* Every entry of the TLB is the descriptor stored last.
TlbTrue == \A e \in tlb : e.v = last[e.table] /\ e.v # 0
TlbClears(r) == \E k \in Ahead(r) : r[k] = INV_TLB

Walking ==
  /\ MmuOn => StoreUnderway(todo) \/ \A a \in Asids : Settled(a)
  /\ TlbTrue \/ TlbClears(todo)

-----------------------------------------------------------------------------
(***************************************************************************)
(* The two programs leave the data cache off, and load and check what they *)
(* have stored and written.                                                *)
(***************************************************************************)
Program(r) == r # <<>> /\ r[Len(r)] = Reboot
ProgramFields == {"XP_pt", "MMU_enabled"}

\* A program expects of the control register what it wrote there last.
ExpectsWritten(r, k) ==
  r[k][1] = "expect" =>
    \/ /\ \A j \in 1 .. k - 1 : ~WritesControl(r[j])
       /\ (r[k][2] \in ctl) = r[k][3]
    \/ \E i \in 1 .. k - 1 :
         /\ r[i][1] = "control_reg1_wr" /\ (r[k][2] \in r[i][2]) = r[k][3]
         /\ \A j \in i + 1 .. k - 1 : ~WritesControl(r[j])

CheckingCode(r) ==
  /\ \A k \in Ahead(r) : Checks(r[k]) => Program(r)
  /\ Program(r) => \A k \in Ahead(r) :
       /\ ExpectsWritten(r, k)
       /\ r[k][1] = "control_reg1_wr" => r[k][2] \subseteq ProgramFields

Checking ==
  Program(todo) =>
    /\ ctl \subseteq ProgramFields
    /\ Cold(todo) \/ CacheEmpty
    /\ \A c \in Cells : Behind(c) = last[c]

-----------------------------------------------------------------------------
(***************************************************************************)
(* What instruction fetch still uses.                                      *)
(***************************************************************************)
IcacheClears(r, k) == \E n \in Ahead(r) : n > k /\ r[n] = INV_ICACHE

\* Turning the MMU off is followed by invalidating the instruction cache.
FetchingCode(r) ==
  \A k \in Ahead(r) :
    WritesControl(r[k]) /\ ~TurnsOn(r[k]) => Early(r, k) \/ IcacheClears(r, k)

\* The routine ends in CP15_SYNC, or the part of it that is left would do.
EndsInSync(r) ==
  LET n == Len(r) IN
  /\ r[n] = PREFETCH_FLUSH
  /\ IF n = 1 THEN "pend" \notin stale ELSE r[n - 1] = DSB
  /\ IF n <= 2 THEN "btb" \notin stale ELSE r[n - 2] = FLUSH_BTB

\* The routine ends as cp15_set_procid_ttbr0() does, without a prefetch flush.
EndsInSwitch(r) ==
  LET n == Len(r) IN
  r[n] = DSB /\ IF n = 1 THEN Len(asid) > 1 ELSE r[n - 1][1] = "asid_set"

Ending(r) == r # <<>> /\ (Program(r) \/ EndsInSync(r) \/ EndsInSwitch(r))

Fetching ==
  /\ ~MmuOn /\ "icache" \in stale => IcacheClears(todo, 0)
  /\ IF todo = <<>> THEN Len(asid) > 1 \/ stale \subseteq {"icache"} ELSE Ending(todo)

-----------------------------------------------------------------------------
\* What holds of the code of a routine that is called, and of what is left of it.
Sound(r) ==
  /\ r \in Code
  /\ SwitchingCode(r) /\ CachingCode(r) /\ WalkingCode(r) /\ CheckingCode(r)
  /\ FetchingCode(r)

\* The invariant: the code left is right for the state, and the state for the code left.
CpInv ==
  /\ TypeOK /\ ~panicked /\ asid # <<>> /\ ttbr0 # <<>>
  /\ Sound(todo)
  /\ Matched /\ Owned /\ Caching /\ Walking /\ Checking /\ Fetching

\* The fields that the routines write are fields of the register.
LEMMA FieldNames ==
  {"MMU_enabled", "C_unified_enable", "I_icache_enable", "W_write_buf", "Z_branch_pred",
   "L2_enabled", "XP_pt", "_unused1", "_dt", "_it", "_sbz0", "_sbz1", "_st"} \subseteq ControlFields
<1> DEFINE A == Bits(<<"MMU_enabled", "A_alignment", "C_unified_enable", "W_write_buf">>)
           B == << <<"_unused1", 3>> >>
           C == Bits(<<"B_endian", "S_prot", "R_rom_prot", "F", "Z_branch_pred",
            "I_icache_enable", "V_high_except_v", "RR_cache_rep", "L4", "_dt",
            "_sbz0", "_it", "_sbz1", "_st", "F1", "U_unaligned", "XP_pt",
            "VE_vect_int", "EE", "L2_enabled", "_reserved0", "TR_tex_remap",
            "FA_force_ap">>)
           D == << <<"_reserved1", 2>> >>
           T == {"MMU_enabled", "A_alignment", "C_unified_enable", "W_write_buf", "_unused1",
                 "B_endian", "S_prot", "R_rom_prot", "F", "Z_branch_pred",
                 "I_icache_enable", "V_high_except_v", "RR_cache_rep", "L4", "_dt",
                 "_sbz0", "_it", "_sbz1", "_st", "F1", "U_unaligned", "XP_pt",
                 "VE_vect_int", "EE", "L2_enabled", "_reserved0", "TR_tex_remap",
                 "FA_force_ap", "_reserved1"}
           S == T \X Nat
<1>1. A \in Seq(S) /\ B \in Seq(S) /\ C \in Seq(S) /\ D \in Seq(S)
  <2>1. ASSUME NEW names \in Seq(T) PROVE Bits(names) \in Seq(S)
    <3>1. DOMAIN names = 1 .. Len(names) /\ Len(names) \in Nat
      OBVIOUS
    <3>2. ASSUME NEW i \in 1 .. Len(names) PROVE <<names[i], 1>> \in S
      <4>. HIDE DEF T
      <4>. QED BY ElementOfSeq
    <3>3. Bits(names) = [i \in 1 .. Len(names) |-> <<names[i], 1>>]
      BY <3>1 DEF Bits
    <3>. HIDE DEF S, T
    <3>. QED BY <3>1, <3>2, <3>3, IsASeq
  <2>2. ASSUME NEW name \in T, NEW n \in Nat PROVE << <<name, n>> >> \in Seq(S)
    <3>1. <<name, n>> \in S
      OBVIOUS
    <3>2. \A x \in S : <<x>> \in Seq(S)
      OBVIOUS
    <3>. HIDE DEF S
    <3>. QED BY <3>1, <3>2
  <2>. HIDE DEF S
  <2>3. B \in Seq(S) /\ D \in Seq(S)
    <3>1. "_unused1" \in T /\ "_reserved1" \in T /\ 2 \in Nat /\ 3 \in Nat
      OBVIOUS
    <3>. HIDE DEF T
    <3>. QED BY <2>2, <3>1, Zenon
  <2>4. A \in Seq(S)
    <3>. DEFINE names == <<"MMU_enabled", "A_alignment", "C_unified_enable", "W_write_buf">>
    <3>1. names \in Seq(T)
      OBVIOUS
    <3>. HIDE DEF T
    <3>. QED BY <2>1, <3>1, Zenon
  <2>5. C \in Seq(S)
    <3>. DEFINE names == <<"B_endian", "S_prot", "R_rom_prot", "F", "Z_branch_pred",
            "I_icache_enable", "V_high_except_v", "RR_cache_rep", "L4", "_dt",
            "_sbz0", "_it", "_sbz1", "_st", "F1", "U_unaligned", "XP_pt",
            "VE_vect_int", "EE", "L2_enabled", "_reserved0", "TR_tex_remap",
            "FA_force_ap">>
    <3>1. names \in Seq(T)
      OBVIOUS
    <3>. HIDE DEF T
    <3>. QED BY <2>1, <3>1, Zenon
  <2>. QED BY <2>3, <2>4, <2>5
<1>2. /\ Len(A) = 4 /\ A[1][1] = "MMU_enabled" /\ A[3][1] = "C_unified_enable"
      /\ A[4][1] = "W_write_buf"
      /\ Len(B) = 1 /\ B[1][1] = "_unused1"
      /\ Len(C) = 23 /\ C[5][1] = "Z_branch_pred" /\ C[6][1] = "I_icache_enable" /\ C[10][1] = "_dt"
      /\ C[11][1] = "_sbz0" /\ C[12][1] = "_it" /\ C[13][1] = "_sbz1"
      /\ C[14][1] = "_st" /\ C[17][1] = "XP_pt" /\ C[20][1] = "L2_enabled"
      /\ Len(D) = 1
  BY DEF Bits
<1>3. control_reg1 = ((A \o B) \o C) \o D
  BY DEF control_reg1
<1> HIDE DEF A, B, C, D
<1> DEFINE N(s) == {s[i][1] : i \in DOMAIN s}
<1>4. \A s, t \in Seq(S) : s \o t \in Seq(S) /\ N(s) \subseteq N(s \o t) /\ N(t) \subseteq N(s \o t)
  <2>. TAKE s, t \in Seq(S)
  <2>1. /\ s \o t \in Seq(S) /\ Len(s \o t) = Len(s) + Len(t)
        /\ \A i \in 1 .. Len(s) + Len(t) : (s \o t)[i] = IF i <= Len(s) THEN s[i] ELSE t[i - Len(s)]
    BY ConcatProperties
  <2>. DEFINE u == s \o t
  <2>2. Len(s) \in Nat /\ Len(t) \in Nat /\ DOMAIN s = 1 .. Len(s) /\ DOMAIN t = 1 .. Len(t) /\ DOMAIN u = 1 .. Len(s) + Len(t)
    BY <2>1
  <2>. HIDE DEF u
  <2>3. ASSUME NEW i \in DOMAIN s PROVE i \in DOMAIN u /\ u[i] = s[i]
    BY <2>1, <2>2 DEF u
  <2>4. ASSUME NEW i \in DOMAIN t PROVE i + Len(s) \in DOMAIN u /\ u[i + Len(s)] = t[i]
    BY <2>1, <2>2 DEF u
  <2>5. N(s) \subseteq N(u)
    BY <2>3
  <2>6. N(t) \subseteq N(u)
    BY <2>4
  <2>. QED BY <2>1, <2>5, <2>6 DEF u
<1>5. N(A) \subseteq N(control_reg1) /\ N(B) \subseteq N(control_reg1) /\ N(C) \subseteq N(control_reg1)
  <2>1. A \o B \in Seq(S) /\ N(A) \subseteq N(A \o B) /\ N(B) \subseteq N(A \o B)
    BY <1>1, <1>4
  <2>2. (A \o B) \o C \in Seq(S) /\ N(A \o B) \subseteq N((A \o B) \o C) /\ N(C) \subseteq N((A \o B) \o C)
    BY <1>1, <1>4, <2>1
  <2>3. N((A \o B) \o C) \subseteq N(control_reg1)
    BY <1>1, <1>3, <1>4, <2>2
  <2>. QED BY <2>1, <2>2, <2>3
<1>6. {"MMU_enabled", "C_unified_enable", "W_write_buf"} \subseteq N(A)
  BY <1>1, <1>2
<1>7. "_unused1" \in N(B)
  BY <1>1, <1>2
<1>8. {"Z_branch_pred", "I_icache_enable", "XP_pt", "L2_enabled", "_dt", "_it", "_sbz0", "_sbz1",
       "_st"} \subseteq N(C)
  <2>1. DOMAIN C = 1 .. 23
    BY <1>1, <1>2
  <2>2. \A i \in 1 .. 23 : C[i][1] \in N(C)
    BY <2>1, Zenon
  <2>. HIDE DEF N
  <2>. QED BY <1>2, <2>2
<1>. QED
  BY <1>5, <1>6, <1>7, <1>8 DEF ControlFields, Fields

\* The instructions that the routines name are of the kinds above.
LEMMA Instructions ==
  /\ {DSB, PREFETCH_FLUSH, FLUSH_BTB, INV_ICACHE, CLEAN_INV_DCACHE, INV_DCACHE, INV_TLB,
      Bic(2), Compiled, Get32, Reboot} \subseteq Insts
  /\ \A c \in SUBSET ControlFields : CONTROL_REG1_WR(c) \in Insts
  /\ \A a \in Cells : ASID_SET(a) \in Insts
  /\ \A a \in Asids : TTBR0_SET(a) \in Insts
  /\ \A c \in Cells : Str(c) \in Insts
  /\ \A f \in ControlFields, on \in BOOLEAN : Expect(f, on) \in Insts
BY DEF Insts

-----------------------------------------------------------------------------
(* The routines spelled out. *)

\* In r, after n instructions, stands t.
Stands(t, n, r) == n + Len(t) <= Len(r) /\ \A i \in 1 .. Len(t) : r[n + i] = t[i]

\* The n instructions of s are the first of r.
Spells(s, n, r) == s \in Code /\ Len(s) = n /\ Stands(s, 0, r)

\* A piece that r goes on with, after what is spelled, spells more of r.
LEMMA Extended ==
  ASSUME NEW s, NEW t \in Code, NEW r \in Code, NEW n, NEW m,
         Spells(s, n, r), Stands(t, n, r), n + Len(t) = m
  PROVE  Spells(s \o t, m, r)
<1>. DEFINE u == s \o t
<1>1. s \in Code /\ Len(s) = n /\ n \in Nat /\ Len(t) \in Nat /\ m \in Nat
  BY DEF Spells, Code
<1>2. /\ u \in Code /\ Len(u) = n + Len(t)
      /\ \A i \in 1 .. n + Len(t) : u[i] = IF i <= n THEN s[i] ELSE t[i - n]
  BY <1>1, ConcatProperties DEF Code
<1>. HIDE DEF u
<1>3. ASSUME NEW i \in 1 .. m PROVE r[i] = u[i]
  <2>1. CASE i <= n
    <3>1. i \in 1 .. Len(s) /\ r[0 + i] = s[i]
      BY <1>1, <2>1 DEF Spells, Stands
    <3>. QED
      BY <1>1, <1>2, <2>1, <3>1
  <2>2. CASE i > n
    <3>1. i - n \in 1 .. Len(t) /\ r[n + (i - n)] = t[i - n]
      BY <1>1, <2>2 DEF Stands
    <3>2. n + (i - n) = i
      BY <1>1, <2>2
    <3>3. u[i] = t[i - n]
      BY <1>1, <1>2, <2>2
    <3>. QED
      BY <3>1, <3>2, <3>3
  <2>. QED
    BY <1>1, <2>1, <2>2
<1>4. m <= Len(r)
  BY DEF Stands
<1>. QED
  BY <1>2, <1>3, <1>4 DEF Spells, Stands, u

\* A sequence that spells all of another is that one.
LEMMA Spelled ==
  ASSUME NEW s, NEW r \in Code, Spells(s, Len(r), r)
  PROVE  s = r
<1>1. s \in Code /\ Len(s) = Len(r) /\ \A i \in 1 .. Len(s) : s[i] = r[i]
  <2>1. \A i \in 1 .. Len(s) : r[0 + i] = s[i] /\ 0 + i = i
    BY DEF Spells, Stands, Code
  <2>. QED
    BY <2>1 DEF Spells
<1>. QED
  BY <1>1, SeqEqual DEF Code

\* CP15_SYNC, instruction by instruction.
LEMMA SyncSpelled ==
  CP15_SYNC = <<FLUSH_BTB, DSB, PREFETCH_FLUSH>> /\ CP15_SYNC \in Code
<1>. DEFINE r == <<FLUSH_BTB, DSB, PREFETCH_FLUSH>>
            p0 == <<FLUSH_BTB>>
            p1 == <<DSB, PREFETCH_FLUSH>>
<1>1. r \in Code /\ p0 \in Code /\ p1 \in Code
  BY Instructions DEF Code
<1>2. Stands(p0, 0, r) /\ Stands(p1, 1, r) /\ Len(r) = 3
  BY DEF Stands
<1>3. Len(p0) = 1 /\ 1 + Len(p1) = 3
  OBVIOUS
<1>. HIDE DEF r, p0, p1
<1>4. Spells(p0, 1, r)
  BY <1>1, <1>2, <1>3 DEF Spells
<1>5. Spells(p0 \o p1, 3, r)
  BY <1>1, <1>2, <1>3, <1>4, Extended, Zenon
<1>6. p0 \o p1 = r
  BY <1>1, <1>2, <1>5, Spelled
<1>. QED
  BY <1>1, <1>6 DEF r, p0, p1, CP15_SYNC, CP15_BARRIER

\* A routine of vm-asm.S that does one thing and synchronizes.
LEMMA SyncxSpelled ==
  ASSUME NEW x \in Insts
  PROVE  SYNCX(<<x>>) = <<x, FLUSH_BTB, DSB, PREFETCH_FLUSH>> /\ SYNCX(<<x>>) \in Code
<1>. DEFINE r == <<x, FLUSH_BTB, DSB, PREFETCH_FLUSH>>
            p0 == <<x>>
            p1 == <<FLUSH_BTB, DSB, PREFETCH_FLUSH>>
<1>1. r \in Code /\ p0 \in Code /\ p1 \in Code
  BY Instructions DEF Code
<1>2. Stands(p0, 0, r) /\ Stands(p1, 1, r) /\ Len(r) = 4
  BY DEF Stands
<1>3. Len(p0) = 1 /\ 1 + Len(p1) = 4
  OBVIOUS
<1>. HIDE DEF r, p0, p1
<1>4. Spells(p0, 1, r)
  BY <1>1, <1>2, <1>3 DEF Spells
<1>5. Spells(p0 \o p1, 4, r)
  BY <1>1, <1>2, <1>3, <1>4, Extended, Zenon
<1>6. p0 \o p1 = r
  BY <1>1, <1>2, <1>5, Spelled
<1>. QED
  BY <1>1, <1>6, SyncSpelled DEF r, p0, p1, SYNCX

\* mmu_reset(), instruction by instruction.
LEMMA ResetSpelled ==
  mmu_reset =
      <<INV_DCACHE, INV_ICACHE, INV_TLB, FLUSH_BTB, DSB, PREFETCH_FLUSH>>
  /\ mmu_reset \in Code
<1>. DEFINE r == <<INV_DCACHE, INV_ICACHE, INV_TLB, FLUSH_BTB, DSB, PREFETCH_FLUSH>>
            p0 == <<INV_DCACHE, INV_ICACHE, INV_TLB>>
            p1 == <<FLUSH_BTB, DSB, PREFETCH_FLUSH>>
<1>1. r \in Code /\ p0 \in Code /\ p1 \in Code
  BY Instructions DEF Code
<1>2. Stands(p0, 0, r) /\ Stands(p1, 3, r) /\ Len(r) = 6
  BY DEF Stands
<1>3. Len(p0) = 3 /\ 3 + Len(p1) = 6
  OBVIOUS
<1>. HIDE DEF r, p0, p1
<1>4. Spells(p0, 3, r)
  BY <1>1, <1>2, <1>3 DEF Spells
<1>5. Spells(p0 \o p1, 6, r)
  BY <1>1, <1>2, <1>3, <1>4, Extended, Zenon
<1>6. p0 \o p1 = r
  BY <1>1, <1>2, <1>5, Spelled
<1>. QED
  BY <1>1, <1>6, SyncSpelled DEF r, p0, p1, mmu_reset, MMU_INIT, SYNCX

\* mmu_disable_set_asm(), instruction by instruction.
LEMMA DisableSpelled ==
  ASSUME NEW c \in SUBSET ControlFields
  PROVE  mmu_disable_set_asm(c) =
      <<DSB, CLEAN_INV_DCACHE, DSB, PREFETCH_FLUSH, Bic(2), DSB, PREFETCH_FLUSH,
        CONTROL_REG1_WR(c), DSB, PREFETCH_FLUSH, INV_ICACHE, FLUSH_BTB, DSB,
        PREFETCH_FLUSH>>
         /\ mmu_disable_set_asm(c) \in Code
<1>. DEFINE r == <<DSB, CLEAN_INV_DCACHE, DSB, PREFETCH_FLUSH, Bic(2), DSB,
                   PREFETCH_FLUSH, CONTROL_REG1_WR(c), DSB, PREFETCH_FLUSH,
                   INV_ICACHE, FLUSH_BTB, DSB, PREFETCH_FLUSH>>
            p0 == <<DSB, CLEAN_INV_DCACHE>>
            p1 == <<DSB, PREFETCH_FLUSH>>
            p2 == <<Bic(2)>>
            p3 == <<DSB, PREFETCH_FLUSH>>
            p4 == <<CONTROL_REG1_WR(c)>>
            p5 == <<DSB, PREFETCH_FLUSH>>
            p6 == <<INV_ICACHE, FLUSH_BTB, DSB, PREFETCH_FLUSH>>
<1>1. r \in Code /\ p0 \in Code /\ p1 \in Code /\ p2 \in Code /\ p3 \in Code
      /\ p4 \in Code /\ p5 \in Code /\ p6 \in Code
  BY Instructions DEF Code
<1>2. Stands(p0, 0, r) /\ Stands(p1, 2, r) /\ Stands(p2, 4, r) /\ Stands(p3, 5, r)
      /\ Stands(p4, 7, r) /\ Stands(p5, 8, r) /\ Stands(p6, 10, r) /\ Len(r) = 14
  BY DEF Stands
<1>3. Len(p0) = 2 /\ 2 + Len(p1) = 4 /\ 4 + Len(p2) = 5 /\ 5 + Len(p3) = 7
      /\ 7 + Len(p4) = 8 /\ 8 + Len(p5) = 10 /\ 10 + Len(p6) = 14
  OBVIOUS
<1>. HIDE DEF r, p0, p1, p2, p3, p4, p5, p6
<1>4. Spells(p0, 2, r)
  BY <1>1, <1>2, <1>3 DEF Spells
<1>5. Spells(p0 \o p1, 4, r)
  BY <1>1, <1>2, <1>3, <1>4, Extended, Zenon
<1>6. Spells(p0 \o p1 \o p2, 5, r)
  BY <1>1, <1>2, <1>3, <1>5, Extended, Zenon
<1>7. Spells(p0 \o p1 \o p2 \o p3, 7, r)
  BY <1>1, <1>2, <1>3, <1>6, Extended, Zenon
<1>8. Spells(p0 \o p1 \o p2 \o p3 \o p4, 8, r)
  BY <1>1, <1>2, <1>3, <1>7, Extended, Zenon
<1>9. Spells(p0 \o p1 \o p2 \o p3 \o p4 \o p5, 10, r)
  BY <1>1, <1>2, <1>3, <1>8, Extended, Zenon
<1>10. Spells(p0 \o p1 \o p2 \o p3 \o p4 \o p5 \o p6, 14, r)
  BY <1>1, <1>2, <1>3, <1>9, Extended, Zenon
<1>11. p0 \o p1 \o p2 \o p3 \o p4 \o p5 \o p6 = r
  BY <1>1, <1>2, <1>10, Spelled
<1>. QED
  BY <1>1, <1>11 DEF r, p0, p1, p2, p3, p4, p5, p6, mmu_disable_set_asm, CP15_BARRIER

\* mmu_all_cache_on(), instruction by instruction.
LEMMA CachesOnSpelled ==
  ASSUME NEW c \in SUBSET ControlFields
  PROVE  SYNCX(<<CONTROL_REG1_WR(c)>>) \o <<Compiled>> \o CP15_SYNC =
      <<CONTROL_REG1_WR(c), FLUSH_BTB, DSB, PREFETCH_FLUSH, Compiled, FLUSH_BTB,
        DSB, PREFETCH_FLUSH>>
         /\ SYNCX(<<CONTROL_REG1_WR(c)>>) \o <<Compiled>> \o CP15_SYNC \in Code
<1>. DEFINE r == <<CONTROL_REG1_WR(c), FLUSH_BTB, DSB, PREFETCH_FLUSH, Compiled,
                   FLUSH_BTB, DSB, PREFETCH_FLUSH>>
            p0 == <<CONTROL_REG1_WR(c), FLUSH_BTB, DSB, PREFETCH_FLUSH>>
            p1 == <<Compiled>>
            p2 == <<FLUSH_BTB, DSB, PREFETCH_FLUSH>>
<1>1. r \in Code /\ p0 \in Code /\ p1 \in Code /\ p2 \in Code
  BY Instructions DEF Code
<1>2. Stands(p0, 0, r) /\ Stands(p1, 4, r) /\ Stands(p2, 5, r) /\ Len(r) = 8
  BY DEF Stands
<1>3. Len(p0) = 4 /\ 4 + Len(p1) = 5 /\ 5 + Len(p2) = 8
  OBVIOUS
<1>. HIDE DEF r, p0, p1, p2
<1>4. Spells(p0, 4, r)
  BY <1>1, <1>2, <1>3 DEF Spells
<1>5. Spells(p0 \o p1, 5, r)
  BY <1>1, <1>2, <1>3, <1>4, Extended, Zenon
<1>6. Spells(p0 \o p1 \o p2, 8, r)
  BY <1>1, <1>2, <1>3, <1>5, Extended, Zenon
<1>7. p0 \o p1 \o p2 = r
  BY <1>1, <1>2, <1>6, Spelled
<1>. QED
  BY <1>1, <1>7, SyncSpelled, SyncxSpelled, Instructions DEF r, p0, p1, p2

\* mmu_all_cache_off(), instruction by instruction.
LEMMA CachesOffSpelled ==
  ASSUME NEW c \in SUBSET ControlFields
  PROVE  SYNCX(<<CONTROL_REG1_WR(c)>>) \o <<Compiled>> \o CP15_BARRIER \o <<Compiled>>
  \o SYNCX(<<CLEAN_INV_DCACHE>>) \o <<Compiled>> \o SYNCX(<<INV_ICACHE>>) \o <<Compiled>> \o CP15_SYNC =
      <<CONTROL_REG1_WR(c), FLUSH_BTB, DSB, PREFETCH_FLUSH, Compiled, DSB,
        PREFETCH_FLUSH, Compiled, CLEAN_INV_DCACHE, FLUSH_BTB, DSB, PREFETCH_FLUSH,
        Compiled, INV_ICACHE, FLUSH_BTB, DSB, PREFETCH_FLUSH, Compiled, FLUSH_BTB,
        DSB, PREFETCH_FLUSH>>
         /\ SYNCX(<<CONTROL_REG1_WR(c)>>) \o <<Compiled>> \o CP15_BARRIER \o <<Compiled>>
  \o SYNCX(<<CLEAN_INV_DCACHE>>) \o <<Compiled>> \o SYNCX(<<INV_ICACHE>>) \o <<Compiled>> \o CP15_SYNC \in Code
<1>. DEFINE r == <<CONTROL_REG1_WR(c), FLUSH_BTB, DSB, PREFETCH_FLUSH, Compiled,
                   DSB, PREFETCH_FLUSH, Compiled, CLEAN_INV_DCACHE, FLUSH_BTB, DSB,
                   PREFETCH_FLUSH, Compiled, INV_ICACHE, FLUSH_BTB, DSB,
                   PREFETCH_FLUSH, Compiled, FLUSH_BTB, DSB, PREFETCH_FLUSH>>
            p0 == <<CONTROL_REG1_WR(c), FLUSH_BTB, DSB, PREFETCH_FLUSH>>
            p1 == <<Compiled>>
            p2 == <<DSB, PREFETCH_FLUSH>>
            p3 == <<Compiled>>
            p4 == <<CLEAN_INV_DCACHE, FLUSH_BTB, DSB, PREFETCH_FLUSH>>
            p5 == <<Compiled>>
            p6 == <<INV_ICACHE, FLUSH_BTB, DSB, PREFETCH_FLUSH>>
            p7 == <<Compiled>>
            p8 == <<FLUSH_BTB, DSB, PREFETCH_FLUSH>>
<1>1. r \in Code /\ p0 \in Code /\ p1 \in Code /\ p2 \in Code /\ p3 \in Code
      /\ p4 \in Code /\ p5 \in Code /\ p6 \in Code /\ p7 \in Code /\ p8 \in Code
  BY Instructions DEF Code
<1>2. Stands(p0, 0, r) /\ Stands(p1, 4, r) /\ Stands(p2, 5, r) /\ Stands(p3, 7, r)
      /\ Stands(p4, 8, r) /\ Stands(p5, 12, r) /\ Stands(p6, 13, r)
      /\ Stands(p7, 17, r) /\ Stands(p8, 18, r) /\ Len(r) = 21
  BY DEF Stands
<1>3. Len(p0) = 4 /\ 4 + Len(p1) = 5 /\ 5 + Len(p2) = 7 /\ 7 + Len(p3) = 8
      /\ 8 + Len(p4) = 12 /\ 12 + Len(p5) = 13 /\ 13 + Len(p6) = 17
      /\ 17 + Len(p7) = 18 /\ 18 + Len(p8) = 21
  OBVIOUS
<1>. HIDE DEF r, p0, p1, p2, p3, p4, p5, p6, p7, p8
<1>4. Spells(p0, 4, r)
  BY <1>1, <1>2, <1>3 DEF Spells
<1>5. Spells(p0 \o p1, 5, r)
  BY <1>1, <1>2, <1>3, <1>4, Extended, Zenon
<1>6. Spells(p0 \o p1 \o p2, 7, r)
  BY <1>1, <1>2, <1>3, <1>5, Extended, Zenon
<1>7. Spells(p0 \o p1 \o p2 \o p3, 8, r)
  BY <1>1, <1>2, <1>3, <1>6, Extended, Zenon
<1>8. Spells(p0 \o p1 \o p2 \o p3 \o p4, 12, r)
  BY <1>1, <1>2, <1>3, <1>7, Extended, Zenon
<1>9. Spells(p0 \o p1 \o p2 \o p3 \o p4 \o p5, 13, r)
  BY <1>1, <1>2, <1>3, <1>8, Extended, Zenon
<1>10. Spells(p0 \o p1 \o p2 \o p3 \o p4 \o p5 \o p6, 17, r)
  BY <1>1, <1>2, <1>3, <1>9, Extended, Zenon
<1>11. Spells(p0 \o p1 \o p2 \o p3 \o p4 \o p5 \o p6 \o p7, 18, r)
  BY <1>1, <1>2, <1>3, <1>10, Extended, Zenon
<1>12. Spells(p0 \o p1 \o p2 \o p3 \o p4 \o p5 \o p6 \o p7 \o p8, 21, r)
  BY <1>1, <1>2, <1>3, <1>11, Extended, Zenon
<1>13. p0 \o p1 \o p2 \o p3 \o p4 \o p5 \o p6 \o p7 \o p8 = r
  BY <1>1, <1>2, <1>12, Spelled
<1>. QED
  BY <1>1, <1>13, SyncSpelled, SyncxSpelled, Instructions DEF r, p0, p1, p2, p3, p4, p5, p6, p7, p8, CP15_BARRIER

\* mmu_init(), instruction by instruction.
LEMMA InitSpelled ==
  ASSUME NEW c \in SUBSET ControlFields
  PROVE  mmu_reset \o <<Compiled>> \o SYNCX(<<CONTROL_REG1_WR(c)>>) =
      <<INV_DCACHE, INV_ICACHE, INV_TLB, FLUSH_BTB, DSB, PREFETCH_FLUSH, Compiled,
        CONTROL_REG1_WR(c), FLUSH_BTB, DSB, PREFETCH_FLUSH>>
         /\ mmu_reset \o <<Compiled>> \o SYNCX(<<CONTROL_REG1_WR(c)>>) \in Code
<1>. DEFINE r == <<INV_DCACHE, INV_ICACHE, INV_TLB, FLUSH_BTB, DSB, PREFETCH_FLUSH,
                   Compiled, CONTROL_REG1_WR(c), FLUSH_BTB, DSB, PREFETCH_FLUSH>>
            p0 == <<INV_DCACHE, INV_ICACHE, INV_TLB, FLUSH_BTB, DSB,
                    PREFETCH_FLUSH>>
            p1 == <<Compiled>>
            p2 == <<CONTROL_REG1_WR(c), FLUSH_BTB, DSB, PREFETCH_FLUSH>>
<1>1. r \in Code /\ p0 \in Code /\ p1 \in Code /\ p2 \in Code
  BY Instructions DEF Code
<1>2. Stands(p0, 0, r) /\ Stands(p1, 6, r) /\ Stands(p2, 7, r) /\ Len(r) = 11
  BY DEF Stands
<1>3. Len(p0) = 6 /\ 6 + Len(p1) = 7 /\ 7 + Len(p2) = 11
  OBVIOUS
<1>. HIDE DEF r, p0, p1, p2
<1>4. Spells(p0, 6, r)
  BY <1>1, <1>2, <1>3 DEF Spells
<1>5. Spells(p0 \o p1, 7, r)
  BY <1>1, <1>2, <1>3, <1>4, Extended, Zenon
<1>6. Spells(p0 \o p1 \o p2, 11, r)
  BY <1>1, <1>2, <1>3, <1>5, Extended, Zenon
<1>7. p0 \o p1 \o p2 = r
  BY <1>1, <1>2, <1>6, Spelled
<1>. QED
  BY <1>1, <1>7, ResetSpelled, SyncxSpelled, Instructions DEF r, p0, p1, p2

-----------------------------------------------------------------------------
(***************************************************************************)
(* One instruction.                                                        *)
(***************************************************************************)
\* The names and operands of the instructions.
LEMMA Tags ==
  /\ DSB[1] = "dsb" /\ PREFETCH_FLUSH[1] = "prefetch_flush" /\ FLUSH_BTB[1] = "flush_btb"
  /\ INV_ICACHE[1] = "inv_icache" /\ CLEAN_INV_DCACHE[1] = "clean_inv_dcache"
  /\ INV_DCACHE[1] = "inv_dcache" /\ INV_TLB[1] = "inv_tlb" /\ Bic(2)[1] = "bic"
  /\ Compiled[1] = "compiled" /\ Get32[1] = "get32" /\ Reboot[1] = "reboot"
  /\ \A c : CONTROL_REG1_WR(c)[1] = "control_reg1_wr" /\ CONTROL_REG1_WR(c)[2] = c
  /\ \A a : ASID_SET(a)[1] = "asid_set" /\ ASID_SET(a)[2] = a
  /\ \A a : TTBR0_SET(a)[1] = "ttbr0_set" /\ TTBR0_SET(a)[2] = a
  /\ \A c : Str(c)[1] = "str" /\ Str(c)[2] = c
  /\ \A f, on : Expect(f, on)[1] = "expect" /\ Expect(f, on)[2] = f /\ Expect(f, on)[3] = on
BY DEF DSB, PREFETCH_FLUSH, FLUSH_BTB, INV_ICACHE, CLEAN_INV_DCACHE, INV_DCACHE, INV_TLB,
   Bic, Compiled, Get32, Reboot, CONTROL_REG1_WR, ASID_SET, TTBR0_SET, Str, Expect

\* An instruction is known by its name.
LEMMA Kinds ==
  ASSUME NEW x \in Insts
  PROVE  /\ x[1] = "dsb" => x = DSB
         /\ x[1] = "prefetch_flush" => x = PREFETCH_FLUSH
         /\ x[1] = "flush_btb" => x = FLUSH_BTB
         /\ x[1] = "inv_icache" => x = INV_ICACHE
         /\ x[1] = "clean_inv_dcache" => x = CLEAN_INV_DCACHE
         /\ x[1] = "inv_dcache" => x = INV_DCACHE
         /\ x[1] = "inv_tlb" => x = INV_TLB
         /\ x[1] = "compiled" => x = Compiled
         /\ x[1] = "get32" => x = Get32
         /\ x[1] = "control_reg1_wr" => x[2] \in SUBSET ControlFields
         /\ x[1] = "asid_set" => x[2] \in Cells /\ x = ASID_SET(x[2])
         /\ x[1] = "ttbr0_set" => x[2] \in Asids /\ x = TTBR0_SET(x[2])
         /\ x[1] = "str" => x[2] \in Cells
         /\ x[1] = "expect" => x[3] \in BOOLEAN
BY Tags DEF Insts

\* What is left when the first instruction is done.
LEMMA Done ==
  ASSUME todo \in Code, todo # <<>>, todo' = Tail(todo)
  PROVE  /\ Len(todo) \in Nat /\ Len(todo) >= 1 /\ Head(todo) = todo[1] /\ todo[1] \in Insts
         /\ todo' \in Code /\ Len(todo') = Len(todo) - 1
         /\ \A k \in Ahead(todo)' : k + 1 \in Ahead(todo) /\ todo'[k] = todo[k + 1]
         /\ \A k \in Ahead(todo) : k # 1 => k - 1 \in Ahead(todo)' /\ todo'[k - 1] = todo[k]
         /\ Len(todo) >= 2 => todo'[1] = todo[2]
         /\ Len(todo) >= 3 => todo'[2] = todo[3]
<1>1. Len(todo) \in Nat /\ Len(todo) >= 1 /\ Head(todo) = todo[1]
  BY DEF Code
<1>2. todo' \in Code /\ Len(todo') = Len(todo) - 1
      /\ \A i \in 1 .. Len(todo) - 1 : todo'[i] = todo[i + 1]
  BY HeadTailProperties DEF Code
<1>3. todo[1] \in Insts
  BY <1>1, ElementOfSeq DEF Code
<1>4. ASSUME NEW k \in Ahead(todo)' PROVE k + 1 \in Ahead(todo) /\ todo'[k] = todo[k + 1]
  BY <1>1, <1>2 DEF Ahead
<1>5. ASSUME NEW k \in Ahead(todo), k # 1 PROVE k - 1 \in Ahead(todo)' /\ todo'[k - 1] = todo[k]
  <2>1. k - 1 \in 1 .. Len(todo) - 1 /\ (k - 1) + 1 = k
    BY <1>1, <1>5 DEF Ahead
  <2>. QED
    BY <1>2, <2>1 DEF Ahead
<1>6. ASSUME Len(todo) >= 2 PROVE todo'[1] = todo[2]
  <2>1. \A i \in 1 .. Len(todo) - 1 : i = 1 => todo'[i] = todo[2]
    BY <1>2
  <2>. QED
    BY <1>1, <1>6, <2>1
<1>7. ASSUME Len(todo) >= 3 PROVE todo'[2] = todo[3]
  <2>1. \A i \in 1 .. Len(todo) - 1 : i = 2 => todo'[i] = todo[3]
    BY <1>2
  <2>. QED
    BY <1>1, <1>7, <2>1
<1>. QED
  BY <1>1, <1>2, <1>3, <1>4, <1>5, <1>6, <1>7

\* The length of code, and the instructions in it.
LEMMA Counted ==
  ASSUME NEW r \in Code
  PROVE  /\ Len(r) \in Nat /\ (Len(r) = 0 <=> r = <<>>)
         /\ \A k \in Ahead(r) : k \in Nat /\ k >= 1 /\ k <= Len(r) /\ r[k] \in Insts
<1>1. Len(r) \in Nat /\ (Len(r) = 0 <=> r = <<>>)
  BY DEF Code
<1>2. \A k \in 1 .. Len(r) : r[k] \in Insts
  BY ElementOfSeq DEF Code
<1>. QED
  BY <1>1, <1>2 DEF Ahead

\* Which instruction a step does, and which state only it changes.
LEMMA Framed ==
  ASSUME todo \in Code, Routine
  PROVE  /\ todo # <<>> /\ todo' = Tail(todo) /\ ~panicked
         /\ ctl' = ctl \/ WritesControl(todo[1])
         /\ MmuOn' => MmuOn \/ TurnsOn(todo[1])
         /\ mem' = mem \/ todo[1] = DSB
         /\ wb' = wb \/ todo[1] \in {DSB, CLEAN_INV_DCACHE, Compiled} \/ todo[1][1] = "str"
         /\ dc' = dc \/ todo[1] \in {CLEAN_INV_DCACHE, INV_DCACHE, Compiled} \/ todo[1][1] = "str"
         /\ tlb' = tlb \/ todo[1] = INV_TLB
         /\ (last' = last /\ windowed' = windowed) \/ todo[1] = Compiled \/ todo[1][1] = "str"
         /\ asid' = asid \/ todo[1] = PREFETCH_FLUSH \/ todo[1][1] = "asid_set"
         /\ ttbr0' = ttbr0 \/ todo[1] = PREFETCH_FLUSH \/ todo[1][1] = "ttbr0_set"
         /\ panicked' = panicked \/ Checks(todo[1])
<1>1. todo # <<>> /\ todo' = Tail(todo) /\ ~panicked
  BY DEF Routine, Inst, Dsb, PrefetchFlush, FlushBtb, InvIcache, CleanInvDcache, InvDcache,
     InvTlb, ControlReg1Wr, ClearBit, AsidSet, Ttbr0Set, StrPte, RunCompiled, RunAsserts
<1>2. Head(todo) = todo[1] /\ todo[1] \in Insts
  BY <1>1, Done
<1>. DEFINE x == todo[1]
<1>3. CASE Dsb
  <2>1. x = DSB
    BY <1>2, <1>3, Kinds DEF Dsb, Inst
  <2>. QED
    BY <1>1, <1>3, <2>1 DEF Dsb, MmuOn, hist
<1>4. CASE PrefetchFlush
  <2>1. x = PREFETCH_FLUSH
    BY <1>2, <1>4, Kinds DEF PrefetchFlush, Inst
  <2>. QED
    BY <1>1, <1>4, <2>1 DEF PrefetchFlush, MmuOn, hw, hist
<1>5. CASE FlushBtb
  BY <1>1, <1>5 DEF FlushBtb, MmuOn, hw, hist
<1>6. CASE InvIcache
  BY <1>1, <1>6 DEF InvIcache, MmuOn, hw, hist
<1>7. CASE CleanInvDcache
  <2>1. x = CLEAN_INV_DCACHE
    BY <1>2, <1>7, Kinds DEF CleanInvDcache, Inst
  <2>. QED
    BY <1>1, <1>7, <2>1 DEF CleanInvDcache, MmuOn, hist
<1>8. CASE InvDcache
  <2>1. x = INV_DCACHE
    BY <1>2, <1>8, Kinds DEF InvDcache, Inst
  <2>. QED
    BY <1>1, <1>8, <2>1 DEF InvDcache, MmuOn, hist
<1>9. CASE InvTlb
  <2>1. x = INV_TLB
    BY <1>2, <1>9, Kinds DEF InvTlb, Inst
  <2>. QED
    BY <1>1, <1>9, <2>1 DEF InvTlb, MmuOn, hist
<1>10. CASE ControlReg1Wr
  BY <1>1, <1>2, <1>10 DEF ControlReg1Wr, Inst, Operand, SetControl, WritesControl, TurnsOn, MmuOn, hw, hist
<1>11. CASE ClearBit
  BY <1>1, <1>2, <1>11 DEF ClearBit, Inst, SetControl, WritesControl, MmuOn, hw, hist
<1>12. CASE AsidSet
  BY <1>1, <1>2, <1>12 DEF AsidSet, Inst, MmuOn, hw, hist
<1>13. CASE Ttbr0Set
  BY <1>1, <1>2, <1>13 DEF Ttbr0Set, Inst, MmuOn, hw, hist
<1>14. CASE StrPte
  BY <1>1, <1>2, <1>14 DEF StrPte, Inst, Stored, MmuOn, cpu
<1>15. CASE RunCompiled
  <2>1. x = Compiled
    BY <1>2, <1>15, Kinds DEF RunCompiled, Inst
  <2>. QED
    BY <1>1, <1>15, <2>1 DEF RunCompiled, Stored, MmuOn, hw, cpu, hist
<1>16. CASE RunAsserts
  BY <1>1, <1>2, <1>16 DEF RunAsserts, Inst, Checks, MmuOn, hw, cpu
<1>. QED
  BY <1>3, <1>4, <1>5, <1>6, <1>7, <1>8, <1>9, <1>10, <1>11, <1>12, <1>13, <1>14, <1>15,
     <1>16 DEF Routine

\* The MMU is still off at an instruction that finds it off.
LEMMA EarlyKept ==
  ASSUME todo \in Code, Routine, NEW k \in Ahead(todo)', Early(todo, k + 1)
  PROVE  Early(todo, k)'
<1>1. todo # <<>> /\ todo' = Tail(todo) /\ (MmuOn' => MmuOn \/ TurnsOn(todo[1]))
  BY Framed
<1>2. k \in Nat /\ k >= 1 /\ k + 1 \in Ahead(todo) /\ Len(todo') \in Nat
      /\ \A j \in Ahead(todo)' : todo'[j] = todo[j + 1]
  BY <1>1, Done DEF Ahead, Code
<1>3. ~MmuOn'
  BY <1>1, <1>2 DEF Early
<1>4. ASSUME NEW j \in 1 .. k - 1 PROVE ~TurnsOn(todo'[j])
  <2>1. j + 1 \in 1 .. (k + 1) - 1 /\ j \in Ahead(todo)'
    BY <1>2 DEF Ahead
  <2>. QED
    BY <1>2, <2>1 DEF Early
<1>. QED
  BY <1>3, <1>4 DEF Early, TurnsOn

\* The step that an instruction is.
LEMMA Does ==
  ASSUME todo \in Code, Routine
  PROVE  /\ todo[1][1] = "dsb" => Dsb
         /\ todo[1][1] = "prefetch_flush" => PrefetchFlush
         /\ todo[1][1] = "flush_btb" => FlushBtb
         /\ todo[1][1] = "inv_icache" => InvIcache
         /\ todo[1][1] = "clean_inv_dcache" => CleanInvDcache
         /\ todo[1][1] = "inv_dcache" => InvDcache
         /\ todo[1][1] = "inv_tlb" => InvTlb
         /\ todo[1][1] = "control_reg1_wr" => ControlReg1Wr
         /\ todo[1][1] = "bic" => ClearBit
         /\ todo[1][1] = "asid_set" => AsidSet
         /\ todo[1][1] = "ttbr0_set" => Ttbr0Set
         /\ todo[1][1] = "str" => StrPte
         /\ todo[1][1] = "compiled" => RunCompiled
         /\ todo[1][1] \in {"get32", "expect"} => RunAsserts
<1>1. Head(todo) = todo[1]
  BY Framed, Done
<1>. QED
  BY <1>1 DEF Routine, Inst, Dsb, PrefetchFlush, FlushBtb, InvIcache, CleanInvDcache, InvDcache,
     InvTlb, ControlReg1Wr, ClearBit, AsidSet, Ttbr0Set, StrPte, RunCompiled, RunAsserts

-----------------------------------------------------------------------------
(***************************************************************************)
(* The routines that the kernel calls.                                     *)
(***************************************************************************)
Plain == {DSB, PREFETCH_FLUSH, FLUSH_BTB, INV_ICACHE, CLEAN_INV_DCACHE, INV_TLB, Compiled}

\* These instructions neither write a register, check anything nor store to a table.
LEMMA PlainInstructions ==
  ASSUME NEW x \in Plain
  PROVE  /\ ~WritesControl(x) /\ ~TurnsOn(x) /\ ~Checks(x) /\ ~StoresTable(x)
         /\ (Touches(x) => x = Compiled)
         /\ x # INV_DCACHE /\ x # Get32 /\ x # Reboot
         /\ x[1] \notin {"asid_set", "ttbr0_set", "str", "expect", "control_reg1_wr"}
BY Tags DEF Plain, WritesControl, TurnsOn, Checks, StoresTable, Touches

\* Only where it writes the control register does such a routine ask for anything.
LEMMA PlainSound ==
  ASSUME NEW r \in Code, r # <<>>,
         \A k \in Ahead(r) :
           \/ r[k] \in Plain
           \/ /\ WritesControl(r[k]) /\ CacheCleaned(r, k) /\ DrainedBefore(r, k)
              /\ TurnsOn(r[k]) \/ Early(r, k) \/ IcacheClears(r, k)
  PROVE  Sound(r) /\ ~Program(r)
<1>1. ASSUME NEW k \in Ahead(r)
      PROVE  /\ r[k][1] \notin {"asid_set", "ttbr0_set", "str", "expect"} /\ ~Checks(r[k])
             /\ ~StoresTable(r[k]) /\ r[k] # INV_DCACHE /\ r[k] # Reboot
             /\ CacheCleaned(r, k) /\ DrainedBefore(r, k)
             /\ (WritesControl(r[k]) /\ ~TurnsOn(r[k]) => Early(r, k) \/ IcacheClears(r, k))
  <2>1. CASE r[k] \in Plain
    BY <2>1, PlainInstructions DEF CacheCleaned, DrainedBefore
  <2>2. CASE /\ WritesControl(r[k]) /\ CacheCleaned(r, k) /\ DrainedBefore(r, k)
             /\ TurnsOn(r[k]) \/ Early(r, k) \/ IcacheClears(r, k)
    BY <2>2, Tags DEF WritesControl, Checks, StoresTable
  <2>. QED
    BY <2>1, <2>2
<1>2. ~Program(r)
  <2>1. Len(r) \in Ahead(r)
    BY Counted DEF Ahead
  <2>. QED
    BY <1>1, <2>1 DEF Program
<1>3. SwitchingCode(r)
  BY <1>1 DEF SwitchingCode, TableAfterAsid, AsidAfterTable
<1>4. CachingCode(r)
  BY <1>1 DEF CachingCode, ColdStart
<1>5. WalkingCode(r)
  BY <1>1 DEF WalkingCode, StoresSettle
<1>6. CheckingCode(r)
  BY <1>1, <1>2 DEF CheckingCode
<1>7. FetchingCode(r)
  BY <1>1 DEF FetchingCode
<1>. QED
  BY <1>2, <1>3, <1>4, <1>5, <1>6, <1>7 DEF Sound

\* The fields that the routines of mmu.c switch.
LEMMA FieldsUsed ==
  {"MMU_enabled", "C_unified_enable"} \cup Caches \cup {"XP_pt"} \subseteq ControlFields
BY FieldNames DEF Caches

\* CP15_SYNC and the cache and TLB operations of vm-asm.S are right code, whenever called.
LEMMA MaintenanceSound ==
  ASSUME NEW r \in {CP15_SYNC, cp15_dcache_clean_inv, cp15_icache_inv, cp15_tlbs_inv}
  PROVE  Sound(r) /\ ~Program(r) /\ Ending(r)
<1>1. CASE r = CP15_SYNC
  <2>1. r = <<FLUSH_BTB, DSB, PREFETCH_FLUSH>> /\ r \in Code
    BY <1>1, SyncSpelled
  <2>2. Len(r) = 3 /\ r[1] = FLUSH_BTB /\ r[2] = DSB /\ r[3] = PREFETCH_FLUSH /\ r # <<>>
    BY <2>1
  <2>3. \A k \in Ahead(r) : r[k] \in Plain
    <3>1. \A k \in 1 .. 3 : k = 1 \/ k = 2 \/ k = 3
      OBVIOUS
    <3>. QED
      BY <2>2, <3>1 DEF Plain, Ahead
  <2>4. EndsInSync(r)
    <3>1. 3 - 1 = 2 /\ 3 - 2 = 1
      OBVIOUS
    <3>. QED
      BY <2>2, <3>1 DEF EndsInSync
  <2>. QED
    BY <2>1, <2>2, <2>3, <2>4, PlainSound DEF Ending
<1>2. ASSUME NEW x \in {CLEAN_INV_DCACHE, INV_ICACHE, INV_TLB}, r = SYNCX(<<x>>)
      PROVE  Sound(r) /\ ~Program(r) /\ Ending(r)
  <2>1. r = <<x, FLUSH_BTB, DSB, PREFETCH_FLUSH>> /\ r \in Code
    <3>1. x \in Insts
      BY <1>2, Instructions
    <3>. QED
      BY <1>2, <3>1, SyncxSpelled
  <2>2. Len(r) = 4 /\ r[1] = x /\ r[2] = FLUSH_BTB /\ r[3] = DSB /\ r[4] = PREFETCH_FLUSH /\ r # <<>>
    BY <2>1
  <2>3. \A k \in Ahead(r) : r[k] \in Plain
    <3>1. \A k \in 1 .. 4 : k = 1 \/ k = 2 \/ k = 3 \/ k = 4
      OBVIOUS
    <3>. QED
      BY <1>2, <2>2, <3>1 DEF Plain, Ahead
  <2>4. EndsInSync(r)
    <3>1. 4 - 1 = 3 /\ 4 - 2 = 2
      OBVIOUS
    <3>. QED
      BY <2>2, <3>1 DEF EndsInSync
  <2>. QED
    BY <2>1, <2>2, <2>3, <2>4, PlainSound DEF Ending
<1>. QED
  BY <1>1, <1>2 DEF cp15_dcache_clean_inv, cp15_icache_inv, cp15_tlbs_inv

\* So is mmu_all_cache_on().
LEMMA CachesOnSound ==
  ASSUME ctl \subseteq ControlFields
  PROVE  Sound(mmu_all_cache_on) /\ ~Program(mmu_all_cache_on) /\ Ending(mmu_all_cache_on)
<1>. DEFINE r == mmu_all_cache_on
            c == ctl \cup Caches
<1>1. /\ r = <<CONTROL_REG1_WR(c), FLUSH_BTB, DSB, PREFETCH_FLUSH, Compiled, FLUSH_BTB,
                DSB, PREFETCH_FLUSH>>
      /\ r \in Code
  <2>1. c \in SUBSET ControlFields
    BY FieldsUsed
  <2>. HIDE DEF c
  <2>. QED
    BY <2>1, CachesOnSpelled DEF mmu_all_cache_on, cp15_ctrl_reg1_wr, c
<1>. HIDE DEF r
<1>2. /\ Len(r) = 8 /\ r[1] = CONTROL_REG1_WR(c) /\ r[2] = FLUSH_BTB /\ r[3] = DSB
      /\ r[4] = PREFETCH_FLUSH /\ r[5] = Compiled /\ r[6] = FLUSH_BTB /\ r[7] = DSB
      /\ r[8] = PREFETCH_FLUSH /\ r # <<>>
  BY <1>1
<1>3. r[1][1] = "control_reg1_wr" /\ r[1][2] = c
  BY <1>2, Tags
<1>4. (MmuOn <=> TurnsOn(r[1])) /\ (MmuOn => KeepsCache(r[1])) /\ (~MmuOn => Early(r, 1))
  BY <1>3 DEF TurnsOn, KeepsCache, MmuOn, Early, Caches
<1>5. ASSUME NEW k \in Ahead(r)
      PROVE  \/ r[k] \in Plain
             \/ /\ WritesControl(r[k]) /\ CacheCleaned(r, k) /\ DrainedBefore(r, k)
                /\ TurnsOn(r[k]) \/ Early(r, k) \/ IcacheClears(r, k)
  <2>1. CASE k = 1
    BY <1>3, <1>4, <2>1 DEF WritesControl, CacheCleaned, DrainedBefore
  <2>2. CASE k # 1
    <3>1. k \in {2, 3, 4, 5, 6, 7, 8}
      BY <1>2, <2>2 DEF Ahead
    <3>. QED
      BY <1>2, <3>1 DEF Plain
  <2>. QED
    BY <2>1, <2>2
<1>6. EndsInSync(r)
  <2>1. 8 - 1 = 7 /\ 8 - 2 = 6
    OBVIOUS
  <2>. QED
    BY <1>2, <2>1 DEF EndsInSync
<1>. QED
  BY <1>1, <1>2, <1>5, <1>6, PlainSound DEF Ending, r

\* So is mmu_all_cache_off(), which cleans the cache after it has turned it off.
LEMMA CachesOffSound ==
  ASSUME ctl \subseteq ControlFields
  PROVE  Sound(mmu_all_cache_off) /\ ~Program(mmu_all_cache_off) /\ Ending(mmu_all_cache_off)
<1>. DEFINE r == mmu_all_cache_off
            c == ctl \ Caches
<1>1. /\ r = <<CONTROL_REG1_WR(c), FLUSH_BTB, DSB, PREFETCH_FLUSH, Compiled, DSB,
               PREFETCH_FLUSH, Compiled, CLEAN_INV_DCACHE, FLUSH_BTB, DSB,
               PREFETCH_FLUSH, Compiled, INV_ICACHE, FLUSH_BTB, DSB, PREFETCH_FLUSH,
               Compiled, FLUSH_BTB, DSB, PREFETCH_FLUSH>>
      /\ r \in Code
  <2>1. c \in SUBSET ControlFields
    OBVIOUS
  <2>. HIDE DEF c
  <2>. QED
    BY <2>1, CachesOffSpelled DEF mmu_all_cache_off, cp15_ctrl_reg1_wr, cp15_dcache_clean_inv,
       cp15_icache_inv, c
<1>. HIDE DEF r
<1>2. /\ Len(r) = 21 /\ r[1] = CONTROL_REG1_WR(c) /\ r # <<>>
      /\ r[2] = FLUSH_BTB /\ r[3] = DSB /\ r[4] = PREFETCH_FLUSH /\ r[5] = Compiled
      /\ r[6] = DSB /\ r[7] = PREFETCH_FLUSH /\ r[8] = Compiled /\ r[9] = CLEAN_INV_DCACHE
      /\ r[10] = FLUSH_BTB /\ r[11] = DSB /\ r[12] = PREFETCH_FLUSH /\ r[13] = Compiled
      /\ r[14] = INV_ICACHE /\ r[15] = FLUSH_BTB /\ r[16] = DSB /\ r[17] = PREFETCH_FLUSH
      /\ r[18] = Compiled /\ r[19] = FLUSH_BTB /\ r[20] = DSB /\ r[21] = PREFETCH_FLUSH
  BY <1>1
<1>3. r[1][1] = "control_reg1_wr" /\ r[1][2] = c
  BY <1>2, Tags
<1>4. CleanAfter(r, 1)
  <2>1. 9 \in Ahead(r) /\ 9 > 1
    BY <1>2 DEF Ahead
  <2>2. ASSUME NEW j \in 1 + 1 .. 9 - 1 PROVE r[j] \in {DSB, PREFETCH_FLUSH, FLUSH_BTB, Compiled}
    <3>1. j \in {2, 3, 4, 5, 6, 7, 8}
      BY <2>2
    <3>. QED
      BY <1>2, <3>1
  <2>. QED
    BY <1>2, <2>1, <2>2 DEF CleanAfter
<1>5. TurnsOn(r[1]) => MmuOn
  BY <1>3 DEF TurnsOn, MmuOn
<1>6. IcacheClears(r, 1)
  <2>1. 14 \in Ahead(r) /\ 14 > 1
    BY <1>2 DEF Ahead
  <2>. QED
    BY <1>2, <2>1 DEF IcacheClears
<1>7. ASSUME NEW k \in Ahead(r)
      PROVE  \/ r[k] \in Plain
             \/ /\ WritesControl(r[k]) /\ CacheCleaned(r, k) /\ DrainedBefore(r, k)
                /\ TurnsOn(r[k]) \/ Early(r, k) \/ IcacheClears(r, k)
  <2>1. CASE k = 1
    BY <1>3, <1>4, <1>5, <1>6, <2>1 DEF WritesControl, CacheCleaned, DrainedBefore
  <2>2. CASE k # 1
    <3>1. k \in {2, 3, 4, 5, 6, 7, 8, 9, 10} \/ k \in {11, 12, 13, 14, 15, 16, 17, 18, 19, 20, 21}
      BY <1>2, <2>2 DEF Ahead
    <3>. QED
      BY <1>2, <3>1 DEF Plain
  <2>. QED
    BY <2>1, <2>2
<1>8. EndsInSync(r)
  <2>1. 21 - 1 = 20 /\ 21 - 2 = 19
    OBVIOUS
  <2>. QED
    BY <1>2, <2>1 DEF EndsInSync
<1>. QED
  BY <1>1, <1>2, <1>7, <1>8, PlainSound DEF Ending, r

\* So is mmu_enable(), with the MMU off.
LEMMA EnableSound ==
  ASSUME ctl \subseteq ControlFields, ~MmuOn
  PROVE  Sound(mmu_enable(ctl)) /\ ~Program(mmu_enable(ctl)) /\ Ending(mmu_enable(ctl))
<1>. DEFINE r == mmu_enable(ctl)
            c == ctl \cup {"MMU_enabled"}
<1>1. r = <<DSB, CONTROL_REG1_WR(c), FLUSH_BTB, DSB, PREFETCH_FLUSH>> /\ r \in Code
  <2>1. c \in SUBSET ControlFields
    BY FieldsUsed
  <2>2. r = <<DSB, CONTROL_REG1_WR(c), FLUSH_BTB, DSB, PREFETCH_FLUSH>>
    BY DEF mmu_enable, mmu_enable_set, mmu_enable_set_asm
  <2>. HIDE DEF c
  <2>. QED
    BY <2>1, <2>2, Instructions DEF Code
<1>. HIDE DEF r
<1>2. /\ Len(r) = 5 /\ r[1] = DSB /\ r[2] = CONTROL_REG1_WR(c) /\ r[3] = FLUSH_BTB /\ r[4] = DSB
      /\ r[5] = PREFETCH_FLUSH /\ r # <<>>
  BY <1>1
<1>3. r[2][1] = "control_reg1_wr" /\ r[2][2] = c /\ TurnsOn(r[2])
  BY <1>2, Tags DEF TurnsOn
<1>4. Early(r, 2)
  <2>1. ~TurnsOn(r[1])
    BY <1>2, Tags DEF TurnsOn
  <2>2. \A j \in 1 .. 2 - 1 : j = 1
    OBVIOUS
  <2>. QED
    BY <2>1, <2>2 DEF Early
<1>5. ASSUME NEW k \in Ahead(r)
      PROVE  \/ r[k] \in Plain
             \/ /\ WritesControl(r[k]) /\ CacheCleaned(r, k) /\ DrainedBefore(r, k)
                /\ TurnsOn(r[k]) \/ Early(r, k) \/ IcacheClears(r, k)
  <2>1. CASE k = 2
    <3>1. k - 1 = 1 /\ k > 1
      BY <2>1
    <3>. QED
      BY <1>2, <1>3, <1>4, <2>1, <3>1 DEF WritesControl, CacheCleaned, DrainedBefore
  <2>2. CASE k # 2
    <3>1. k \in {1, 3, 4, 5}
      BY <1>2, <2>2 DEF Ahead
    <3>. QED
      BY <1>2, <3>1 DEF Plain
  <2>. QED
    BY <2>1, <2>2
<1>6. EndsInSync(r)
  <2>1. 5 - 1 = 4 /\ 5 - 2 = 3
    OBVIOUS
  <2>. QED
    BY <1>2, <2>1 DEF EndsInSync
<1>. QED
  BY <1>1, <1>2, <1>5, <1>6, PlainSound DEF Ending, r

\* So is mmu_disable(), which cleans the cache before it turns it off.
LEMMA DisableSound ==
  ASSUME ctl \subseteq ControlFields
  PROVE  Sound(mmu_disable(ctl)) /\ ~Program(mmu_disable(ctl)) /\ Ending(mmu_disable(ctl))
<1>. DEFINE r == mmu_disable(ctl)
            c == ctl \ {"MMU_enabled", "C_unified_enable"}
<1>1. /\ r = <<DSB, CLEAN_INV_DCACHE, DSB, PREFETCH_FLUSH, Bic(2), DSB, PREFETCH_FLUSH,
               CONTROL_REG1_WR(c), DSB, PREFETCH_FLUSH, INV_ICACHE, FLUSH_BTB, DSB,
               PREFETCH_FLUSH>>
      /\ r \in Code
  <2>1. c \in SUBSET ControlFields
    OBVIOUS
  <2>. HIDE DEF c
  <2>. QED
    BY <2>1, DisableSpelled DEF mmu_disable, c
<1>. HIDE DEF r
<1>2. /\ Len(r) = 14 /\ r # <<>>
      /\ r[1] = DSB /\ r[2] = CLEAN_INV_DCACHE /\ r[3] = DSB /\ r[4] = PREFETCH_FLUSH
      /\ r[5] = Bic(2) /\ r[6] = DSB /\ r[7] = PREFETCH_FLUSH /\ r[8] = CONTROL_REG1_WR(c)
      /\ r[9] = DSB /\ r[10] = PREFETCH_FLUSH /\ r[11] = INV_ICACHE /\ r[12] = FLUSH_BTB
      /\ r[13] = DSB /\ r[14] = PREFETCH_FLUSH
  BY <1>1
<1>3. /\ WritesControl(r[5]) /\ WritesControl(r[8]) /\ ~TurnsOn(r[5]) /\ ~TurnsOn(r[8])
      /\ \A j \in {3, 4, 5, 6, 7} : ~Touches(r[j])
  BY <1>2, Tags DEF WritesControl, TurnsOn, Touches
<1>4. ASSUME NEW k \in {5, 8} PROVE CleanBefore(r, k) /\ IcacheClears(r, k)
  <2>1. 2 \in 1 .. k - 1 /\ 11 \in Ahead(r) /\ 11 > k
    BY <1>2, <1>4 DEF Ahead
  <2>2. \A j \in 2 + 1 .. k - 1 : j \in {3, 4, 5, 6, 7}
    BY <1>4
  <2>3. Untouched(r, 2, k)
    BY <1>3, <2>2 DEF Untouched
  <2>. QED
    BY <1>2, <2>1, <2>3 DEF CleanBefore, IcacheClears
<1>5. ASSUME NEW k \in Ahead(r)
      PROVE  \/ r[k] \in Plain
             \/ /\ WritesControl(r[k]) /\ CacheCleaned(r, k) /\ DrainedBefore(r, k)
                /\ TurnsOn(r[k]) \/ Early(r, k) \/ IcacheClears(r, k)
  <2>1. CASE k \in {5, 8}
    BY <1>3, <1>4, <2>1 DEF CacheCleaned, DrainedBefore
  <2>2. CASE k \notin {5, 8}
    <3>1. k \in {1, 2, 3, 4, 6, 7} \/ k \in {9, 10, 11, 12, 13, 14}
      BY <1>2, <2>2 DEF Ahead
    <3>. QED
      BY <1>2, <3>1 DEF Plain
  <2>. QED
    BY <2>1, <2>2
<1>6. EndsInSync(r)
  <2>1. 14 - 1 = 13 /\ 14 - 2 = 12
    OBVIOUS
  <2>. QED
    BY <1>2, <2>1 DEF EndsInSync
<1>. QED
  BY <1>1, <1>2, <1>5, <1>6, PlainSound DEF Ending, r

\* So is cp15_set_procid_ttbr0(), with its ASID 0 in between.
LEMMA SwitchSound ==
  ASSUME NEW a \in Asids
  PROVE  /\ Sound(cp15_set_procid_ttbr0(a)) /\ ~Program(cp15_set_procid_ttbr0(a))
         /\ Ending(cp15_set_procid_ttbr0(a))
<1>. DEFINE r == cp15_set_procid_ttbr0(a)
<1>1. r \in Code
  <2>1. ASID_SET(0) \in Insts /\ ASID_SET(a) \in Insts
    BY Instructions DEF Cells
  <2>. QED
    BY <2>1, Instructions DEF cp15_set_procid_ttbr0, Code
<1>2. /\ Len(r) = 6 /\ r # <<>> /\ r[1] = ASID_SET(0) /\ r[2] = PREFETCH_FLUSH /\ r[3] = TTBR0_SET(a)
      /\ r[4] = PREFETCH_FLUSH /\ r[5] = ASID_SET(a) /\ r[6] = DSB
  BY DEF cp15_set_procid_ttbr0
<1>. HIDE DEF r
<1>3. /\ r[1][1] = "asid_set" /\ r[1][2] = 0 /\ r[2][1] = "prefetch_flush" /\ r[3][1] = "ttbr0_set"
      /\ r[4][1] = "prefetch_flush" /\ r[5][1] = "asid_set" /\ r[5][2] = a /\ r[6][1] = "dsb"
  BY <1>2, Tags
<1>4. \A k \in Ahead(r) : k \in {1, 2, 3, 4, 5, 6}
  BY <1>2 DEF Ahead
<1>5. ASSUME NEW k \in Ahead(r) PROVE TableAfterAsid(r, k) /\ AsidAfterTable(r, k)
  <2>1. CASE k = 3
    <3>1. k > 2 /\ k - 1 = 2 /\ k - 2 = 1
      BY <2>1
    <3>. QED
      BY <1>2, <1>3, <2>1, <3>1 DEF TableAfterAsid, AsidAfterTable
  <2>2. CASE k = 5
    <3>1. k > 2 /\ k - 1 = 4 /\ k - 2 = 3
      BY <2>2
    <3>. QED
      BY <1>2, <1>3, <2>2, <3>1 DEF TableAfterAsid, AsidAfterTable
  <2>3. CASE k \in {1, 2, 4, 6}
    BY <1>3, <2>3 DEF TableAfterAsid, AsidAfterTable
  <2>. QED
    BY <1>4, <2>1, <2>2, <2>3
<1>6. ASSUME NEW k \in Ahead(r)
      PROVE  /\ r[k] # INV_DCACHE /\ ~WritesControl(r[k]) /\ ~TurnsOn(r[k]) /\ ~StoresTable(r[k])
             /\ ~Checks(r[k]) /\ r[k] # Reboot
  BY <1>3, <1>4, Tags DEF WritesControl, TurnsOn, StoresTable, Checks
<1>7. ~Program(r)
  <2>1. Len(r) \in Ahead(r)
    BY <1>2 DEF Ahead
  <2>. QED
    BY <1>6, <2>1 DEF Program
<1>8. Sound(r)
  BY <1>1, <1>5, <1>6, <1>7 DEF Sound, SwitchingCode, CachingCode, ColdStart, CacheCleaned, WalkingCode,
     StoresSettle, DrainedBefore, CheckingCode, FetchingCode
<1>9. EndsInSwitch(r)
  <2>1. 6 - 1 = 5
    OBVIOUS
  <2>. QED
    BY <1>2, <1>3, <2>1 DEF EndsInSwitch
<1>. QED
  BY <1>2, <1>7, <1>8, <1>9 DEF Ending, r

\* So is mmu_sync_pte_mod().
LEMMA SyncPteSound ==
  ASSUME NEW a \in Asids
  PROVE  Sound(mmu_sync_pte_mod(a)) /\ ~Program(mmu_sync_pte_mod(a)) /\ Ending(mmu_sync_pte_mod(a))
<1>. DEFINE r == mmu_sync_pte_mod(a)
<1>1. r \in Code
  <2>1. Str(a) \in Insts
    BY Instructions DEF Cells
  <2>. QED
    BY <2>1, Instructions DEF mmu_sync_pte_mod, STORE_PTE, Code
<1>2. /\ Len(r) = 7 /\ r # <<>> /\ r[1] = Str(a) /\ r[2] = CLEAN_INV_DCACHE /\ r[3] = DSB
      /\ r[4] = INV_TLB /\ r[5] = FLUSH_BTB /\ r[6] = DSB /\ r[7] = PREFETCH_FLUSH
  BY DEF mmu_sync_pte_mod, STORE_PTE
<1>. HIDE DEF r
<1>3. StoresSettle(r, 1)
  <2>1. 1 + 1 = 2 /\ 1 + 2 = 3 /\ 1 + 3 = 4 /\ 4 <= 7
    OBVIOUS
  <2>. QED
    BY <1>2, <2>1 DEF StoresSettle
<1>4. \A k \in Ahead(r) : k = 1 \/ (k # 1 /\ r[k] \in Plain)
  <2>1. \A k \in Ahead(r) : k \in {1, 2, 3, 4, 5, 6, 7}
    BY <1>2 DEF Ahead
  <2>. QED
    BY <1>2, <2>1 DEF Plain
<1>5. r[1][1] = "str"
  BY <1>2, Tags
<1>6. ASSUME NEW k \in Ahead(r)
      PROVE  /\ r[k] # INV_DCACHE /\ ~WritesControl(r[k]) /\ ~TurnsOn(r[k]) /\ ~Checks(r[k]) /\ r[k] # Reboot
             /\ r[k][1] \notin {"asid_set", "ttbr0_set"} /\ StoresSettle(r, k)
  <2>1. CASE k = 1
    BY <1>3, <1>5, <2>1, Tags DEF WritesControl, TurnsOn, Checks
  <2>2. CASE r[k] \in Plain
    BY <2>2, PlainInstructions DEF StoresSettle
  <2>. QED
    BY <1>4, <2>1, <2>2
<1>7. ~Program(r)
  <2>1. Len(r) \in Ahead(r)
    BY <1>2 DEF Ahead
  <2>. QED
    BY <1>6, <2>1 DEF Program
<1>8. Sound(r)
  BY <1>1, <1>6, <1>7 DEF Sound, SwitchingCode, TableAfterAsid, AsidAfterTable, CachingCode,
     ColdStart, CacheCleaned, WalkingCode, DrainedBefore, CheckingCode, FetchingCode
<1>9. EndsInSync(r)
  <2>1. 7 - 1 = 6 /\ 7 - 2 = 5
    OBVIOUS
  <2>. QED
    BY <1>2, <2>1 DEF EndsInSync
<1>. QED
  BY <1>2, <1>7, <1>8, <1>9 DEF Ending, r

-----------------------------------------------------------------------------
(***************************************************************************)
(* Types.  What a cold cache holds is not written back.                    *)
(***************************************************************************)
\* What the types say of each cell.
LEMMA NumbersAndLines ==
  ASSUME TypeOK
  PROVE  /\ 0 \notin Asids /\ MaxStores \in Nat /\ None = -2 /\ Junk = -1
         /\ NoLine = [v |-> None, dirty |-> FALSE] /\ NoLine.dirty = FALSE /\ NoLine.v = None
         /\ \A c \in Cells :
              /\ mem[c] \in 0 .. MaxStores /\ last[c] \in 0 .. MaxStores
              /\ wb[c] = None \/ wb[c] \in 0 .. MaxStores
              /\ dc[c] = NoLine \/ (dc[c] \in Lines /\ dc[c].v \in -1 .. MaxStores /\ dc[c].dirty \in BOOLEAN)
              /\ dc[c] # [v |-> Junk, dirty |-> TRUE] /\ dc[c].dirty => dc[c].v \in 0 .. MaxStores
              /\ Behind(c) \in 0 .. MaxStores
<1>1. 0 \notin Asids /\ MaxStores \in Nat /\ None = -2 /\ Junk = -1
  BY Cp15Assumption DEF None, Junk
<1>2. NoLine = [v |-> None, dirty |-> FALSE] /\ NoLine.dirty = FALSE /\ NoLine.v = None
  BY DEF NoLine
<1>3. ASSUME NEW c \in Cells
      PROVE  /\ mem[c] \in 0 .. MaxStores /\ last[c] \in 0 .. MaxStores
             /\ wb[c] = None \/ wb[c] \in 0 .. MaxStores
  BY DEF TypeOK
<1>4. ASSUME NEW c \in Cells
      PROVE  dc[c] = NoLine \/ (dc[c] \in Lines /\ dc[c].v \in -1 .. MaxStores /\ dc[c].dirty \in BOOLEAN)
  BY DEF TypeOK, Lines
<1>5. ASSUME NEW c \in Cells, dc[c] # [v |-> Junk, dirty |-> TRUE], dc[c].dirty
      PROVE  dc[c].v \in 0 .. MaxStores
  <2>1. dc[c] \in Lines /\ dc[c].v \in -1 .. MaxStores
    BY <1>2, <1>4, <1>5
  <2>2. dc[c].v # -1
    BY <1>1, <1>5, <2>1 DEF Lines
  <2>. QED
    BY <1>1, <2>1, <2>2
<1>. QED
  BY <1>1, <1>2, <1>3, <1>4, <1>5 DEF Behind

\* Once the cache is used or cleaned, it holds no junk.
LEMMA Warm ==
  ASSUME todo \in Code, CachingCode(todo), Caching,
         DcacheUsed \/ (todo # <<>> /\ todo[1] \in {CLEAN_INV_DCACHE, Get32}) \/ todo = <<>>
         \/ (MmuOn \/ (todo # <<>> /\ TurnsOn(todo[1])))
  PROVE  ~Cold(todo) /\ LinesRight /\ (DcacheUsed \/ CacheEmpty \/ CleanAfter(todo, 0))
<1>1. ASSUME NEW k \in Ahead(todo), todo[k] = INV_DCACHE PROVE FALSE
  <2>1. /\ k \in Nat /\ k >= 1 /\ todo # <<>> /\ ~MmuOn /\ \A j \in 1 .. k - 1 : ~TurnsOn(todo[j])
        /\ \A j \in 1 .. k - 1 : todo[j] # CLEAN_INV_DCACHE /\ todo[j] # Get32
    BY <1>1, Counted DEF CachingCode, ColdStart, Early
  <2>2. ~DcacheUsed
    BY <2>1 DEF DcacheUsed, MmuOn
  <2>3. CASE k = 1
    BY <1>1, <2>1, <2>2, <2>3, Tags DEF TurnsOn
  <2>4. CASE k # 1
    <3>1. 1 \in 1 .. k - 1
      BY <2>1, <2>4
    <3>. QED
      BY <2>1, <2>2, <3>1
  <2>. QED
    BY <2>3, <2>4
<1>. QED
  BY <1>1 DEF Caching, Cold

\* The types after a store, and after the step of a routine.
LEMMA TypesAfterStore ==
  ASSUME TypeOK, NEW c \in Cells, Stored(c)
  PROVE  TypeOK'
<1>. DEFINE v == last[c] + 1
<1>1. v \in 0 .. MaxStores /\ last' = [last EXCEPT ![c] = v]
  BY NumbersAndLines DEF Stored
<1>2. [v |-> v, dirty |-> TRUE] \in Lines
  BY <1>1, NumbersAndLines DEF Lines
<1>3. \/ dc' = [dc EXCEPT ![c] = [v |-> v, dirty |-> TRUE]] /\ wb' = wb
      \/ dc' = dc /\ wb' = [wb EXCEPT ![c] = v]
  BY DEF Stored
<1>. HIDE DEF v
<1>4. dc' \in [Cells -> Lines \cup {NoLine}] /\ wb' \in [Cells -> {None} \cup 0 .. MaxStores]
      /\ last' \in [Cells -> 0 .. MaxStores]
  BY <1>1, <1>2, <1>3 DEF TypeOK
<1>5. windowed' \in BOOLEAN
  <2>1. dc[c].dirty \in BOOLEAN
    BY NumbersAndLines
  <2>. QED
    BY <2>1 DEF Stored, TypeOK
<1>. QED
  BY <1>4, <1>5 DEF Stored, TypeOK, cpu

\* A step of a routine keeps the types.
LEMMA TypesInRoutine ==
  ASSUME TypeOK, asid # <<>>, ttbr0 # <<>>, todo \in Code, CachingCode(todo), Caching, Routine
  PROVE  TypeOK'
<1>. DEFINE x == todo[1]
<1>1. todo # <<>> /\ todo' = Tail(todo) /\ Head(todo) = x /\ x \in Insts
  BY Framed, Done
<1>2. CASE Dsb
  BY <1>2, NumbersAndLines DEF Dsb, TypeOK, hist
<1>3. CASE PrefetchFlush
  <2>1. Len(asid) \in 1 .. Len(asid) /\ Len(ttbr0) \in 1 .. Len(ttbr0)
    BY DEF TypeOK
  <2>2. asid[Len(asid)] \in {0} \cup Asids /\ ttbr0[Len(ttbr0)] \in {0} \cup Asids
    BY <2>1 DEF TypeOK
  <2>3. asid' \in Seq({0} \cup Asids) /\ ttbr0' \in Seq({0} \cup Asids)
    BY <1>3, <2>2 DEF PrefetchFlush
  <2>. QED
    BY <1>3, <2>3 DEF PrefetchFlush, TypeOK, hw, hist
<1>4. CASE FlushBtb
  BY <1>4 DEF FlushBtb, TypeOK, hw, hist
<1>5. CASE InvIcache
  BY <1>5 DEF InvIcache, TypeOK, hw, hist
<1>6. CASE CleanInvDcache
  <2>1. x = CLEAN_INV_DCACHE
    BY <1>1, <1>6, Kinds DEF CleanInvDcache, Inst
  <2>2. \A c \in Cells : dc[c].dirty => dc[c].v \in 0 .. MaxStores
    BY <1>1, <2>1, Warm, NumbersAndLines DEF LinesRight
  <2>3. wb' \in [Cells -> {None} \cup 0 .. MaxStores]
    BY <1>6, <2>2 DEF CleanInvDcache, TypeOK
  <2>. QED
    BY <1>6, <2>3 DEF CleanInvDcache, TypeOK, hist
<1>7. CASE InvDcache
  BY <1>7 DEF InvDcache, TypeOK, hist
<1>8. CASE InvTlb
  BY <1>8 DEF InvTlb, TypeOK, hist
<1>9. CASE ControlReg1Wr
  <2>1. x[2] \in SUBSET ControlFields
    BY <1>1, <1>9, Kinds DEF ControlReg1Wr, Inst
  <2>. QED
    BY <1>1, <1>9, <2>1 DEF ControlReg1Wr, Operand, SetControl, TypeOK, ControlFields, Fields, hw, hist
<1>10. CASE ClearBit
  BY <1>10 DEF ClearBit, SetControl, TypeOK, hw, hist
<1>11. CASE AsidSet
  <2>1. x[2] \in {0} \cup Asids
    BY <1>1, <1>11, Kinds DEF AsidSet, Inst, Cells
  <2>2. asid' \in Seq({0} \cup Asids)
    BY <1>1, <1>11, <2>1 DEF AsidSet, Operand, TypeOK
  <2>. QED
    BY <1>11, <2>2 DEF AsidSet, TypeOK, hw, hist
<1>12. CASE Ttbr0Set
  <2>1. x[2] \in {0} \cup Asids
    BY <1>1, <1>12, Kinds DEF Ttbr0Set, Inst
  <2>2. ttbr0' \in Seq({0} \cup Asids)
    BY <1>1, <1>12, <2>1 DEF Ttbr0Set, Operand, TypeOK
  <2>. QED
    BY <1>12, <2>2 DEF Ttbr0Set, TypeOK, hw, hist
<1>13. CASE StrPte
  <2>1. x[2] \in Cells
    BY <1>1, <1>13, Kinds DEF StrPte, Inst
  <2>. QED
    BY <1>1, <1>13, <2>1, TypesAfterStore DEF StrPte, Operand
<1>14. CASE RunCompiled
  <2>1. CASE Stored(0)
    BY <2>1, TypesAfterStore DEF Cells
  <2>2. CASE UNCHANGED <<hw, cpu, hist>>
    BY <2>2 DEF TypeOK, hw, cpu, hist
  <2>. QED
    BY <1>14, <2>1, <2>2 DEF RunCompiled
<1>15. CASE RunAsserts
  <2>1. panicked' \in BOOLEAN
    BY <1>15 DEF RunAsserts
  <2>. QED
    BY <1>15, <2>1 DEF RunAsserts, TypeOK, hw, cpu
<1>. QED
  BY <1>2, <1>3, <1>4, <1>5, <1>6, <1>7, <1>8, <1>9, <1>10, <1>11, <1>12, <1>13, <1>14, <1>15
  DEF Routine

\* So does a step of the hardware.
LEMMA TypesInHardware ==
  ASSUME TypeOK, todo \in Code, CachingCode(todo), Caching, Hardware
  PROVE  TypeOK'
<1>1. ASSUME NEW c \in Cells, Drain(c) PROVE TypeOK'
  BY <1>1, NumbersAndLines DEF Drain, TypeOK, cpu, hist
<1>2. ASSUME NEW c \in Cells, Fill(c) PROVE TypeOK'
  <2>1. View(c) \in 0 .. MaxStores
    BY <1>2, NumbersAndLines DEF Fill, View, Behind
  <2>2. [v |-> View(c), dirty |-> FALSE] \in Lines
    BY <2>1, NumbersAndLines DEF Lines
  <2>3. dc' \in [Cells -> Lines \cup {NoLine}]
    BY <1>2, <2>2 DEF Fill, TypeOK
  <2>. QED
    BY <1>2, <2>3 DEF Fill, TypeOK, cpu, hist
<1>3. ASSUME NEW c \in Cells, Evict(c) PROVE TypeOK'
  <2>1. dc[c].dirty => dc[c].v \in 0 .. MaxStores
    BY <1>3, Warm, NumbersAndLines DEF Evict, LinesRight
  <2>2. wb' \in [Cells -> {None} \cup 0 .. MaxStores] /\ dc' \in [Cells -> Lines \cup {NoLine}]
    BY <1>3, <2>1 DEF Evict, TypeOK
  <2>. QED
    BY <1>3, <2>2 DEF Evict, TypeOK, cpu, hist
<1>4. ASSUME NEW i \in DOMAIN asid, NEW j \in DOMAIN ttbr0, Walk(i, j) PROVE TypeOK'
  <2>. DEFINE e == [asid |-> asid[i], table |-> ttbr0[j], v |-> mem[ttbr0[j]]]
  <2>1. asid[i] \in {0} \cup Asids /\ ttbr0[j] \in Asids
    BY <1>4 DEF Walk, TypeOK
  <2>2. mem[ttbr0[j]] \in -1 .. MaxStores
    BY <2>1, NumbersAndLines DEF Cells
  <2>3. e \in [asid : {0} \cup Asids, table : Asids, v : -1 .. MaxStores]
    BY <2>1, <2>2
  <2>4. tlb' = tlb \cup {e}
    BY <1>4 DEF Walk
  <2>. HIDE DEF e
  <2>5. tlb' \subseteq [asid : {0} \cup Asids, table : Asids, v : -1 .. MaxStores]
    BY <2>3, <2>4 DEF TypeOK
  <2>. QED
    BY <1>4, <2>5 DEF Walk, TypeOK, cpu, hist
<1>. QED
  BY <1>1, <1>2, <1>3, <1>4 DEF Hardware

-----------------------------------------------------------------------------
(***************************************************************************)
(* The data cache.                                                         *)
(***************************************************************************)
\* What a store changes behind the cache.
LEMMA BehindStored ==
  ASSUME TypeOK, NEW c \in Cells, Stored(c), ~DcacheUsed
  PROVE  /\ dc' = dc
         /\ \A d \in Cells : Behind(d)' = IF d = c THEN last'[d] ELSE Behind(d)
         /\ \A d \in Cells : d # c => last'[d] = last[d]
<1>1. dc' = dc /\ wb' = [wb EXCEPT ![c] = last[c] + 1] /\ last' = [last EXCEPT ![c] = last[c] + 1]
      /\ mem' = mem
  BY DEF Stored
<1>2. last[c] + 1 # None
  BY NumbersAndLines
<1>3. ASSUME NEW d \in Cells
      PROVE  /\ wb'[d] = (IF d = c THEN last[c] + 1 ELSE wb[d])
             /\ last'[d] = (IF d = c THEN last[c] + 1 ELSE last[d])
  BY <1>1 DEF TypeOK
<1>. QED
  BY <1>1, <1>2, <1>3 DEF Behind

\* A store leaves all lines right, if it cannot go past a line of a page table.
LEMMA StoredRight ==
  ASSUME TypeOK, NEW c \in Cells, Stored(c), LinesRight, c = 0 \/ DcacheUsed \/ CacheEmpty
  PROVE  LinesRight'
<1>. DEFINE v == last[c] + 1
<1>1. v \in 0 .. MaxStores /\ v # None /\ v # Junk
  BY NumbersAndLines DEF Stored
<1>2. mem' = mem /\ last' = [last EXCEPT ![c] = v] /\ DcacheUsed' = DcacheUsed
  BY DEF Stored, DcacheUsed, cpu
<1>3. \/ /\ DcacheUsed /\ dc' = [dc EXCEPT ![c] = [v |-> v, dirty |-> TRUE]]
         /\ windowed' = (windowed /\ c # 0) /\ wb' = wb
      \/ /\ ~DcacheUsed \/ dc[c] = NoLine
         /\ dc' = dc /\ wb' = [wb EXCEPT ![c] = v]
         /\ windowed' = IF c = 0 THEN dc[c].dirty ELSE windowed
  BY DEF Stored
<1>. HIDE DEF v
<1>4. ASSUME NEW d \in Cells PROVE Right(d)' /\ dc'[d] # [v |-> Junk, dirty |-> TRUE]
  <2>1. Right(d) /\ dc[d] # [v |-> Junk, dirty |-> TRUE]
    BY DEF LinesRight
  <2>2. last'[d] = IF d = c THEN v ELSE last[d]
    BY <1>2 DEF TypeOK
  <2>3. CASE d # c
    <3>1. dc'[d] = dc[d] /\ wb'[d] = wb[d] /\ last'[d] = last[d] /\ Behind(d)' = Behind(d)
      BY <1>2, <1>3, <2>2, <2>3 DEF TypeOK, Behind
    <3>2. d = 0 /\ windowed => windowed'
      BY <1>3, <2>3
    <3>. QED
      BY <1>2, <2>1, <3>1, <3>2 DEF Right
  <2>4. CASE d = c /\ DcacheUsed /\ dc' = [dc EXCEPT ![c] = [v |-> v, dirty |-> TRUE]]
    <3>1. dc'[d] = [v |-> v, dirty |-> TRUE]
      BY <2>4 DEF TypeOK
    <3>2. dc'[d].v = v /\ dc'[d].dirty = TRUE
      BY <3>1
    <3>3. dc'[d] # [v |-> Junk, dirty |-> TRUE]
      BY <1>1, <3>1
    <3>. QED
      BY <2>2, <2>4, <3>2, <3>3 DEF Right
  <2>5. CASE /\ d = c /\ (~DcacheUsed \/ dc[c] = NoLine)
             /\ dc' = dc /\ wb' = [wb EXCEPT ![c] = v]
             /\ windowed' = IF c = 0 THEN dc[c].dirty ELSE windowed
    <3>1. Behind(d)' = v
      BY <1>1, <2>5 DEF TypeOK, Behind
    <3>2. CASE dc[d].dirty
      <4>1. dc[d] # NoLine
        BY <3>2, NumbersAndLines
      <4>2. c = 0
        BY <2>5, <4>1 DEF CacheEmpty
      <4>. QED
        BY <2>1, <2>5, <3>2, <4>2 DEF Right
    <3>3. CASE ~dc[d].dirty
      BY <1>2, <2>1, <2>2, <2>5, <3>1, <3>3 DEF Right
    <3>. QED
      BY <3>2, <3>3
  <2>. QED
    BY <1>3, <2>3, <2>4, <2>5
<1>. QED
  BY <1>4 DEF LinesRight

\* Cold, what is stored is behind the cache.
LEMMA ColdInRoutine ==
  ASSUME TypeOK, todo \in Code, CachingCode(todo), Routine
  PROVE  ColdStart(todo)'
<1>. DEFINE x == todo[1]
<1>1. /\ todo # <<>> /\ todo' = Tail(todo) /\ Len(todo) \in Nat /\ x \in Insts /\ Head(todo) = x
      /\ Len(todo') = Len(todo) - 1
      /\ \A k \in Ahead(todo)' : k \in Nat /\ k >= 1 /\ k + 1 \in Ahead(todo) /\ todo'[k] = todo[k + 1]
  BY Framed, Done DEF Ahead
<1>2. SUFFICES ASSUME NEW k \in Ahead(todo)', todo'[k] = INV_DCACHE
               PROVE  /\ Early(todo, k)'
                      /\ \A j \in 1 .. k - 1 : todo'[j] # INV_DCACHE /\ todo'[j] # CLEAN_INV_DCACHE
                                               /\ todo'[j] # Get32
                      /\ \A c \in Cells : Behind(c)' = last'[c]
  BY DEF ColdStart
<1>3. /\ k \in Nat /\ k >= 1 /\ Early(todo, k + 1) /\ ~MmuOn
      /\ \A j \in 1 .. k : todo[j] # INV_DCACHE /\ todo[j] # CLEAN_INV_DCACHE /\ todo[j] # Get32
      /\ \A c \in Cells : Behind(c) = last[c]
  <2>1. k + 1 \in Ahead(todo) /\ todo[k + 1] = INV_DCACHE /\ (k + 1) - 1 = k /\ k \in Nat /\ k >= 1
    <3>1. k + 1 \in Ahead(todo) /\ todo'[k] = todo[k + 1] /\ k \in Nat /\ k >= 1
      BY <1>1
    <3>. QED
      BY <1>2, <3>1
  <2>. QED
    BY <2>1 DEF CachingCode, ColdStart, Early
<1>4. Early(todo, k)'
  BY <1>3, EarlyKept
<1>5. ASSUME NEW j \in 1 .. k - 1
      PROVE  todo'[j] # INV_DCACHE /\ todo'[j] # CLEAN_INV_DCACHE /\ todo'[j] # Get32
  <2>1. j \in Ahead(todo)' /\ j + 1 \in 1 .. k
    BY <1>1, <1>3 DEF Ahead
  <2>. QED
    BY <1>1, <1>3, <2>1
<1>6. ASSUME NEW c \in Cells PROVE Behind(c)' = last'[c]
  <2>1. ~DcacheUsed /\ Behind(c) = last[c]
    BY <1>3 DEF DcacheUsed, MmuOn
  <2>2. CASE x = DSB
    BY <2>1, <2>2, Does, Tags DEF Dsb, hist, Behind
  <2>3. CASE x[1] = "str"
    <3>1. Stored(x[2]) /\ x[2] \in Cells
      BY <1>1, <2>3, Does, Kinds DEF StrPte, Operand
    <3>. QED
      BY <2>1, <3>1, BehindStored
  <2>4. CASE x = Compiled
    <3>1. CASE Stored(0)
      BY <2>1, <3>1, BehindStored DEF Cells
    <3>2. CASE UNCHANGED <<hw, cpu, hist>>
      BY <2>1, <3>2 DEF hw, hist, Behind
    <3>. QED
      BY <2>4, <3>1, <3>2, Does, Tags DEF RunCompiled
  <2>5. CASE x # DSB /\ x[1] # "str" /\ x # Compiled
    <3>1. x # CLEAN_INV_DCACHE
      BY <1>3
    <3>. QED
      BY <2>1, <2>5, <3>1, Framed DEF Behind
  <2>. QED
    BY <2>2, <2>3, <2>4, <2>5
<1>. QED
  BY <1>4, <1>5, <1>6

\* The cache is still cleaned where it is turned off.
LEMMA CleanedInRoutine ==
  ASSUME todo \in Code, CachingCode(todo), Routine, NEW k \in Ahead(todo)'
  PROVE  CacheCleaned(todo, k)'
<1>. DEFINE x == todo[1]
<1>1. /\ todo # <<>> /\ todo' = Tail(todo) /\ Len(todo) \in Nat /\ x \in Insts
      /\ Len(todo') = Len(todo) - 1
      /\ \A j \in Ahead(todo)' : j \in Nat /\ j >= 1 /\ j + 1 \in Ahead(todo) /\ todo'[j] = todo[j + 1]
  BY Framed, Done DEF Ahead
<1>2. k \in Nat /\ k >= 1 /\ k + 1 \in Ahead(todo) /\ todo'[k] = todo[k + 1] /\ k + 1 <= Len(todo)
  BY <1>1 DEF Ahead
<1>3. SUFFICES ASSUME WritesControl(todo[k + 1])
               PROVE  Early(todo, k)' \/ KeepsCache(todo'[k]) \/ CleanBefore(todo, k)' \/ CleanAfter(todo, k)'
  BY <1>2 DEF CacheCleaned, WritesControl, KeepsCache
<1>4. Early(todo, k + 1) \/ KeepsCache(todo[k + 1]) \/ CleanBefore(todo, k + 1) \/ CleanAfter(todo, k + 1)
  BY <1>2, <1>3 DEF CachingCode, CacheCleaned
<1>5. CASE Early(todo, k + 1)
  BY <1>5, EarlyKept
<1>6. CASE KeepsCache(todo[k + 1])
  BY <1>2, <1>6
<1>7. CASE CleanBefore(todo, k + 1)
  <2>1. ASSUME NEW j \in 0 .. k, Untouched(todo, j, k + 1), NEW i \in 0 .. k, i + 1 >= j
        PROVE  Untouched(todo, i, k)'
    <3>1. ASSUME NEW n \in i + 1 .. k - 1 PROVE ~Touches(todo'[n])
      <4>1. n \in Ahead(todo)' /\ n + 1 \in j + 1 .. (k + 1) - 1
        BY <1>1, <1>2, <2>1 DEF Ahead
      <4>. QED
        BY <1>1, <2>1, <4>1 DEF Untouched
    <3>. QED
      BY <3>1 DEF Untouched, Touches
  <2>2. CASE CacheEmpty /\ Untouched(todo, 0, k + 1)
    <3>1. ~Touches(x)
      BY <1>2, <2>2 DEF Untouched
    <3>2. dc' = dc \/ dc' = [c \in Cells |-> NoLine]
      BY <3>1, Framed, Does, Tags DEF Touches, CleanInvDcache, InvDcache
    <3>3. CacheEmpty'
      BY <2>2, <3>2 DEF CacheEmpty
    <3>4. Untouched(todo, 0, k)'
      BY <1>2, <2>1, <2>2
    <3>. QED
      BY <3>3, <3>4 DEF CleanBefore
  <2>3. ASSUME NEW j \in 1 .. (k + 1) - 1, todo[j] = CLEAN_INV_DCACHE, Untouched(todo, j, k + 1)
        PROVE  CleanBefore(todo, k)'
    <3>1. CASE j = 1
      <4>1. dc' = [c \in Cells |-> NoLine]
        BY <2>3, <3>1, Does, Tags DEF CleanInvDcache
      <4>2. Untouched(todo, 0, k)'
        BY <1>2, <2>1, <2>3, <3>1
      <4>. QED
        BY <4>1, <4>2 DEF CleanBefore, CacheEmpty
    <3>2. CASE j # 1
      <4>1. j - 1 \in 1 .. k - 1 /\ j - 1 \in Ahead(todo)' /\ (j - 1) + 1 = j
        BY <1>1, <1>2, <3>2 DEF Ahead
      <4>2. Untouched(todo, j - 1, k)'
        BY <1>2, <2>1, <2>3, <4>1
      <4>. QED
        BY <1>1, <2>3, <4>1, <4>2 DEF CleanBefore
    <3>. QED
      BY <3>1, <3>2
  <2>. QED
    BY <1>7, <2>2, <2>3 DEF CleanBefore
<1>8. CASE CleanAfter(todo, k + 1)
  <2>1. PICK n \in Ahead(todo) :
          /\ n > k + 1 /\ todo[n] = CLEAN_INV_DCACHE
          /\ \A j \in (k + 1) + 1 .. n - 1 : todo[j] \in {DSB, PREFETCH_FLUSH, FLUSH_BTB, Compiled}
    BY <1>8 DEF CleanAfter
  <2>2. n \in Nat /\ n - 1 \in Ahead(todo)' /\ n - 1 > k /\ (n - 1) + 1 = n
    BY <1>1, <1>2, <2>1 DEF Ahead
  <2>3. ASSUME NEW j \in k + 1 .. (n - 1) - 1
        PROVE  todo'[j] \in {DSB, PREFETCH_FLUSH, FLUSH_BTB, Compiled}
    <3>1. j \in Ahead(todo)' /\ j + 1 \in (k + 1) + 1 .. n - 1
      BY <1>1, <1>2, <2>2 DEF Ahead
    <3>. QED
      BY <1>1, <2>1, <3>1
  <2>. QED
    BY <1>1, <2>1, <2>2, <2>3 DEF CleanAfter
<1>. QED
  BY <1>4, <1>5, <1>6, <1>7, <1>8

\* A routine's step keeps every line right.
LEMMA RightInRoutine ==
  ASSUME TypeOK, todo \in Code, CachingCode(todo), Caching, Routine
  PROVE  Caching'
<1>. DEFINE x == todo[1]
<1>1. /\ todo # <<>> /\ todo' = Tail(todo) /\ Len(todo) \in Nat /\ 1 \in Ahead(todo)
      /\ Head(todo) = x /\ x \in Insts /\ Len(todo') = Len(todo) - 1
      /\ \A j \in Ahead(todo)' : j \in Nat /\ j >= 1 /\ j + 1 \in Ahead(todo) /\ todo'[j] = todo[j + 1]
      /\ \A j \in Ahead(todo) : j \in Nat /\ (j # 1 => j - 1 \in Ahead(todo)' /\ todo'[j - 1] = todo[j])
  BY Framed, Done, Counted DEF Ahead
<1>2. CASE x = INV_DCACHE
  <2>1. ~MmuOn /\ \A c \in Cells : Behind(c) = last[c]
    BY <1>1, <1>2 DEF CachingCode, ColdStart, Early
  <2>2. /\ dc' = [c \in Cells |-> NoLine] /\ wb' = wb /\ mem' = mem /\ last' = last
    BY <1>2, Does, Tags DEF InvDcache, hist
  <2>3. ASSUME NEW c \in Cells PROVE Right(c)' /\ dc'[c] # [v |-> Junk, dirty |-> TRUE]
    <3>1. dc'[c] = NoLine /\ Behind(c)' = last'[c]
      BY <2>1, <2>2 DEF Behind
    <3>2. ~dc'[c].dirty
      BY <3>1, NumbersAndLines
    <3>3. dc'[c] # [v |-> Junk, dirty |-> TRUE]
      BY <3>2
    <3>. QED
      BY <3>1, <3>2, <3>3 DEF Right
  <2>4. LinesRight' /\ CacheEmpty'
    BY <2>2, <2>3 DEF LinesRight, CacheEmpty
  <2>. QED
    BY <2>4 DEF Caching
<1>3. CASE Cold(todo) /\ x # INV_DCACHE
  <2>1. PICK k \in Ahead(todo) : todo[k] = INV_DCACHE
    BY <1>3 DEF Cold
  <2>2. k # 1
    BY <1>3, <2>1
  <2>3. k - 1 \in Ahead(todo)' /\ todo'[k - 1] = INV_DCACHE
    BY <1>1, <2>1, <2>2
  <2>. QED
    BY <2>3 DEF Caching, Cold
<1>4. CASE ~Cold(todo)
  <2>1. LinesRight /\ (DcacheUsed \/ CacheEmpty \/ CleanAfter(todo, 0)) /\ x # INV_DCACHE
    BY <1>1, <1>4 DEF Caching, Cold
  <2>2. CleanAfter(todo, 0) =>
          x = CLEAN_INV_DCACHE \/ (x \in {DSB, PREFETCH_FLUSH, FLUSH_BTB, Compiled} /\ CleanAfter(todo, 0)')
    <3>1. SUFFICES ASSUME CleanAfter(todo, 0), x # CLEAN_INV_DCACHE
                   PROVE  x \in {DSB, PREFETCH_FLUSH, FLUSH_BTB, Compiled} /\ CleanAfter(todo, 0)'
      OBVIOUS
    <3>2. PICK n \in Ahead(todo) :
            /\ n > 0 /\ todo[n] = CLEAN_INV_DCACHE
            /\ \A j \in 0 + 1 .. n - 1 : todo[j] \in {DSB, PREFETCH_FLUSH, FLUSH_BTB, Compiled}
      BY <3>1 DEF CleanAfter
    <3>3. n # 1
      BY <3>1, <3>2
    <3>4. n \in Nat /\ n - 1 \in Ahead(todo)' /\ todo'[n - 1] = CLEAN_INV_DCACHE /\ n - 1 > 0
      <4>1. n \in Nat /\ n - 1 \in Ahead(todo)' /\ todo'[n - 1] = todo[n]
        BY <1>1, <3>3
      <4>. QED
        BY <3>2, <3>3, <4>1
    <3>5. x \in {DSB, PREFETCH_FLUSH, FLUSH_BTB, Compiled}
      <4>1. 1 \in 0 + 1 .. n - 1
        BY <3>4
      <4>. QED
        BY <3>2, <4>1
    <3>6. ASSUME NEW j \in 0 + 1 .. (n - 1) - 1
          PROVE  todo'[j] \in {DSB, PREFETCH_FLUSH, FLUSH_BTB, Compiled}
      <4>1. j \in Ahead(todo)' /\ j + 1 \in 0 + 1 .. n - 1
        BY <1>1, <3>2, <3>4 DEF Ahead
      <4>. QED
        BY <1>1, <3>2, <4>1
    <3>. QED
      BY <3>4, <3>5, <3>6 DEF CleanAfter
  <2>3. CASE x = CLEAN_INV_DCACHE
    <3>1. /\ dc' = [c \in Cells |-> NoLine] /\ mem' = mem /\ last' = last /\ windowed' = windowed
          /\ wb' = [c \in Cells |-> IF dc[c].dirty THEN dc[c].v ELSE wb[c]]
      BY <2>3, Does, Tags DEF CleanInvDcache, hist
    <3>2. ASSUME NEW c \in Cells PROVE Right(c)' /\ dc'[c] # [v |-> Junk, dirty |-> TRUE]
      <4>1. dc'[c] = NoLine /\ Right(c) /\ dc[c] # [v |-> Junk, dirty |-> TRUE]
        BY <2>1, <3>1 DEF LinesRight
      <4>2. ~dc'[c].dirty
        BY <4>1, NumbersAndLines
      <4>3. dc'[c] # [v |-> Junk, dirty |-> TRUE]
        BY <4>2
      <4>4. Behind(c)' = IF dc[c].dirty THEN dc[c].v ELSE Behind(c)
        <5>1. dc[c].dirty => dc[c].v # None
          BY <4>1, NumbersAndLines
        <5>. QED
          BY <3>1, <5>1 DEF Behind
      <4>. QED
        BY <3>1, <4>1, <4>2, <4>3, <4>4 DEF Right
    <3>3. LinesRight' /\ CacheEmpty'
      BY <3>1, <3>2 DEF LinesRight, CacheEmpty
    <3>. QED
      BY <3>3 DEF Caching
  <2>4. CASE WritesControl(x)
    <3>1. UNCHANGED <<mem, wb, dc, last, windowed>>
      BY <2>4, Does, Tags DEF WritesControl, ControlReg1Wr, ClearBit, SetControl, hw, hist
    <3>2. ~CleanAfter(todo, 0)
      BY <2>2, <2>4, Tags DEF WritesControl
    <3>3. ASSUME NEW c \in Cells PROVE Right(c)' /\ dc'[c] # [v |-> Junk, dirty |-> TRUE]
      <4>1. Right(c) /\ dc[c] # [v |-> Junk, dirty |-> TRUE] /\ Behind(c)' = Behind(c)
        BY <2>1, <3>1 DEF LinesRight, Behind
      <4>2. DcacheUsed \/ dc[c] = NoLine
        BY <2>1, <3>2 DEF CacheEmpty
      <4>. QED
        BY <3>1, <4>1, <4>2 DEF Right
    <3>4. LinesRight'
      BY <3>3 DEF LinesRight
    <3>5. DcacheUsed' \/ CacheEmpty' \/ CleanAfter(todo, 0)'
      <4>1. CASE CacheEmpty
        BY <3>1, <4>1 DEF CacheEmpty
      <4>2. CASE DcacheUsed /\ ~CacheEmpty
        <5>1. KeepsCache(x) \/ CleanAfter(todo, 1)
          <6>1. ~Early(todo, 1) /\ ~CleanBefore(todo, 1)
            BY <4>2 DEF Early, DcacheUsed, MmuOn, CleanBefore
          <6>. QED
            BY <1>1, <2>4, <6>1 DEF CachingCode, CacheCleaned
        <5>2. CASE KeepsCache(x)
          <6>1. ctl' = x[2]
            BY <1>1, <5>2, Does DEF KeepsCache, ControlReg1Wr, SetControl, Operand
          <6>. QED
            BY <5>2, <6>1 DEF KeepsCache, DcacheUsed
        <5>3. CASE CleanAfter(todo, 1)
          <6>1. PICK n \in Ahead(todo) :
                  /\ n > 1 /\ todo[n] = CLEAN_INV_DCACHE
                  /\ \A j \in 1 + 1 .. n - 1 : todo[j] \in {DSB, PREFETCH_FLUSH, FLUSH_BTB, Compiled}
            BY <5>3 DEF CleanAfter
          <6>2. n \in Nat /\ n - 1 \in Ahead(todo)' /\ todo'[n - 1] = CLEAN_INV_DCACHE /\ n - 1 > 0
            <7>1. n # 1
              BY <6>1
            <7>2. n \in Nat /\ n - 1 \in Ahead(todo)' /\ todo'[n - 1] = todo[n]
              BY <1>1, <7>1
            <7>. QED
              BY <6>1, <7>2
          <6>3. ASSUME NEW j \in 0 + 1 .. (n - 1) - 1
                PROVE  todo'[j] \in {DSB, PREFETCH_FLUSH, FLUSH_BTB, Compiled}
            <7>1. j \in Ahead(todo)' /\ j + 1 \in 1 + 1 .. n - 1
              BY <1>1, <6>1, <6>2 DEF Ahead
            <7>. QED
              BY <1>1, <6>1, <7>1
          <6>. QED
            BY <6>2, <6>3 DEF CleanAfter
        <5>. QED
          BY <5>1, <5>2, <5>3
      <4>. QED
        BY <2>1, <3>2, <4>1, <4>2
    <3>. QED
      BY <3>4, <3>5 DEF Caching
  <2>5. CASE x[1] = "str"
    <3>1. Stored(x[2]) /\ x[2] \in Cells
      BY <1>1, <2>5, Does, Kinds DEF StrPte, Operand
    <3>2. DcacheUsed \/ CacheEmpty
      BY <2>1, <2>2, <2>5, Tags
    <3>3. LinesRight'
      BY <2>1, <3>1, <3>2, StoredRight
    <3>4. DcacheUsed' \/ CacheEmpty'
      <4>1. DcacheUsed' = DcacheUsed
        BY <3>1 DEF Stored, DcacheUsed, cpu
      <4>2. ~DcacheUsed => dc' = dc
        BY <3>1, BehindStored
      <4>. QED
        BY <3>2, <4>1, <4>2 DEF CacheEmpty
    <3>. QED
      BY <3>3, <3>4 DEF Caching
  <2>6. CASE x = Compiled
    <3>1. RunCompiled /\ x # CLEAN_INV_DCACHE
      BY <2>6, Does, Tags
    <3>2. CASE Stored(0)
      <4>1. LinesRight'
        BY <2>1, <3>2, StoredRight DEF Cells
      <4>2. DcacheUsed' = DcacheUsed
        BY <3>2 DEF Stored, DcacheUsed, cpu
      <4>3. ~DcacheUsed => dc' = dc
        BY <3>2, BehindStored DEF Cells
      <4>4. DcacheUsed' \/ CacheEmpty' \/ CleanAfter(todo, 0)'
        BY <2>1, <2>2, <3>1, <4>2, <4>3 DEF CacheEmpty
      <4>. QED
        BY <4>1, <4>4 DEF Caching
    <3>3. CASE UNCHANGED <<hw, cpu, hist>>
      <4>1. LinesRight' /\ (DcacheUsed' = DcacheUsed) /\ (CacheEmpty' = CacheEmpty)
        BY <2>1, <3>3 DEF hw, cpu, hist, LinesRight, Right, Behind, DcacheUsed, CacheEmpty
      <4>2. DcacheUsed' \/ CacheEmpty' \/ CleanAfter(todo, 0)'
        BY <2>1, <2>2, <3>1, <4>1
      <4>. QED
        BY <4>1, <4>2 DEF Caching
    <3>. QED
      BY <3>1, <3>2, <3>3 DEF RunCompiled
  <2>7. CASE x # CLEAN_INV_DCACHE /\ ~WritesControl(x) /\ x[1] # "str" /\ x # Compiled
    <3>1. ctl' = ctl /\ dc' = dc /\ last' = last /\ windowed' = windowed
      BY <2>1, <2>7, Framed
    <3>2. ASSUME NEW c \in Cells PROVE Behind(c)' = Behind(c)
      <4>1. CASE x = DSB
        BY <4>1, Does, Tags DEF Dsb, Behind
      <4>2. CASE x # DSB
        BY <2>7, <4>2, Framed DEF Behind
      <4>. QED
        BY <4>1, <4>2
    <3>3. LinesRight' /\ (DcacheUsed' = DcacheUsed) /\ (CacheEmpty' = CacheEmpty)
      BY <2>1, <3>1, <3>2 DEF LinesRight, Right, DcacheUsed, CacheEmpty
    <3>4. DcacheUsed' \/ CacheEmpty' \/ CleanAfter(todo, 0)'
      BY <2>1, <2>2, <2>7, <3>3
    <3>. QED
      BY <3>3, <3>4 DEF Caching
  <2>. QED
    BY <2>3, <2>4, <2>5, <2>6, <2>7
<1>. QED
  BY <1>2, <1>3, <1>4

\* Cells drain, lines are fetched and written back.
LEMMA DrainedBehind ==
  ASSUME TypeOK, NEW c \in Cells, Drain(c), NEW d \in Cells
  PROVE  Behind(d)' = Behind(d)
<1>1. mem'[d] = (IF d = c THEN wb[c] ELSE mem[d]) /\ wb'[d] = (IF d = c THEN None ELSE wb[d])
  BY DEF Drain, TypeOK
<1>2. wb[c] # None
  BY DEF Drain
<1>. QED
  BY <1>1, <1>2 DEF Behind

\* Whatever the hardware does by itself, the lines stay right.
LEMMA CachingInHardware ==
  ASSUME TypeOK, todo \in Code, CachingCode(todo), Caching, Hardware
  PROVE  CachingCode(todo)' /\ Caching'
<1>1. todo' = todo /\ ctl' = ctl /\ last' = last /\ windowed' = windowed
  BY DEF Hardware, Drain, Fill, Evict, Walk, cpu, hist
<1>2. /\ MmuOn' = MmuOn /\ DcacheUsed' = DcacheUsed /\ Cold(todo)' = Cold(todo)
      /\ CleanAfter(todo, 0)' = CleanAfter(todo, 0)
      /\ \A k : Early(todo, k)' = Early(todo, k) /\ CleanAfter(todo, k)' = CleanAfter(todo, k)
  BY <1>1 DEF MmuOn, DcacheUsed, Cold, CleanAfter, Early, Ahead
<1>3. ASSUME UNCHANGED dc, \A c \in Cells : Behind(c)' = Behind(c)
      PROVE  CachingCode(todo)' /\ Caching'
  <2>1. CacheEmpty' = CacheEmpty /\ (\A k : CleanBefore(todo, k)' = CleanBefore(todo, k))
    BY <1>1, <1>3 DEF CacheEmpty, CleanBefore, Untouched, Touches
  <2>2. ColdStart(todo)'
    BY <1>1, <1>2, <1>3 DEF CachingCode, ColdStart, Ahead
  <2>3. \A k \in Ahead(todo)' : CacheCleaned(todo, k)'
    BY <1>1, <1>2, <2>1 DEF CachingCode, CacheCleaned, KeepsCache, WritesControl, Ahead
  <2>4. LinesRight => LinesRight'
    BY <1>1, <1>2, <1>3 DEF LinesRight, Right
  <2>. QED
    BY <1>2, <2>1, <2>2, <2>3, <2>4 DEF Caching, CachingCode
<1>4. ASSUME NEW c \in Cells, Drain(c) PROVE CachingCode(todo)' /\ Caching'
  <2>1. dc' = dc
    BY <1>4 DEF Drain
  <2>. QED
    BY <1>3, <1>4, <2>1, DrainedBehind
<1>5. ASSUME NEW i \in DOMAIN asid, NEW j \in DOMAIN ttbr0, Walk(i, j)
      PROVE  CachingCode(todo)' /\ Caching'
  <2>1. dc' = dc /\ \A c \in Cells : Behind(c)' = Behind(c)
    BY <1>5 DEF Walk, Behind
  <2>. QED
    BY <1>3, <2>1
<1>6. ASSUME NEW c \in Cells, Fill(c) \/ Evict(c) PROVE CachingCode(todo)' /\ Caching'
  <2>1. DcacheUsed /\ MmuOn
    BY <1>6 DEF Fill, Evict, DcacheUsed, MmuOn
  <2>2. ~Cold(todo) /\ LinesRight
    BY <2>1, Warm
  <2>3. ColdStart(todo)'
    BY <1>1, <2>2 DEF ColdStart, Cold, Ahead
  <2>4. ASSUME NEW k \in Ahead(todo) PROVE CacheCleaned(todo, k)'
    <3>1. SUFFICES ASSUME WritesControl(todo[k])
                   PROVE  KeepsCache(todo[k]) \/ CleanBefore(todo, k)' \/ CleanAfter(todo, k)
      BY <1>1, <1>2 DEF CacheCleaned, KeepsCache, WritesControl
    <3>2. KeepsCache(todo[k]) \/ CleanBefore(todo, k) \/ CleanAfter(todo, k)
      BY <2>1, <3>1 DEF CachingCode, CacheCleaned, Early
    <3>3. ASSUME CacheEmpty, Untouched(todo, 0, k) PROVE FALSE
      <4>1. Fill(c)
        BY <1>6, <3>3 DEF Evict, CacheEmpty
      <4>2. todo # <<>> /\ Head(todo) \in {Compiled, Get32} /\ k \in Nat /\ k >= 1 /\ Head(todo) = todo[1]
        <5>1. k \in Nat /\ k >= 1 /\ todo # <<>> /\ Head(todo) = todo[1]
          BY Counted DEF Code, Ahead
        <5>. QED
          BY <4>1, <5>1 DEF Fill
      <4>3. k # 1
        BY <3>1, <4>2, Tags DEF WritesControl
      <4>4. 1 \in 0 + 1 .. k - 1
        BY <4>2, <4>3
      <4>5. ~Touches(todo[1])
        BY <3>3, <4>4 DEF Untouched
      <4>. QED
        BY <4>2, <4>5, Tags DEF Touches
    <3>4. CleanBefore(todo, k) => CleanBefore(todo, k)'
      BY <1>1, <3>3 DEF CleanBefore, Untouched, Touches
    <3>. QED
      BY <3>2, <3>4
  <2>5. ASSUME NEW d \in Cells PROVE Right(d)' /\ dc'[d] # [v |-> Junk, dirty |-> TRUE]
    <3>1. Right(d) /\ dc[d] # [v |-> Junk, dirty |-> TRUE]
      BY <2>2 DEF LinesRight
    <3>2. CASE d # c
      <4>1. dc'[d] = dc[d] /\ wb'[d] = wb[d] /\ mem'[d] = mem[d]
        BY <1>6, <3>2 DEF Fill, Evict, TypeOK
      <4>. QED
        BY <1>1, <1>2, <3>1, <4>1 DEF Right, Behind
    <3>3. CASE d = c /\ Fill(c)
      <4>1. dc[d] = NoLine /\ dc'[d] = [v |-> Behind(d), dirty |-> FALSE] /\ Behind(d)' = Behind(d)
        BY <3>3 DEF Fill, TypeOK, View, Behind
      <4>2. dc'[d].v = Behind(d) /\ dc'[d].dirty = FALSE /\ dc[d].dirty = FALSE
            /\ dc'[d] # [v |-> Junk, dirty |-> TRUE]
        <5>1. [v |-> Behind(d), dirty |-> FALSE] # [v |-> Junk, dirty |-> TRUE]
          OBVIOUS
        <5>. QED
          BY <4>1, <5>1, NumbersAndLines
      <4>. QED
        BY <1>1, <3>1, <4>1, <4>2 DEF Right
    <3>4. CASE d = c /\ Evict(c)
      <4>1. dc[d] # NoLine /\ dc'[d] = NoLine /\ mem' = mem
            /\ wb' = IF dc[c].dirty THEN [wb EXCEPT ![c] = dc[c].v] ELSE wb
        BY <3>4 DEF Evict, TypeOK
      <4>2. dc'[d].dirty = FALSE /\ dc'[d] # [v |-> Junk, dirty |-> TRUE]
        BY <4>1, NumbersAndLines
      <4>3. Behind(d)' = IF dc[d].dirty THEN dc[d].v ELSE Behind(d)
        <5>1. dc[d].dirty => dc[d].v # None
          BY <3>1, NumbersAndLines
        <5>. QED
          BY <3>4, <4>1, <5>1 DEF Behind, TypeOK
      <4>. QED
        BY <1>1, <3>1, <4>1, <4>2, <4>3 DEF Right
    <3>. QED
      BY <1>6, <3>2, <3>3, <3>4
  <2>. QED
    BY <1>1, <1>2, <2>1, <2>3, <2>4, <2>5 DEF CachingCode, Caching, LinesRight, Ahead
<1>. QED
  BY <1>4, <1>5, <1>6 DEF Hardware

-----------------------------------------------------------------------------
(***************************************************************************)
(* Switching address spaces.                                               *)
(***************************************************************************)
\* A step of a routine lets no ASID meet another environment's table.
LEMMA SwitchingInRoutine ==
  ASSUME TypeOK, asid # <<>>, ttbr0 # <<>>, todo \in Code, SwitchingCode(todo), Matched, Owned,
         Routine
  PROVE  asid' # <<>> /\ ttbr0' # <<>> /\ SwitchingCode(todo)' /\ Matched' /\ Owned'
<1>. DEFINE x == todo[1]
<1>1. /\ todo # <<>> /\ todo' = Tail(todo) /\ Len(todo) \in Nat /\ 1 \in Ahead(todo)
      /\ Head(todo) = x /\ x \in Insts /\ todo' \in Code
      /\ Len(todo) >= 2 => todo'[1] = todo[2]
      /\ \A k \in Ahead(todo)' : k \in Nat /\ k >= 1 /\ k + 1 \in Ahead(todo) /\ todo'[k] = todo[k + 1]
  BY Framed, Done, Counted DEF Ahead
<1>2. /\ Len(asid) \in Nat /\ Len(asid) >= 1 /\ Len(ttbr0) \in Nat /\ Len(ttbr0) >= 1
      /\ asid \in Seq(Cells) /\ ttbr0 \in Seq(Cells)
      /\ \A i \in 1 .. Len(asid) : asid[i] \in Cells
      /\ \A i \in 1 .. Len(ttbr0) : ttbr0[i] \in Cells
  BY DEF TypeOK, Cells
<1>. DEFINE Latest == /\ x = PREFETCH_FLUSH => /\ Len(asid') = 1 /\ asid'[1] = asid[Len(asid)]
                                             /\ Len(ttbr0') = 1 /\ ttbr0'[1] = ttbr0[Len(ttbr0)]
                      /\ x[1] = "asid_set" => asid'[Len(asid')] = x[2]
                      /\ x[1] = "ttbr0_set" => ttbr0'[Len(ttbr0')] = x[2]
                      /\ Len(asid') \in Nat /\ Len(asid') >= 1 /\ Len(ttbr0') \in Nat /\ Len(ttbr0') >= 1
<1>3. Latest /\ Matched' /\ Owned'
  <2>1. CASE x = PREFETCH_FLUSH
    <3>1. asid' = <<asid[Len(asid)]>> /\ ttbr0' = <<ttbr0[Len(ttbr0)]>> /\ tlb' = tlb /\ x[1] = "prefetch_flush"
      BY <2>1, Does, Tags DEF PrefetchFlush, hw
    <3>2. Len(asid) \in 1 .. Len(asid) /\ Len(ttbr0) \in 1 .. Len(ttbr0)
      BY <1>2
    <3>. QED
      BY <1>2, <3>1, <3>2 DEF Matched, Owned
  <2>2. CASE x[1] = "asid_set"
    <3>1. asid' = Append(asid, x[2]) /\ ttbr0' = ttbr0 /\ tlb' = tlb /\ x[2] \in Cells
      BY <1>1, <2>2, Does, Kinds DEF AsidSet, Operand, hw
    <3>2. /\ Len(asid') = Len(asid) + 1 /\ asid'[Len(asid) + 1] = x[2]
          /\ \A i \in 1 .. Len(asid) : asid'[i] = asid[i]
      BY <1>2, <3>1, AppendProperties
    <3>3. x[2] = 0 \/ (Len(ttbr0) = 1 /\ ttbr0[1] = x[2])
      BY <1>1, <2>2 DEF SwitchingCode, AsidAfterTable
    <3>4. Matched'
      BY <1>2, <3>1, <3>2, <3>3 DEF Matched
    <3>. QED
      BY <1>2, <2>2, <3>1, <3>2, <3>4, Tags DEF Owned
  <2>3. CASE x[1] = "ttbr0_set"
    <3>1. ttbr0' = Append(ttbr0, x[2]) /\ asid' = asid /\ tlb' = tlb /\ x[2] \in Cells
      BY <1>1, <2>3, Does, Kinds DEF Ttbr0Set, Operand, hw, Cells
    <3>2. /\ Len(ttbr0') = Len(ttbr0) + 1 /\ ttbr0'[Len(ttbr0) + 1] = x[2]
          /\ \A i \in 1 .. Len(ttbr0) : ttbr0'[i] = ttbr0[i]
      BY <1>2, <3>1, AppendProperties
    <3>3. Len(asid) = 1 /\ asid[1] = 0
      BY <1>1, <2>3 DEF SwitchingCode, TableAfterAsid
    <3>4. Matched'
      BY <1>2, <3>1, <3>2, <3>3 DEF Matched
    <3>. QED
      BY <1>2, <2>3, <3>1, <3>2, <3>4, Tags DEF Owned
  <2>4. CASE x # PREFETCH_FLUSH /\ x[1] # "asid_set" /\ x[1] # "ttbr0_set"
    <3>1. asid' = asid /\ ttbr0' = ttbr0
      BY <2>4, Framed
    <3>2. tlb' = tlb \/ tlb' = {}
      BY Framed, Does, Tags DEF InvTlb
    <3>. QED
      BY <1>2, <2>4, <3>1, <3>2 DEF Matched, Owned
  <2>. QED
    BY <2>1, <2>2, <2>3, <2>4
<1>. HIDE DEF Latest
<1>4. ASSUME NEW k \in Ahead(todo)' PROVE TableAfterAsid(todo, k)'
  <2>1. SUFFICES ASSUME todo'[k][1] = "ttbr0_set"
                 PROVE  \/ k = 1 /\ Len(asid') = 1 /\ asid'[1] = 0
                        \/ k = 2 /\ todo'[1] = PREFETCH_FLUSH /\ asid'[Len(asid')] = 0
                        \/ k > 2 /\ todo'[k - 1] = PREFETCH_FLUSH /\ todo'[k - 2] = ASID_SET(0)
    BY DEF TableAfterAsid
  <2>2. \/ k = 1 /\ x = PREFETCH_FLUSH /\ asid[Len(asid)] = 0
        \/ k > 1 /\ todo[k] = PREFETCH_FLUSH /\ todo[k - 1] = ASID_SET(0)
    <3>1. TableAfterAsid(todo, k + 1) /\ todo[k + 1][1] = "ttbr0_set"
      BY <1>1, <2>1 DEF SwitchingCode
    <3>2. k \in Nat /\ k >= 1 /\ (k + 1) - 1 = k /\ (k + 1) - 2 = k - 1
      BY <1>1
    <3>. QED
      BY <3>1, <3>2 DEF TableAfterAsid
  <2>3. CASE k = 1
    BY <1>3, <2>2, <2>3 DEF Latest
  <2>4. CASE k = 2
    <3>1. 1 \in Ahead(todo)' /\ x = ASID_SET(0) /\ todo[2] = PREFETCH_FLUSH
      BY <2>2, <2>4, <1>1 DEF Ahead
    <3>2. todo'[1] = todo[2]
      BY <1>1, <2>4 DEF Ahead
    <3>3. todo'[1] = PREFETCH_FLUSH
      BY <3>1, <3>2
    <3>. QED
      BY <1>3, <2>4, <3>1, <3>3, Tags DEF Latest
  <2>5. CASE k > 2
    <3>1. k - 1 \in Ahead(todo)' /\ k - 2 \in Ahead(todo)' /\ (k - 1) + 1 = k /\ (k - 2) + 1 = k - 1
      BY <1>1, <2>5 DEF Ahead, Code
    <3>2. todo'[k - 1] = todo[k] /\ todo'[k - 2] = todo[k - 1]
      BY <1>1, <3>1
    <3>. QED
      BY <2>2, <2>5, <3>2
  <2>6. k = 1 \/ k = 2 \/ k > 2
    BY <1>1
  <2>. QED
    BY <2>3, <2>4, <2>5, <2>6
<1>5. ASSUME NEW k \in Ahead(todo)' PROVE AsidAfterTable(todo, k)'
  <2>. DEFINE y == todo'[k][2]
  <2>1. SUFFICES ASSUME todo'[k][1] = "asid_set", y # 0
                 PROVE  \/ k = 1 /\ Len(ttbr0') = 1 /\ ttbr0'[1] = y
                        \/ k = 2 /\ todo'[1] = PREFETCH_FLUSH /\ ttbr0'[Len(ttbr0')] = y
                        \/ k > 2 /\ todo'[k - 1] = PREFETCH_FLUSH /\ todo'[k - 2] = TTBR0_SET(y)
    BY DEF AsidAfterTable
  <2>2. \/ k = 1 /\ x = PREFETCH_FLUSH /\ ttbr0[Len(ttbr0)] = y
        \/ k > 1 /\ todo[k] = PREFETCH_FLUSH /\ todo[k - 1] = TTBR0_SET(y)
    <3>1. AsidAfterTable(todo, k + 1) /\ todo[k + 1][1] = "asid_set" /\ todo[k + 1][2] = y
      BY <1>1, <2>1 DEF SwitchingCode
    <3>2. k \in Nat /\ k >= 1 /\ (k + 1) - 1 = k /\ (k + 1) - 2 = k - 1
      BY <1>1
    <3>. HIDE DEF y
    <3>. QED
      BY <2>1, <3>1, <3>2 DEF AsidAfterTable
  <2>. HIDE DEF y
  <2>3. CASE k = 1
    BY <1>3, <2>2, <2>3 DEF Latest
  <2>4. CASE k = 2
    <3>1. 1 \in Ahead(todo)' /\ x = TTBR0_SET(y) /\ todo[2] = PREFETCH_FLUSH
      BY <2>2, <2>4, <1>1 DEF Ahead
    <3>2. todo'[1] = todo[2]
      BY <1>1, <2>4 DEF Ahead
    <3>3. todo'[1] = PREFETCH_FLUSH
      BY <3>1, <3>2
    <3>. QED
      BY <1>3, <2>4, <3>1, <3>3, Tags DEF Latest
  <2>5. CASE k > 2
    <3>1. k - 1 \in Ahead(todo)' /\ k - 2 \in Ahead(todo)' /\ (k - 1) + 1 = k /\ (k - 2) + 1 = k - 1
      BY <1>1, <2>5 DEF Ahead, Code
    <3>2. todo'[k - 1] = todo[k] /\ todo'[k - 2] = todo[k - 1]
      BY <1>1, <3>1
    <3>. QED
      BY <2>2, <2>5, <3>2
  <2>6. k = 1 \/ k = 2 \/ k > 2
    BY <1>1
  <2>. QED
    BY <2>3, <2>4, <2>5, <2>6
<1>6. asid' # <<>> /\ ttbr0' # <<>>
  BY <1>3 DEF Latest
<1>. QED
  BY <1>3, <1>4, <1>5, <1>6 DEF SwitchingCode

\* The TLB walks the table of the ASID in use, or under ASID 0.
LEMMA SwitchingInHardware ==
  ASSUME SwitchingCode(todo), Matched, Owned, Hardware
  PROVE  SwitchingCode(todo)' /\ Matched' /\ Owned'
<1>1. asid' = asid /\ ttbr0' = ttbr0 /\ todo' = todo
  BY DEF Hardware, Drain, Fill, Evict, Walk, cpu
<1>2. Owned'
  <2>1. CASE tlb' = tlb
    BY <2>1 DEF Owned
  <2>2. ASSUME NEW i \in DOMAIN asid, NEW j \in DOMAIN ttbr0, Walk(i, j) PROVE Owned'
    BY <2>2 DEF Walk, Owned, Matched
  <2>. QED
    BY <2>1, <2>2 DEF Hardware, Drain, Fill, Evict
<1>. QED
  BY <1>1, <1>2 DEF SwitchingCode, TableAfterAsid, AsidAfterTable, Matched

-----------------------------------------------------------------------------
(***************************************************************************)
(* Page tables and TLB.                                                    *)
(***************************************************************************)
\* What is left of a routine still settles the tables that it stores to.
LEMMA WalkingCodeInRoutine ==
  ASSUME todo \in Code, WalkingCode(todo), Routine, TypeOK
  PROVE  WalkingCode(todo)'
<1>. DEFINE x == todo[1]
<1>1. /\ todo # <<>> /\ todo' = Tail(todo) /\ Len(todo) \in Nat
      /\ Head(todo) = x /\ x \in Insts /\ Len(todo') = Len(todo) - 1
      /\ \A j \in Ahead(todo)' : j \in Nat /\ j >= 1 /\ j + 1 \in Ahead(todo) /\ todo'[j] = todo[j + 1]
  BY Framed, Done DEF Ahead
<1>2. ASSUME NEW k \in Ahead(todo)' PROVE StoresSettle(todo, k)'
  <2>1. /\ k \in Nat /\ k >= 1 /\ k + 1 \in Ahead(todo) /\ todo'[k] = todo[k + 1]
        /\ StoresSettle(todo, k + 1)
    BY <1>1 DEF WalkingCode
  <2>2. SUFFICES ASSUME StoresTable(todo[k + 1])
                 PROVE  \/ /\ Early(todo, k)' /\ \A a \in Asids : last'[a] = 0
                           /\ \A j \in 1 .. k - 1 : ~StoresTable(todo'[j])
                        \/ /\ k + 3 <= Len(todo') /\ todo'[k + 1] = CLEAN_INV_DCACHE
                           /\ todo'[k + 2] = DSB /\ todo'[k + 3] = INV_TLB
    BY <2>1 DEF StoresSettle, StoresTable
  <2>3. CASE /\ Early(todo, k + 1) /\ \A a \in Asids : last[a] = 0
             /\ \A j \in 1 .. (k + 1) - 1 : ~StoresTable(todo[j])
    <3>1. Early(todo, k)'
      BY <2>3, EarlyKept
    <3>2. ASSUME NEW j \in 1 .. k - 1 PROVE ~StoresTable(todo'[j])
      <4>1. j \in Ahead(todo)' /\ j + 1 \in 1 .. (k + 1) - 1
        BY <1>1, <2>1 DEF Ahead
      <4>. QED
        BY <1>1, <2>3, <4>1
    <3>3. ~StoresTable(x)
      BY <2>1, <2>3
    <3>4. last' = last \/ Stored(0)
      <4>1. CASE x[1] = "str"
        BY <1>1, <3>3, <4>1, Does DEF StoresTable, StrPte, Operand
      <4>2. CASE x = Compiled
        BY <4>2, Does, Tags DEF RunCompiled, hist
      <4>. QED
        BY <4>1, <4>2, Framed
    <3>5. \A a \in Asids : last'[a] = last[a]
      BY <3>4, NumbersAndLines DEF Stored, TypeOK, Cells
    <3>. QED
      BY <2>3, <3>1, <3>2, <3>5
  <2>4. CASE /\ (k + 1) + 3 <= Len(todo) /\ todo[(k + 1) + 1] = CLEAN_INV_DCACHE
             /\ todo[(k + 1) + 2] = DSB /\ todo[(k + 1) + 3] = INV_TLB
    <3>1. /\ k + 1 \in Ahead(todo)' /\ k + 2 \in Ahead(todo)' /\ k + 3 \in Ahead(todo)'
          /\ (k + 2) + 1 = (k + 1) + 2 /\ (k + 3) + 1 = (k + 1) + 3 /\ k + 3 <= Len(todo')
      BY <1>1, <2>1, <2>4 DEF Ahead
    <3>2. todo'[k + 1] = todo[(k + 1) + 1] /\ todo'[k + 2] = todo[(k + 2) + 1]
          /\ todo'[k + 3] = todo[(k + 3) + 1]
      BY <1>1, <3>1
    <3>. QED
      BY <2>4, <3>1, <3>2
  <2>. QED
    BY <2>1, <2>2, <2>3, <2>4 DEF StoresSettle
<1>3. ASSUME NEW k \in Ahead(todo)' PROVE DrainedBefore(todo, k)'
  <2>1. /\ k \in Nat /\ k >= 1 /\ k + 1 \in Ahead(todo) /\ todo'[k] = todo[k + 1]
        /\ DrainedBefore(todo, k + 1)
    BY <1>1 DEF WalkingCode
  <2>2. SUFFICES ASSUME TurnsOn(todo[k + 1])
                 PROVE  \/ k = 1 /\ \A c \in Cells : wb'[c] = None
                        \/ k > 1 /\ todo'[k - 1] = DSB
    BY <2>1 DEF DrainedBefore, TurnsOn
  <2>3. todo[k] = DSB
    <3>1. (k + 1) - 1 = k /\ k + 1 # 1
      BY <2>1
    <3>. QED
      BY <2>1, <2>2, <3>1 DEF DrainedBefore
  <2>4. CASE k = 1
    BY <2>3, <2>4, Does, Tags DEF Dsb
  <2>5. CASE k > 1
    <3>1. k - 1 \in Ahead(todo)' /\ (k - 1) + 1 = k
      BY <1>1, <2>1, <2>5 DEF Ahead
    <3>. QED
      BY <1>1, <2>3, <2>5, <3>1
  <2>. QED
    BY <2>1, <2>4, <2>5
<1>. QED
  BY <1>2, <1>3 DEF WalkingCode

\* A step of a routine leaves the tables settled, or a store to them under way.
LEMMA SettledInRoutine ==
  ASSUME TypeOK, todo \in Code, CachingCode(todo), Caching, WalkingCode(todo), Walking, Routine,
         MmuOn'
  PROVE  StoreUnderway(todo)' \/ \A a \in Asids : Settled(a)'
<1>. DEFINE x == todo[1]
<1>1. /\ todo # <<>> /\ todo' = Tail(todo) /\ Len(todo) \in Nat /\ 1 \in Ahead(todo)
      /\ Head(todo) = x /\ x \in Insts /\ todo' \in Code /\ Len(todo') = Len(todo) - 1
      /\ (Len(todo) >= 2 => todo'[1] = todo[2]) /\ (Len(todo) >= 3 => todo'[2] = todo[3])
  BY Framed, Done, Counted DEF Ahead
<1>2. MmuOn \/ TurnsOn(x)
  BY Framed
<1>3. /\ ~Cold(todo) /\ LinesRight /\ (DcacheUsed \/ CacheEmpty \/ CleanAfter(todo, 0))
      /\ x # INV_DCACHE
  <2>1. ~Cold(todo) /\ LinesRight /\ (DcacheUsed \/ CacheEmpty \/ CleanAfter(todo, 0))
    BY <1>1, <1>2, Warm
  <2>. QED
    BY <1>1, <2>1 DEF Cold
<1>4. ASSUME NEW a \in Asids
      PROVE  a \in Cells /\ a # 0 /\ Right(a)
  BY <1>3, NumbersAndLines DEF Cells, LinesRight
<1>5. CASE TurnsOn(x)
  <2>1. UNCHANGED <<mem, wb, dc, last>> /\ x # CLEAN_INV_DCACHE /\ x # DSB
    BY <1>5, Does, Tags DEF TurnsOn, ControlReg1Wr, SetControl, hw, hist
  <2>2. MmuOn \/ \A c \in Cells : wb[c] = None
    BY <1>1, <1>5 DEF WalkingCode, DrainedBefore
  <2>3. CASE MmuOn
    <3>1. \A a \in Asids : Settled(a)
      BY <2>1, <2>3 DEF Walking, StoreUnderway
    <3>. QED
      BY <2>1, <3>1 DEF Settled
  <2>4. CASE ~MmuOn /\ \A c \in Cells : wb[c] = None
    <3>1. CacheEmpty
      <4>1. ~CleanAfter(todo, 0)
        <5>1. ASSUME NEW n \in Ahead(todo), n > 0, todo[n] = CLEAN_INV_DCACHE,
                     \A j \in 0 + 1 .. n - 1 : todo[j] \in {DSB, PREFETCH_FLUSH, FLUSH_BTB, Compiled}
              PROVE  FALSE
          <6>1. n \in Nat /\ n # 1
            BY <2>1, <5>1, Counted
          <6>2. 1 \in 0 + 1 .. n - 1
            BY <5>1, <6>1
          <6>. QED
            BY <1>5, <5>1, <6>2, Tags DEF TurnsOn
        <5>. QED
          BY <5>1 DEF CleanAfter
      <4>. QED
        BY <1>3, <2>4, <4>1 DEF DcacheUsed, MmuOn
    <3>2. ASSUME NEW a \in Asids PROVE Settled(a)
      <4>1. ~dc[a].dirty
        BY <1>4, <3>1, NumbersAndLines DEF CacheEmpty
      <4>. QED
        BY <1>4, <2>4, <4>1 DEF Settled, Right, Behind
    <3>. QED
      BY <2>1, <3>2 DEF Settled
  <2>. QED
    BY <2>2, <2>3, <2>4
<1>6. CASE MmuOn /\ x = CLEAN_INV_DCACHE
  <2>1. /\ dc' = [c \in Cells |-> NoLine] /\ mem' = mem /\ last' = last
        /\ wb' = [c \in Cells |-> IF dc[c].dirty THEN dc[c].v ELSE wb[c]]
    BY <1>6, Does, Tags DEF CleanInvDcache, hist
  <2>2. CASE StoreUnderway(todo)
    <3>1. Len(todo) >= 3 /\ todo[2] = DSB /\ todo[3] = INV_TLB
      BY <1>6, <2>2, Tags DEF StoreUnderway
    <3>2. Len(todo') >= 2 /\ todo'[1] = DSB /\ todo'[2] = INV_TLB
      BY <1>1, <3>1
    <3>. QED
      BY <2>1, <3>2 DEF StoreUnderway, CacheEmpty
  <2>3. CASE \A a \in Asids : Settled(a)
    <3>1. ASSUME NEW a \in Asids PROVE Settled(a)'
      <4>1. Settled(a) /\ a \in Cells
        BY <1>4, <2>3
      <4>2. dc'[a] = NoLine /\ wb'[a] = wb[a]
        BY <2>1, <4>1 DEF Settled
      <4>3. ~dc'[a].dirty
        BY <4>2, NumbersAndLines
      <4>. QED
        BY <2>1, <4>1, <4>2, <4>3 DEF Settled
    <3>. QED
      BY <3>1
  <2>. QED
    BY <1>6, <2>2, <2>3 DEF Walking
<1>7. CASE MmuOn /\ x = DSB
  <2>1. /\ mem' = [c \in Cells |-> Behind(c)] /\ wb' = [c \in Cells |-> None]
        /\ dc' = dc /\ last' = last
    BY <1>7, Does, Tags DEF Dsb, Behind, hist
  <2>2. ASSUME NEW a \in Asids PROVE Settled(a)'
    <3>1. Settled(a) \/ CacheEmpty
      BY <1>7, Tags DEF Walking, StoreUnderway
    <3>2. ~dc[a].dirty /\ Behind(a) = last[a]
      <4>1. CASE Settled(a)
        BY <4>1 DEF Settled, Behind
      <4>2. CASE CacheEmpty
        <5>1. ~dc[a].dirty
          BY <1>4, <4>2, NumbersAndLines DEF CacheEmpty
        <5>. QED
          BY <1>4, <5>1 DEF Right
      <4>. QED
        BY <3>1, <4>1, <4>2
    <3>. QED
      BY <1>4, <2>1, <3>2 DEF Settled
  <2>. QED
    BY <2>2
<1>8. CASE MmuOn /\ StoresTable(x)
  <2>1. Len(todo) >= 4 /\ todo[2] = CLEAN_INV_DCACHE /\ todo[3] = DSB /\ todo[4] = INV_TLB
    BY <1>1, <1>8 DEF WalkingCode, StoresSettle, Early
  <2>2. todo'[1] = CLEAN_INV_DCACHE /\ todo'[2] = DSB /\ Len(todo') >= 3
    BY <1>1, <2>1
  <2>3. todo'[3] = INV_TLB
    <3>1. 4 \in Ahead(todo) /\ 4 # 1 /\ 4 - 1 = 3
      BY <1>1, <2>1 DEF Ahead
    <3>2. \A j \in Ahead(todo) : j # 1 => todo'[j - 1] = todo[j]
      BY <1>1, Done
    <3>. QED
      BY <2>1, <3>1, <3>2
  <2>. QED
    BY <2>2, <2>3 DEF StoreUnderway
<1>9. CASE MmuOn /\ ~TurnsOn(x) /\ x # CLEAN_INV_DCACHE /\ x # DSB /\ ~StoresTable(x)
  <2>1. \A a \in Asids : Settled(a)
    BY <1>9 DEF Walking, StoreUnderway
  <2>2. UNCHANGED <<mem, wb, dc, last>> \/ Stored(0)
    <3>1. CASE x[1] = "str"
      BY <1>1, <1>9, <3>1, Does DEF StrPte, Operand, StoresTable
    <3>2. CASE x = Compiled
      BY <3>2, Does, Tags DEF RunCompiled, hw, hist
    <3>. QED
      BY <1>3, <1>9, <3>1, <3>2, Framed
  <2>3. ASSUME Stored(0), NEW a \in Asids PROVE Settled(a)'
    <3>1. mem'[a] = mem[a] /\ wb'[a] = wb[a] /\ dc'[a] = dc[a] /\ last'[a] = last[a]
      BY <1>4, <2>3 DEF Stored, TypeOK
    <3>. QED
      BY <2>1, <3>1 DEF Settled
  <2>. QED
    BY <2>1, <2>2, <2>3 DEF Settled
<1>. QED
  BY <1>2, <1>5, <1>6, <1>7, <1>8, <1>9

\* The TLB is as last stored, or is about to be invalidated.
LEMMA TlbInRoutine ==
  ASSUME TypeOK, todo \in Code, WalkingCode(todo), Walking, Routine
  PROVE  TlbTrue' \/ TlbClears(todo)'
<1>. DEFINE x == todo[1]
<1>1. /\ todo # <<>> /\ todo' = Tail(todo) /\ 1 \in Ahead(todo) /\ Head(todo) = x /\ x \in Insts
      /\ \A j \in Ahead(todo) : j # 1 => j - 1 \in Ahead(todo)' /\ todo'[j - 1] = todo[j]
  BY Framed, Done, Counted DEF Ahead
<1>2. CASE x = INV_TLB
  BY <1>2, Does, Tags DEF InvTlb, TlbTrue
<1>3. ASSUME NEW k \in Ahead(todo), k # 1, todo[k] = INV_TLB PROVE TlbClears(todo)'
  BY <1>1, <1>3 DEF TlbClears
<1>4. CASE x # INV_TLB /\ TlbTrue
  <2>1. tlb' = tlb
    BY <1>4, Framed
  <2>2. CASE StoresTable(x)
    <3>1. StoresSettle(todo, 1)
      BY <1>1 DEF WalkingCode
    <3>2. CASE \A a \in Asids : last[a] = 0
      <4>1. tlb = {}
        BY <1>4, <3>2 DEF TlbTrue, TypeOK
      <4>. QED
        BY <2>1, <4>1 DEF TlbTrue
    <3>3. CASE 4 <= Len(todo) /\ todo[4] = INV_TLB
      <4>1. 4 \in Ahead(todo)
        BY <3>3, Counted DEF Ahead
      <4>. QED
        BY <1>3, <3>3, <4>1
    <3>. QED
      BY <2>2, <3>1, <3>2, <3>3 DEF StoresSettle
  <2>3. CASE ~StoresTable(x)
    <3>1. last' = last \/ Stored(0)
      <4>1. CASE x[1] = "str"
        BY <1>1, <2>3, <4>1, Does DEF StoresTable, StrPte, Operand
      <4>2. CASE x = Compiled
        BY <4>2, Does, Tags DEF RunCompiled, hist
      <4>. QED
        BY <4>1, <4>2, Framed
    <3>2. \A a \in Asids : last'[a] = last[a]
      BY <3>1, NumbersAndLines DEF Stored, TypeOK, Cells
    <3>. QED
      BY <1>4, <2>1, <3>2 DEF TlbTrue, TypeOK
  <2>. QED
    BY <2>2, <2>3
<1>. QED
  BY <1>2, <1>3, <1>4 DEF Walking, TlbClears

\* A walk finds the tables as last stored, and draining only settles them.
LEMMA WalkingInHardware ==
  ASSUME TypeOK, todo \in Code, WalkingCode(todo), Walking, Hardware
  PROVE  WalkingCode(todo)' /\ Walking'
<1>1. todo' = todo /\ ctl' = ctl /\ last' = last /\ MmuOn' = MmuOn
  BY DEF Hardware, Drain, Fill, Evict, Walk, cpu, hist, MmuOn
<1>2. DcacheUsed => MmuOn
  BY DEF DcacheUsed, MmuOn
<1>3. todo # <<>> => todo[1] = Head(todo)
  BY DEF Code
<1>4. ASSUME NEW k \in Ahead(todo) PROVE StoresSettle(todo, k)' /\ DrainedBefore(todo, k)'
  <2>1. StoresSettle(todo, k) /\ DrainedBefore(todo, k)
    BY <1>4 DEF WalkingCode
  <2>2. StoresSettle(todo, k)'
    BY <1>1, <2>1 DEF StoresSettle, StoresTable, Early, TurnsOn
  <2>3. (\A c \in Cells : wb[c] = None) => MmuOn \/ \A c \in Cells : wb'[c] = None
    BY <1>2 DEF Hardware, Drain, Fill, Evict, Walk
  <2>. QED
    BY <1>1, <2>1, <2>2, <2>3 DEF DrainedBefore, TurnsOn
<1>5. ASSUME NEW a \in Asids, Settled(a) PROVE Settled(a)'
  <2>1. a \in Cells
    BY DEF Cells
  <2>2. ASSUME NEW c \in Cells, Drain(c) PROVE Settled(a)'
    BY <1>1, <1>5, <2>1, <2>2 DEF Drain, Settled, TypeOK
  <2>3. ASSUME NEW c \in Cells, Fill(c) PROVE Settled(a)'
    <3>1. [v |-> View(c), dirty |-> FALSE].dirty = FALSE
      OBVIOUS
    <3>2. dc'[a] = dc[a] \/ dc'[a] = [v |-> View(c), dirty |-> FALSE]
      BY <2>1, <2>3 DEF Fill, TypeOK
    <3>. QED
      BY <1>1, <1>5, <2>3, <3>1, <3>2 DEF Fill, Settled
  <2>4. ASSUME NEW c \in Cells, Evict(c) PROVE Settled(a)'
    <3>1. dc'[a] = dc[a] \/ dc'[a] = NoLine
      BY <2>1, <2>4 DEF Evict, TypeOK
    <3>2. wb'[a] = wb[a]
      BY <1>5, <2>1, <2>4 DEF Evict, Settled, TypeOK
    <3>. QED
      BY <1>1, <1>5, <2>4, <3>1, <3>2, NumbersAndLines DEF Evict, Settled
  <2>5. ASSUME NEW i \in DOMAIN asid, NEW j \in DOMAIN ttbr0, Walk(i, j) PROVE Settled(a)'
    BY <1>1, <1>5, <2>5 DEF Walk, Settled
  <2>. QED
    BY <2>2, <2>3, <2>4, <2>5 DEF Hardware
<1>6. StoreUnderway(todo) => StoreUnderway(todo)'
  <2>1. CacheEmpty /\ Len(todo) >= 2 /\ todo[1] = DSB => CacheEmpty'
    <3>. SUFFICES ASSUME CacheEmpty, Len(todo) >= 2, todo[1] = DSB PROVE dc' = dc
      BY DEF CacheEmpty
    <3>1. todo # <<>> /\ Head(todo) = DSB
      BY <1>3
    <3>2. \A c \in Cells : ~Fill(c)
      BY <3>1, Tags DEF Fill
    <3>3. \A c \in Cells : ~Evict(c)
      BY DEF Evict, CacheEmpty
    <3>. QED
      BY <3>2, <3>3 DEF Hardware, Drain, Walk
  <2>. QED
    BY <1>1, <2>1 DEF StoreUnderway
<1>7. TlbTrue' \/ TlbClears(todo)'
  <2>1. CASE TlbClears(todo)
    BY <1>1, <2>1 DEF TlbClears, Ahead
  <2>2. CASE TlbTrue /\ ~TlbClears(todo)
    <3>1. ASSUME MmuOn, NEW a \in Asids PROVE mem[a] = last[a]
      <4>1. ~StoreUnderway(todo)
        <5>1. \A n \in 1 .. Len(todo) : todo[n] # INV_TLB
          BY <2>2 DEF TlbClears, Ahead
        <5>2. Len(todo) \in Nat
          BY Counted
        <5>. QED
          BY <5>1, <5>2 DEF StoreUnderway
      <4>. QED
        BY <3>1, <4>1 DEF Walking, Settled
    <3>2. ASSUME NEW i \in DOMAIN asid, NEW j \in DOMAIN ttbr0, Walk(i, j) PROVE TlbTrue'
      <4>. DEFINE e == [asid |-> asid[i], table |-> ttbr0[j], v |-> mem[ttbr0[j]]]
      <4>1. ttbr0[j] \in Asids /\ MmuOn /\ mem[ttbr0[j]] # 0
        BY <3>2 DEF Walk, TypeOK
      <4>2. e.v = last[e.table] /\ e.v # 0
        BY <3>1, <4>1
      <4>3. tlb' = tlb \cup {e}
        BY <3>2 DEF Walk
      <4>. HIDE DEF e
      <4>. QED
        BY <1>1, <2>2, <4>2, <4>3 DEF TlbTrue
    <3>3. CASE tlb' = tlb
      BY <1>1, <2>2, <3>3 DEF TlbTrue
    <3>. QED
      BY <3>2, <3>3 DEF Hardware, Drain, Fill, Evict
  <2>. QED
    BY <2>1, <2>2 DEF Walking
<1>. QED
  BY <1>1, <1>4, <1>5, <1>6, <1>7 DEF WalkingCode, Walking, Ahead

-----------------------------------------------------------------------------
(***************************************************************************)
(* The programs find what they stored and wrote.                           *)
(***************************************************************************)
\* What is left of a program is a program.
LEMMA ProgramLeft ==
  ASSUME todo \in Code, todo # <<>>, todo' = Tail(todo)
  PROVE  /\ Program(todo)' => Program(todo)
         /\ Program(todo) /\ todo[1] # Reboot => Program(todo)'
<1>1. /\ Len(todo) \in Nat /\ Len(todo) >= 1 /\ Len(todo') = Len(todo) - 1 /\ todo' \in Code
      /\ \A k \in Ahead(todo) : k # 1 => todo'[k - 1] = todo[k]
  BY Done
<1>2. todo' # <<>> <=> Len(todo) # 1
  BY <1>1, Counted DEF Code
<1>3. ASSUME Len(todo) # 1 PROVE todo'[Len(todo')] = todo[Len(todo)]
  <2>1. Len(todo) \in Ahead(todo) /\ Len(todo') = Len(todo) - 1
    BY <1>1 DEF Ahead
  <2>. QED
    BY <1>1, <1>3, <2>1
<1>. QED
  BY <1>2, <1>3 DEF Program

\* A program finds what it stored and wrote.
LEMMA CheckingInRoutine ==
  ASSUME TypeOK, todo \in Code, CachingCode(todo), Caching, CheckingCode(todo), Checking,
         Routine
  PROVE  CheckingCode(todo)' /\ Checking' /\ ~panicked'
<1>. DEFINE x == todo[1]
<1>1. /\ todo # <<>> /\ todo' = Tail(todo) /\ ~panicked /\ 1 \in Ahead(todo) /\ Head(todo) = x
      /\ x \in Insts /\ Len(todo') = Len(todo) - 1 /\ Len(todo) \in Nat
      /\ \A j \in Ahead(todo)' : j \in Nat /\ j >= 1 /\ j + 1 \in Ahead(todo) /\ todo'[j] = todo[j + 1]
      /\ \A j \in Ahead(todo) : j # 1 => j - 1 \in Ahead(todo)' /\ todo'[j - 1] = todo[j]
  BY Framed, Done, Counted DEF Ahead
<1>2. x # Reboot
  BY <1>1, Tags DEF Routine, Inst, Dsb, PrefetchFlush, FlushBtb, InvIcache, CleanInvDcache, InvDcache,
     InvTlb, ControlReg1Wr, ClearBit, AsidSet, Ttbr0Set, StrPte, RunCompiled, RunAsserts
<1>3. Program(todo)' <=> Program(todo)
  BY <1>1, <1>2, ProgramLeft
<1>4. ASSUME Program(todo)
      PROVE  /\ ctl \subseteq ProgramFields /\ ~DcacheUsed /\ (Cold(todo) \/ CacheEmpty)
             /\ \A c \in Cells : Behind(c) = last[c]
             /\ \A k \in Ahead(todo) : ExpectsWritten(todo, k)
             /\ \A k \in Ahead(todo) : todo[k][1] = "control_reg1_wr" => todo[k][2] \subseteq ProgramFields
  BY <1>4 DEF CheckingCode, Checking, DcacheUsed, ProgramFields
<1>5. ASSUME NEW k \in Ahead(todo)', Checks(todo'[k]) PROVE Program(todo)'
  BY <1>1, <1>3, <1>5 DEF CheckingCode
<1>6. ASSUME Program(todo), NEW k \in Ahead(todo)'
      PROVE  /\ ExpectsWritten(todo, k)'
             /\ todo'[k][1] = "control_reg1_wr" => todo'[k][2] \subseteq ProgramFields
  <2>1. /\ k \in Nat /\ k >= 1 /\ k + 1 \in Ahead(todo) /\ todo'[k] = todo[k + 1]
        /\ ExpectsWritten(todo, k + 1)
        /\ todo[k + 1][1] = "control_reg1_wr" => todo[k + 1][2] \subseteq ProgramFields
    BY <1>1, <1>4, <1>6
  <2>. DEFINE f == todo[k + 1][2]
              on == todo[k + 1][3]
  <2>2. SUFFICES ASSUME todo[k + 1][1] = "expect"
                 PROVE  \/ /\ \A j \in 1 .. k - 1 : ~WritesControl(todo'[j])
                           /\ (f \in ctl') = on
                        \/ \E i \in 1 .. k - 1 :
                             /\ todo'[i][1] = "control_reg1_wr" /\ (f \in todo'[i][2]) = on
                             /\ \A j \in i + 1 .. k - 1 : ~WritesControl(todo'[j])
    BY <2>1 DEF ExpectsWritten, WritesControl
  <2>3. ASSUME NEW i \in 0 .. k, \A j \in i + 1 .. k : ~WritesControl(todo[j])
        PROVE  \A j \in i .. k - 1 : j >= 1 => ~WritesControl(todo'[j])
    <3>1. ASSUME NEW j \in i .. k - 1, j >= 1 PROVE ~WritesControl(todo'[j])
      <4>1. j \in Ahead(todo)' /\ j + 1 \in i + 1 .. k
        BY <1>1, <2>1, <3>1 DEF Ahead
      <4>. QED
        BY <1>1, <2>3, <4>1
    <3>. QED
      BY <3>1
  <2>4. CASE (\A j \in 1 .. k : ~WritesControl(todo[j])) /\ (f \in ctl) = on
    <3>1. ctl' = ctl
      BY <2>1, <2>4, Framed
    <3>2. 0 \in 0 .. k /\ \A j \in 0 + 1 .. k : ~WritesControl(todo[j])
      BY <2>1, <2>4
    <3>3. \A j \in 0 .. k - 1 : j >= 1 => ~WritesControl(todo'[j])
      BY <2>3, <3>2
    <3>. QED
      BY <2>1, <2>4, <3>1, <3>3
  <2>5. ASSUME NEW i \in 1 .. k, todo[i][1] = "control_reg1_wr", (f \in todo[i][2]) = on,
               \A j \in i + 1 .. k : ~WritesControl(todo[j])
        PROVE  \/ /\ \A j \in 1 .. k - 1 : ~WritesControl(todo'[j])
                  /\ (f \in ctl') = on
               \/ \E n \in 1 .. k - 1 :
                    /\ todo'[n][1] = "control_reg1_wr" /\ (f \in todo'[n][2]) = on
                    /\ \A j \in n + 1 .. k - 1 : ~WritesControl(todo'[j])
    <3>1. i \in 0 .. k /\ i \in Nat /\ i >= 1
      BY <2>1
    <3>2. \A j \in i .. k - 1 : j >= 1 => ~WritesControl(todo'[j])
      BY <2>3, <2>5, <3>1
    <3>3. CASE i = 1
      <4>1. ctl' = todo[i][2]
        BY <1>1, <2>5, <3>3, Does DEF ControlReg1Wr, SetControl, Operand
      <4>2. \A j \in 1 .. k - 1 : ~WritesControl(todo'[j])
        BY <2>1, <3>2, <3>3
      <4>. QED
        BY <2>5, <4>1, <4>2
    <3>4. CASE i # 1
      <4>. DEFINE n == i - 1
      <4>1. n \in 1 .. k - 1 /\ n + 1 = i /\ i \in Ahead(todo)
        BY <2>1, <3>1, <3>4 DEF Ahead
      <4>2. todo'[n] = todo[i]
        BY <1>1, <3>4, <4>1
      <4>3. \A j \in n + 1 .. k - 1 : ~WritesControl(todo'[j])
        BY <2>1, <3>1, <3>2, <4>1
      <4>. HIDE DEF n
      <4>. QED
        BY <2>5, <4>1, <4>2, <4>3
    <3>. QED
      BY <3>3, <3>4
  <2>6. (k + 1) - 1 = k
    BY <2>1
  <2>. HIDE DEF f, on
  <2>. QED
    BY <2>1, <2>2, <2>4, <2>5, <2>6 DEF ExpectsWritten, f, on
<1>7. ASSUME Program(todo)
      PROVE  ctl' \subseteq ProgramFields /\ (Cold(todo)' \/ CacheEmpty') /\ \A c \in Cells : Behind(c)' = last'[c]
  <2>1. ctl' \subseteq ProgramFields
    <3>1. CASE x[1] = "control_reg1_wr"
      BY <1>1, <1>4, <1>7, <3>1, Does DEF ControlReg1Wr, SetControl, Operand
    <3>2. CASE x[1] = "bic"
      BY <1>4, <1>7, <3>2, Does DEF ClearBit, SetControl
    <3>. QED
      BY <1>4, <1>7, <3>1, <3>2, Framed DEF WritesControl
  <2>2. UNCHANGED <<mem, wb, dc, last>> \/ x \in {DSB, CLEAN_INV_DCACHE, INV_DCACHE} \/ \E c \in Cells : Stored(c)
    <3>1. CASE x[1] = "str"
      BY <1>1, <3>1, Does, Kinds DEF StrPte, Operand
    <3>2. CASE x = Compiled
      BY <3>2, Does, Tags DEF RunCompiled, hw, hist, Cells
    <3>. QED
      BY <3>1, <3>2, Framed
  <2>3. ASSUME x = INV_DCACHE
        PROVE  CacheEmpty' /\ \A c \in Cells : Behind(c)' = last'[c]
    BY <1>4, <1>7, <2>3, Does, Tags DEF InvDcache, CacheEmpty, Behind, hist
  <2>4. ASSUME x # INV_DCACHE
        PROVE  (Cold(todo)' \/ CacheEmpty') /\ \A c \in Cells : Behind(c)' = last'[c]
    <3>1. Cold(todo) => Cold(todo)'
      <4>1. ASSUME NEW k \in Ahead(todo), todo[k] = INV_DCACHE PROVE Cold(todo)'
        BY <1>1, <2>4, <4>1 DEF Cold
      <4>. QED
        BY <4>1 DEF Cold
    <3>2. Cold(todo) \/ CacheEmpty
      BY <1>4, <1>7
    <3>3. \A c \in Cells : Behind(c) = last[c]
      BY <1>4, <1>7
    <3>4. ASSUME x = DSB
          PROVE  (CacheEmpty => CacheEmpty') /\ \A c \in Cells : Behind(c)' = last'[c]
      BY <3>3, <3>4, Does, Tags DEF Dsb, CacheEmpty, Behind, hist
    <3>5. ASSUME x = CLEAN_INV_DCACHE
          PROVE  (CacheEmpty => CacheEmpty') /\ \A c \in Cells : Behind(c)' = last'[c]
      <4>1. ~Cold(todo)
        BY <1>1, <3>5, Warm
      <4>2. \A c \in Cells : ~dc[c].dirty
        BY <3>2, <4>1, NumbersAndLines DEF CacheEmpty
      <4>3. /\ dc' = [c \in Cells |-> NoLine] /\ mem' = mem /\ last' = last
            /\ wb' = [c \in Cells |-> IF dc[c].dirty THEN dc[c].v ELSE wb[c]]
        BY <3>5, Does, Tags DEF CleanInvDcache, hist
      <4>4. \A c \in Cells : wb'[c] = wb[c]
        BY <4>2, <4>3
      <4>. QED
        BY <3>3, <4>3, <4>4 DEF CacheEmpty, Behind
    <3>6. ASSUME NEW c \in Cells, Stored(c)
          PROVE  (CacheEmpty => CacheEmpty') /\ \A d \in Cells : Behind(d)' = last'[d]
      <4>1. /\ dc' = dc
            /\ \A d \in Cells : Behind(d)' = IF d = c THEN last'[d] ELSE Behind(d)
            /\ \A d \in Cells : d # c => last'[d] = last[d]
        BY <1>4, <1>7, <3>6, BehindStored
      <4>. QED
        BY <3>3, <4>1 DEF CacheEmpty
    <3>7. ASSUME UNCHANGED <<mem, wb, dc, last>>
          PROVE  (CacheEmpty => CacheEmpty') /\ \A c \in Cells : Behind(c)' = last'[c]
      BY <3>3, <3>7 DEF CacheEmpty, Behind
    <3>8. (CacheEmpty => CacheEmpty') /\ \A c \in Cells : Behind(c)' = last'[c]
      BY <2>2, <2>4, <3>4, <3>5, <3>6, <3>7
    <3>. QED
      BY <3>1, <3>2, <3>8
  <2>. QED
    BY <2>1, <2>3, <2>4
<1>8. ~panicked'
  <2>1. CASE ~Checks(x)
    BY <1>1, <2>1, Framed
  <2>2. CASE Checks(x)
    <3>1. Program(todo) /\ RunAsserts
      BY <1>1, <2>2, Does DEF CheckingCode, Checks
    <3>2. CASE x[1] = "get32"
      <4>1. 0 \in Cells /\ View(0) = last[0]
        BY <1>4, <3>1 DEF View, Behind, Cells
      <4>. QED
        BY <1>1, <3>1, <3>2, <4>1 DEF RunAsserts, Inst
    <3>3. CASE x[1] = "expect"
      <4>1. (x[2] \in ctl) = x[3]
        <5>1. ExpectsWritten(todo, 1)
          BY <1>1, <1>4, <3>1
        <5>2. ~ \E i \in 1 .. 1 - 1 : TRUE
          OBVIOUS
        <5>. QED
          BY <3>3, <5>1, <5>2 DEF ExpectsWritten
      <4>. QED
        BY <1>1, <3>1, <3>3, <4>1 DEF RunAsserts, Inst, Operand
    <3>. QED
      BY <2>2, <3>2, <3>3 DEF Checks
  <2>. QED
    BY <2>1, <2>2
<1>9. CheckingCode(todo)'
  BY <1>3, <1>5, <1>6 DEF CheckingCode, Checks
<1>10. Checking'
  BY <1>3, <1>7 DEF Checking
<1>. QED
  BY <1>8, <1>9, <1>10

\* Draining does not change what is behind the cache.
LEMMA CheckingInHardware ==
  ASSUME TypeOK, ~panicked, CheckingCode(todo), Checking, Hardware
  PROVE  CheckingCode(todo)' /\ Checking' /\ ~panicked'
<1>1. todo' = todo /\ ctl' = ctl /\ last' = last /\ panicked' = panicked
  BY DEF Hardware, Drain, Fill, Evict, Walk, cpu, hist
<1>2. CheckingCode(todo)'
  BY <1>1 DEF CheckingCode, Checks, Program, Ahead, ExpectsWritten, WritesControl
<1>3. ASSUME Program(todo) PROVE dc' = dc /\ \A c \in Cells : Behind(c)' = Behind(c)
  <2>1. ~DcacheUsed
    BY <1>3 DEF Checking, DcacheUsed, ProgramFields
  <2>2. dc' = dc
    BY <2>1 DEF Hardware, Drain, Fill, Evict, Walk
  <2>3. ASSUME NEW d \in Cells, NEW c \in Cells, Drain(c) PROVE Behind(d)' = Behind(d)
    BY <2>3, DrainedBehind
  <2>4. ASSUME NEW i \in DOMAIN asid, NEW j \in DOMAIN ttbr0, Walk(i, j), NEW d \in Cells
        PROVE  Behind(d)' = Behind(d)
    BY <2>4 DEF Walk, Behind
  <2>. QED
    BY <2>1, <2>2, <2>3, <2>4 DEF Hardware, Fill, Evict
<1>4. Checking'
  BY <1>1, <1>3 DEF Checking, Program, Cold, CacheEmpty, Ahead
<1>. QED
  BY <1>1, <1>2, <1>4

-----------------------------------------------------------------------------
(***************************************************************************)
(* Instruction fetch.                                                      *)
(***************************************************************************)
\* An instruction cache that is to be cleared later is, in what is left.
LEMMA IcacheStillClears ==
  ASSUME todo \in Code, todo # <<>>, todo' = Tail(todo), NEW k \in Nat,
         IcacheClears(todo, k), k > 0 \/ todo[1] # INV_ICACHE, NEW m \in Nat, m + 1 = k \/ m = 0
  PROVE  IcacheClears(todo, m)'
<1>1. PICK n \in Ahead(todo) : n > k /\ todo[n] = INV_ICACHE
  BY DEF IcacheClears
<1>2. n \in Nat /\ n >= 1 /\ n # 1
  BY <1>1, Counted
<1>3. n - 1 \in Ahead(todo)' /\ todo'[n - 1] = todo[n]
  BY <1>2, Done
<1>4. n - 1 > m
  BY <1>1, <1>2
<1>. QED
  BY <1>1, <1>3, <1>4 DEF IcacheClears

\* A step of a routine leaves nothing stale that is not flushed later.
LEMMA FetchingInRoutine ==
  ASSUME TypeOK, asid # <<>>, todo \in Code, FetchingCode(todo), Fetching, Routine
  PROVE  FetchingCode(todo)' /\ Fetching'
<1>. DEFINE x == todo[1]
<1>1. /\ todo # <<>> /\ todo' = Tail(todo) /\ 1 \in Ahead(todo) /\ Head(todo) = x
      /\ x \in Insts /\ Len(todo') = Len(todo) - 1 /\ Len(todo) \in Nat /\ Len(todo) >= 1
      /\ todo' \in Code
      /\ (Len(todo) >= 2 => todo'[1] = todo[2]) /\ (Len(todo) >= 3 => todo'[2] = todo[3])
      /\ \A j \in Ahead(todo)' : j \in Nat /\ j >= 1 /\ j + 1 \in Ahead(todo) /\ todo'[j] = todo[j + 1]
      /\ \A j \in Ahead(todo) : j # 1 => todo'[j - 1] = todo[j]
  BY Framed, Done, Counted DEF Ahead
<1>2. x # Reboot
  BY <1>1, Tags DEF Routine, Inst, Dsb, PrefetchFlush, FlushBtb, InvIcache, CleanInvDcache, InvDcache,
     InvTlb, ControlReg1Wr, ClearBit, AsidSet, Ttbr0Set, StrPte, RunCompiled, RunAsserts
<1>3. FetchingCode(todo)'
  <2>1. SUFFICES ASSUME NEW k \in Ahead(todo)', WritesControl(todo'[k]), ~TurnsOn(todo'[k])
                 PROVE  Early(todo, k)' \/ IcacheClears(todo, k)'
    BY DEF FetchingCode, WritesControl, TurnsOn
  <2>2. Early(todo, k + 1) \/ IcacheClears(todo, k + 1)
    BY <1>1, <2>1 DEF FetchingCode
  <2>3. CASE Early(todo, k + 1)
    BY <2>3, EarlyKept
  <2>4. CASE IcacheClears(todo, k + 1)
    <3>1. k \in Nat /\ k + 1 \in Nat /\ k + 1 > 0
      BY <1>1
    <3>. QED
      BY <1>1, <2>4, <3>1, IcacheStillClears
  <2>. QED
    BY <2>2, <2>3, <2>4
<1>4. ASSUME ~MmuOn', "icache" \in stale' PROVE IcacheClears(todo, 0)'
  <2>1. CASE x = INV_ICACHE
    BY <1>4, <2>1, Does, Tags DEF InvIcache
  <2>2. CASE WritesControl(x) /\ IcacheClears(todo, 1)
    <3>1. 1 \in Nat /\ 1 > 0 /\ 0 \in Nat
      OBVIOUS
    <3>. QED
      BY <1>1, <2>2, <3>1, IcacheStillClears
  <2>3. CASE WritesControl(x) /\ ~IcacheClears(todo, 1)
    <3>1. \E c : ctl' = c /\ SetControl(c) /\ (TurnsOn(x) => "MMU_enabled" \in c)
      <4>1. CASE x[1] = "control_reg1_wr"
        BY <1>1, <4>1, Does DEF ControlReg1Wr, Operand, SetControl, TurnsOn
      <4>2. CASE x[1] = "bic"
        BY <4>2, Does DEF ClearBit, SetControl, TurnsOn
      <4>. QED
        BY <2>3, <4>1, <4>2 DEF WritesControl
    <3>2. ~TurnsOn(x)
      BY <1>4, <3>1 DEF MmuOn
    <3>3. ~MmuOn
      BY <1>1, <2>3, <3>2 DEF FetchingCode, Early
    <3>4. "icache" \in stale /\ x # INV_ICACHE
      BY <1>4, <2>3, <3>1, <3>3, Tags DEF SetControl, MmuOn, WritesControl
    <3>5. IcacheClears(todo, 0) /\ 0 \in Nat
      BY <3>3, <3>4 DEF Fetching
    <3>. QED
      BY <1>1, <3>4, <3>5, IcacheStillClears
  <2>4. CASE ~WritesControl(x) /\ x # INV_ICACHE
    <3>1. ctl' = ctl
      BY <2>4, Framed
    <3>2. ~InvIcache /\ ~ControlReg1Wr /\ ~ClearBit
      <4>1. x[1] # "inv_icache"
        BY <1>1, <2>4, Kinds
      <4>. QED
        BY <1>1, <2>4, <4>1 DEF InvIcache, ControlReg1Wr, ClearBit, Inst, WritesControl
    <3>3. "icache" \in stale
      BY <1>4, <3>2 DEF Routine, Dsb, PrefetchFlush, FlushBtb, CleanInvDcache, InvDcache, InvTlb,
         AsidSet, Ttbr0Set, StrPte, RunCompiled, Stored, RunAsserts, cpu
    <3>4. IcacheClears(todo, 0) /\ 0 \in Nat
      BY <1>4, <3>1, <3>3 DEF Fetching, MmuOn
    <3>. QED
      BY <1>1, <2>4, <3>4, IcacheStillClears
  <2>. QED
    BY <2>1, <2>2, <2>3, <2>4
<1>5. IF todo' = <<>> THEN Len(asid') > 1 \/ stale' \subseteq {"icache"} ELSE Ending(todo)'
  <2>1. Program(todo) \/ EndsInSync(todo) \/ EndsInSwitch(todo)
    BY <1>1 DEF Fetching, Ending
  <2>2. CASE Program(todo)
    <3>1. Program(todo)'
      BY <1>1, <1>2, <2>2, ProgramLeft
    <3>. QED
      BY <3>1 DEF Program, Ending
  <2>3. CASE EndsInSync(todo)
    <3>1. CASE Len(todo) = 1
      <4>1. x = PREFETCH_FLUSH /\ "pend" \notin stale /\ "btb" \notin stale
        BY <2>3, <3>1 DEF EndsInSync
      <4>2. stale' = stale \ {"pf"}
        BY <4>1, Does, Tags DEF PrefetchFlush
      <4>3. stale' \subseteq {"icache"}
        BY <4>1, <4>2 DEF TypeOK
      <4>4. Len(todo') = 0
        BY <1>1, <3>1
      <4>5. todo' = <<>>
        BY <1>1, <4>4 DEF Code
      <4>. QED
        BY <4>3, <4>5
    <3>2. CASE Len(todo) = 2
      <4>1. x = DSB /\ todo[2] = PREFETCH_FLUSH /\ "btb" \notin stale
        <5>1. 2 - 1 = 1
          OBVIOUS
        <5>. QED
          BY <2>3, <3>2, <5>1 DEF EndsInSync
      <4>2. stale' = stale \ {"pend"}
        BY <4>1, Does, Tags DEF Dsb
      <4>3. Len(todo') = 1 /\ todo'[1] = PREFETCH_FLUSH /\ todo' # <<>>
        BY <1>1, <3>2, <4>1, Counted
      <4>4. EndsInSync(todo)'
        BY <4>1, <4>2, <4>3 DEF EndsInSync
      <4>. QED
        BY <4>3, <4>4 DEF Ending
    <3>3. CASE Len(todo) = 3
      <4>1. x = FLUSH_BTB /\ todo[2] = DSB /\ todo[3] = PREFETCH_FLUSH
        <5>1. 3 - 1 = 2 /\ 3 - 2 = 1
          OBVIOUS
        <5>. QED
          BY <2>3, <3>3, <5>1 DEF EndsInSync
      <4>2. stale' = stale \ {"btb"}
        BY <4>1, Does, Tags DEF FlushBtb
      <4>3. Len(todo') = 2 /\ todo'[1] = DSB /\ todo'[2] = PREFETCH_FLUSH /\ todo' # <<>>
        BY <1>1, <3>3, <4>1, Counted
      <4>4. EndsInSync(todo)'
        <5>1. 2 - 1 = 1
          OBVIOUS
        <5>. QED
          BY <4>2, <4>3, <5>1 DEF EndsInSync
      <4>. QED
        BY <4>3, <4>4 DEF Ending
    <3>4. CASE Len(todo) > 3
      <4>. DEFINE n == Len(todo)
      <4>1. /\ n \in Ahead(todo) /\ n - 1 \in Ahead(todo) /\ n - 2 \in Ahead(todo)
            /\ n # 1 /\ n - 1 # 1 /\ n - 2 # 1 /\ (n - 1) - 1 = n - 2 /\ (n - 2) - 1 = (n - 1) - 2
        BY <1>1, <3>4 DEF Ahead
      <4>2. todo'[n - 1] = todo[n] /\ todo'[(n - 1) - 1] = todo[n - 1] /\ todo'[(n - 1) - 2] = todo[n - 2]
        BY <1>1, <4>1
      <4>3. todo[n] = PREFETCH_FLUSH /\ todo[n - 1] = DSB /\ todo[n - 2] = FLUSH_BTB
        BY <2>3, <3>4 DEF EndsInSync
      <4>4. Len(todo') = n - 1 /\ n - 1 # 1 /\ ~(n - 1 <= 2) /\ todo' # <<>>
        BY <1>1, <3>4, Counted
      <4>. HIDE DEF n
      <4>5. EndsInSync(todo)'
        BY <4>2, <4>3, <4>4 DEF EndsInSync
      <4>. QED
        BY <4>4, <4>5 DEF Ending
    <3>. QED
      BY <1>1, <3>1, <3>2, <3>3, <3>4
  <2>4. CASE EndsInSwitch(todo)
    <3>1. CASE Len(todo) = 1
      <4>1. x = DSB /\ Len(asid) > 1
        BY <2>4, <3>1 DEF EndsInSwitch
      <4>2. asid' = asid
        BY <4>1, Does, Tags DEF Dsb
      <4>3. Len(todo') = 0
        BY <1>1, <3>1
      <4>4. todo' = <<>>
        BY <1>1, <4>3 DEF Code
      <4>. QED
        BY <4>1, <4>2, <4>4
    <3>2. CASE Len(todo) = 2
      <4>1. todo[2] = DSB /\ x[1] = "asid_set"
        <5>1. 2 - 1 = 1
          OBVIOUS
        <5>. QED
          BY <2>4, <3>2, <5>1 DEF EndsInSwitch
      <4>2. asid' = Append(asid, Operand)
        BY <4>1, Does DEF AsidSet
      <4>3. Len(asid') > 1
        <5>1. Len(asid') = Len(asid) + 1 /\ Len(asid) \in Nat /\ Len(asid) >= 1
          BY <4>2 DEF TypeOK
        <5>. QED
          BY <5>1
      <4>4. Len(todo') = 1 /\ todo'[1] = DSB /\ todo' # <<>>
        BY <1>1, <3>2, <4>1, Counted
      <4>5. EndsInSwitch(todo)'
        BY <4>3, <4>4 DEF EndsInSwitch
      <4>. QED
        BY <4>4, <4>5 DEF Ending
    <3>3. CASE Len(todo) > 2
      <4>. DEFINE n == Len(todo)
      <4>1. n \in Ahead(todo) /\ n - 1 \in Ahead(todo) /\ n # 1 /\ n - 1 # 1
        BY <1>1, <3>3 DEF Ahead
      <4>2. todo'[n - 1] = todo[n] /\ todo'[(n - 1) - 1] = todo[n - 1]
        BY <1>1, <4>1
      <4>3. todo[n] = DSB /\ todo[n - 1][1] = "asid_set"
        BY <2>4, <3>3 DEF EndsInSwitch
      <4>4. Len(todo') = n - 1 /\ n - 1 # 1 /\ todo' # <<>>
        BY <1>1, <3>3, Counted
      <4>. HIDE DEF n
      <4>5. EndsInSwitch(todo)'
        BY <4>2, <4>3, <4>4 DEF EndsInSwitch
      <4>. QED
        BY <4>4, <4>5 DEF Ending
    <3>. QED
      BY <1>1, <3>1, <3>2, <3>3
  <2>. QED
    BY <2>1, <2>2, <2>3, <2>4
<1>. QED
  BY <1>3, <1>4, <1>5 DEF Fetching

\* The hardware changes nothing that instruction fetch depends on.
LEMMA FetchingInHardware ==
  ASSUME FetchingCode(todo), Fetching, Hardware
  PROVE  FetchingCode(todo)' /\ Fetching'
<1>1. todo' = todo /\ ctl' = ctl /\ stale' = stale /\ asid' = asid
  BY DEF Hardware, Drain, Fill, Evict, Walk, cpu
<1>. QED
  BY <1>1 DEF FetchingCode, Fetching, Early, MmuOn, IcacheClears, Ending, EndsInSync, EndsInSwitch,
     Program, Ahead, WritesControl, TurnsOn

-----------------------------------------------------------------------------
(***************************************************************************)
(* The kernel.                                                             *)
(***************************************************************************)
\* What the invariant says when no routine runs.
LEMMA AtRest ==
  ASSUME CpInv, todo = <<>>
  PROVE  /\ LinesRight /\ (DcacheUsed \/ CacheEmpty) /\ TlbTrue
         /\ (MmuOn => \A a \in Asids : Settled(a))
         /\ (~MmuOn => "icache" \notin stale) /\ (Len(asid) > 1 \/ stale \subseteq {"icache"})
<1>1. Ahead(todo) = {}
  BY DEF Ahead
<1>2. ~Cold(todo) /\ ~CleanAfter(todo, 0) /\ ~TlbClears(todo) /\ ~IcacheClears(todo, 0)
  BY <1>1 DEF Cold, CleanAfter, TlbClears, IcacheClears
<1>3. ~StoreUnderway(todo)
  BY DEF StoreUnderway
<1>. QED
  BY <1>2, <1>3 DEF CpInv, Caching, Walking, Fetching

\* There is nothing wrong with no code.
LEMMA NothingLeftIsSound ==
  ASSUME todo = <<>>
  PROVE  Sound(todo) /\ ~Program(todo) /\ ~Cold(todo)
<1>1. Ahead(todo) = {} /\ todo \in Code
  BY DEF Ahead, Code
<1>. QED
  BY <1>1 DEF Sound, SwitchingCode, CachingCode, ColdStart, WalkingCode, CheckingCode, FetchingCode,
     Program, Cold

\* A call of right code keeps the invariant.
LEMMA CalledRoutine ==
  ASSUME CpInv, NEW r, Call(r), Sound(r), ~Program(r), Ending(r)
  PROVE  CpInv'
<1>1. /\ todo = <<>> /\ todo' = r /\ UNCHANGED <<mem, wb, dc, tlb, ctl, stale, asid, ttbr0>>
      /\ UNCHANGED <<last, windowed, panicked>>
  BY DEF Call, hw, cpu, hist
<1>2. /\ LinesRight /\ (DcacheUsed \/ CacheEmpty) /\ TlbTrue /\ (MmuOn => \A a \in Asids : Settled(a))
      /\ (~MmuOn => "icache" \notin stale)
  BY <1>1, AtRest
<1>3. TypeOK' /\ ~panicked' /\ asid' # <<>> /\ ttbr0' # <<>>
  BY <1>1 DEF CpInv, TypeOK
<1>4. Matched' /\ Owned'
  BY <1>1 DEF CpInv, Matched, Owned
<1>5. /\ MmuOn' = MmuOn /\ DcacheUsed' = DcacheUsed /\ LinesRight' = LinesRight
      /\ CacheEmpty' = CacheEmpty /\ TlbTrue' = TlbTrue
      /\ \A c : Behind(c)' = Behind(c) /\ Settled(c)' = Settled(c)
  BY <1>1 DEF MmuOn, DcacheUsed, LinesRight, Right, CacheEmpty, TlbTrue, Behind, Settled
<1>6. Sound(todo)'
  <2>1. todo' \in Code /\ Ahead(todo)' = Ahead(r)
    BY <1>1 DEF Sound, Ahead
  <2>2. \A k : Early(todo, k)' = Early(r, k)
    BY <1>1, <1>5 DEF Early
  <2>3. SwitchingCode(todo)'
    BY <1>1, <2>1 DEF Sound, SwitchingCode, TableAfterAsid, AsidAfterTable
  <2>4. CachingCode(todo)'
    <3>1. ColdStart(todo)'
      BY <1>1, <1>5, <2>1, <2>2 DEF Sound, CachingCode, ColdStart
    <3>2. \A k : CleanBefore(todo, k)' = CleanBefore(r, k) /\ CleanAfter(todo, k)' = CleanAfter(r, k)
      BY <1>1, <1>5, <2>1 DEF CleanBefore, CleanAfter, Untouched
    <3>3. \A k \in Ahead(todo)' : CacheCleaned(todo, k)'
      BY <1>1, <2>1, <2>2, <3>2 DEF Sound, CachingCode, CacheCleaned
    <3>. QED
      BY <3>1, <3>3 DEF CachingCode
  <2>5. WalkingCode(todo)'
    BY <1>1, <1>5, <2>1, <2>2 DEF Sound, WalkingCode, StoresSettle, DrainedBefore
  <2>6. CheckingCode(todo)'
    BY <1>1, <2>1 DEF Sound, CheckingCode, Program
  <2>7. FetchingCode(todo)'
    <3>1. \A k : IcacheClears(todo, k)' = IcacheClears(r, k)
      BY <1>1, <2>1 DEF IcacheClears
    <3>. QED
      BY <1>1, <2>1, <2>2, <3>1 DEF Sound, FetchingCode
  <2>. QED
    BY <2>1, <2>3, <2>4, <2>5, <2>6, <2>7 DEF Sound
<1>7. Caching'
  BY <1>2, <1>5 DEF Caching
<1>8. Walking'
  BY <1>2, <1>5 DEF Walking
<1>9. Checking'
  BY <1>1 DEF Checking, Program
<1>10. Fetching'
  <2>1. ~MmuOn' => "icache" \notin stale'
    BY <1>1, <1>2, <1>5
  <2>2. Ending(todo)' /\ todo' # <<>>
    BY <1>1 DEF Ending, Program, EndsInSync, EndsInSwitch
  <2>. QED
    BY <2>1, <2>2 DEF Fetching
<1>. QED
  BY <1>3, <1>4, <1>6, <1>7, <1>8, <1>9, <1>10 DEF CpInv

\* A store that the kernel makes itself, to its stack or to a table that maps nothing yet.
LEMMA KernelStored ==
  ASSUME CpInv, todo = <<>>, todo' = todo, NEW c \in Cells, Stored(c),
         c # 0 => ~MmuOn /\ last[c] = 0
  PROVE  CpInv'
<1>1. /\ UNCHANGED <<mem, tlb, ctl, stale, asid, ttbr0, panicked>> /\ TypeOK
  BY DEF Stored, cpu, CpInv
<1>2. /\ LinesRight /\ (DcacheUsed \/ CacheEmpty) /\ TlbTrue /\ (MmuOn => \A a \in Asids : Settled(a))
      /\ (~MmuOn => "icache" \notin stale) /\ (Len(asid) > 1 \/ stale \subseteq {"icache"})
  BY AtRest
<1>3. TypeOK'
  BY <1>1, TypesAfterStore
<1>4. Sound(todo)' /\ ~Program(todo)' /\ ~Cold(todo)'
  <2>1. Ahead(todo)' = {} /\ todo' \in Code /\ todo' = <<>>
    BY DEF Ahead, Code
  <2>. QED
    BY <2>1 DEF Sound, SwitchingCode, CachingCode, ColdStart, WalkingCode, CheckingCode, FetchingCode,
       Program, Cold
<1>5. Matched' /\ Owned'
  BY <1>1 DEF CpInv, Matched, Owned
<1>6. Caching'
  <2>1. LinesRight'
    BY <1>1, <1>2, StoredRight
  <2>2. DcacheUsed' = DcacheUsed
    BY <1>1 DEF DcacheUsed
  <2>3. ~DcacheUsed => dc' = dc
    BY DEF Stored
  <2>. QED
    BY <1>2, <2>1, <2>2, <2>3 DEF Caching, CacheEmpty
<1>7. Walking'
  <2>1. \A d \in Cells : d # c => last'[d] = last[d] /\ wb'[d] = wb[d] /\ dc'[d] = dc[d] /\ mem'[d] = mem[d]
    BY <1>1 DEF Stored, TypeOK
  <2>2. MmuOn' => \A a \in Asids : Settled(a)'
    <3>1. ASSUME MmuOn, NEW a \in Asids PROVE Settled(a)'
      <4>1. c = 0 /\ a # 0 /\ a \in Cells
        BY <1>1, <3>1, NumbersAndLines DEF Cells
      <4>. QED
        BY <1>2, <2>1, <3>1, <4>1 DEF Settled
    <3>. QED
      BY <1>1, <3>1 DEF MmuOn
  <2>3. TlbTrue'
    <3>1. ASSUME NEW e \in tlb PROVE e.v = last'[e.table] /\ e.v # 0
      <4>1. e.v = last[e.table] /\ e.v # 0 /\ e.table \in Asids
        BY <1>1, <1>2 DEF TlbTrue, TypeOK
      <4>2. e.table # c /\ e.table \in Cells
        BY <1>1, <4>1, NumbersAndLines DEF Cells
      <4>. QED
        BY <2>1, <4>1, <4>2
    <3>. QED
      BY <1>1, <3>1 DEF TlbTrue
  <2>. QED
    BY <2>2, <2>3 DEF Walking
<1>8. Checking'
  BY <1>4 DEF Checking
<1>9. Fetching'
  BY <1>1, <1>2 DEF Fetching, MmuOn
<1>. QED
  BY <1>1, <1>3, <1>4, <1>5, <1>6, <1>7, <1>8, <1>9 DEF CpInv

\* The kernel's calls, and its own stores, keep the invariant.
LEMMA KernelKeepsInv ==
  ASSUME CpInv, Kernel
  PROVE  CpInv'
<1>1. ctl \subseteq ControlFields
  BY DEF CpInv, TypeOK, ControlFields, Fields
<1>2. CASE CallCaches
  BY <1>1, <1>2, CachesOnSound, CachesOffSound, CalledRoutine DEF CallCaches
<1>3. CASE CallMaintenance
  BY <1>3, MaintenanceSound, CalledRoutine DEF CallMaintenance
<1>4. CASE CallEnable
  BY <1>1, <1>4, EnableSound, CalledRoutine DEF CallEnable
<1>5. CASE CallDisable
  BY <1>1, <1>5, DisableSound, CalledRoutine DEF CallDisable
<1>6. CASE CallSwitch
  BY <1>6, SwitchSound, CalledRoutine DEF CallSwitch
<1>7. CASE CallSyncPte
  BY <1>7, SyncPteSound, CalledRoutine DEF CallSyncPte
<1>8. CASE MapSection
  <2>1. PICK a \in Asids : ~MmuOn /\ todo = <<>> /\ View(a) = 0 /\ Stored(a) /\ UNCHANGED todo
    BY <1>8 DEF MapSection
  <2>2. a \in Cells /\ a # 0 /\ TypeOK
    BY NumbersAndLines DEF CpInv, Cells
  <2>3. LinesRight /\ CacheEmpty
    BY <2>1, AtRest DEF DcacheUsed, MmuOn
  <2>4. Behind(a) = 0
    BY <2>1 DEF View, Behind, DcacheUsed, MmuOn
  <2>5. last[a] = 0
    <3>1. ~dc[a].dirty
      BY <2>2, <2>3, NumbersAndLines DEF CacheEmpty
    <3>. QED
      BY <2>2, <2>3, <2>4, <3>1 DEF LinesRight, Right
  <2>. QED
    BY <2>1, <2>2, <2>5, KernelStored
<1>9. CASE StackStore
  <2>1. 0 \in Cells
    BY DEF Cells
  <2>. QED
    BY <1>9, <2>1, KernelStored DEF StackStore
<1>. QED
  BY <1>2, <1>3, <1>4, <1>5, <1>6, <1>7, <1>8, <1>9 DEF Kernel

\* So does every step of a routine.
LEMMA RoutineKeepsInv ==
  ASSUME CpInv, Routine
  PROVE  CpInv'
<1>1. TypeOK /\ todo \in Code /\ asid # <<>> /\ ttbr0 # <<>>
  BY DEF CpInv, Sound
<1>2. TypeOK'
  BY <1>1, TypesInRoutine DEF CpInv, Sound
<1>3. todo' \in Code
  BY <1>1, Framed, Done
<1>4. asid' # <<>> /\ ttbr0' # <<>> /\ SwitchingCode(todo)' /\ Matched' /\ Owned'
  BY <1>1, SwitchingInRoutine DEF CpInv, Sound
<1>5. CachingCode(todo)' /\ Caching'
  <2>1. ColdStart(todo)' /\ Caching'
    BY <1>1, ColdInRoutine, RightInRoutine DEF CpInv, Sound
  <2>2. ASSUME NEW k \in Ahead(todo)' PROVE CacheCleaned(todo, k)'
    BY <1>1, <2>2, CleanedInRoutine DEF CpInv, Sound
  <2>. QED
    BY <2>1, <2>2 DEF CachingCode
<1>6. WalkingCode(todo)'
  BY <1>1, WalkingCodeInRoutine DEF CpInv, Sound
<1>7. Walking'
  <2>1. MmuOn' => StoreUnderway(todo)' \/ \A a \in Asids : Settled(a)'
    BY <1>1, SettledInRoutine DEF CpInv, Sound
  <2>2. TlbTrue' \/ TlbClears(todo)'
    BY <1>1, TlbInRoutine DEF CpInv, Sound
  <2>. QED
    BY <2>1, <2>2 DEF Walking
<1>8. CheckingCode(todo)' /\ Checking' /\ ~panicked'
  BY <1>1, CheckingInRoutine DEF CpInv, Sound
<1>9. FetchingCode(todo)' /\ Fetching'
  BY <1>1, FetchingInRoutine DEF CpInv, Sound
<1>. QED
  BY <1>2, <1>3, <1>4, <1>5, <1>6, <1>7, <1>8, <1>9 DEF CpInv, Sound

\* So does every step of the hardware.
LEMMA HardwareKeepsInv ==
  ASSUME CpInv, Hardware
  PROVE  CpInv'
<1>1. /\ todo' = todo /\ asid' = asid /\ ttbr0' = ttbr0 /\ panicked' = panicked
  BY DEF Hardware, Drain, Fill, Evict, Walk, cpu, hist
<1>2. TypeOK /\ todo \in Code
  BY DEF CpInv, Sound
<1>3. TypeOK'
  BY <1>2, TypesInHardware DEF CpInv, Sound
<1>4. SwitchingCode(todo)' /\ Matched' /\ Owned'
  BY SwitchingInHardware DEF CpInv, Sound
<1>5. CachingCode(todo)' /\ Caching'
  BY <1>2, CachingInHardware DEF CpInv, Sound
<1>6. WalkingCode(todo)' /\ Walking'
  BY <1>2, WalkingInHardware DEF CpInv, Sound
<1>7. CheckingCode(todo)' /\ Checking'
  BY <1>2, CheckingInHardware DEF CpInv, Sound
<1>8. FetchingCode(todo)' /\ Fetching'
  BY FetchingInHardware DEF CpInv, Sound
<1>. QED
  BY <1>1, <1>2, <1>3, <1>4, <1>5, <1>6, <1>7, <1>8 DEF CpInv, Sound

-----------------------------------------------------------------------------
(***************************************************************************)
(* The programs.                                                           *)
(***************************************************************************)
\* What is so at power on.
PoweredOn == /\ ctl = {} /\ \A c \in Cells : last[c] = 0 /\ Behind(c) = 0 /\ wb[c] = None

(***************************************************************************)
(* A program stores the table of a at s, writes the control register at w, *)
(* throws the junk in the cache away at c, switches to a at q, turns the   *)
(* MMU on at n, begins to turn it off at d, and ends in a reboot.          *)
(***************************************************************************)
ProgramAt(r, a, s, w, c, q, n, d, xp, on, off) ==
  /\ {s, w, c, q, n, d} \subseteq Ahead(r)
  /\ s < n /\ w < n /\ c < n /\ q + 4 < n /\ n < d /\ d + 9 < Len(r)
  /\ r[s] = Str(a) /\ r[w] = CONTROL_REG1_WR(xp) /\ r[c] = INV_DCACHE
  /\ r[q] = ASID_SET(0) /\ r[q + 1] = PREFETCH_FLUSH /\ r[q + 2] = TTBR0_SET(a)
  /\ r[q + 3] = PREFETCH_FLUSH /\ r[q + 4] = ASID_SET(a)
  /\ r[n - 1] = DSB /\ r[n] = CONTROL_REG1_WR(on)
  /\ r[d] = CLEAN_INV_DCACHE /\ r[d + 3] = Bic(2) /\ r[d + 6] = CONTROL_REG1_WR(off)
  /\ \A k \in d + 1 .. d + 5 : k = d + 3 \/ r[k] \in {DSB, PREFETCH_FLUSH}
  /\ r[d + 9] = INV_ICACHE /\ r[Len(r)] = Reboot
  /\ \A k \in Ahead(r) :
       \/ k \in {s, w, c, q, q + 2, q + 4, n, d + 3, d + 6, Len(r)}
       \/ r[k] \in Plain
       \/ k > n /\ r[k] \in {Str(0), Get32}
       \/ r[k][1] = "expect"
  /\ \A k \in 1 .. c - 1 : r[k] # CLEAN_INV_DCACHE

\* A program of that form is right code at power on.
LEMMA ProgramSound ==
  ASSUME PoweredOn, NEW r \in Code, NEW a \in Asids, NEW s, NEW w, NEW c, NEW q, NEW n, NEW d,
         NEW xp \in SUBSET ProgramFields, NEW on \in SUBSET ProgramFields,
         NEW off \in SUBSET ProgramFields,
         "MMU_enabled" \notin xp, "MMU_enabled" \in on, "MMU_enabled" \notin off,
         ProgramAt(r, a, s, w, c, q, n, d, xp, on, off),
         \A k \in Ahead(r) : ExpectsWritten(r, k)
  PROVE  Sound(r) /\ Program(r) /\ Cold(r)
<1>. DEFINE S == {s, w, c, q, q + 2, q + 4, n, d + 3, d + 6, Len(r)}
<1>0. /\ r[s] = Str(a) /\ r[w] = CONTROL_REG1_WR(xp) /\ r[c] = INV_DCACHE
      /\ r[q] = ASID_SET(0) /\ r[q + 1] = PREFETCH_FLUSH /\ r[q + 2] = TTBR0_SET(a)
      /\ r[q + 3] = PREFETCH_FLUSH /\ r[q + 4] = ASID_SET(a)
      /\ r[n - 1] = DSB /\ r[n] = CONTROL_REG1_WR(on)
      /\ r[d] = CLEAN_INV_DCACHE /\ r[d + 3] = Bic(2) /\ r[d + 6] = CONTROL_REG1_WR(off)
      /\ r[d + 9] = INV_ICACHE /\ r[Len(r)] = Reboot
  BY DEF ProgramAt
<1>1. /\ Len(r) \in Nat /\ r # <<>> /\ Ahead(r) = 1 .. Len(r)
      /\ s \in 1 .. Len(r) /\ w \in 1 .. Len(r) /\ c \in 1 .. Len(r) /\ q \in 1 .. Len(r)
      /\ n \in 1 .. Len(r) /\ d \in 1 .. Len(r)
      /\ s < n /\ w < n /\ c < n /\ q + 4 < n /\ n < d /\ d + 9 < Len(r)
  <2>1. Len(r) \in Nat /\ Ahead(r) = 1 .. Len(r)
    BY DEF Code, Ahead
  <2>2. {s, w, c, q, n, d} \subseteq 1 .. Len(r)
        /\ s < n /\ w < n /\ c < n /\ q + 4 < n /\ n < d /\ d + 9 < Len(r)
    BY <2>1 DEF ProgramAt
  <2>3. Len(r) # 0
    BY <2>1, <2>2
  <2>. QED
    BY <2>1, <2>2, <2>3, Counted
<1>2. /\ 0 \notin Asids /\ a # 0
  BY Cp15Assumption
<1>3. /\ ~MmuOn /\ \A b \in Asids : last[b] = 0
  BY DEF PoweredOn, MmuOn, Cells
<1>4. ASSUME NEW k \in Ahead(r), k \notin S
      PROVE  /\ ~WritesControl(r[k]) /\ ~TurnsOn(r[k]) /\ ~StoresTable(r[k]) /\ r[k] # INV_DCACHE
             /\ r[k][1] \notin {"asid_set", "ttbr0_set"}
             /\ (r[k] = Get32 => k > n)
  <2>1. CASE r[k] \in Plain
    BY <2>1, PlainInstructions
  <2>2. CASE k > n /\ r[k] \in {Str(0), Get32}
    BY <2>2, Tags DEF WritesControl, TurnsOn, StoresTable
  <2>3. CASE r[k][1] = "expect"
    BY <2>3, Tags DEF WritesControl, TurnsOn, StoresTable
  <2>. QED
    BY <1>4, <2>1, <2>2, <2>3 DEF ProgramAt
<1>5. /\ r[s][1] = "str" /\ r[w][1] = "control_reg1_wr" /\ r[w][2] = xp /\ r[c][1] = "inv_dcache"
      /\ r[q][1] = "asid_set" /\ r[q][2] = 0 /\ r[q + 2][1] = "ttbr0_set"
      /\ r[q + 4][1] = "asid_set" /\ r[q + 4][2] = a /\ r[n][1] = "control_reg1_wr" /\ r[n][2] = on
      /\ r[d + 3][1] = "bic" /\ r[d + 6][1] = "control_reg1_wr" /\ r[d + 6][2] = off
      /\ r[Len(r)][1] = "reboot" /\ Get32[1] = "get32" /\ INV_DCACHE[1] = "inv_dcache"
  <2>1. r[s][1] = "str" /\ r[c][1] = "inv_dcache"
    BY <1>0, Tags
  <2>8. r[w][1] = "control_reg1_wr" /\ r[w][2] = xp
    <3>1. r[w] = CONTROL_REG1_WR(xp)
      BY <1>0
    <3>2. CONTROL_REG1_WR(xp)[1] = "control_reg1_wr" /\ CONTROL_REG1_WR(xp)[2] = xp
      BY Tags, Zenon
    <3>. QED
      BY <3>1, <3>2
  <2>2. r[q][1] = "asid_set" /\ r[q][2] = 0 /\ r[q + 2][1] = "ttbr0_set"
    BY <1>0, Tags
  <2>3. r[q + 4][1] = "asid_set" /\ r[q + 4][2] = a
    BY <1>0, Tags
  <2>4. r[n][1] = "control_reg1_wr" /\ r[n][2] = on
    BY <1>0, Tags
  <2>5. r[d + 3][1] = "bic"
    BY <1>0, Tags
  <2>6. r[d + 6][1] = "control_reg1_wr" /\ r[d + 6][2] = off
    BY <1>0, Tags
  <2>7. r[Len(r)][1] = "reboot" /\ Get32[1] = "get32" /\ INV_DCACHE[1] = "inv_dcache"
    BY <1>0, Tags
  <2>. QED
    BY <2>1, <2>2, <2>3, <2>4, <2>5, <2>6, <2>7, <2>8
<1>6. ASSUME NEW k \in Ahead(r), TurnsOn(r[k]) PROVE k = n
  BY <1>4, <1>5, <1>6 DEF TurnsOn
<1>7. ASSUME NEW k \in Ahead(r), k <= n PROVE Early(r, k)
  <2>1. \A j \in 1 .. k - 1 : j \in Ahead(r) /\ j # n
    BY <1>1, <1>7
  <2>. QED
    BY <1>3, <1>6, <2>1 DEF Early
<1>8. ASSUME NEW k \in Ahead(r), WritesControl(r[k])
      PROVE  k \in {w, n, d + 3, d + 6}
  BY <1>4, <1>5, <1>8 DEF WritesControl
<1>9. ASSUME NEW k \in {d + 3, d + 6} PROVE CleanBefore(r, k) /\ IcacheClears(r, k)
  <2>1. d \in 1 .. k - 1 /\ d + 9 \in Ahead(r) /\ d + 9 > k /\ k \in Nat
    BY <1>1, <1>9
  <2>2. ASSUME NEW j \in d + 1 .. k - 1 PROVE ~Touches(r[j])
    <3>1. j \in d + 1 .. d + 5
      BY <1>1, <1>9, <2>2
    <3>2. CASE j = d + 3
      BY <1>5, <3>2 DEF Touches
    <3>3. CASE r[j] \in {DSB, PREFETCH_FLUSH}
      BY <3>3, Tags DEF Touches
    <3>. QED
      BY <3>1, <3>2, <3>3 DEF ProgramAt
  <2>. QED
    BY <1>0, <2>1, <2>2 DEF CleanBefore, Untouched, IcacheClears
<1>10. Program(r)
  BY <1>0, <1>1 DEF Program
<1>11. SwitchingCode(r)
  <2>1. ASSUME NEW k \in Ahead(r) PROVE TableAfterAsid(r, k) /\ AsidAfterTable(r, k)
    <3>1. CASE k = q + 2
      <4>1. k > 2 /\ k - 1 = q + 1 /\ k - 2 = q
        BY <1>1, <3>1
      <4>. QED
        BY <1>0, <1>5, <3>1, <4>1 DEF TableAfterAsid, AsidAfterTable
    <3>2. CASE k = q + 4
      <4>1. k > 2 /\ k - 1 = q + 3 /\ k - 2 = q + 2
        BY <1>1, <3>2
      <4>. QED
        BY <1>0, <1>5, <3>2, <4>1 DEF TableAfterAsid, AsidAfterTable
    <3>3. CASE k \in S /\ k # q + 2 /\ k # q + 4
      BY <1>5, <3>3 DEF TableAfterAsid, AsidAfterTable
    <3>4. CASE k \notin S
      BY <1>4, <3>4 DEF TableAfterAsid, AsidAfterTable
    <3>. QED
      BY <3>1, <3>2, <3>3, <3>4
  <2>. QED
    BY <2>1 DEF SwitchingCode
<1>12. ASSUME NEW k \in Ahead(r), r[k] = INV_DCACHE PROVE k = c
  BY <1>4, <1>5, <1>12
<1>13. CachingCode(r)
  <2>1. ASSUME NEW j \in 1 .. c - 1 PROVE r[j] # INV_DCACHE /\ r[j] # CLEAN_INV_DCACHE /\ r[j] # Get32
    <3>1. j \in Ahead(r) /\ j # c /\ j < n
      BY <1>1, <2>1
    <3>. QED
      <4>1. r[j] # INV_DCACHE
        BY <1>12, <3>1
      <4>2. r[j] # CLEAN_INV_DCACHE
        BY <2>1 DEF ProgramAt
      <4>3. r[j] # Get32
        <5>1. CASE j \in S
          <6>1. r[j][1] # "get32"
            BY <1>5, <5>1
          <6>. QED
            BY <1>5, <6>1
        <5>2. CASE j \notin S
          BY <1>1, <1>4, <3>1, <5>2
        <5>. QED
          BY <5>1, <5>2
      <4>. QED
        BY <4>1, <4>2, <4>3
  <2>2. ColdStart(r)
    <3>1. Early(r, c)
      BY <1>1, <1>7
    <3>2. \A b \in Cells : Behind(b) = last[b]
      BY DEF PoweredOn
    <3>. QED
      BY <1>12, <2>1, <3>1, <3>2 DEF ColdStart
  <2>3. ASSUME NEW k \in Ahead(r), WritesControl(r[k]) PROVE CacheCleaned(r, k)
    <3>1. CASE k <= n
      BY <1>7, <3>1 DEF CacheCleaned
    <3>2. CASE k \in {d + 3, d + 6}
      BY <1>9, <3>2 DEF CacheCleaned
    <3>. QED
      BY <1>1, <1>8, <2>3, <3>1, <3>2
  <2>. QED
    BY <2>2, <2>3 DEF CachingCode, CacheCleaned
<1>14. WalkingCode(r)
  <2>1. ASSUME NEW k \in Ahead(r), StoresTable(r[k]) PROVE k = s
    BY <1>4, <1>5, <2>1 DEF StoresTable
  <2>2. ASSUME NEW k \in Ahead(r), StoresTable(r[k]) PROVE StoresSettle(r, k)
    <3>1. k = s /\ Early(r, s)
      BY <1>1, <1>7, <2>1, <2>2
    <3>2. ASSUME NEW j \in 1 .. s - 1 PROVE ~StoresTable(r[j])
      <4>1. j \in Ahead(r) /\ j # s
        BY <1>1, <3>2
      <4>. QED
        BY <2>1, <4>1
    <3>. QED
      BY <1>3, <3>1, <3>2 DEF StoresSettle
  <2>3. ASSUME NEW k \in Ahead(r), TurnsOn(r[k]) PROVE DrainedBefore(r, k)
    <3>1. k = n /\ k > 1
      BY <1>1, <1>6, <2>3
    <3>. QED
      BY <1>0, <3>1 DEF DrainedBefore
  <2>. QED
    BY <2>2, <2>3 DEF WalkingCode, StoresSettle, DrainedBefore
<1>15. CheckingCode(r)
  <2>1. ASSUME NEW k \in Ahead(r), r[k][1] = "control_reg1_wr" PROVE r[k][2] \subseteq ProgramFields
    <3>1. k \in {w, n, d + 3, d + 6}
      BY <1>8, <2>1 DEF WritesControl
    <3>. QED
      BY <1>5, <2>1, <3>1
  <2>. QED
    BY <1>10, <2>1 DEF CheckingCode
<1>16. FetchingCode(r)
  <2>1. ASSUME NEW k \in Ahead(r), WritesControl(r[k]), ~TurnsOn(r[k])
        PROVE  Early(r, k) \/ IcacheClears(r, k)
    <3>1. CASE k <= n
      BY <1>7, <3>1
    <3>2. CASE k \in {d + 3, d + 6}
      BY <1>9, <3>2
    <3>. QED
      BY <1>1, <1>8, <2>1, <3>1, <3>2
  <2>. QED
    BY <2>1 DEF FetchingCode
<1>17. Cold(r)
  BY <1>0, <1>1 DEF Cold
<1>. QED
  BY <1>10, <1>11, <1>13, <1>14, <1>15, <1>16, <1>17 DEF Sound

-----------------------------------------------------------------------------
(***************************************************************************)
(* Power on.                                                               *)
(***************************************************************************)
\* How lab 12 turns the MMU on: its caches cleared first.
LEMMA ColdEnableSpelled ==
  ASSUME NEW c \in SUBSET ControlFields
  PROVE  <<INV_DCACHE, INV_ICACHE, INV_TLB>> \o mmu_enable_set_asm(c) =
      <<INV_DCACHE, INV_ICACHE, INV_TLB, DSB, CONTROL_REG1_WR(c), FLUSH_BTB, DSB,
        PREFETCH_FLUSH>>
         /\ <<INV_DCACHE, INV_ICACHE, INV_TLB>> \o mmu_enable_set_asm(c) \in Code
<1>. DEFINE r == <<INV_DCACHE, INV_ICACHE, INV_TLB, DSB, CONTROL_REG1_WR(c),
                   FLUSH_BTB, DSB, PREFETCH_FLUSH>>
            p0 == <<INV_DCACHE, INV_ICACHE, INV_TLB>>
            p1 == <<DSB, CONTROL_REG1_WR(c), FLUSH_BTB, DSB, PREFETCH_FLUSH>>
<1>1. r \in Code /\ p0 \in Code /\ p1 \in Code
  BY Instructions DEF Code
<1>2. Stands(p0, 0, r) /\ Stands(p1, 3, r) /\ Len(r) = 8
  BY DEF Stands
<1>3. Len(p0) = 3 /\ 3 + Len(p1) = 8
  OBVIOUS
<1>. HIDE DEF r, p0, p1
<1>4. Spells(p0, 3, r)
  BY <1>1, <1>2, <1>3 DEF Spells
<1>5. Spells(p0 \o p1, 8, r)
  BY <1>1, <1>2, <1>3, <1>4, Extended, Zenon
<1>6. p0 \o p1 = r
  BY <1>1, <1>2, <1>5, Spelled
<1>. QED
  BY <1>1, <1>6 DEF r, p0, p1, mmu_enable_set_asm

\* part1() of lab 12 is such a program.
LEMMA Part1Sound ==
  ASSUME PoweredOn, NEW a \in Asids
  PROVE  /\ Sound(part1(a)) /\ Program(part1(a)) /\ Cold(part1(a)) /\ TlbClears(part1(a))
         /\ IcacheClears(part1(a), 0)
<1>. DEFINE xp == {"XP_pt"}
            on == xp \cup {"MMU_enabled"}
            off == on \ {"MMU_enabled", "C_unified_enable"}
            xpOn == Expect("XP_pt", TRUE)
            mmuOn == Expect("MMU_enabled", TRUE)
            mmuOff == Expect("MMU_enabled", FALSE)
            r == <<Str(a), CONTROL_REG1_WR(xp), xpOn, mmuOff, DSB, ASID_SET(0),
                   PREFETCH_FLUSH, TTBR0_SET(a), PREFETCH_FLUSH, ASID_SET(a), DSB,
                   Compiled, INV_DCACHE, INV_ICACHE, INV_TLB, DSB,
                   CONTROL_REG1_WR(on), FLUSH_BTB, DSB, PREFETCH_FLUSH, mmuOn,
                   Str(0), Get32, Str(0), Get32, DSB, CLEAN_INV_DCACHE, DSB,
                   PREFETCH_FLUSH, Bic(2), DSB, PREFETCH_FLUSH,
                   CONTROL_REG1_WR(off), DSB, PREFETCH_FLUSH, INV_ICACHE, FLUSH_BTB,
                   DSB, PREFETCH_FLUSH, mmuOff, Get32, Reboot>>
<1>1. /\ xp \in SUBSET ProgramFields /\ on \in SUBSET ProgramFields /\ off \in SUBSET ProgramFields
      /\ xp \in SUBSET ControlFields /\ on \in SUBSET ControlFields /\ off \in SUBSET ControlFields
      /\ "XP_pt" \in xp /\ "XP_pt" \in on
      /\ "MMU_enabled" \notin xp /\ "MMU_enabled" \in on /\ "MMU_enabled" \notin off
  BY FieldsUsed DEF ProgramFields
<1>2. /\ xpOn \in Insts /\ mmuOn \in Insts /\ mmuOff \in Insts
      /\ xpOn[1] = "expect" /\ xpOn[2] = "XP_pt" /\ mmuOn[1] = "expect" /\ mmuOn[2] = "MMU_enabled"
      /\ mmuOff[1] = "expect" /\ mmuOff[2] = "MMU_enabled"
  <2>1. TRUE \in BOOLEAN /\ FALSE \in BOOLEAN /\ "XP_pt" \in ControlFields /\ "MMU_enabled" \in ControlFields
    BY FieldsUsed
  <2>2. xpOn \in Insts /\ mmuOn \in Insts /\ mmuOff \in Insts
    BY <2>1, Instructions, Zenon
  <2>3. \A f, b : Expect(f, b)[1] = "expect" /\ Expect(f, b)[2] = f
    BY Tags
  <2>4. xpOn[1] = "expect" /\ xpOn[2] = "XP_pt"
    BY <2>3, Zenon
  <2>5. mmuOn[1] = "expect" /\ mmuOn[2] = "MMU_enabled"
    BY <2>3, Zenon
  <2>6. mmuOff[1] = "expect" /\ mmuOff[2] = "MMU_enabled"
    BY <2>3, Zenon
  <2>. QED
    BY <2>2, <2>4, <2>5, <2>6, Zenon
<1>3. xpOn[3] = TRUE /\ mmuOn[3] = TRUE /\ mmuOff[3] = FALSE
  <2>1. \A f, b : Expect(f, b)[3] = b
    BY Tags
  <2>2. xpOn[3] = TRUE
    BY <2>1, Zenon
  <2>3. mmuOn[3] = TRUE
    BY <2>1, Zenon
  <2>4. mmuOff[3] = FALSE
    BY <2>1, Zenon
  <2>. QED
    BY <2>2, <2>3, <2>4, Zenon
<1>. HIDE DEF xpOn, mmuOn, mmuOff
<1>4. /\ OurMmuEnable(xp) = <<INV_DCACHE, INV_ICACHE, INV_TLB, DSB,
                               CONTROL_REG1_WR(on), FLUSH_BTB, DSB, PREFETCH_FLUSH>>
      /\ cp15_set_procid_ttbr0(a) = <<ASID_SET(0), PREFETCH_FLUSH, TTBR0_SET(a), PREFETCH_FLUSH,
                                       ASID_SET(a), DSB>>
      /\ mmu_disable(on) = <<DSB, CLEAN_INV_DCACHE, DSB, PREFETCH_FLUSH, Bic(2),
                              DSB, PREFETCH_FLUSH, CONTROL_REG1_WR(off), DSB,
                              PREFETCH_FLUSH, INV_ICACHE, FLUSH_BTB, DSB,
                              PREFETCH_FLUSH>>
  <2>1. mmu_enable(xp) = mmu_enable_set_asm(on)
    BY DEF mmu_enable, mmu_enable_set
  <2>2. mmu_disable(on) = mmu_disable_set_asm(off)
    BY DEF mmu_disable
  <2>. HIDE DEF xp, on, off
  <2>. QED
    BY <1>1, <2>1, <2>2, ColdEnableSpelled, DisableSpelled, Zenon DEF OurMmuEnable, MMU_INIT, cp15_set_procid_ttbr0
<1>5. part1(a) = <<Str(a), CONTROL_REG1_WR(xp), xpOn, mmuOff, DSB>>
                  \o <<ASID_SET(0), PREFETCH_FLUSH, TTBR0_SET(a), PREFETCH_FLUSH,
                       ASID_SET(a), DSB>>
                  \o <<Compiled>>
                  \o <<INV_DCACHE, INV_ICACHE, INV_TLB, DSB, CONTROL_REG1_WR(on),
                       FLUSH_BTB, DSB, PREFETCH_FLUSH>>
                  \o <<mmuOn, Str(0), Get32, Str(0), Get32>>
                  \o <<DSB, CLEAN_INV_DCACHE, DSB, PREFETCH_FLUSH, Bic(2), DSB,
                       PREFETCH_FLUSH, CONTROL_REG1_WR(off), DSB, PREFETCH_FLUSH,
                       INV_ICACHE, FLUSH_BTB, DSB, PREFETCH_FLUSH>>
                  \o <<mmuOff, Get32, Reboot>>
  BY <1>4, Zenon DEF part1, xp, on, xpOn, mmuOn, mmuOff
<1>6. r \in Code /\ part1(a) = r
  <2>. HIDE DEF xp, on, off
  <2>. DEFINE p0 == <<Str(a), CONTROL_REG1_WR(xp), xpOn, mmuOff, DSB>>
              p1 == <<ASID_SET(0), PREFETCH_FLUSH, TTBR0_SET(a), PREFETCH_FLUSH,
                      ASID_SET(a), DSB>>
              p2 == <<Compiled>>
              p3 == <<INV_DCACHE, INV_ICACHE, INV_TLB, DSB, CONTROL_REG1_WR(on),
                      FLUSH_BTB, DSB, PREFETCH_FLUSH>>
              p4 == <<mmuOn, Str(0), Get32, Str(0), Get32>>
              p5 == <<DSB, CLEAN_INV_DCACHE, DSB, PREFETCH_FLUSH, Bic(2), DSB,
                      PREFETCH_FLUSH, CONTROL_REG1_WR(off), DSB, PREFETCH_FLUSH,
                      INV_ICACHE, FLUSH_BTB, DSB, PREFETCH_FLUSH>>
              p6 == <<mmuOff, Get32, Reboot>>
  <2>1. r \in Code /\ p0 \in Code /\ p1 \in Code /\ p2 \in Code /\ p3 \in Code
        /\ p4 \in Code /\ p5 \in Code /\ p6 \in Code
    <3>0. Str(a) \in Insts /\ CONTROL_REG1_WR(xp) \in Insts /\ xpOn \in Insts
          /\ mmuOff \in Insts /\ DSB \in Insts /\ ASID_SET(0) \in Insts
          /\ PREFETCH_FLUSH \in Insts /\ TTBR0_SET(a) \in Insts
          /\ ASID_SET(a) \in Insts /\ Compiled \in Insts /\ INV_DCACHE \in Insts
          /\ INV_ICACHE \in Insts /\ INV_TLB \in Insts
          /\ CONTROL_REG1_WR(on) \in Insts /\ FLUSH_BTB \in Insts /\ mmuOn \in Insts
          /\ Str(0) \in Insts /\ Get32 \in Insts /\ CLEAN_INV_DCACHE \in Insts
          /\ Bic(2) \in Insts /\ CONTROL_REG1_WR(off) \in Insts /\ Reboot \in Insts
      BY <1>1, <1>2, Instructions DEF Cells
    <3>1. r \in Code
      BY <3>0 DEF Code
    <3>2. p0 \in Code
      BY <3>0 DEF Code
    <3>3. p1 \in Code
      BY <3>0 DEF Code
    <3>4. p2 \in Code
      BY <3>0 DEF Code
    <3>5. p3 \in Code
      BY <3>0 DEF Code
    <3>6. p4 \in Code
      BY <3>0 DEF Code
    <3>7. p5 \in Code
      BY <3>0 DEF Code
    <3>8. p6 \in Code
      BY <3>0 DEF Code
    <3>. QED
      BY <3>1, <3>2, <3>3, <3>4, <3>5, <3>6, <3>7, <3>8
  <2>2. Stands(p0, 0, r) /\ Stands(p1, 5, r) /\ Stands(p2, 11, r) /\ Stands(p3, 12, r)
        /\ Stands(p4, 20, r) /\ Stands(p5, 25, r) /\ Stands(p6, 39, r) /\ Len(r) = 42
    BY DEF Stands
  <2>3. Len(p0) = 5 /\ 5 + Len(p1) = 11 /\ 11 + Len(p2) = 12 /\ 12 + Len(p3) = 20
        /\ 20 + Len(p4) = 25 /\ 25 + Len(p5) = 39 /\ 39 + Len(p6) = 42
    OBVIOUS
  <2>. HIDE DEF r, p0, p1, p2, p3, p4, p5, p6
  <2>4. Spells(p0, 5, r)
    BY <2>1, <2>2, <2>3 DEF Spells
  <2>5. Spells(p0 \o p1, 11, r)
    BY <2>1, <2>2, <2>3, <2>4, Extended, Zenon
  <2>6. Spells(p0 \o p1 \o p2, 12, r)
    BY <2>1, <2>2, <2>3, <2>5, Extended, Zenon
  <2>7. Spells(p0 \o p1 \o p2 \o p3, 20, r)
    BY <2>1, <2>2, <2>3, <2>6, Extended, Zenon
  <2>8. Spells(p0 \o p1 \o p2 \o p3 \o p4, 25, r)
    BY <2>1, <2>2, <2>3, <2>7, Extended, Zenon
  <2>9. Spells(p0 \o p1 \o p2 \o p3 \o p4 \o p5, 39, r)
    BY <2>1, <2>2, <2>3, <2>8, Extended, Zenon
  <2>10. Spells(p0 \o p1 \o p2 \o p3 \o p4 \o p5 \o p6, 42, r)
    BY <2>1, <2>2, <2>3, <2>9, Extended, Zenon
  <2>11. p0 \o p1 \o p2 \o p3 \o p4 \o p5 \o p6 = r
    BY <2>1, <2>2, <2>10, Spelled
  <2>. QED
    BY <1>5, <2>1, <2>11, Zenon DEF p0, p1, p2, p3, p4, p5, p6
<1>7. Len(r) = 42
  OBVIOUS
<1>8. r[1] = Str(a) /\ r[2] = CONTROL_REG1_WR(xp) /\ r[3] = xpOn /\ r[4] = mmuOff
      /\ r[5] = DSB /\ r[6] = ASID_SET(0) /\ r[7] = PREFETCH_FLUSH
      /\ r[8] = TTBR0_SET(a) /\ r[9] = PREFETCH_FLUSH /\ r[10] = ASID_SET(a)
      /\ r[11] = DSB /\ r[12] = Compiled /\ r[13] = INV_DCACHE /\ r[14] = INV_ICACHE
      /\ r[15] = INV_TLB /\ r[16] = DSB /\ r[17] = CONTROL_REG1_WR(on)
      /\ r[18] = FLUSH_BTB /\ r[19] = DSB /\ r[20] = PREFETCH_FLUSH /\ r[21] = mmuOn
      /\ r[22] = Str(0) /\ r[23] = Get32 /\ r[24] = Str(0) /\ r[25] = Get32
      /\ r[26] = DSB /\ r[27] = CLEAN_INV_DCACHE /\ r[28] = DSB
      /\ r[29] = PREFETCH_FLUSH /\ r[30] = Bic(2) /\ r[31] = DSB
      /\ r[32] = PREFETCH_FLUSH /\ r[33] = CONTROL_REG1_WR(off) /\ r[34] = DSB
      /\ r[35] = PREFETCH_FLUSH /\ r[36] = INV_ICACHE /\ r[37] = FLUSH_BTB
      /\ r[38] = DSB /\ r[39] = PREFETCH_FLUSH /\ r[40] = mmuOff /\ r[41] = Get32
      /\ r[42] = Reboot
  <2>1. r[1] = Str(a) /\ r[2] = CONTROL_REG1_WR(xp) /\ r[3] = xpOn /\ r[4] = mmuOff
        /\ r[5] = DSB /\ r[6] = ASID_SET(0) /\ r[7] = PREFETCH_FLUSH
        /\ r[8] = TTBR0_SET(a) /\ r[9] = PREFETCH_FLUSH
    OBVIOUS
  <2>2. r[10] = ASID_SET(a) /\ r[11] = DSB /\ r[12] = Compiled /\ r[13] = INV_DCACHE
        /\ r[14] = INV_ICACHE /\ r[15] = INV_TLB /\ r[16] = DSB
        /\ r[17] = CONTROL_REG1_WR(on) /\ r[18] = FLUSH_BTB
    OBVIOUS
  <2>3. r[19] = DSB /\ r[20] = PREFETCH_FLUSH /\ r[21] = mmuOn /\ r[22] = Str(0)
        /\ r[23] = Get32 /\ r[24] = Str(0) /\ r[25] = Get32 /\ r[26] = DSB
        /\ r[27] = CLEAN_INV_DCACHE
    OBVIOUS
  <2>4. r[28] = DSB /\ r[29] = PREFETCH_FLUSH /\ r[30] = Bic(2) /\ r[31] = DSB
        /\ r[32] = PREFETCH_FLUSH /\ r[33] = CONTROL_REG1_WR(off) /\ r[34] = DSB
        /\ r[35] = PREFETCH_FLUSH /\ r[36] = INV_ICACHE
    OBVIOUS
  <2>5. r[37] = FLUSH_BTB /\ r[38] = DSB /\ r[39] = PREFETCH_FLUSH /\ r[40] = mmuOff
        /\ r[41] = Get32 /\ r[42] = Reboot
    OBVIOUS
  <2>. HIDE DEF r
  <2>. QED
    BY <2>1, <2>2, <2>3, <2>4, <2>5
<1>. HIDE DEF r, xp, on, off
<1>9. Ahead(r) = 1 .. 42
  BY <1>7 DEF Ahead
<1>10. ASSUME NEW k \in Ahead(r)
       PROVE  \/ k \in {1, 2, 13, 6, 8, 10, 17, 30, 33, 42}
              \/ r[k] \in Plain
              \/ k > 17 /\ r[k] \in {Str(0), Get32}
              \/ r[k][1] = "expect"
  <2>1. k \in {1, 2, 13, 6, 8, 10, 17, 30, 33, 42}
        \/ k \in {5, 7, 9, 11, 12, 14, 15, 16, 18, 19, 20, 26}
        \/ k \in {27, 28, 29, 31, 32, 34, 35, 36, 37, 38, 39}
        \/ k \in {22, 23, 24, 25, 41, 3, 4, 21, 40}
    BY <1>9, <1>10
  <2>2. CASE k \in {5, 7, 9, 11, 12, 14, 15, 16, 18, 19, 20, 26}
    BY <1>8, <2>2 DEF Plain
  <2>3. CASE k \in {27, 28, 29, 31, 32, 34, 35, 36, 37, 38, 39}
    BY <1>8, <2>3 DEF Plain
  <2>4. CASE k \in {22, 23, 24, 25, 41, 3, 4, 21, 40}
    BY <1>2, <1>8, <2>4
  <2>. QED
    BY <2>1, <2>2, <2>3, <2>4
<1>11. ProgramAt(r, a, 1, 2, 13, 6, 17, 27, xp, on, off)
  <2>1. /\ {1, 2, 13, 6, 17, 27} \subseteq Ahead(r)
        /\ 1 < 17 /\ 2 < 17 /\ 13 < 17 /\ 6 + 4 < 17 /\ 17 < 27 /\ 27 + 9 < Len(r)
    BY <1>7, <1>9
  <2>2. 6 + 1 = 7 /\ 6 + 2 = 8 /\ 6 + 3 = 9 /\ 6 + 4 = 10 /\ 27 + 3 = 30 /\ 27 + 6 = 33 /\ 27 + 9 = 36 /\ 17 - 1 = 16
    OBVIOUS
  <2>3. \A k \in 27 + 1 .. 27 + 5 : k \in {28, 29, 30, 31, 32}
    OBVIOUS
  <2>4. \A k \in 27 + 1 .. 27 + 5 : k = 30 \/ r[k] \in {DSB, PREFETCH_FLUSH}
    BY <1>8, <2>3
  <2>5. \A k \in 1 .. 13 - 1 : r[k] # CLEAN_INV_DCACHE
    <3>1. \A k \in 1 .. 13 - 1 : k \in {1, 2, 3, 4, 5, 6, 7, 8, 9, 10, 11, 12}
      OBVIOUS
    <3>. QED
      BY <1>2, <1>8, <3>1, Tags
  <2>. QED
    BY <1>7, <1>8, <1>10, <2>1, <2>2, <2>4, <2>5 DEF ProgramAt
<1>12. ASSUME NEW k \in Ahead(r) PROVE ExpectsWritten(r, k)
  <2>1. CASE k = 3
    <3>1. 2 \in 1 .. k - 1 /\ \A j \in 2 + 1 .. k - 1 : j \in {}
      BY <2>1
    <3>2. \A j \in {} : ~WritesControl(r[j])
      BY <1>2, <1>8, Tags DEF WritesControl
    <3>3. r[2][1] = "control_reg1_wr" /\ r[2][2] = xp
      BY <1>8, Tags
    <3>4. (r[k][2] \in xp) = r[k][3]
      <4>1. r[k][2] \in xp /\ r[k][3] = TRUE
        BY <1>1, <1>2, <1>3, <1>8, <2>1
      <4>2. (r[k][2] \in xp) = TRUE
        BY <4>1
      <4>. QED
        BY <4>1, <4>2, Zenon
    <3>. QED
      BY <3>1, <3>2, <3>3, <3>4 DEF ExpectsWritten
  <2>2. CASE k = 4
    <3>1. 2 \in 1 .. k - 1 /\ \A j \in 2 + 1 .. k - 1 : j \in {3}
      BY <2>2
    <3>2. \A j \in {3} : ~WritesControl(r[j])
      BY <1>2, <1>8, Tags DEF WritesControl
    <3>3. r[2][1] = "control_reg1_wr" /\ r[2][2] = xp
      BY <1>8, Tags
    <3>4. (r[k][2] \in xp) = r[k][3]
      <4>1. r[k][2] \notin xp /\ r[k][3] = FALSE
        BY <1>1, <1>2, <1>3, <1>8, <2>2
      <4>2. (r[k][2] \in xp) = FALSE
        BY <4>1
      <4>. QED
        BY <4>1, <4>2, Zenon
    <3>. QED
      BY <3>1, <3>2, <3>3, <3>4 DEF ExpectsWritten
  <2>3. CASE k = 21
    <3>1. 17 \in 1 .. k - 1 /\ \A j \in 17 + 1 .. k - 1 : j \in {18, 19, 20}
      BY <2>3
    <3>2. \A j \in {18, 19, 20} : ~WritesControl(r[j])
      BY <1>2, <1>8, Tags DEF WritesControl
    <3>3. r[17][1] = "control_reg1_wr" /\ r[17][2] = on
      BY <1>8, Tags
    <3>4. (r[k][2] \in on) = r[k][3]
      <4>1. r[k][2] \in on /\ r[k][3] = TRUE
        BY <1>1, <1>2, <1>3, <1>8, <2>3
      <4>2. (r[k][2] \in on) = TRUE
        BY <4>1
      <4>. QED
        BY <4>1, <4>2, Zenon
    <3>. QED
      BY <3>1, <3>2, <3>3, <3>4 DEF ExpectsWritten
  <2>4. CASE k = 40
    <3>1. 33 \in 1 .. k - 1 /\ \A j \in 33 + 1 .. k - 1 : j \in {34, 35, 36, 37, 38, 39}
      BY <2>4
    <3>2. \A j \in {34, 35, 36, 37, 38, 39} : ~WritesControl(r[j])
      BY <1>2, <1>8, Tags DEF WritesControl
    <3>3. r[33][1] = "control_reg1_wr" /\ r[33][2] = off
      BY <1>8, Tags
    <3>4. (r[k][2] \in off) = r[k][3]
      <4>1. r[k][2] \notin off /\ r[k][3] = FALSE
        BY <1>1, <1>2, <1>3, <1>8, <2>4
      <4>2. (r[k][2] \in off) = FALSE
        BY <4>1
      <4>. QED
        BY <4>1, <4>2, Zenon
    <3>. QED
      BY <3>1, <3>2, <3>3, <3>4 DEF ExpectsWritten
  <2>5. CASE r[k][1] # "expect"
    BY <2>5 DEF ExpectsWritten
  <2>6. k \notin {3, 4, 21, 40} => r[k][1] # "expect"
    <3>1. CASE r[k] \in Plain
      BY <3>1, PlainInstructions
    <3>2. CASE k \in {1, 2, 13, 6, 8, 10, 17, 30, 33, 42, 22, 23, 24, 25, 41}
      BY <1>8, <3>2, Tags
    <3>3. k \in {1, 2, 13, 6, 8, 10, 17, 30, 33, 42, 22, 23, 24, 25, 41}
          \/ k \in {5, 7, 9, 11, 12, 14, 15, 16, 18, 19, 20, 26}
          \/ k \in {27, 28, 29, 31, 32, 34, 35, 36, 37, 38, 39}
          \/ k \in {3, 4, 21, 40}
      BY <1>9, <1>12
    <3>4. CASE k \in {5, 7, 9, 11, 12, 14, 15, 16, 18, 19, 20, 26}
      <4>1. r[k] \in Plain
        BY <1>8, <3>4 DEF Plain
      <4>. QED
        BY <4>1, PlainInstructions
    <3>5. CASE k \in {27, 28, 29, 31, 32, 34, 35, 36, 37, 38, 39}
      <4>1. r[k] \in Plain
        BY <1>8, <3>5 DEF Plain
      <4>. QED
        BY <4>1, PlainInstructions
    <3>. QED
      BY <3>1, <3>2, <3>3, <3>4, <3>5
  <2>. QED
    BY <2>1, <2>2, <2>3, <2>4, <2>5, <2>6
<1>13. Sound(r) /\ Program(r) /\ Cold(r)
  BY <1>1, <1>6, <1>11, <1>12, ProgramSound
<1>14. TlbClears(r) /\ IcacheClears(r, 0)
  <2>1. 15 \in Ahead(r) /\ 14 \in Ahead(r) /\ 14 > 0
    BY <1>9
  <2>. QED
    BY <1>8, <2>1 DEF TlbClears, IcacheClears
<1>. QED
  BY <1>6, <1>13, <1>14

\* So is int_part1() of lab 15.
LEMMA IntPart1Sound ==
  ASSUME PoweredOn, NEW a \in Asids
  PROVE  /\ Sound(int_part1(a)) /\ Program(int_part1(a)) /\ Cold(int_part1(a)) /\ TlbClears(int_part1(a))
         /\ IcacheClears(int_part1(a), 0)
<1>. DEFINE xp == {"XP_pt"}
            on == xp \cup {"MMU_enabled"}
            off == on \ {"MMU_enabled", "C_unified_enable"}
            xpOn == Expect("XP_pt", TRUE)
            mmuOn == Expect("MMU_enabled", TRUE)
            mmuOff == Expect("MMU_enabled", FALSE)
            r == <<INV_DCACHE, INV_ICACHE, INV_TLB, FLUSH_BTB, DSB, PREFETCH_FLUSH,
                   Compiled, CONTROL_REG1_WR(xp), FLUSH_BTB, DSB, PREFETCH_FLUSH,
                   Str(a), Compiled, ASID_SET(0), PREFETCH_FLUSH, TTBR0_SET(a),
                   PREFETCH_FLUSH, ASID_SET(a), DSB, Compiled, DSB,
                   CONTROL_REG1_WR(on), FLUSH_BTB, DSB, PREFETCH_FLUSH, mmuOn,
                   Compiled, Get32, mmuOn, xpOn, DSB, CLEAN_INV_DCACHE, DSB,
                   PREFETCH_FLUSH, Bic(2), DSB, PREFETCH_FLUSH,
                   CONTROL_REG1_WR(off), DSB, PREFETCH_FLUSH, INV_ICACHE, FLUSH_BTB,
                   DSB, PREFETCH_FLUSH, Reboot>>
<1>1. /\ xp \in SUBSET ProgramFields /\ on \in SUBSET ProgramFields /\ off \in SUBSET ProgramFields
      /\ xp \in SUBSET ControlFields /\ on \in SUBSET ControlFields /\ off \in SUBSET ControlFields
      /\ "XP_pt" \in xp /\ "XP_pt" \in on
      /\ "MMU_enabled" \notin xp /\ "MMU_enabled" \in on /\ "MMU_enabled" \notin off
  BY FieldsUsed DEF ProgramFields
<1>2. /\ xpOn \in Insts /\ mmuOn \in Insts /\ mmuOff \in Insts
      /\ xpOn[1] = "expect" /\ xpOn[2] = "XP_pt" /\ mmuOn[1] = "expect" /\ mmuOn[2] = "MMU_enabled"
      /\ mmuOff[1] = "expect" /\ mmuOff[2] = "MMU_enabled"
  <2>1. TRUE \in BOOLEAN /\ FALSE \in BOOLEAN /\ "XP_pt" \in ControlFields /\ "MMU_enabled" \in ControlFields
    BY FieldsUsed
  <2>2. xpOn \in Insts /\ mmuOn \in Insts /\ mmuOff \in Insts
    BY <2>1, Instructions, Zenon
  <2>3. \A f, b : Expect(f, b)[1] = "expect" /\ Expect(f, b)[2] = f
    BY Tags
  <2>4. xpOn[1] = "expect" /\ xpOn[2] = "XP_pt"
    BY <2>3, Zenon
  <2>5. mmuOn[1] = "expect" /\ mmuOn[2] = "MMU_enabled"
    BY <2>3, Zenon
  <2>6. mmuOff[1] = "expect" /\ mmuOff[2] = "MMU_enabled"
    BY <2>3, Zenon
  <2>. QED
    BY <2>2, <2>4, <2>5, <2>6, Zenon
<1>3. xpOn[3] = TRUE /\ mmuOn[3] = TRUE /\ mmuOff[3] = FALSE
  <2>1. \A f, b : Expect(f, b)[3] = b
    BY Tags
  <2>2. xpOn[3] = TRUE
    BY <2>1, Zenon
  <2>3. mmuOn[3] = TRUE
    BY <2>1, Zenon
  <2>4. mmuOff[3] = FALSE
    BY <2>1, Zenon
  <2>. QED
    BY <2>2, <2>3, <2>4, Zenon
<1>. HIDE DEF xpOn, mmuOn, mmuOff
<1>4. /\ mmu_init({}) = <<INV_DCACHE, INV_ICACHE, INV_TLB, FLUSH_BTB, DSB,
                          PREFETCH_FLUSH, Compiled, CONTROL_REG1_WR(xp), FLUSH_BTB,
                          DSB, PREFETCH_FLUSH>>
      /\ cp15_set_procid_ttbr0(a) = <<ASID_SET(0), PREFETCH_FLUSH, TTBR0_SET(a), PREFETCH_FLUSH,
                                       ASID_SET(a), DSB>>
      /\ mmu_enable(xp) = <<DSB, CONTROL_REG1_WR(on), FLUSH_BTB, DSB, PREFETCH_FLUSH>>
      /\ mmu_disable(on) = <<DSB, CLEAN_INV_DCACHE, DSB, PREFETCH_FLUSH, Bic(2),
                              DSB, PREFETCH_FLUSH, CONTROL_REG1_WR(off), DSB,
                              PREFETCH_FLUSH, INV_ICACHE, FLUSH_BTB, DSB,
                              PREFETCH_FLUSH>>
  <2>1. mmu_enable(xp) = mmu_enable_set_asm(on)
    BY DEF mmu_enable, mmu_enable_set
  <2>2. mmu_disable(on) = mmu_disable_set_asm(off)
    BY DEF mmu_disable
  <2>3. mmu_init({}) = mmu_reset \o <<Compiled>> \o SYNCX(<<CONTROL_REG1_WR(xp)>>)
    <3>1. {} \cup {"XP_pt"} = xp
      OBVIOUS
    <3>. QED
      BY <3>1, Zenon DEF mmu_init, cp15_ctrl_reg1_wr
  <2>. HIDE DEF xp, on, off
  <2>. QED
    BY <1>1, <2>1, <2>2, <2>3, InitSpelled, DisableSpelled, Zenon DEF mmu_enable_set_asm, cp15_set_procid_ttbr0
<1>15. [i \in 1 .. 2 |-> Expect(<<"MMU_enabled", "XP_pt">>[i], TRUE)] = <<mmuOn, xpOn>>
  <2>. DEFINE f == <<"MMU_enabled", "XP_pt">>
              E(x) == Expect(x, TRUE)
              t == [i \in 1 .. 2 |-> E(f[i])]
              u == <<mmuOn, xpOn>>
  <2>1. f[1] = "MMU_enabled" /\ f[2] = "XP_pt" /\ \A i \in 1 .. 2 : i = 1 \/ i = 2
    OBVIOUS
  <2>2. E("MMU_enabled") = mmuOn /\ E("XP_pt") = xpOn
    BY DEF mmuOn, xpOn
  <2>3. u = [i \in 1 .. 2 |-> u[i]] /\ u[1] = mmuOn /\ u[2] = xpOn
    OBVIOUS
  <2>. HIDE DEF E, f, u
  <2>4. \A i \in 1 .. 2 : E(f[i]) = u[i]
    BY <2>1, <2>2, <2>3
  <2>5. t = [i \in 1 .. 2 |-> u[i]]
    BY <2>4
  <2>6. t = u
    BY <2>3, <2>5
  <2>. QED
    BY <2>6 DEF t, u, f, E
<1>5. int_part1(a) = <<INV_DCACHE, INV_ICACHE, INV_TLB, FLUSH_BTB, DSB,
                           PREFETCH_FLUSH, Compiled, CONTROL_REG1_WR(xp), FLUSH_BTB,
                           DSB, PREFETCH_FLUSH>>
                      \o <<Str(a), Compiled>>
                      \o <<ASID_SET(0), PREFETCH_FLUSH, TTBR0_SET(a),
                           PREFETCH_FLUSH, ASID_SET(a), DSB>>
                      \o <<Compiled>>
                      \o <<DSB, CONTROL_REG1_WR(on), FLUSH_BTB, DSB,
                           PREFETCH_FLUSH>>
                      \o <<mmuOn, Compiled, Get32>>
                      \o <<mmuOn, xpOn>>
                      \o <<DSB, CLEAN_INV_DCACHE, DSB, PREFETCH_FLUSH, Bic(2), DSB,
                           PREFETCH_FLUSH, CONTROL_REG1_WR(off), DSB,
                           PREFETCH_FLUSH, INV_ICACHE, FLUSH_BTB, DSB,
                           PREFETCH_FLUSH>>
                      \o <<Reboot>>
  BY <1>4, <1>15, Zenon DEF int_part1, xp, on, xpOn, mmuOn, mmuOff
<1>6. r \in Code /\ int_part1(a) = r
  <2>. HIDE DEF xp, on, off
  <2>. DEFINE p0 == <<INV_DCACHE, INV_ICACHE, INV_TLB, FLUSH_BTB, DSB, PREFETCH_FLUSH,
                      Compiled, CONTROL_REG1_WR(xp), FLUSH_BTB, DSB, PREFETCH_FLUSH>>
              p1 == <<Str(a), Compiled>>
              p2 == <<ASID_SET(0), PREFETCH_FLUSH, TTBR0_SET(a), PREFETCH_FLUSH,
                      ASID_SET(a), DSB>>
              p3 == <<Compiled>>
              p4 == <<DSB, CONTROL_REG1_WR(on), FLUSH_BTB, DSB, PREFETCH_FLUSH>>
              p5 == <<mmuOn, Compiled, Get32>>
              p6 == <<mmuOn, xpOn>>
              p7 == <<DSB, CLEAN_INV_DCACHE, DSB, PREFETCH_FLUSH, Bic(2), DSB,
                      PREFETCH_FLUSH, CONTROL_REG1_WR(off), DSB, PREFETCH_FLUSH,
                      INV_ICACHE, FLUSH_BTB, DSB, PREFETCH_FLUSH>>
              p8 == <<Reboot>>
  <2>1. r \in Code /\ p0 \in Code /\ p1 \in Code /\ p2 \in Code /\ p3 \in Code
        /\ p4 \in Code /\ p5 \in Code /\ p6 \in Code /\ p7 \in Code /\ p8 \in Code
    <3>0. INV_DCACHE \in Insts /\ INV_ICACHE \in Insts /\ INV_TLB \in Insts
          /\ FLUSH_BTB \in Insts /\ DSB \in Insts /\ PREFETCH_FLUSH \in Insts
          /\ Compiled \in Insts /\ CONTROL_REG1_WR(xp) \in Insts /\ Str(a) \in Insts
          /\ ASID_SET(0) \in Insts /\ TTBR0_SET(a) \in Insts /\ ASID_SET(a) \in Insts
          /\ CONTROL_REG1_WR(on) \in Insts /\ mmuOn \in Insts /\ Get32 \in Insts
          /\ xpOn \in Insts /\ CLEAN_INV_DCACHE \in Insts /\ Bic(2) \in Insts
          /\ CONTROL_REG1_WR(off) \in Insts /\ Reboot \in Insts
      BY <1>1, <1>2, Instructions DEF Cells
    <3>1. r \in Code
      BY <3>0 DEF Code
    <3>2. p0 \in Code
      BY <3>0 DEF Code
    <3>3. p1 \in Code
      BY <3>0 DEF Code
    <3>4. p2 \in Code
      BY <3>0 DEF Code
    <3>5. p3 \in Code
      BY <3>0 DEF Code
    <3>6. p4 \in Code
      BY <3>0 DEF Code
    <3>7. p5 \in Code
      BY <3>0 DEF Code
    <3>8. p6 \in Code
      BY <3>0 DEF Code
    <3>9. p7 \in Code
      BY <3>0 DEF Code
    <3>10. p8 \in Code
      BY <3>0 DEF Code
    <3>. QED
      BY <3>1, <3>2, <3>3, <3>4, <3>5, <3>6, <3>7, <3>8, <3>9, <3>10
  <2>2. Stands(p0, 0, r) /\ Stands(p1, 11, r) /\ Stands(p2, 13, r)
        /\ Stands(p3, 19, r) /\ Stands(p4, 20, r) /\ Stands(p5, 25, r)
        /\ Stands(p6, 28, r) /\ Stands(p7, 30, r) /\ Stands(p8, 44, r) /\ Len(r) = 45
    BY DEF Stands
  <2>3. Len(p0) = 11 /\ 11 + Len(p1) = 13 /\ 13 + Len(p2) = 19 /\ 19 + Len(p3) = 20
        /\ 20 + Len(p4) = 25 /\ 25 + Len(p5) = 28 /\ 28 + Len(p6) = 30
        /\ 30 + Len(p7) = 44 /\ 44 + Len(p8) = 45
    OBVIOUS
  <2>. HIDE DEF r, p0, p1, p2, p3, p4, p5, p6, p7, p8
  <2>4. Spells(p0, 11, r)
    BY <2>1, <2>2, <2>3 DEF Spells
  <2>5. Spells(p0 \o p1, 13, r)
    BY <2>1, <2>2, <2>3, <2>4, Extended, Zenon
  <2>6. Spells(p0 \o p1 \o p2, 19, r)
    BY <2>1, <2>2, <2>3, <2>5, Extended, Zenon
  <2>7. Spells(p0 \o p1 \o p2 \o p3, 20, r)
    BY <2>1, <2>2, <2>3, <2>6, Extended, Zenon
  <2>8. Spells(p0 \o p1 \o p2 \o p3 \o p4, 25, r)
    BY <2>1, <2>2, <2>3, <2>7, Extended, Zenon
  <2>9. Spells(p0 \o p1 \o p2 \o p3 \o p4 \o p5, 28, r)
    BY <2>1, <2>2, <2>3, <2>8, Extended, Zenon
  <2>10. Spells(p0 \o p1 \o p2 \o p3 \o p4 \o p5 \o p6, 30, r)
    BY <2>1, <2>2, <2>3, <2>9, Extended, Zenon
  <2>11. Spells(p0 \o p1 \o p2 \o p3 \o p4 \o p5 \o p6 \o p7, 44, r)
    BY <2>1, <2>2, <2>3, <2>10, Extended, Zenon
  <2>12. Spells(p0 \o p1 \o p2 \o p3 \o p4 \o p5 \o p6 \o p7 \o p8, 45, r)
    BY <2>1, <2>2, <2>3, <2>11, Extended, Zenon
  <2>13. p0 \o p1 \o p2 \o p3 \o p4 \o p5 \o p6 \o p7 \o p8 = r
    BY <2>1, <2>2, <2>12, Spelled
  <2>. QED
    BY <1>5, <2>1, <2>13, Zenon DEF p0, p1, p2, p3, p4, p5, p6, p7, p8
<1>7. Len(r) = 45
  OBVIOUS
<1>8. r[1] = INV_DCACHE /\ r[2] = INV_ICACHE /\ r[3] = INV_TLB /\ r[4] = FLUSH_BTB
      /\ r[5] = DSB /\ r[6] = PREFETCH_FLUSH /\ r[7] = Compiled
      /\ r[8] = CONTROL_REG1_WR(xp) /\ r[9] = FLUSH_BTB /\ r[10] = DSB
      /\ r[11] = PREFETCH_FLUSH /\ r[12] = Str(a) /\ r[13] = Compiled
      /\ r[14] = ASID_SET(0) /\ r[15] = PREFETCH_FLUSH /\ r[16] = TTBR0_SET(a)
      /\ r[17] = PREFETCH_FLUSH /\ r[18] = ASID_SET(a) /\ r[19] = DSB
      /\ r[20] = Compiled /\ r[21] = DSB /\ r[22] = CONTROL_REG1_WR(on)
      /\ r[23] = FLUSH_BTB /\ r[24] = DSB /\ r[25] = PREFETCH_FLUSH /\ r[26] = mmuOn
      /\ r[27] = Compiled /\ r[28] = Get32 /\ r[29] = mmuOn /\ r[30] = xpOn
      /\ r[31] = DSB /\ r[32] = CLEAN_INV_DCACHE /\ r[33] = DSB
      /\ r[34] = PREFETCH_FLUSH /\ r[35] = Bic(2) /\ r[36] = DSB
      /\ r[37] = PREFETCH_FLUSH /\ r[38] = CONTROL_REG1_WR(off) /\ r[39] = DSB
      /\ r[40] = PREFETCH_FLUSH /\ r[41] = INV_ICACHE /\ r[42] = FLUSH_BTB
      /\ r[43] = DSB /\ r[44] = PREFETCH_FLUSH /\ r[45] = Reboot
  <2>1. r[1] = INV_DCACHE /\ r[2] = INV_ICACHE /\ r[3] = INV_TLB /\ r[4] = FLUSH_BTB
        /\ r[5] = DSB /\ r[6] = PREFETCH_FLUSH /\ r[7] = Compiled
        /\ r[8] = CONTROL_REG1_WR(xp) /\ r[9] = FLUSH_BTB
    OBVIOUS
  <2>2. r[10] = DSB /\ r[11] = PREFETCH_FLUSH /\ r[12] = Str(a) /\ r[13] = Compiled
        /\ r[14] = ASID_SET(0) /\ r[15] = PREFETCH_FLUSH /\ r[16] = TTBR0_SET(a)
        /\ r[17] = PREFETCH_FLUSH /\ r[18] = ASID_SET(a)
    OBVIOUS
  <2>3. r[19] = DSB /\ r[20] = Compiled /\ r[21] = DSB /\ r[22] = CONTROL_REG1_WR(on)
        /\ r[23] = FLUSH_BTB /\ r[24] = DSB /\ r[25] = PREFETCH_FLUSH
        /\ r[26] = mmuOn /\ r[27] = Compiled
    OBVIOUS
  <2>4. r[28] = Get32 /\ r[29] = mmuOn /\ r[30] = xpOn /\ r[31] = DSB
        /\ r[32] = CLEAN_INV_DCACHE /\ r[33] = DSB /\ r[34] = PREFETCH_FLUSH
        /\ r[35] = Bic(2) /\ r[36] = DSB
    OBVIOUS
  <2>5. r[37] = PREFETCH_FLUSH /\ r[38] = CONTROL_REG1_WR(off) /\ r[39] = DSB
        /\ r[40] = PREFETCH_FLUSH /\ r[41] = INV_ICACHE /\ r[42] = FLUSH_BTB
        /\ r[43] = DSB /\ r[44] = PREFETCH_FLUSH /\ r[45] = Reboot
    OBVIOUS
  <2>. HIDE DEF r
  <2>. QED
    BY <2>1, <2>2, <2>3, <2>4, <2>5
<1>. HIDE DEF r, xp, on, off
<1>9. Ahead(r) = 1 .. 45
  BY <1>7 DEF Ahead
<1>10. ASSUME NEW k \in Ahead(r)
       PROVE  \/ k \in {12, 8, 1, 14, 16, 18, 22, 35, 38, 45}
              \/ r[k] \in Plain
              \/ k > 22 /\ r[k] \in {Str(0), Get32}
              \/ r[k][1] = "expect"
  <2>1. k \in {12, 8, 1, 14, 16, 18, 22, 35, 38, 45}
        \/ k \in {2, 3, 4, 5, 6, 7, 9, 10, 11, 13, 15, 17}
        \/ k \in {19, 20, 21, 23, 24, 25, 27, 31, 32, 33, 34, 36}
        \/ k \in {37, 39, 40, 41, 42, 43, 44} \/ k \in {28, 26, 29, 30}
    BY <1>9, <1>10
  <2>2. CASE k \in {2, 3, 4, 5, 6, 7, 9, 10, 11, 13, 15, 17}
    BY <1>8, <2>2 DEF Plain
  <2>3. CASE k \in {19, 20, 21, 23, 24, 25, 27, 31, 32, 33, 34, 36}
    BY <1>8, <2>3 DEF Plain
  <2>4. CASE k \in {37, 39, 40, 41, 42, 43, 44}
    BY <1>8, <2>4 DEF Plain
  <2>5. CASE k \in {28, 26, 29, 30}
    BY <1>2, <1>8, <2>5
  <2>. QED
    BY <2>1, <2>2, <2>3, <2>4, <2>5
<1>11. ProgramAt(r, a, 12, 8, 1, 14, 22, 32, xp, on, off)
  <2>1. /\ {12, 8, 1, 14, 22, 32} \subseteq Ahead(r)
        /\ 12 < 22 /\ 8 < 22 /\ 1 < 22 /\ 14 + 4 < 22 /\ 22 < 32 /\ 32 + 9 < Len(r)
    BY <1>7, <1>9
  <2>2. 14 + 1 = 15 /\ 14 + 2 = 16 /\ 14 + 3 = 17 /\ 14 + 4 = 18 /\ 32 + 3 = 35 /\ 32 + 6 = 38 /\ 32 + 9 = 41 /\ 22 - 1 = 21
    OBVIOUS
  <2>3. \A k \in 32 + 1 .. 32 + 5 : k \in {33, 34, 35, 36, 37}
    OBVIOUS
  <2>4. \A k \in 32 + 1 .. 32 + 5 : k = 35 \/ r[k] \in {DSB, PREFETCH_FLUSH}
    BY <1>8, <2>3
  <2>5. 1 .. 1 - 1 = {}
    OBVIOUS
  <2>. QED
    BY <1>7, <1>8, <1>10, <2>1, <2>2, <2>4, <2>5 DEF ProgramAt
<1>12. ASSUME NEW k \in Ahead(r) PROVE ExpectsWritten(r, k)
  <2>1. CASE k = 26
    <3>1. 22 \in 1 .. k - 1 /\ \A j \in 22 + 1 .. k - 1 : j \in {23, 24, 25}
      BY <2>1
    <3>2. \A j \in {23, 24, 25} : ~WritesControl(r[j])
      BY <1>2, <1>8, Tags DEF WritesControl
    <3>3. r[22][1] = "control_reg1_wr" /\ r[22][2] = on
      BY <1>8, Tags
    <3>4. (r[k][2] \in on) = r[k][3]
      <4>1. r[k][2] \in on /\ r[k][3] = TRUE
        BY <1>1, <1>2, <1>3, <1>8, <2>1
      <4>2. (r[k][2] \in on) = TRUE
        BY <4>1
      <4>. QED
        BY <4>1, <4>2, Zenon
    <3>. QED
      BY <3>1, <3>2, <3>3, <3>4 DEF ExpectsWritten
  <2>2. CASE k = 29
    <3>1. 22 \in 1 .. k - 1 /\ \A j \in 22 + 1 .. k - 1 : j \in {23, 24, 25, 26, 27, 28}
      BY <2>2
    <3>2. \A j \in {23, 24, 25, 26, 27, 28} : ~WritesControl(r[j])
      BY <1>2, <1>8, Tags DEF WritesControl
    <3>3. r[22][1] = "control_reg1_wr" /\ r[22][2] = on
      BY <1>8, Tags
    <3>4. (r[k][2] \in on) = r[k][3]
      <4>1. r[k][2] \in on /\ r[k][3] = TRUE
        BY <1>1, <1>2, <1>3, <1>8, <2>2
      <4>2. (r[k][2] \in on) = TRUE
        BY <4>1
      <4>. QED
        BY <4>1, <4>2, Zenon
    <3>. QED
      BY <3>1, <3>2, <3>3, <3>4 DEF ExpectsWritten
  <2>3. CASE k = 30
    <3>1. 22 \in 1 .. k - 1 /\ \A j \in 22 + 1 .. k - 1 : j \in {23, 24, 25, 26, 27, 28, 29}
      BY <2>3
    <3>2. \A j \in {23, 24, 25, 26, 27, 28, 29} : ~WritesControl(r[j])
      BY <1>2, <1>8, Tags DEF WritesControl
    <3>3. r[22][1] = "control_reg1_wr" /\ r[22][2] = on
      BY <1>8, Tags
    <3>4. (r[k][2] \in on) = r[k][3]
      <4>1. r[k][2] \in on /\ r[k][3] = TRUE
        BY <1>1, <1>2, <1>3, <1>8, <2>3
      <4>2. (r[k][2] \in on) = TRUE
        BY <4>1
      <4>. QED
        BY <4>1, <4>2, Zenon
    <3>. QED
      BY <3>1, <3>2, <3>3, <3>4 DEF ExpectsWritten
  <2>4. CASE r[k][1] # "expect"
    BY <2>4 DEF ExpectsWritten
  <2>5. k \notin {26, 29, 30} => r[k][1] # "expect"
    <3>1. CASE r[k] \in Plain
      BY <3>1, PlainInstructions
    <3>2. CASE k \in {12, 8, 1, 14, 16, 18, 22, 35, 38, 45, 28}
      BY <1>8, <3>2, Tags
    <3>3. k \in {12, 8, 1, 14, 16, 18, 22, 35, 38, 45, 28}
          \/ k \in {2, 3, 4, 5, 6, 7, 9, 10, 11, 13, 15, 17}
          \/ k \in {19, 20, 21, 23, 24, 25, 27, 31, 32, 33, 34, 36}
          \/ k \in {37, 39, 40, 41, 42, 43, 44} \/ k \in {26, 29, 30}
      BY <1>9, <1>12
    <3>4. CASE k \in {2, 3, 4, 5, 6, 7, 9, 10, 11, 13, 15, 17}
      <4>1. r[k] \in Plain
        BY <1>8, <3>4 DEF Plain
      <4>. QED
        BY <4>1, PlainInstructions
    <3>5. CASE k \in {19, 20, 21, 23, 24, 25, 27, 31, 32, 33, 34, 36}
      <4>1. r[k] \in Plain
        BY <1>8, <3>5 DEF Plain
      <4>. QED
        BY <4>1, PlainInstructions
    <3>6. CASE k \in {37, 39, 40, 41, 42, 43, 44}
      <4>1. r[k] \in Plain
        BY <1>8, <3>6 DEF Plain
      <4>. QED
        BY <4>1, PlainInstructions
    <3>. QED
      BY <3>1, <3>2, <3>3, <3>4, <3>5, <3>6
  <2>. QED
    BY <2>1, <2>2, <2>3, <2>4, <2>5
<1>13. Sound(r) /\ Program(r) /\ Cold(r)
  BY <1>1, <1>6, <1>11, <1>12, ProgramSound
<1>14. TlbClears(r) /\ IcacheClears(r, 0)
  <2>1. 3 \in Ahead(r) /\ 2 \in Ahead(r) /\ 2 > 0
    BY <1>9
  <2>. QED
    BY <1>8, <2>1 DEF TlbClears, IcacheClears
<1>. QED
  BY <1>6, <1>13, <1>14

\* mmu_init(), which a kernel calls first, is right code at power on.
LEMMA MmuInitSound ==
  ASSUME PoweredOn
  PROVE  /\ Sound(mmu_init({})) /\ ~Program(mmu_init({})) /\ Ending(mmu_init({}))
         /\ Cold(mmu_init({})) /\ TlbClears(mmu_init({})) /\ IcacheClears(mmu_init({}), 0)
<1>. DEFINE xp == {"XP_pt"}
            r == <<INV_DCACHE, INV_ICACHE, INV_TLB, FLUSH_BTB, DSB, PREFETCH_FLUSH, Compiled,
                   CONTROL_REG1_WR(xp), FLUSH_BTB, DSB, PREFETCH_FLUSH>>
<1>1. r \in Code /\ mmu_init({}) = r
  <2>1. xp \in SUBSET ControlFields /\ {} \cup {"XP_pt"} = xp
    BY FieldsUsed
  <2>2. mmu_init({}) = mmu_reset \o <<Compiled>> \o SYNCX(<<CONTROL_REG1_WR(xp)>>)
    BY <2>1, Zenon DEF mmu_init, cp15_ctrl_reg1_wr
  <2>. HIDE DEF xp
  <2>. QED
    BY <2>1, <2>2, InitSpelled
<1>2. /\ Len(r) = 11 /\ r # <<>> /\ r[1] = INV_DCACHE /\ r[2] = INV_ICACHE /\ r[3] = INV_TLB
      /\ r[4] = FLUSH_BTB /\ r[5] = DSB /\ r[6] = PREFETCH_FLUSH /\ r[7] = Compiled
      /\ r[8] = CONTROL_REG1_WR(xp) /\ r[9] = FLUSH_BTB /\ r[10] = DSB /\ r[11] = PREFETCH_FLUSH
  OBVIOUS
<1>3. "MMU_enabled" \notin xp
  OBVIOUS
<1>. HIDE DEF r, xp
<1>4. Ahead(r) = 1 .. 11
  BY <1>2 DEF Ahead
<1>5. /\ r[8][1] = "control_reg1_wr" /\ r[8][2] = xp /\ ~TurnsOn(r[8]) /\ r[1][1] = "inv_dcache"
  BY <1>2, <1>3, Tags DEF TurnsOn
<1>6. \A k \in Ahead(r) : k = 1 \/ k = 8 \/ (k \notin {1, 8} /\ r[k] \in Plain)
  <2>1. \A k \in Ahead(r) : k \in {1, 8} \/ k \in {2, 3, 4, 5, 6, 7, 9, 10, 11}
    BY <1>4
  <2>2. \A k \in {2, 3, 4, 5, 6, 7, 9, 10, 11} : k \notin {1, 8} /\ r[k] \in Plain
    BY <1>2 DEF Plain
  <2>. QED
    BY <2>1, <2>2
<1>7. ASSUME NEW k \in Ahead(r)
      PROVE  /\ ~TurnsOn(r[k]) /\ ~StoresTable(r[k]) /\ ~Checks(r[k]) /\ r[k] # Reboot
             /\ r[k][1] \notin {"asid_set", "ttbr0_set"} /\ (WritesControl(r[k]) => k = 8)
             /\ (r[k] = INV_DCACHE => k = 1)
  <2>1. CASE r[k] \in Plain
    BY <2>1, PlainInstructions
  <2>2. CASE k = 1
    BY <1>5, <2>2, Tags DEF TurnsOn, StoresTable, Checks, WritesControl
  <2>3. CASE k = 8
    BY <1>5, <2>3, Tags DEF TurnsOn, StoresTable, Checks, WritesControl
  <2>. QED
    BY <1>6, <2>1, <2>2, <2>3
<1>8. ASSUME NEW k \in Ahead(r) PROVE Early(r, k)
  <2>1. \A j \in 1 .. k - 1 : j \in Ahead(r)
    BY <1>4, <1>8
  <2>. QED
    BY <1>7, <2>1 DEF Early, PoweredOn, MmuOn
<1>9. ~Program(r)
  <2>1. Len(r) \in Ahead(r)
    BY <1>2, <1>4
  <2>. QED
    BY <1>7, <2>1 DEF Program
<1>10. ColdStart(r)
  <2>1. 1 .. 1 - 1 = {}
    OBVIOUS
  <2>. QED
    BY <1>7, <1>8, <2>1 DEF ColdStart, PoweredOn
<1>11. Sound(r)
  <2>1. SwitchingCode(r)
    BY <1>7 DEF SwitchingCode, TableAfterAsid, AsidAfterTable
  <2>2. CachingCode(r)
    BY <1>8, <1>10 DEF CachingCode, CacheCleaned
  <2>3. WalkingCode(r)
    BY <1>7 DEF WalkingCode, StoresSettle, DrainedBefore
  <2>4. CheckingCode(r) /\ FetchingCode(r)
    BY <1>7, <1>8, <1>9 DEF CheckingCode, FetchingCode
  <2>. QED
    BY <1>1, <2>1, <2>2, <2>3, <2>4 DEF Sound
<1>12. Ending(r)
  <2>1. 11 - 1 = 10 /\ 11 - 2 = 9
    OBVIOUS
  <2>2. EndsInSync(r)
    BY <1>2, <2>1 DEF EndsInSync
  <2>. QED
    BY <1>2, <2>2 DEF Ending
<1>13. Cold(r) /\ TlbClears(r) /\ IcacheClears(r, 0)
  <2>1. 1 \in Ahead(r) /\ 2 \in Ahead(r) /\ 3 \in Ahead(r) /\ 2 > 0
    BY <1>4
  <2>. QED
    BY <1>2, <2>1 DEF Cold, TlbClears, IcacheClears
<1>. QED
  BY <1>1, <1>9, <1>11, <1>12, <1>13

\* The invariant holds at power on, for the kernel and for both programs.
LEMMA InvAtPowerOn == Init => CpInv
<1>. SUFFICES ASSUME Init PROVE CpInv
  OBVIOUS
<1>1. /\ ctl = {} /\ asid = <<0>> /\ ttbr0 = <<0>> /\ stale = {"btb", "pf", "icache"}
      /\ mem = [c \in Cells |-> 0] /\ wb = [c \in Cells |-> None] /\ last = [c \in Cells |-> 0]
      /\ windowed = FALSE /\ panicked = FALSE
  BY DEF Init
<1>2. /\ dc \in [Cells -> {NoLine, [v |-> Junk, dirty |-> TRUE]}]
      /\ tlb \in {{}, {[asid |-> a, table |-> a, v |-> Junk] : a \in Asids}}
  BY DEF Init
<1>3. 0 \notin Asids /\ MaxStores \in Nat /\ None = -2 /\ Junk = -1
  BY Cp15Assumption DEF None, Junk
<1>4. TypeOK
  <2>1. [v |-> Junk, dirty |-> TRUE] \in Lines
    BY <1>3 DEF Lines
  <2>2. dc \in [Cells -> Lines \cup {NoLine}]
    BY <1>2, <2>1
  <2>3. tlb \subseteq [asid : {0} \cup Asids, table : Asids, v : -1 .. MaxStores]
    BY <1>2, <1>3
  <2>4. 0 \in 0 .. MaxStores
    BY <1>3
  <2>5. ctl \subseteq {control_reg1[i][1] : i \in DOMAIN control_reg1}
    BY <1>1
  <2>6. mem \in [Cells -> 0 .. MaxStores] /\ last \in [Cells -> 0 .. MaxStores]
    BY <1>1, <2>4
  <2>7. wb \in [Cells -> {None} \cup 0 .. MaxStores]
    BY <1>1
  <2>8. stale \subseteq {"btb", "pf", "icache", "pend"}
    BY <1>1
  <2>9. <<0>> \in Seq({0} \cup Asids)
    OBVIOUS
  <2>10. asid \in Seq({0} \cup Asids) /\ ttbr0 \in Seq({0} \cup Asids)
    BY <1>1, <2>9, Zenon
  <2>11. windowed \in BOOLEAN /\ panicked \in BOOLEAN
    BY <1>1
  <2>. QED
    BY <2>2, <2>3, <2>5, <2>6, <2>7, <2>8, <2>10, <2>11, Zenon DEF TypeOK
<1>5. PoweredOn /\ ~MmuOn
  BY <1>1 DEF PoweredOn, Behind, MmuOn
<1>6. Matched /\ Owned
  <2>1. Matched
    BY <1>1 DEF Matched
  <2>2. Owned
    BY <1>2 DEF Owned
  <2>. QED
    BY <2>1, <2>2
<1>7. /\ Sound(todo) /\ Cold(todo) /\ TlbClears(todo) /\ IcacheClears(todo, 0) /\ Ending(todo)
  <2>1. CASE todo = mmu_init({})
    BY <1>5, <2>1, MmuInitSound
  <2>2. ASSUME NEW a \in Asids, todo = part1(a)
        PROVE  Sound(todo) /\ Cold(todo) /\ TlbClears(todo) /\ IcacheClears(todo, 0) /\ Ending(todo)
    BY <1>5, <2>2, Part1Sound DEF Ending, Program
  <2>3. ASSUME NEW a \in Asids, todo = int_part1(a)
        PROVE  Sound(todo) /\ Cold(todo) /\ TlbClears(todo) /\ IcacheClears(todo, 0) /\ Ending(todo)
    BY <1>5, <2>3, IntPart1Sound DEF Ending, Program
  <2>. QED
    BY <2>1, <2>2, <2>3 DEF Init
<1>8. Caching
  BY <1>7 DEF Caching
<1>9. Walking
  BY <1>5, <1>7 DEF Walking
<1>10. Checking
  <2>1. \A c \in Cells : Behind(c) = last[c]
    BY <1>5 DEF PoweredOn
  <2>. QED
    BY <1>1, <1>7, <2>1 DEF Checking
<1>11. Fetching
  BY <1>7 DEF Fetching, Ending
<1>. QED
  BY <1>1, <1>4, <1>6, <1>7, <1>8, <1>9, <1>10, <1>11 DEF CpInv

-----------------------------------------------------------------------------
\* Whatever the routines are interrupted by in the hardware, and in whatever order the
\* kernel calls them, the code left and the state stay right for each other (vm-asm.S; mmu.c).
THEOREM CpAlwaysInv == Spec => []CpInv
<1>1. CpInv /\ [Next]_vars => CpInv'
  <2>. SUFFICES ASSUME CpInv, [Next]_vars PROVE CpInv'
    OBVIOUS
  <2>1. CASE Routine
    BY <2>1, RoutineKeepsInv
  <2>2. CASE Hardware
    BY <2>2, HardwareKeepsInv
  <2>3. CASE Kernel
    BY <2>3, KernelKeepsInv
  <2>4. CASE UNCHANGED vars
    <3>1. /\ UNCHANGED <<mem, wb, dc, tlb, ctl, stale, asid, ttbr0>>
          /\ UNCHANGED <<todo, last, windowed, panicked>>
      BY <2>4 DEF vars, hw, cpu, hist
    <3>2. TypeOK' /\ ~panicked' /\ asid' # <<>> /\ ttbr0' # <<>> /\ Matched' /\ Owned'
      BY <3>1 DEF CpInv, TypeOK, Matched, Owned
    <3>3. Sound(todo)' = Sound(todo)
      BY <3>1 DEF Sound, SwitchingCode, TableAfterAsid, AsidAfterTable, CachingCode, ColdStart,
         CacheCleaned, CleanBefore, CleanAfter, CacheEmpty, Untouched, WalkingCode, StoresSettle,
         DrainedBefore, CheckingCode, ExpectsWritten, FetchingCode, IcacheClears, Early, Behind,
         MmuOn, Ahead, Program, Checks, WritesControl, TurnsOn, KeepsCache, Touches, StoresTable
    <3>4. Caching' = Caching
      BY <3>1 DEF Caching, Cold, LinesRight, Right, Behind, DcacheUsed, CacheEmpty, CleanAfter, Ahead
    <3>5. Walking' = Walking
      BY <3>1 DEF Walking, StoreUnderway, Settled, TlbTrue, TlbClears, MmuOn, CacheEmpty, Ahead
    <3>6. Checking' = Checking
      BY <3>1 DEF Checking, Program, Cold, CacheEmpty, Behind, Ahead
    <3>7. Fetching' = Fetching
      BY <3>1 DEF Fetching, MmuOn, IcacheClears, Ending, EndsInSync, EndsInSwitch, Program, Ahead
    <3>. QED
      BY <3>2, <3>3, <3>4, <3>5, <3>6, <3>7 DEF CpInv
  <2>. QED
    BY <2>1, <2>2, <2>3, <2>4 DEF Next, Rebooted
<1>. QED
  BY <1>1, InvAtPowerOn, PTL DEF Spec

\* With the MMU on, no entry of the TLB is another environment's under an ASID in
\* use: cp15_set_procid_ttbr0() of vm-asm.S never lets a walk pair the two.
THEOREM AsidAlwaysOwnsEntries == Spec => []AsidOwnsEntries
<1>1. CpInv => AsidOwnsEntries
  BY DEF CpInv, Owned, AsidOwnsEntries
<1>. QED
  BY <1>1, CpAlwaysInv, PTL

\* Whatever the caches and the MMU are switched to by the routines of mmu.c, a load
\* made between routines gets what was stored last.
THEOREM LoadsAlwaysSeeLastStore == Spec => []LoadsSeeLastStore
<1>1. CpInv => LoadsSeeLastStore
  <2>. SUFFICES ASSUME CpInv, todo = <<>>, NEW c \in Cells, ~(c = 0 /\ windowed) PROVE View(c) = last[c]
    BY DEF LoadsSeeLastStore
  <2>1. LinesRight /\ (DcacheUsed \/ CacheEmpty) /\ TypeOK
    BY AtRest DEF CpInv
  <2>2. /\ IF dc[c].dirty THEN dc[c].v = last[c] ELSE Behind(c) = last[c]
        /\ (DcacheUsed /\ dc[c] # NoLine => dc[c].v = last[c])
    BY <2>1 DEF LinesRight, Right
  <2>3. CASE DcacheUsed /\ dc[c] # NoLine
    BY <2>2, <2>3 DEF View
  <2>4. CASE ~(DcacheUsed /\ dc[c] # NoLine)
    <3>1. dc[c] = NoLine
      BY <2>1, <2>4 DEF CacheEmpty
    <3>2. Behind(c) = last[c]
      BY <2>1, <2>2, <3>1, NumbersAndLines
    <3>. QED
      BY <2>4, <3>2 DEF View, Behind
  <2>. QED
    BY <2>3, <2>4
<1>. QED
  BY <1>1, CpAlwaysInv, PTL

\* With the MMU on and no routine running, memory and the TLB have every page table
\* as it was stored last: STORE_PTE of vm-asm.S cleans and invalidates in an order
\* that leaves nothing of the old table.
THEOREM WalksAlwaysSeeTables == Spec => []WalksSeeTables
<1>1. CpInv => WalksSeeTables
  <2>. SUFFICES ASSUME CpInv, todo = <<>>, MmuOn
                PROVE  (\A a \in Asids : mem[a] = last[a]) /\ \A e \in tlb : e.v = last[e.table]
    BY DEF WalksSeeTables
  <2>. QED
    BY AtRest DEF Settled, TlbTrue
<1>. QED
  BY <1>1, CpAlwaysInv, PTL

\* The routines return with nothing outstanding, and the two programs find the MMU
\* and their values as they left them, with a valid control register.
THEOREM RoutinesAlwaysSound == Spec => []RoutinesSound
<1>1. CpInv => RoutinesSound
  <2>. SUFFICES ASSUME CpInv PROVE RoutinesSound
    OBVIOUS
  <2>1. TypeOK /\ ProgramsSucceed
    BY DEF CpInv, ProgramsSucceed
  <2>2. SyncedAtReturn
    BY AtRest DEF SyncedAtReturn
  <2>3. ControlValid
    <3>. SUFFICES ASSUME Program(todo)
                  PROVE  /\ control_reg1_valid(ControlReg(control_reg1))
                         /\ lab12_control_reg1_valid(ControlReg(lab12_control_reg1))
      BY DEF ControlValid, Program
    <3>. DEFINE Reg == ControlReg(control_reg1)
    <3>1. ctl \subseteq ProgramFields
      BY DEF CpInv, Checking
    <3>2. ASSUME NEW f \in ControlFields
          PROVE  Reg[f] = IF f = "_unused1" THEN 7 ELSE IF f \in ctl \cup {"_dt", "_it"} THEN 1 ELSE 0
      BY DEF ControlReg, ControlFields
    <3>. HIDE DEF Reg
    <3>3. Reg["_unused1"] = 7
      BY <3>2, FieldNames
    <3>4. Reg["_dt"] = 1 /\ Reg["_it"] = 1
      BY <3>2, FieldNames
    <3>5. ASSUME NEW f \in {"_sbz0", "_sbz1", "_st", "L2_enabled", "I_icache_enable", "C_unified_enable"}
          PROVE  Reg[f] = 0
      <4>1. f \in ControlFields
        BY FieldNames
      <4>2. f \notin ctl /\ f \notin {"_unused1", "_dt", "_it"}
        BY <3>1 DEF ProgramFields
      <4>. QED
        BY <3>2, <4>1, <4>2
    <3>6. control_reg1_valid(Reg)
      BY <3>3, <3>4, <3>5 DEF control_reg1_valid
    <3>. QED
      BY <3>6 DEF Reg, lab12_control_reg1, lab12_control_reg1_valid
  <2>. QED
    BY <2>1, <2>2, <2>3 DEF RoutinesSound
<1>. QED
  BY <1>1, CpAlwaysInv, PTL
=============================================================================
