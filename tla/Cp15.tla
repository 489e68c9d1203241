-------------------------------- MODULE Cp15 --------------------------------
(***************************************************************************)
(* The routines of labs/lab15-syscall/code/vm-asm.S and mmu.c that switch  *)
(* the MMU and the caches of the ARM1176, as the sequences of coprocessor  *)
(* instructions that they are, over the hardware, which is external and    *)
(* acts between any two of them: the store buffer drains, lines are        *)
(* fetched and written back, the TLB walks the page tables.                *)
(*                                                                         *)
(* Memory has one data word, cell 0, which is on the stack, and for each   *)
(* environment one descriptor of its page table, the cell named as its     *)
(* ASID.  The value of a cell is the number of stores made to it; a        *)
(* descriptor of value 0 maps nothing.                                     *)
(***************************************************************************)
EXTENDS Cp15Layout, FiniteSets

CONSTANTS
  Asids,        (* the environments: each owns the page table of its ASID  *)
  MaxStores     (* bound: stores to a cell                                 *)

ASSUME Cp15Assumption == 0 \notin Asids /\ MaxStores \in Nat

Cells == {0} \cup Asids
Junk == -1                          \* what a cold cache holds
None == -2
NoLine == [v |-> None, dirty |-> FALSE]
Lines == [v : -1 .. MaxStores, dirty : BOOLEAN]

VARIABLES
  ctl,          (* the fields of the control register that are 1           *)
  mem,          (* cell -> value in memory                                 *)
  wb,           (* cell -> value in the store buffer, or None              *)
  dc,           (* cell -> its line in the data cache, or NoLine           *)
  tlb,          (* entries [asid, table, v]                                *)
  stale,        (* what instruction fetch may still use from before a      *)
                (* change, "btb", "pf" and "icache"; "pend": an operation  *)
                (* that a DSB has not waited for                           *)
  asid, ttbr0,  (* the values that may be in effect, the latest last: more *)
                (* than one from a write until the prefetch flush          *)
  todo,         (* the instructions left of the routine running            *)
  last,         (* cell -> value stored last (history)                     *)
  windowed,     (* a stack store went past a dirty line (history)          *)
  panicked

hw == <<mem, wb, dc, tlb>>
cpu == <<ctl, stale, asid, ttbr0>>
hist == <<last, windowed, panicked>>
vars == <<hw, cpu, todo, hist>>

MmuOn == "MMU_enabled" \in ctl
DcacheUsed == {"MMU_enabled", "C_unified_enable"} \subseteq ctl

\* What a load gets.
View(c) == IF DcacheUsed /\ dc[c] # NoLine THEN dc[c].v
           ELSE IF wb[c] # None THEN wb[c] ELSE mem[c]

-----------------------------------------------------------------------------
(***************************************************************************)
(* The instructions: arm-coprocessor-insts.h.                              *)
(***************************************************************************)
DSB == <<"dsb">>
PREFETCH_FLUSH == <<"prefetch_flush">>
FLUSH_BTB == <<"flush_btb">>
INV_ICACHE == <<"inv_icache">>
CLEAN_INV_DCACHE == <<"clean_inv_dcache">>
INV_DCACHE == <<"inv_dcache">>
INV_TLB == <<"inv_tlb">>
CONTROL_REG1_WR(c) == <<"control_reg1_wr", c>>
ASID_SET(a) == <<"asid_set", a>>
TTBR0_SET(t) == <<"ttbr0_set", t>>
Bic(n) == <<"bic", n>>          \* read the control register, clear bit n, write
Str(c) == <<"str", c>>
Compiled == <<"compiled">>      \* between two calls that C code makes
Get32 == <<"get32">>            \* load the data word, assert what it should be
Reboot == <<"reboot">>
Expect(field, on) == <<"expect", field, on>>   \* read the control register

(***************************************************************************)
(* The routines: vm-asm.S.                                                 *)
(***************************************************************************)
CP15_BARRIER == <<DSB, PREFETCH_FLUSH>>
CP15_SYNC == <<FLUSH_BTB>> \o CP15_BARRIER
SYNCX(insts) == insts \o CP15_SYNC

cp15_ctrl_reg1_wr(c) == SYNCX(<<CONTROL_REG1_WR(c)>>)
cp15_dcache_clean_inv == SYNCX(<<CLEAN_INV_DCACHE>>)
cp15_icache_inv == SYNCX(<<INV_ICACHE>>)
cp15_tlbs_inv == SYNCX(<<INV_TLB>>)

STORE_PTE_tlb_first(c) ==
  <<Str(c), INV_TLB, CLEAN_INV_DCACHE, DSB, FLUSH_BTB, DSB, PREFETCH_FLUSH>>
STORE_PTE(c) == <<Str(c), CLEAN_INV_DCACHE, DSB, INV_TLB, FLUSH_BTB, DSB, PREFETCH_FLUSH>>
mmu_sync_pte_mod(c) == STORE_PTE(c)

\* TTBR1 is written too, with 0; nothing uses it.
cp15_set_procid_ttbr0_hasty(a) == <<TTBR0_SET(a), PREFETCH_FLUSH, ASID_SET(a), DSB>>
cp15_set_procid_ttbr0(a) ==
  <<ASID_SET(0), PREFETCH_FLUSH, TTBR0_SET(a), PREFETCH_FLUSH, ASID_SET(a), DSB>>

MMU_INIT == <<INV_DCACHE, INV_ICACHE, INV_TLB>>
mmu_reset == SYNCX(MMU_INIT)

mmu_enable_set_asm_unflushed(c) == <<DSB, CONTROL_REG1_WR(c), DSB, PREFETCH_FLUSH>>
mmu_enable_set_asm(c) == <<DSB, CONTROL_REG1_WR(c), FLUSH_BTB, DSB, PREFETCH_FLUSH>>

mmu_disable_set_asm_uncleaned(c) ==
  <<DSB, Bic(2)>> \o CP15_BARRIER \o <<CONTROL_REG1_WR(c)>> \o CP15_BARRIER
  \o <<INV_ICACHE, FLUSH_BTB, DSB, PREFETCH_FLUSH>>
mmu_disable_set_asm(c) ==
  <<DSB, CLEAN_INV_DCACHE>> \o CP15_BARRIER \o <<Bic(2)>> \o CP15_BARRIER
  \o <<CONTROL_REG1_WR(c)>> \o CP15_BARRIER
  \o <<INV_ICACHE, FLUSH_BTB, DSB, PREFETCH_FLUSH>>

(***************************************************************************)
(* The routines: mmu.c.  Each reads the control register when it is        *)
(* called; on and off are the fields that it sets and clears.              *)
(***************************************************************************)
Caches == {"C_unified_enable", "I_icache_enable", "W_write_buf", "Z_branch_pred",
           "L2_enabled"}

mmu_all_cache_on == cp15_ctrl_reg1_wr(ctl \cup Caches) \o <<Compiled>> \o CP15_SYNC

mmu_all_cache_off ==
  cp15_ctrl_reg1_wr(ctl \ Caches) \o <<Compiled>> \o CP15_BARRIER \o <<Compiled>>
  \o cp15_dcache_clean_inv \o <<Compiled>> \o cp15_icache_inv \o <<Compiled>> \o CP15_SYNC

mmu_init(c) == mmu_reset \o <<Compiled>> \o cp15_ctrl_reg1_wr(c \cup {"XP_pt"})

mmu_enable_set(c) == mmu_enable_set_asm(c)
mmu_enable(c) == mmu_enable_set(c \cup {"MMU_enabled"})
mmu_disable(c) == mmu_disable_set_asm(c \ {"MMU_enabled", "C_unified_enable"})

(***************************************************************************)
(* Two programs: part1() of lab12, whose our_*() routines are external and *)
(* taken to be those above, and int_part1() of lab15, with env_switch_to() *)
(* and without the system call, which touches none of this.                *)
(***************************************************************************)
OurMmuEnable(c) == MMU_INIT \o mmu_enable(c)   \* "have to flush I/D cache and TLB"

part1(a) ==
  LET xp == {"XP_pt"} IN
  <<Str(a), CONTROL_REG1_WR(xp), Expect("XP_pt", TRUE), Expect("MMU_enabled", FALSE), DSB>>
  \o cp15_set_procid_ttbr0(a) \o <<Compiled>> \o OurMmuEnable(xp)
  \o <<Expect("MMU_enabled", TRUE), Str(0), Get32, Str(0), Get32>>
  \o mmu_disable(xp \cup {"MMU_enabled"})
  \o <<Expect("MMU_enabled", FALSE), Get32, Reboot>>

int_part1(a) ==
  LET xp == {"XP_pt"} IN
  mmu_init({}) \o <<Str(a), Compiled>> \o cp15_set_procid_ttbr0(a) \o <<Compiled>>
  \o mmu_enable(xp)
  \o <<Expect("MMU_enabled", TRUE), Compiled, Get32>>
  \o [i \in 1 .. 2 |-> Expect(<<"MMU_enabled", "XP_pt">>[i], TRUE)]
  \o mmu_disable(xp \cup {"MMU_enabled"}) \o <<Reboot>>

-----------------------------------------------------------------------------
(***************************************************************************)
(* What the instructions do.                                               *)
(***************************************************************************)
Inst(name) == ~panicked /\ todo # <<>> /\ Head(todo)[1] = name /\ todo' = Tail(todo)
Operand == Head(todo)[2]

\* Everything outstanding completes.
Dsb ==
  /\ Inst("dsb")
  /\ mem' = [c \in Cells |-> IF wb[c] = None THEN mem[c] ELSE wb[c]]
  /\ wb' = [c \in Cells |-> None]
  /\ stale' = stale \ {"pend"}
  /\ UNCHANGED <<dc, tlb, ctl, asid, ttbr0, hist>>

\* Prefetching before an operation completed fetches what it would have.
PrefetchFlush ==
  /\ Inst("prefetch_flush")
  /\ stale' = IF "pend" \in stale THEN stale ELSE stale \ {"pf"}
  /\ asid' = <<asid[Len(asid)]>> /\ ttbr0' = <<ttbr0[Len(ttbr0)]>>
  /\ UNCHANGED <<hw, ctl, hist>>

FlushBtb ==
  /\ Inst("flush_btb")
  /\ stale' = stale \ {"btb"}
  /\ UNCHANGED <<hw, ctl, asid, ttbr0, hist>>

InvIcache ==
  /\ Inst("inv_icache")
  /\ stale' = (stale \ {"icache"}) \cup {"pf", "pend"}
  /\ UNCHANGED <<hw, ctl, asid, ttbr0, hist>>

CleanInvDcache ==
  /\ Inst("clean_inv_dcache")
  /\ wb' = [c \in Cells |-> IF dc[c].dirty THEN dc[c].v ELSE wb[c]]
  /\ dc' = [c \in Cells |-> NoLine]
  /\ stale' = stale \cup {"pend"}
  /\ UNCHANGED <<mem, tlb, ctl, asid, ttbr0, hist>>

InvDcache ==
  /\ Inst("inv_dcache")
  /\ dc' = [c \in Cells |-> NoLine]
  /\ stale' = stale \cup {"pend"}
  /\ UNCHANGED <<mem, wb, tlb, ctl, asid, ttbr0, hist>>

InvTlb ==
  /\ Inst("inv_tlb")
  /\ tlb' = {}
  /\ stale' = stale \cup {"btb", "pf", "pend"}
  /\ UNCHANGED <<mem, wb, dc, ctl, asid, ttbr0, hist>>

\* Switching the MMU changes what every address means.
SetControl(c) ==
  /\ ctl' = c
  /\ stale' = stale \cup {"pend", "pf"}
                \cup (IF MmuOn # ("MMU_enabled" \in c) THEN {"btb", "icache"} ELSE {})
  /\ UNCHANGED <<hw, asid, ttbr0, hist>>

ControlReg1Wr == Inst("control_reg1_wr") /\ SetControl(Operand)
ClearBit == Inst("bic") /\ SetControl(ctl \ {FieldAt(control_reg1, Operand)})

AsidSet ==
  /\ Inst("asid_set")
  /\ asid' = Append(asid, Operand)
  /\ stale' = stale \cup {"btb", "pf", "pend"}
  /\ UNCHANGED <<hw, ctl, ttbr0, hist>>

Ttbr0Set ==
  /\ Inst("ttbr0_set")
  /\ ttbr0' = Append(ttbr0, Operand)
  /\ stale' = stale \cup {"btb", "pf", "pend"}
  /\ UNCHANGED <<hw, ctl, asid, hist>>

\* A store goes into the line if there is one, and may make one; otherwise it
\* goes to the store buffer, past a line that the cache, now off, still holds.
Stored(c) ==
  LET v == last[c] + 1 IN
  /\ last[c] < MaxStores
  /\ last' = [last EXCEPT ![c] = v]
  /\ \/ /\ DcacheUsed
        /\ dc' = [dc EXCEPT ![c] = [v |-> v, dirty |-> TRUE]]
        /\ windowed' = (windowed /\ c # 0) /\ UNCHANGED wb
     \/ /\ ~DcacheUsed \/ dc[c] = NoLine
        /\ wb' = [wb EXCEPT ![c] = v]
        /\ windowed' = IF c = 0 THEN dc[c].dirty ELSE windowed
        /\ UNCHANGED dc
  /\ UNCHANGED <<mem, tlb, cpu, panicked>>

StrPte == Inst("str") /\ Stored(Operand)

RunCompiled ==
  /\ Inst("compiled")
  /\ Stored(0) \/ UNCHANGED <<hw, cpu, hist>>

RunAsserts ==
  /\ \/ Inst("get32") /\ panicked' = (View(0) # last[0])
     \/ Inst("expect") /\ panicked' = ((Operand \in ctl) # Head(todo)[3])
  /\ UNCHANGED <<hw, cpu, last, windowed>>

Routine ==
  \/ Dsb \/ PrefetchFlush \/ FlushBtb \/ InvIcache \/ CleanInvDcache \/ InvDcache \/ InvTlb
  \/ ControlReg1Wr \/ ClearBit \/ AsidSet \/ Ttbr0Set \/ StrPte \/ RunCompiled \/ RunAsserts

(***************************************************************************)
(* What the hardware does by itself.                                       *)
(***************************************************************************)
Drain(c) ==
  /\ wb[c] # None
  /\ mem' = [mem EXCEPT ![c] = wb[c]] /\ wb' = [wb EXCEPT ![c] = None]
  /\ UNCHANGED <<dc, tlb, cpu, todo, hist>>

\* Only loads and stores fetch lines, as mmu_disable_set_asm() counts on ("will
\* be clean since we have no explicit loads or stores").
Fill(c) ==
  /\ todo # <<>> => Head(todo) \in {Compiled, Get32}
  /\ DcacheUsed /\ dc[c] = NoLine
  /\ dc' = [dc EXCEPT ![c] = [v |-> View(c), dirty |-> FALSE]]
  /\ UNCHANGED <<mem, wb, tlb, cpu, todo, hist>>

Evict(c) ==
  /\ DcacheUsed /\ dc[c] # NoLine
  /\ wb' = IF dc[c].dirty THEN [wb EXCEPT ![c] = dc[c].v] ELSE wb
  /\ dc' = [dc EXCEPT ![c] = NoLine]
  /\ UNCHANGED <<mem, tlb, cpu, todo, hist>>

\* The walk reads memory, not the data cache.
Walk(i, j) ==
  /\ MmuOn /\ ttbr0[j] # 0 /\ mem[ttbr0[j]] # 0
  /\ tlb' = tlb \cup {[asid |-> asid[i], table |-> ttbr0[j], v |-> mem[ttbr0[j]]]}
  /\ UNCHANGED <<mem, wb, dc, cpu, todo, hist>>

Hardware ==
  \/ \E c \in Cells : Drain(c) \/ Fill(c) \/ Evict(c)
  \/ \E i \in DOMAIN asid, j \in DOMAIN ttbr0 : Walk(i, j)

(***************************************************************************)
(* A kernel that calls the routines in any order in which their asserts    *)
(* hold, changes descriptors as mmu.h asks and stores to its stack.        *)
(***************************************************************************)
Call(insts) == todo = <<>> /\ ~panicked /\ todo' = insts /\ UNCHANGED <<hw, cpu, hist>>

CallCaches == Call(mmu_all_cache_on) \/ Call(mmu_all_cache_off)
CallMaintenance ==
  \E r \in {CP15_SYNC, cp15_dcache_clean_inv, cp15_icache_inv, cp15_tlbs_inv} :
    Call(r)
CallEnable == ~MmuOn /\ ttbr0 # <<0>> /\ Call(mmu_enable(ctl))
CallDisable == MmuOn /\ Call(mmu_disable(ctl))
CallSwitch == \E a \in Asids : Call(cp15_set_procid_ttbr0(a))
CallSyncPte == \E a \in Asids : 0 < last[a] /\ last[a] < MaxStores /\ Call(mmu_sync_pte_mod(a))

\* mmu_map_section(), which demands that the descriptor maps nothing.
MapSection == \E a \in Asids : ~MmuOn /\ todo = <<>> /\ View(a) = 0 /\ Stored(a) /\ UNCHANGED todo
StackStore == todo = <<>> /\ Stored(0) /\ UNCHANGED todo

Rebooted == todo = <<Reboot>> /\ UNCHANGED vars

Kernel ==
  \/ CallCaches \/ CallMaintenance \/ CallEnable \/ CallDisable \/ CallSwitch \/ CallSyncPte
  \/ MapSection \/ StackStore

\* Power on: the caches hold junk.
Init ==
  /\ ctl = {} /\ asid = <<0>> /\ ttbr0 = <<0>>
  /\ mem = [c \in Cells |-> 0] /\ wb = [c \in Cells |-> None]
  /\ dc \in [Cells -> {NoLine, [v |-> Junk, dirty |-> TRUE]}]
  /\ tlb \in {{}, {[asid |-> a, table |-> a, v |-> Junk] : a \in Asids}}
  /\ stale = {"btb", "pf", "icache"}
  /\ todo \in {mmu_init({})} \cup UNION {{part1(a), int_part1(a)} : a \in Asids}
  /\ last = [c \in Cells |-> 0] /\ windowed = FALSE /\ panicked = FALSE

Next == Routine \/ Hardware \/ Kernel \/ Rebooted
Spec == Init /\ [][Next]_vars

-----------------------------------------------------------------------------
\* The values of the variables; what a cold data cache holds never reaches the
\* store buffer or memory.
TypeOK ==
  /\ ctl \subseteq {control_reg1[i][1] : i \in DOMAIN control_reg1}
  /\ mem \in [Cells -> 0 .. MaxStores] /\ wb \in [Cells -> {None} \cup 0 .. MaxStores]
  /\ dc \in [Cells -> Lines \cup {NoLine}]
  /\ tlb \subseteq [asid : {0} \cup Asids, table : Asids, v : -1 .. MaxStores]
  /\ stale \subseteq {"btb", "pf", "icache", "pend"}
  /\ asid \in Seq({0} \cup Asids) /\ ttbr0 \in Seq({0} \cup Asids)
  /\ last \in [Cells -> 0 .. MaxStores]
  /\ windowed \in BOOLEAN /\ panicked \in BOOLEAN

\* part1() and int_part1() find the MMU as they switched it and the values that
\* they stored.
ProgramsSucceed == ~panicked

\* When no routine runs, nothing is outstanding and no instruction is fetched
\* through a branch target or a prefetch buffer from before the last change of
\* the translation, except after a switch of address spaces, which leaves that
\* to the next routine; the instruction cache is clean when the MMU is off.
SyncedAtReturn ==
  todo = <<>> /\ Len(asid) = 1 =>
    stale \subseteq IF MmuOn THEN {"icache"} ELSE {}

\* The programs leave the caches off ("we don't enable cache yet", cp15-arm.c:62) and
\* the bits that should be 0 or 1 as the ARM has them at reset.
ControlReg(layout) ==
  [f \in Fields(layout) |->
     IF f = "_unused1" THEN 7 ELSE IF f \in ctl \cup {"_dt", "_it"} THEN 1 ELSE 0]
ControlValid ==
  todo # <<>> /\ todo[Len(todo)] = Reboot =>
    /\ control_reg1_valid(ControlReg(control_reg1))
    /\ lab12_control_reg1_valid(ControlReg(lab12_control_reg1))

\* Programs that use the routines as lab 12 and lab 15 do run through, and every
\* routine returns with nothing outstanding (vm-asm.S; mmu.c:1-110).
RoutinesSound == TypeOK /\ ProgramsSucceed /\ ControlValid /\ SyncedAtReturn

\* When no routine runs, a load gets what was stored last, cache and MMU on or
\* off, except on the stack after mmu_all_cache_off() let compiled code store
\* past a dirty line.
LoadsSeeLastStore ==
  todo = <<>> => \A c \in Cells : (c = 0 /\ windowed) \/ View(c) = last[c]

\* When no routine runs and the MMU is on, the page tables in memory and in the
\* TLB are as last stored.
WalksSeeTables ==
  todo = <<>> /\ MmuOn =>
    /\ \A a \in Asids : mem[a] = last[a]
    /\ \A e \in tlb : e.v = last[e.table]

\* With the MMU on, the TLB never holds another environment's translation under
\* an ASID in use, not even in the middle of a switch.
AsidOwnsEntries ==
  MmuOn => \A e \in tlb : e.asid \in {0, e.table}
=============================================================================
