------------------------------ MODULE AddrSpace ------------------------------
(***************************************************************************)
(* Address spaces of labs/lab15-syscall/code: the environments of driver.c *)
(* with the id pools of bvec.c, the section page tables of mmu.c, the      *)
(* registers that vm-asm.S writes, and the TLB of the ARM1176, which is    *)
(* external: it may keep any translation it has walked for, and drops them *)
(* when it likes.                                                          *)
(*                                                                         *)
(* Page tables come from the heap of Kmalloc, the variables of which are   *)
(* this module's first four; env_free() does not give them back.           *)
(***************************************************************************)
EXTENDS Integers, Sequences, FiniteSets

CONSTANTS
  WordBits, AddrMod, HeapBound,   (* see Kmalloc                           *)
  HeapStart,    (* the heap pointer when env_init() has made the pools     *)
  PtBytes,      (* bytes in a page table, and its alignment: 1 << 14       *)
  MAX_ENV,      (* environments: 8 in the code                             *)
  DomUb, AsidUb,(* domains 1 .. DomUb - 1, asids 1 .. AsidUb - 1: 16, 64   *)
  PidMod,       (* pids that fit into the process id register: 2^24        *)
  MaxPid,       (* bound: environments allocated                           *)
  VAs, PAs      (* addresses that callers map, and map to                  *)

NoId == -1      \* what bvec_alloc() returns when nothing is left
Slots == 0 .. MAX_ENV - 1
Doms  == 1 .. DomUb - 1
Asids == 1 .. AsidUb - 1
AllDomains == 0 .. 15
AsidMod == 256  \* asids that fit into the process id register
Section == 1048576

ASSUME AddrSpaceAssumption ==
  /\ MAX_ENV \in Nat \ {0}
  /\ DomUb \in Nat /\ MAX_ENV < DomUb /\ DomUb <= 16
  /\ AsidUb \in Nat /\ MAX_ENV < AsidUb /\ AsidUb <= AsidMod
  /\ PidMod \in Nat \ {0} /\ MaxPid \in Nat
  /\ VAs \subseteq Nat /\ PAs \subseteq Nat

VARIABLES
  heap, blocks, dirty, panicked,      (* see Kmalloc                *)
  env_v, dom_v, asid_v,  (* the ids left in each pool, next one last       *)
  envs,         (* slot -> environment, as last allocated there; NoId is   *)
                (* &envs[-1], which is before the array                    *)
  pid_cnt,      (* pids given out                                          *)
  pts,          (* page table address -> (section -> descriptor)           *)
  on,           (* is the MMU on?                                          *)
  cur,          (* process id and TTBR0 registers: [pid, asid, pt]         *)
  dacr,         (* domains that the domain register lets through           *)
  tlb,          (* translations the TLB holds                              *)
  stray         (* did writing &envs[-1] overwrite something in use?       *)

heapVars == <<heap, blocks, dirty, panicked>>
pools    == <<env_v, dom_v, asid_v>>
cpu      == <<on, cur, dacr, tlb>>
vars     == <<heapVars, pools, envs, pid_cnt, pts, cpu, stray>>

Heap == INSTANCE Kmalloc
          WITH Sizes <- {PtBytes}, Alignments <- {PtBytes}, Starts <- {}

\* A page table is a power of two of bytes, 1 << 14, and the heap ends well below
\* the top of the address space, where roundup() would wrap.
ASSUME HeapAssumption ==
  /\ HeapStart \in Nat /\ HeapBound \in Nat /\ HeapStart <= HeapBound
  /\ PtBytes \in Nat \ {0} /\ Heap!IsPow2(PtBytes)
  /\ AddrMod \in Nat /\ HeapBound + PtBytes + Heap!Word <= AddrMod

Panic ==
  /\ panicked' = TRUE
  /\ UNCHANGED <<heap, blocks, dirty>>

-----------------------------------------------------------------------------
(***************************************************************************)
(* bvec.c: a pool of the integers lb .. ub - 1, the lowest on top.         *)
(***************************************************************************)
Bvec(lb, ub) == [i \in 1 .. ub - lb |-> ub - i]

Taken(b) == IF b = <<>> THEN NoId ELSE b[Len(b)]
Left(b) == IF b = <<>> THEN b ELSE SubSeq(b, 1, Len(b) - 1)

\* bvec_free() accepts x into pool b of n ids: there is room, and no second x
MayFreeRoom(b, n, x) == Len(b) < n
MayFree(b, n, x) == Len(b) < n /\ \A i \in 1 .. Len(b) : b[i] # x

-----------------------------------------------------------------------------
(***************************************************************************)
(* driver.c: environments.  A domain register is the set of domains that   *)
(* it lets through.                                                        *)
(***************************************************************************)
Live == { n \in DOMAIN envs : \A i \in 1 .. Len(env_v) : env_v[i] # n }

NewEnvOf(asid) ==
  [pid |-> pid_cnt + 1, domain |-> Taken(dom_v), asid |-> asid,
   domain_reg |-> {Taken(dom_v)} \cap Doms, pt |-> Heap!Roundup(heap, PtBytes)]
NewEnvPeek == NewEnvOf(IF asid_v = <<>> THEN NoId ELSE asid_v[1])
NewEnv == NewEnvOf(Taken(asid_v))

\* mmu_pt_alloc(): 4096 descriptors, all clear
PtAlloc ==
  /\ Heap!KmallocAligned(PtBytes, PtBytes)
  /\ pts' = [p \in DOMAIN pts \cup {NewEnv.pt} |->
               IF p = NewEnv.pt THEN <<>> ELSE pts[p]]

\* env_alloc(): a table, a pid and the next of each pool go into the slot taken
Fill(slot) ==
  /\ pid_cnt < MaxPid
  /\ PtAlloc
  /\ envs' = [n \in DOMAIN envs \cup {slot} |-> IF n = slot THEN NewEnv ELSE envs[n]]
  /\ env_v' = Left(env_v) /\ dom_v' = Left(dom_v) /\ asid_v' = Left(asid_v)
  /\ pid_cnt' = pid_cnt + 1
  /\ UNCHANGED cpu

EnvAlloc == env_v # <<>> /\ Fill(Taken(env_v)) /\ UNCHANGED stray

\* with no slot left it fills in &envs[-1], and returns that; where the linker puts
\* envs decides whether something in use was there
EnvAllocStray ==
  /\ env_v = <<>>
  /\ Fill(NoId)
  /\ stray' \in BOOLEAN

\* env_free() of a slot that some env_alloc() returned, perhaps not the last; the
\* slot of &envs[-1] is not below MAX_ENV
EnvFree(n) ==
  /\ LET e  == envs[n]
         ok == /\ n # NoId
               /\ MayFree(dom_v, DomUb - 1, e.domain)
               /\ MayFree(asid_v, AsidUb - 1, e.asid)
               /\ MayFree(env_v, MAX_ENV, n)
     IN  \/ /\ ok
            /\ dom_v'  = Append(dom_v, e.domain)
            /\ asid_v' = Append(asid_v, e.asid)
            /\ env_v'  = Append(env_v, n)
            /\ UNCHANGED heapVars
         \/ ~ ok /\ Panic /\ UNCHANGED pools
  /\ UNCHANGED <<envs, pid_cnt, pts, cpu, stray>>

\* the last of the two domain registers that env_switch_to() writes
DomainWritten(e) == AllDomains

\* pid << 8 | asid, of which an asid of NoId sets every bit, and the two as they
\* read back
ProcId(e) ==
  IF e.asid = NoId THEN PidMod * AsidMod - 1 ELSE (e.pid * AsidMod + e.asid) % (PidMod * AsidMod)
mmu_get_curpid(procid) == [pid |-> procid \div AsidMod, asid |-> procid % AsidMod]

\* the process id and TTBR0 registers
Registers(e) ==
  LET id == mmu_get_curpid(ProcId(e)) IN [pid |-> id.pid, asid |-> id.asid, pt |-> e.pt]

\* mmu_enable() and mmu_disable(): the TLB keeps what it holds
MmuEnable ==
  \/ ~ on /\ on' = TRUE /\ UNCHANGED heapVars
  \/ on /\ Panic /\ UNCHANGED on

MmuDisable ==
  /\ \/ on /\ on' = FALSE /\ UNCHANGED heapVars
     \/ ~ on /\ Panic /\ UNCHANGED on
  /\ UNCHANGED <<pools, envs, pid_cnt, pts, cur, dacr, tlb, stray>>

\* env_switch_to(): the registers are written and read back, and the MMU is
\* turned on
EnvSwitchTo(n) ==
  /\ dacr' = DomainWritten(envs[n])
  /\ cur' = Registers(envs[n])
  /\ LET ok == cur'.pid = envs[n].pid /\ cur'.asid = envs[n].asid
     IN  (ok /\ MmuEnable) \/ (~ ok /\ Panic /\ UNCHANGED on)
  /\ UNCHANGED <<pools, envs, pid_cnt, pts, tlb, stray>>

-----------------------------------------------------------------------------
(***************************************************************************)
(* mmu.c: mapping sections.                                                *)
(***************************************************************************)
\* is_aligned(x, 20), that is (x & 19) = 0: bits 0, 1 and 4 of x are clear
IsAligned20(x) == x % 4 = 0 /\ (x \div 16) % 2 = 0

\* a descriptor with every field clear but its tag, what mmu_map_section() writes,
\* and what its caller makes of that: the field of the domain has four bits
fld_mk == [to |-> 0, domain |-> 0, ng |-> FALSE]
Descriptor(pa) == [fld_mk EXCEPT !.to = pa \div Section]
Edited(d, e) == [d EXCEPT !.domain = e.domain % 16]

CanMapTwice(pt, va, pa) == IsAligned20(va) /\ IsAligned20(pa)
CanMap(pt, va, pa) ==
  IsAligned20(va) /\ IsAligned20(pa) /\ va \div Section \notin DOMAIN pt

MapSection(n, va, pa) ==
  LET e   == envs[n]
      sec == va \div Section
  IN  /\ \/ /\ CanMap(pts[e.pt], va, pa)
            /\ pts' = [pts EXCEPT ![e.pt] =
                         [s \in DOMAIN @ \cup {sec} |->
                            IF s = sec THEN Edited(Descriptor(pa), e) ELSE @[s]]]
            /\ UNCHANGED heapVars
         \/ /\ ~ CanMap(pts[e.pt], va, pa)
            /\ Panic /\ UNCHANGED pts
      /\ UNCHANGED <<pools, envs, pid_cnt, cpu, stray>>

-----------------------------------------------------------------------------
(***************************************************************************)
(* The TLB: an entry serves every environment if it is global, else those  *)
(* that run under its asid.                                                *)
(***************************************************************************)
Serves(t) == ~ t.ng \/ t.asid = cur.asid

\* a load or store to section sec that the TLB has no entry for
Walk(sec) ==
  /\ on
  /\ sec \in DOMAIN pts[cur.pt]
  /\ ~ \E t \in tlb : t.sec = sec /\ Serves(t)
  /\ tlb' = tlb \cup {[sec |-> sec, asid |-> cur.asid, ng |-> pts[cur.pt][sec].ng,
                       to |-> pts[cur.pt][sec].to]}
  /\ UNCHANGED <<heapVars, pools, envs, pid_cnt, pts, on, cur, dacr, stray>>

Evict(t) ==
  /\ tlb' = tlb \ {t}
  /\ UNCHANGED <<heapVars, pools, envs, pid_cnt, pts, on, cur, dacr, stray>>

-----------------------------------------------------------------------------
\* env_init(); mmu_init() has left the TLB empty
Init ==
  /\ Heap!Init
  /\ env_v = Bvec(0, MAX_ENV) /\ dom_v = Bvec(1, DomUb) /\ asid_v = Bvec(1, AsidUb)
  /\ envs = <<>> /\ pid_cnt = 0 /\ pts = <<>>
  /\ on = FALSE /\ cur = [pid |-> 0, asid |-> 0, pt |-> 0]
  /\ dacr = {} /\ tlb = {} /\ stray = FALSE

Hardware == (\E sec \in UNION { DOMAIN pts[p] : p \in DOMAIN pts } : Walk(sec))
            \/ (\E t \in tlb : Evict(t))

Driver ==
  \/ EnvAlloc \/ EnvAllocStray
  \/ \E n \in DOMAIN envs : EnvFree(n)
  \/ \E n \in Live : EnvSwitchTo(n) \/ \E va \in VAs, pa \in PAs : MapSection(n, va, pa)
  \/ MmuDisable

Next ==
  \/ ~ panicked /\ ~ stray /\ (Driver \/ Hardware)
  \/ (panicked \/ stray) /\ UNCHANGED vars     \* nothing more is known

Spec == Init /\ [][Next]_vars

-----------------------------------------------------------------------------
(***************************************************************************)
(* Properties.                                                             *)
(***************************************************************************)
Env == [pid : Nat, domain : Doms \cup {NoId}, asid : Asids \cup {NoId},
        domain_reg : SUBSET Doms, pt : DOMAIN pts]

\* Type invariant: pools, environments and registers.
TypeOK ==
  /\ env_v \in Seq(Slots) /\ dom_v \in Seq(Doms) /\ asid_v \in Seq(Asids)
  /\ DOMAIN envs \subseteq Slots \cup {NoId} /\ \A n \in DOMAIN envs : envs[n] \in Env
  /\ pid_cnt \in 0 .. MaxPid
  /\ on \in BOOLEAN /\ stray \in BOOLEAN /\ panicked \in BOOLEAN
  /\ dacr \subseteq AllDomains

\* Two environments in use never share a pid, a domain or an asid, whatever was
\* allocated and freed before (driver.c:37-59 over the pools of bvec.c), and also
\* when callers have gone past MAX_ENV, as long as that overwrote nothing in use.
IdsDistinct ==
  ~ stray => \A m, n \in Live : m # n =>
    /\ envs[m].pid # envs[n].pid
    /\ envs[m].domain # envs[n].domain
    /\ envs[m].asid # envs[n].asid

\* Nor do they share a byte of a page table (mmu.c:113-121 over kmalloc_aligned).
TablesDisjoint ==
  ~ stray => \A m, n \in Live : m # n =>
    envs[m].pt + PtBytes <= envs[n].pt \/ envs[n].pt + PtBytes <= envs[m].pt

\* No id is lost or made up: every one is in its pool once, or is held by just
\* one environment in use.  That ends with the first allocation past MAX_ENV: its
\* domain and asid cannot be given back, and the next one drops them.
Accounted(pool, ids, held) ==
  \A x \in ids :
    Cardinality({ i \in 1 .. Len(pool) : pool[i] = x })
      + Cardinality({ n \in Live : held[n] = x }) = 1

IdsAccounted ==
  NoId \notin DOMAIN envs =>
    /\ Accounted(env_v, Slots, [n \in Live |-> n])
    /\ Accounted(dom_v, Doms, [n \in Live |-> envs[n].domain])
    /\ Accounted(asid_v, Asids, [n \in Live |-> envs[n].asid])

\* What one environment holds is its own, and as long as callers keep to MAX_ENV
\* of them nothing gets lost (driver.c:37-59, bvec.c:11-41, mmu.c:113-121).
IdsSound == TypeOK /\ TablesDisjoint /\ IdsAccounted

\* bvec.c:19-22, "double free": env_free() of an environment that is free already
\* is caught, though it looks at the domain and not at the environment.
DoubleFreeCaught ==
  [][\A n \in DOMAIN envs \ Live : EnvFree(n) => panicked']_vars

\* What the TLB serves is what the table of the current environment says.
Agrees == \A t \in tlb : Serves(t) =>
            t.sec \in DOMAIN pts[cur.pt] /\ pts[cur.pt][t.sec].to = t.to

\* Until the registers change, what the TLB serves stays right, whatever is
\* allocated, freed and mapped and however often the MMU goes off (vm-asm.S:245-246,
\* "if we re-enable later, without changing pt then the entries are ok").
EntriesStayRight == [][cur' = cur /\ Agrees => Agrees']_vars
=============================================================================
