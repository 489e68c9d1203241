--------------------------- MODULE AddrSpaceProofs ---------------------------
(***************************************************************************)
(* Theorems about the ids of AddrSpace, for every number of environments,  *)
(* domains and asids.  env_alloc() and env_free() take from and give back  *)
(* to the three pools in the same order, so the pools stay in step: the    *)
(* environment in slot n always has domain n + 1 and asid n + 1, and the   *)
(* one in &envs[-1] has ids above those, or none.  That is the inductive   *)
(* invariant, and why env_free() may look for a second free in the pool of *)
(* domains.                                                                *)
(* From it follows that no id is lost, and from the heap pointer, which    *)
(* only moves up, that page tables are apart and that a new one is never   *)
(* the one the registers point to.                                         *)
(***************************************************************************)
EXTENDS AddrSpace, FiniteSetTheorems, TLAPS

\* A pool of 1 .. ub - 1 repeats what is left of the slots, and under that has what
\* no slot ever goes with, in the order it was made.
InStep(slots, pool, ub) ==
  LET left == Len(pool) - Len(slots)
  IN  /\ pool \in Seq(1 .. ub - 1) /\ left \in 0 .. ub - 1 - MAX_ENV
      /\ \A i \in 1 .. Len(slots) : pool[i + left] = slots[i] + 1
      /\ \A i \in 1 .. left : pool[i] = ub - i

PoolsInStep ==
  /\ env_v \in Seq(Slots) /\ Len(env_v) <= MAX_ENV
  /\ InStep(env_v, dom_v, DomUb) /\ InStep(env_v, asid_v, AsidUb)

\* domain or asid x of the environment in slot n
IdOf(n, x) == IF n = NoId THEN x = NoId \/ x > MAX_ENV ELSE x = n + 1

EnvsInStep ==
  /\ DOMAIN envs \subseteq Slots \cup {NoId} /\ pid_cnt \in Nat
  /\ \A n \in DOMAIN envs :
       /\ envs[n].domain \in Doms \cup {NoId} /\ IdOf(n, envs[n].domain)
       /\ envs[n].asid \in Asids \cup {NoId} /\ IdOf(n, envs[n].asid)
       /\ envs[n].pid \in 1 .. pid_cnt
  /\ \A m, n \in DOMAIN envs : m # n => envs[m].pid # envs[n].pid

IInv == PoolsInStep /\ EnvsInStep

-----------------------------------------------------------------------------
LEMMA Constants ==
  /\ MAX_ENV \in Nat /\ MAX_ENV > 0 /\ NoId = -1
  /\ DomUb \in Nat /\ MAX_ENV < DomUb /\ AsidUb \in Nat /\ MAX_ENV < AsidUb
  /\ Slots = 0 .. MAX_ENV - 1 /\ Doms = 1 .. DomUb - 1 /\ Asids = 1 .. AsidUb - 1
  /\ NoId \notin Slots
BY AddrSpaceAssumption DEF Slots, Doms, Asids, NoId

\* A pool as bvec_mk() leaves it.
LEMMA FullPool ==
  ASSUME NEW lb \in Nat, NEW ub \in Nat, lb < ub
  PROVE  /\ Bvec(lb, ub) \in Seq(lb .. ub - 1) /\ Len(Bvec(lb, ub)) = ub - lb
         /\ \A i \in 1 .. ub - lb : Bvec(lb, ub)[i] = ub - i
<1>1. \A i \in 1 .. ub - lb : ub - i \in lb .. ub - 1
  OBVIOUS
<1>2. ub - lb \in Nat
  OBVIOUS
<1>. QED
  BY <1>1, <1>2 DEF Bvec

\* What bvec_alloc() returns and leaves.
LEMMA TakeFromPool ==
  ASSUME NEW S, NEW b \in Seq(S), b # <<>>
  PROVE  /\ Left(b) \in Seq(S) /\ Len(Left(b)) = Len(b) - 1 /\ Len(b) > 0
         /\ \A i \in 1 .. Len(b) - 1 : Left(b)[i] = b[i]
         /\ Taken(b) = b[Len(b)] /\ Taken(b) \in S
<1>1. Len(b) \in Nat /\ Len(b) > 0
  OBVIOUS
<1>2. Left(b) = SubSeq(b, 1, Len(b) - 1)
  BY DEF Left
<1>3. /\ SubSeq(b, 1, Len(b) - 1) \in Seq(S)
      /\ Len(SubSeq(b, 1, Len(b) - 1)) = Len(b) - 1
  BY <1>1
<1>4. \A i \in 1 .. Len(b) - 1 : SubSeq(b, 1, Len(b) - 1)[i] = b[i]
  BY <1>1
<1>5. Taken(b) = b[Len(b)] /\ Taken(b) \in S
  BY <1>1 DEF Taken
<1>. QED
  BY <1>1, <1>2, <1>3, <1>4, <1>5

\* What bvec_free() leaves of a pool.
LEMMA ReturnToPool ==
  ASSUME NEW S, NEW b \in Seq(S), NEW x \in S
  PROVE  /\ Append(b, x) \in Seq(S) /\ Len(Append(b, x)) = Len(b) + 1
         /\ \A i \in 1 .. Len(b) : Append(b, x)[i] = b[i]
         /\ Append(b, x)[Len(b) + 1] = x
<1>1. Append(b, x) \in Seq(S) /\ Len(Append(b, x)) = Len(b) + 1
  OBVIOUS
<1>2. \A i \in 1 .. Len(b) : Append(b, x)[i] = b[i]
  OBVIOUS
<1>3. Append(b, x)[Len(b) + 1] = x
  OBVIOUS
<1>. QED
  BY <1>1, <1>2, <1>3

\* A full pool is in step with the full pool of slots.
LEMMA InStepFull ==
  ASSUME NEW ub \in Nat, MAX_ENV < ub
  PROVE  InStep(Bvec(0, MAX_ENV), Bvec(1, ub), ub)
<1> DEFINE slots == Bvec(0, MAX_ENV)
           pool == Bvec(1, ub)
<1>1. Len(slots) = MAX_ENV /\ \A i \in 1 .. MAX_ENV : slots[i] = MAX_ENV - i
  <2>1. 0 \in Nat /\ 0 < MAX_ENV /\ MAX_ENV \in Nat /\ MAX_ENV - 0 = MAX_ENV
    BY Constants
  <2>. QED
    BY <2>1, FullPool
<1>2. pool \in Seq(1 .. ub - 1) /\ Len(pool) = ub - 1 /\ \A i \in 1 .. ub - 1 : pool[i] = ub - i
  <2>1. 1 \in Nat /\ 1 < ub
    BY Constants
  <2>. QED
    BY <2>1, FullPool
<1> HIDE DEF slots, pool
<1>3. Len(pool) - Len(slots) = ub - 1 - MAX_ENV /\ ub - 1 - MAX_ENV \in Nat
  BY <1>1, <1>2, Constants
<1>4. ASSUME NEW i \in 1 .. MAX_ENV PROVE pool[i + (ub - 1 - MAX_ENV)] = slots[i] + 1
  <2>1. i + (ub - 1 - MAX_ENV) \in 1 .. ub - 1
    BY <1>3, Constants
  <2>2. pool[i + (ub - 1 - MAX_ENV)] = ub - (i + (ub - 1 - MAX_ENV)) /\ slots[i] = MAX_ENV - i
    BY <2>1, <1>1, <1>2
  <2>. QED
    BY <2>2, Constants
<1>5. \A i \in 1 .. ub - 1 - MAX_ENV : pool[i] = ub - i
  BY <1>2, Constants
<1>6. InStep(slots, pool, ub)
  BY <1>1, <1>2, <1>3, <1>4, <1>5 DEF InStep
<1>. QED
  BY <1>6 DEF slots, pool

\* With a slot left, the id taken is that of the slot.
LEMMA InStepTake ==
  ASSUME NEW slots \in Seq(Slots), slots # <<>>,
         NEW pool, NEW ub \in Nat, MAX_ENV < ub, InStep(slots, pool, ub)
  PROVE  /\ InStep(Left(slots), Left(pool), ub)
         /\ Len(Left(pool)) - Len(Left(slots)) = Len(pool) - Len(slots)
         /\ Taken(pool) = Taken(slots) + 1
<1> DEFINE left == Len(pool) - Len(slots)
<1>1. /\ pool \in Seq(1 .. ub - 1) /\ left \in 0 .. ub - 1 - MAX_ENV
      /\ \A i \in 1 .. Len(slots) : pool[i + left] = slots[i] + 1
      /\ \A i \in 1 .. left : pool[i] = ub - i
  BY DEF InStep
<1>2. Len(slots) \in Nat /\ Len(slots) > 0 /\ Len(pool) \in Nat /\ Len(pool) > 0 /\ pool # <<>>
  <2>1. Len(slots) \in Nat /\ Len(slots) > 0 /\ Len(pool) \in Nat
    BY <1>1
  <2>. QED
    BY <2>1, <1>1
<1>3. /\ Len(Left(slots)) = Len(slots) - 1 /\ Taken(slots) = slots[Len(slots)]
      /\ \A i \in 1 .. Len(slots) - 1 : Left(slots)[i] = slots[i]
  BY TakeFromPool
<1>4. /\ Left(pool) \in Seq(1 .. ub - 1) /\ Len(Left(pool)) = Len(pool) - 1
      /\ Taken(pool) = pool[Len(pool)]
      /\ \A i \in 1 .. Len(pool) - 1 : Left(pool)[i] = pool[i]
  BY <1>1, <1>2, TakeFromPool
<1>5. Taken(pool) = Taken(slots) + 1
  <2>1. Len(slots) \in 1 .. Len(slots) /\ Len(slots) + left = Len(pool)
    BY <1>2
  <2>. QED
    BY <2>1, <1>1, <1>3, <1>4
<1>6. Len(Left(pool)) - Len(Left(slots)) = left
  BY <1>2, <1>3, <1>4
<1>7. ASSUME NEW i \in 1 .. Len(Left(slots)) PROVE Left(pool)[i + left] = Left(slots)[i] + 1
  <2>1. i \in 1 .. Len(slots) - 1 /\ i \in 1 .. Len(slots) /\ i + left \in 1 .. Len(pool) - 1
    BY <1>1, <1>2, <1>3
  <2>. QED
    BY <2>1, <1>1, <1>3, <1>4
<1>8. ASSUME NEW i \in 1 .. left PROVE Left(pool)[i] = ub - i
  <2>1. i \in 1 .. Len(pool) - 1
    BY <1>1, <1>2
  <2>. QED
    BY <2>1, <1>1, <1>4
<1>9. InStep(Left(slots), Left(pool), ub)
  BY <1>1, <1>4, <1>6, <1>7, <1>8 DEF InStep
<1>. QED
  BY <1>5, <1>6, <1>9

\* With none left, it is one that no slot goes with, or none.
LEMMA InStepSpare ==
  ASSUME NEW pool, NEW ub \in Nat, MAX_ENV < ub, InStep(<<>>, pool, ub)
  PROVE  /\ InStep(<<>>, Left(pool), ub)
         /\ Taken(pool) = NoId \/ (Taken(pool) \in 1 .. ub - 1 /\ Taken(pool) > MAX_ENV)
<1> DEFINE none == <<>>
<1>0. Len(none) = 0 /\ InStep(none, pool, ub)
  OBVIOUS
<1> HIDE DEF none
<1>1. /\ pool \in Seq(1 .. ub - 1) /\ Len(pool) \in 0 .. ub - 1 - MAX_ENV
      /\ \A i \in 1 .. Len(pool) : pool[i] = ub - i
  <2>1. pool \in Seq(1 .. ub - 1)
    BY <1>0 DEF InStep
  <2>2. Len(pool) \in Nat /\ Len(pool) - Len(none) = Len(pool)
    BY <1>0, <2>1
  <2>. QED
    BY <1>0, <2>1, <2>2 DEF InStep
<1>2. CASE pool = <<>>
  <2>1. Left(pool) = pool /\ Taken(pool) = NoId
    BY <1>2 DEF Left, Taken
  <2>. QED
    BY <2>1
<1>3. CASE pool # <<>>
  <2>1. /\ Left(pool) \in Seq(1 .. ub - 1) /\ Len(Left(pool)) = Len(pool) - 1 /\ Len(pool) > 0
        /\ Taken(pool) = pool[Len(pool)]
        /\ \A i \in 1 .. Len(pool) - 1 : Left(pool)[i] = pool[i]
    BY <1>1, <1>3, TakeFromPool
  <2>2. Taken(pool) = ub - Len(pool)
    BY <2>1, <1>1
  <2>3. Taken(pool) \in 1 .. ub - 1 /\ Taken(pool) > MAX_ENV
    BY <2>1, <2>2, <1>1, Constants
  <2>4. /\ Len(Left(pool)) - Len(none) = Len(pool) - 1
        /\ Len(pool) - 1 \in 0 .. ub - 1 - MAX_ENV
    BY <2>1, <1>0, <1>1, Constants
  <2>5. \A i \in 1 .. Len(pool) - 1 : Left(pool)[i] = ub - i
    BY <2>1, <1>1
  <2>6. \A i \in 1 .. Len(none) : FALSE
    BY <1>0
  <2>7. InStep(none, Left(pool), ub)
    BY <2>1, <2>4, <2>5, <2>6 DEF InStep
  <2>. QED
    BY <2>3, <2>7 DEF none
<1>. QED
  BY <1>2, <1>3

\* Slot n goes back together with its ids.
LEMMA InStepReturn ==
  ASSUME NEW slots \in Seq(Slots), NEW n \in Slots, NEW pool,
         NEW ub \in Nat, MAX_ENV < ub, InStep(slots, pool, ub)
  PROVE  /\ InStep(Append(slots, n), Append(pool, n + 1), ub)
         /\ Len(Append(pool, n + 1)) - Len(Append(slots, n)) = Len(pool) - Len(slots)
<1> DEFINE left == Len(pool) - Len(slots)
           s == Append(slots, n)
           q == Append(pool, n + 1)
<1>1. /\ pool \in Seq(1 .. ub - 1) /\ left \in 0 .. ub - 1 - MAX_ENV
      /\ \A i \in 1 .. Len(slots) : pool[i + left] = slots[i] + 1
      /\ \A i \in 1 .. left : pool[i] = ub - i
  BY DEF InStep
<1>2. n + 1 \in 1 .. ub - 1 /\ Len(slots) \in Nat /\ Len(pool) \in Nat
  BY <1>1, Constants
<1>3. /\ Len(s) = Len(slots) + 1 /\ s[Len(slots) + 1] = n
      /\ \A i \in 1 .. Len(slots) : s[i] = slots[i]
  BY ReturnToPool
<1>4. /\ q \in Seq(1 .. ub - 1) /\ Len(q) = Len(pool) + 1 /\ q[Len(pool) + 1] = n + 1
      /\ \A i \in 1 .. Len(pool) : q[i] = pool[i]
  BY <1>1, <1>2, ReturnToPool
<1> HIDE DEF s, q
<1>5. Len(q) - Len(s) = left
  BY <1>2, <1>3, <1>4
<1>6. ASSUME NEW i \in 1 .. Len(s) PROVE q[i + left] = s[i] + 1
  <2>1. CASE i = Len(slots) + 1
    <3>1. i + left = Len(pool) + 1
      BY <2>1, <1>2
    <3>. QED
      BY <3>1, <2>1, <1>3, <1>4
  <2>2. CASE i \in 1 .. Len(slots)
    <3>1. i + left \in 1 .. Len(pool)
      BY <2>2, <1>1, <1>2
    <3>2. q[i + left] = pool[i + left] /\ s[i] = slots[i]
      BY <3>1, <2>2, <1>3, <1>4
    <3>. QED
      BY <3>2, <2>2, <1>1
  <2>. QED
    BY <2>1, <2>2, <1>2, <1>3
<1>7. ASSUME NEW i \in 1 .. left PROVE q[i] = ub - i
  <2>1. i \in 1 .. Len(pool)
    BY <1>1, <1>2
  <2>. QED
    BY <2>1, <1>1, <1>4
<1>8. InStep(s, q, ub)
  BY <1>1, <1>4, <1>5, <1>6, <1>7 DEF InStep
<1>. QED
  BY <1>5, <1>8 DEF s, q

LEMMA InitIInv == Init => IInv
<1> SUFFICES ASSUME Init PROVE IInv
  OBVIOUS
<1>1. env_v = Bvec(0, MAX_ENV) /\ dom_v = Bvec(1, DomUb) /\ asid_v = Bvec(1, AsidUb)
  BY DEF Init
<1>2. env_v \in Seq(Slots) /\ Len(env_v) = MAX_ENV
  <2>1. 0 \in Nat /\ MAX_ENV \in Nat /\ 0 < MAX_ENV /\ MAX_ENV - 0 = MAX_ENV
    BY Constants
  <2>. QED
    BY <2>1, <1>1, Constants, FullPool
<1>3. InStep(env_v, dom_v, DomUb) /\ InStep(env_v, asid_v, AsidUb)
  BY <1>1, Constants, InStepFull
<1>4. PoolsInStep
  BY <1>2, <1>3, Constants DEF PoolsInStep
<1>5. EnvsInStep
  BY DEF Init, EnvsInStep
<1>. QED
  BY <1>4, <1>5 DEF IInv

\* The two ways through env_alloc() are one: with no slot left it takes slot NoId.
LEMMA TakesSlot == EnvAlloc \/ EnvAllocStray => Fill(Taken(env_v))
BY DEF EnvAlloc, EnvAllocStray, Taken

\* What env_alloc() takes from the pools.
LEMMA FillIds ==
  ASSUME PoolsInStep, NEW slot, slot = Taken(env_v), Fill(slot)
  PROVE  /\ PoolsInStep'
         /\ slot \in Slots \cup {NoId} /\ (slot \in Slots <=> env_v # <<>>)
         /\ NewEnv.domain \in Doms \cup {NoId} /\ IdOf(slot, NewEnv.domain)
         /\ NewEnv.asid \in Asids \cup {NoId} /\ IdOf(slot, NewEnv.asid)
         /\ slot \in Slots => /\ Len(dom_v') - Len(env_v') = Len(dom_v) - Len(env_v)
                              /\ Len(asid_v') - Len(env_v') = Len(asid_v) - Len(env_v)
<1>1. /\ env_v \in Seq(Slots) /\ Len(env_v) <= MAX_ENV
      /\ InStep(env_v, dom_v, DomUb) /\ InStep(env_v, asid_v, AsidUb)
  BY DEF PoolsInStep
<1>2. env_v' = Left(env_v) /\ dom_v' = Left(dom_v) /\ asid_v' = Left(asid_v)
  BY DEF Fill
<1>3. NewEnv.domain = Taken(dom_v) /\ NewEnv.asid = Taken(asid_v)
  BY DEF NewEnv, NewEnvOf
<1>4. CASE env_v # <<>>
  <2>1. /\ env_v' \in Seq(Slots) /\ Len(env_v') = Len(env_v) - 1 /\ Len(env_v) > 0
        /\ slot \in Slots
    BY <1>1, <1>2, <1>4, TakeFromPool
  <2>2. /\ InStep(env_v', dom_v', DomUb) /\ InStep(env_v', asid_v', AsidUb)
        /\ Len(dom_v') - Len(env_v') = Len(dom_v) - Len(env_v)
        /\ Len(asid_v') - Len(env_v') = Len(asid_v) - Len(env_v)
        /\ Taken(dom_v) = slot + 1 /\ Taken(asid_v) = slot + 1
    BY <1>1, <1>2, <1>4, Constants, InStepTake
  <2>3. slot # NoId /\ slot + 1 \in Doms /\ slot + 1 \in Asids
    BY <2>1, Constants
  <2>4. Len(env_v') <= MAX_ENV
    BY <2>1, <1>1, Constants
  <2>. QED
    BY <2>1, <2>2, <2>3, <2>4, <1>3, <1>4 DEF PoolsInStep, IdOf
<1>5. CASE env_v = <<>>
  <2>1. env_v' = <<>> /\ slot = NoId
    BY <1>2, <1>5 DEF Left, Taken
  <2>2. /\ InStep(env_v', dom_v', DomUb) /\ InStep(env_v', asid_v', AsidUb)
        /\ Taken(dom_v) = NoId \/ (Taken(dom_v) \in Doms /\ Taken(dom_v) > MAX_ENV)
        /\ Taken(asid_v) = NoId \/ (Taken(asid_v) \in Asids /\ Taken(asid_v) > MAX_ENV)
    BY <1>1, <1>2, <1>5, <2>1, Constants, InStepSpare
  <2>3. env_v' \in Seq(Slots) /\ Len(env_v') <= MAX_ENV
    BY <2>1, <1>1, <1>5
  <2>. QED
    BY <2>1, <2>2, <2>3, <1>3, <1>5, Constants DEF PoolsInStep, IdOf
<1>. QED
  BY <1>4, <1>5

LEMMA FillIInv ==
  ASSUME IInv, NEW slot, slot = Taken(env_v), Fill(slot)
  PROVE  IInv'
<1>1. /\ PoolsInStep' /\ slot \in Slots \cup {NoId}
      /\ NewEnv.domain \in Doms \cup {NoId} /\ IdOf(slot, NewEnv.domain)
      /\ NewEnv.asid \in Asids \cup {NoId} /\ IdOf(slot, NewEnv.asid)
  BY FillIds DEF IInv
<1>2. /\ DOMAIN envs' = DOMAIN envs \cup {slot}
      /\ \A m \in DOMAIN envs' : envs'[m] = IF m = slot THEN NewEnv ELSE envs[m]
      /\ pid_cnt' = pid_cnt + 1 /\ pid_cnt \in Nat
  BY DEF Fill, IInv, EnvsInStep
<1>3. NewEnv.pid = pid_cnt + 1
  BY DEF NewEnv, NewEnvOf
<1>4. ASSUME NEW m \in DOMAIN envs, m # slot
      PROVE  /\ envs'[m] = envs[m] /\ envs[m].pid \in 1 .. pid_cnt
             /\ envs[m].domain \in Doms \cup {NoId} /\ IdOf(m, envs[m].domain)
             /\ envs[m].asid \in Asids \cup {NoId} /\ IdOf(m, envs[m].asid)
  BY <1>2, <1>4 DEF IInv, EnvsInStep
<1>5. DOMAIN envs' \subseteq Slots \cup {NoId}
  BY <1>1, <1>2 DEF IInv, EnvsInStep
<1>6. ASSUME NEW m \in DOMAIN envs'
      PROVE  /\ envs'[m].domain \in Doms \cup {NoId} /\ IdOf(m, envs'[m].domain)
             /\ envs'[m].asid \in Asids \cup {NoId} /\ IdOf(m, envs'[m].asid)
             /\ envs'[m].pid \in 1 .. pid_cnt'
  <2>1. CASE m = slot
    BY <2>1, <1>1, <1>2, <1>3
  <2>2. CASE m # slot
    <3>1. m \in DOMAIN envs /\ pid_cnt' = pid_cnt + 1 /\ pid_cnt \in Nat
      BY <2>2, <1>2
    <3>2. envs'[m].pid \in 1 .. pid_cnt'
      BY <2>2, <3>1, <1>4
    <3>. QED
      BY <2>2, <3>1, <3>2, <1>4
  <2>. QED
    BY <2>1, <2>2
<1>7. ASSUME NEW m \in DOMAIN envs', NEW k \in DOMAIN envs', m # k
      PROVE  envs'[m].pid # envs'[k].pid
  <2>1. CASE m # slot /\ k # slot
    BY <2>1, <1>2, <1>4, <1>7 DEF IInv, EnvsInStep
  <2>2. CASE m = slot
    BY <2>2, <1>2, <1>3, <1>4, <1>7
  <2>3. CASE k = slot
    BY <2>3, <1>2, <1>3, <1>4, <1>7
  <2>. QED
    BY <2>1, <2>2, <2>3
<1>8. EnvsInStep'
  BY <1>2, <1>5, <1>6, <1>7 DEF EnvsInStep
<1>. QED
  BY <1>1, <1>8 DEF IInv

\* What env_free() gives back, if it does not panic.
LEMMA Freeing ==
  ASSUME IInv, NEW n \in DOMAIN envs, EnvFree(n)
  PROVE  \/ UNCHANGED pools
         \/ /\ n \in Slots /\ MayFree(env_v, MAX_ENV, n)
            /\ dom_v' = Append(dom_v, n + 1) /\ asid_v' = Append(asid_v, n + 1)
            /\ env_v' = Append(env_v, n)
<1>1. n # NoId => n \in Slots /\ envs[n].domain = n + 1 /\ envs[n].asid = n + 1
  BY DEF IInv, EnvsInStep, IdOf
<1>. QED
  BY <1>1 DEF EnvFree

LEMMA EnvFreeIInv ==
  ASSUME IInv, NEW n \in DOMAIN envs, EnvFree(n)
  PROVE  IInv'
<1>1. EnvsInStep'
  BY DEF IInv, EnvsInStep, EnvFree
<1>2. CASE UNCHANGED pools
  BY <1>1, <1>2 DEF IInv, PoolsInStep, pools
<1>3. CASE /\ n \in Slots /\ MayFree(env_v, MAX_ENV, n)
           /\ dom_v' = Append(dom_v, n + 1) /\ asid_v' = Append(asid_v, n + 1)
           /\ env_v' = Append(env_v, n)
  <2>1. /\ env_v \in Seq(Slots) /\ InStep(env_v, dom_v, DomUb) /\ InStep(env_v, asid_v, AsidUb)
    BY DEF IInv, PoolsInStep
  <2>2. InStep(env_v', dom_v', DomUb) /\ InStep(env_v', asid_v', AsidUb)
    BY <1>3, <2>1, Constants, InStepReturn
  <2>3. env_v' \in Seq(Slots) /\ Len(env_v') = Len(env_v) + 1
    BY <1>3, <2>1, ReturnToPool
  <2>4. Len(env_v') <= MAX_ENV
    BY <1>3, <2>1, <2>3, Constants DEF MayFree
  <2>. QED
    BY <1>1, <2>2, <2>3, <2>4 DEF IInv, PoolsInStep
<1>. QED
  BY <1>2, <1>3, Freeing

\* The other steps leave pools and environments alone.
LEMMA OthersIInv ==
  ASSUME IInv, UNCHANGED <<pools, envs, pid_cnt>>
  PROVE  IInv'
BY DEF IInv, PoolsInStep, EnvsInStep, pools

LEMMA NextIInv == IInv /\ [Next]_vars => IInv'
<1> SUFFICES ASSUME IInv, [Next]_vars PROVE IInv'
  OBVIOUS
<1>1. CASE EnvAlloc \/ EnvAllocStray
  BY <1>1, TakesSlot, FillIInv
<1>2. ASSUME NEW n \in DOMAIN envs, EnvFree(n) PROVE IInv'
  BY <1>2, EnvFreeIInv
<1>3. ASSUME NEW n \in Live, EnvSwitchTo(n) PROVE IInv'
  BY <1>3, OthersIInv DEF EnvSwitchTo
<1>4. ASSUME NEW n \in Live, NEW va \in VAs, NEW pa \in PAs, MapSection(n, va, pa)
      PROVE  IInv'
  BY <1>4, OthersIInv DEF MapSection
<1>5. CASE MmuDisable
  BY <1>5, OthersIInv DEF MmuDisable
<1>6. CASE Hardware
  BY <1>6, OthersIInv DEF Hardware, Walk, Evict
<1>7. CASE UNCHANGED vars
  BY <1>7, OthersIInv DEF vars
<1>. QED
  BY <1>1, <1>2, <1>3, <1>4, <1>5, <1>6, <1>7 DEF Next, Driver

LEMMA Invariant == Spec => []IInv
<1>1. Init => IInv
  BY InitIInv
<1>2. IInv /\ [Next]_vars => IInv'
  BY NextIInv
<1>. QED
  BY <1>1, <1>2, PTL DEF Spec

-----------------------------------------------------------------------------
\* Two environments in use never share a pid, a domain or an asid
\* (driver.c:37-59), however many there are and however often they are freed.
THEOREM IdsNeverShared == Spec => []IdsDistinct
<1>1. IInv => IdsDistinct
  <2> SUFFICES ASSUME IInv, NEW m \in Live, NEW n \in Live, m # n
               PROVE  /\ envs[m].pid # envs[n].pid
                      /\ envs[m].domain # envs[n].domain
                      /\ envs[m].asid # envs[n].asid
    BY DEF IdsDistinct
  <2>1. /\ m \in DOMAIN envs /\ n \in DOMAIN envs
        /\ m \in Slots \cup {NoId} /\ n \in Slots \cup {NoId}
    BY DEF Live, IInv, EnvsInStep
  <2>2. /\ IdOf(m, envs[m].domain) /\ IdOf(n, envs[n].domain)
        /\ IdOf(m, envs[m].asid) /\ IdOf(n, envs[n].asid)
        /\ envs[m].pid # envs[n].pid
    BY <2>1 DEF IInv, EnvsInStep
  <2>. QED
    BY <2>1, <2>2, Constants DEF IdOf
<1>. QED
  BY <1>1, Invariant, PTL

\* Freeing an environment that is free already always panics (bvec.c:19-22).
THEOREM SecondFreePanics == Spec => DoubleFreeCaught
<1>1. IInv /\ [Next]_vars =>
        [\A n \in DOMAIN envs \ Live : EnvFree(n) => panicked']_vars
  <2> SUFFICES ASSUME IInv, NEW n \in DOMAIN envs \ Live, EnvFree(n)
               PROVE  panicked'
    OBVIOUS
  <2> DEFINE left == Len(dom_v) - Len(env_v)
  <2>1. PICK i \in 1 .. Len(env_v) : env_v[i] = n
    BY DEF Live
  <2>2. /\ env_v \in Seq(Slots) /\ dom_v \in Seq(1 .. DomUb - 1)
        /\ left \in 0 .. DomUb - 1 - MAX_ENV /\ dom_v[i + left] = n + 1
    BY <2>1 DEF IInv, PoolsInStep, InStep
  <2>3. i + left \in 1 .. Len(dom_v)
    BY <2>2
  <2>4. envs[n].domain = n + 1
    <3>1. n \in Slots
      BY <2>1, <2>2
    <3>. QED
      BY <3>1, Constants DEF IInv, EnvsInStep, IdOf
  <2>5. ~ MayFree(dom_v, DomUb - 1, envs[n].domain)
    BY <2>2, <2>3, <2>4 DEF MayFree
  <2>. QED
    BY <2>5 DEF EnvFree, Panic
<1>. QED
  BY <1>1, Invariant, PTL DEF Spec, DoubleFreeCaught

-----------------------------------------------------------------------------
(* Page tables.  The heap pointer only moves up, and a table lies between  *)
(* two of its positions, so no later one reaches into it.                  *)
Tables ==
  /\ heap \in Nat /\ HeapStart <= heap /\ heap <= HeapBound
  /\ panicked \in BOOLEAN /\ on \in BOOLEAN /\ stray \in BOOLEAN
  /\ dacr \subseteq AllDomains /\ pid_cnt <= MaxPid
  /\ \A p \in DOMAIN pts : p \in Nat /\ p + PtBytes <= heap
  /\ on \/ tlb # {} => cur.pt \in DOMAIN pts
  /\ \A n \in DOMAIN envs : envs[n] \in Env
  /\ \A m, n \in DOMAIN envs : m # n =>
       envs[m].pt + PtBytes <= envs[n].pt \/ envs[n].pt + PtBytes <= envs[m].pt

\* Rounding up to n, away from the wrap.
LEMMA RoundupUp ==
  ASSUME NEW x \in Nat, NEW n \in Nat, n > 0, x + n <= AddrMod
  PROVE  Heap!Roundup(x, n) \in Nat /\ x <= Heap!Roundup(x, n)
<1> DEFINE y == x + n - 1
<1>1. y \in Nat /\ y % AddrMod = y
  BY HeapAssumption
<1>2. Heap!Roundup(x, n) = y - (y % n)
  BY <1>1 DEF Heap!Roundup
<1>3. y % n \in 0 .. n - 1
  BY <1>1, SMTT(30)
<1>. QED
  BY <1>1, <1>2, <1>3

\* Where mmu_pt_alloc() puts the table, and where it leaves the heap pointer.
LEMMA PtAllocated ==
  ASSUME heap \in Nat, heap <= HeapBound, PtAlloc
  PROVE  /\ NewEnv.pt \in Nat /\ heap <= NewEnv.pt /\ NewEnv.pt + PtBytes <= heap'
         /\ heap' \in Nat /\ heap' <= HeapBound /\ panicked' = panicked
         /\ DOMAIN pts' = DOMAIN pts \cup {NewEnv.pt}
         /\ pts'[NewEnv.pt] = <<>>
         /\ \A p \in DOMAIN pts : p # NewEnv.pt => pts'[p] = pts[p]
<1> DEFINE at == Heap!Roundup(heap, PtBytes)
           sz == Heap!Advance(PtBytes)
<1>1. PtBytes \in Nat /\ PtBytes > 0 /\ HeapBound \in Nat /\ AddrMod \in Nat
      /\ HeapBound + PtBytes + 8 <= AddrMod /\ Heap!Word = 8 /\ Heap!IsPow2(PtBytes)
  BY HeapAssumption DEF Heap!Word
<1>2. at \in Nat /\ heap <= at
  BY <1>1, RoundupUp
<1>3. sz \in Nat /\ PtBytes <= sz
  BY <1>1, RoundupUp DEF Heap!Advance
<1>4. NewEnv.pt = at
  BY DEF NewEnv, NewEnvOf
<1>5. at + sz <= HeapBound /\ heap' = (at + sz) % AddrMod /\ panicked' = panicked
  BY <1>1 DEF PtAlloc, Heap!KmallocAligned, Heap!Take
<1> HIDE DEF at, sz
<1>6. heap' = at + sz
  BY <1>1, <1>2, <1>3, <1>5
<1>7. pts' = [p \in DOMAIN pts \cup {NewEnv.pt} |-> IF p = NewEnv.pt THEN <<>> ELSE pts[p]]
  BY DEF PtAlloc
<1>. QED
  BY <1>1, <1>2, <1>3, <1>4, <1>5, <1>6, <1>7

LEMMA InitTables == Init => Tables
<1> SUFFICES ASSUME Init PROVE Tables
  OBVIOUS
<1>1. /\ heap = HeapStart /\ panicked = FALSE /\ on = FALSE /\ stray = FALSE /\ dacr = {}
      /\ pid_cnt = 0 /\ envs = <<>> /\ pts = <<>> /\ tlb = {}
  BY DEF Init, Heap!Init
<1>2. DOMAIN envs = {} /\ DOMAIN pts = {}
  BY <1>1
<1>3. heap \in Nat /\ HeapStart <= heap /\ heap <= HeapBound /\ pid_cnt <= MaxPid
  BY <1>1, HeapAssumption, AddrSpaceAssumption
<1>4. panicked \in BOOLEAN /\ on \in BOOLEAN /\ stray \in BOOLEAN /\ dacr \subseteq AllDomains
  BY <1>1
<1>. QED
  BY <1>1, <1>2, <1>3, <1>4 DEF Tables

LEMMA FillTables ==
  ASSUME IInv, Tables, NEW slot, slot = Taken(env_v), Fill(slot), stray' \in BOOLEAN
  PROVE  Tables'
<1>1. /\ NewEnv.pt \in Nat /\ heap <= NewEnv.pt /\ NewEnv.pt + PtBytes <= heap'
      /\ heap' \in Nat /\ heap' <= HeapBound /\ panicked' = panicked
      /\ DOMAIN pts' = DOMAIN pts \cup {NewEnv.pt}
  BY PtAllocated DEF Fill, Tables
<1>2. /\ NewEnv.domain \in Doms \cup {NoId} /\ NewEnv.asid \in Asids \cup {NoId}
      /\ DOMAIN envs' = DOMAIN envs \cup {slot} /\ envs'[slot] = NewEnv
      /\ \A m \in DOMAIN envs : m # slot => envs'[m] = envs[m]
  BY FillIds DEF Fill, IInv
<1>3. /\ on' = on /\ dacr' = dacr /\ tlb' = tlb /\ cur' = cur /\ pid_cnt' = pid_cnt + 1
      /\ pid_cnt < MaxPid /\ pid_cnt \in Nat /\ MaxPid \in Nat
  BY AddrSpaceAssumption DEF Fill, cpu, IInv, EnvsInStep
<1>4. heap \in Nat /\ HeapStart \in Nat /\ HeapStart <= heap /\ PtBytes \in Nat /\ PtBytes > 0
  BY HeapAssumption DEF Tables
<1>5. NewEnv \in Env'
  <2>1. /\ NewEnv = [pid |-> NewEnv.pid, domain |-> NewEnv.domain, asid |-> NewEnv.asid,
                     domain_reg |-> NewEnv.domain_reg, pt |-> NewEnv.pt]
        /\ NewEnv.pid = pid_cnt + 1 /\ NewEnv.domain_reg \subseteq Doms
    BY DEF NewEnv, NewEnvOf
  <2>. QED
    BY <2>1, <1>1, <1>2, <1>3 DEF Env
<1>6. ASSUME NEW p \in DOMAIN pts'
      PROVE  /\ p \in Nat /\ p + PtBytes <= heap'
             /\ (p \in DOMAIN pts /\ p + PtBytes <= heap) \/ p = NewEnv.pt
  <2>1. CASE p = NewEnv.pt
    BY <2>1, <1>1
  <2>2. CASE p \in DOMAIN pts
    <3>1. p \in Nat /\ p + PtBytes <= heap
      BY <2>2 DEF Tables
    <3>. QED
      BY <3>1, <2>2, <1>1, <1>4
  <2>. QED
    BY <2>1, <2>2, <1>1
<1>7. ASSUME NEW m \in DOMAIN envs, m # slot
      PROVE  /\ envs'[m] = envs[m] /\ envs'[m] \in Env'
             /\ envs[m].pt \in Nat /\ envs[m].pt + PtBytes <= heap
  <2>1. envs[m] \in Env /\ envs[m].pt \in DOMAIN pts
    BY DEF Tables, Env
  <2>2. envs[m].pt \in Nat /\ envs[m].pt + PtBytes <= heap
    BY <2>1 DEF Tables
  <2>. QED
    BY <2>1, <2>2, <1>1, <1>2, <1>7 DEF Env
<1>8. ASSUME NEW m \in DOMAIN envs', NEW n \in DOMAIN envs', m # n
      PROVE  envs'[m].pt + PtBytes <= envs'[n].pt \/ envs'[n].pt + PtBytes <= envs'[m].pt
  <2>1. CASE m = slot
    BY <2>1, <1>1, <1>2, <1>4, <1>7, <1>8
  <2>2. CASE n = slot
    BY <2>2, <1>1, <1>2, <1>4, <1>7, <1>8
  <2>3. CASE m # slot /\ n # slot
    BY <2>3, <1>2, <1>7, <1>8 DEF Tables
  <2>. QED
    BY <2>1, <2>2, <2>3
<1>9. \A m \in DOMAIN envs' : envs'[m] \in Env'
  BY <1>2, <1>5, <1>7
<1>10. HeapStart <= heap' /\ pid_cnt' <= MaxPid
  BY <1>1, <1>3, <1>4
<1>11. on' \/ tlb' # {} => cur'.pt \in DOMAIN pts'
  BY <1>1, <1>3 DEF Tables
<1>12. panicked' \in BOOLEAN /\ on' \in BOOLEAN /\ dacr' \subseteq AllDomains
  BY <1>1, <1>3 DEF Tables
<1>. QED
  BY <1>1, <1>6, <1>8, <1>9, <1>10, <1>11, <1>12 DEF Tables

LEMMA OthersTables ==
  ASSUME Tables, UNCHANGED <<heap, envs, pid_cnt>>, DOMAIN pts' = DOMAIN pts,
         panicked' \in BOOLEAN, on' \in BOOLEAN, stray' \in BOOLEAN, dacr' \subseteq AllDomains,
         on' \/ tlb' # {} => cur'.pt \in DOMAIN pts
  PROVE  Tables'
BY DEF Tables, Env

LEMMA NextTables == IInv /\ Tables /\ [Next]_vars => Tables'
<1> SUFFICES ASSUME IInv, Tables, [Next]_vars PROVE Tables'
  OBVIOUS
<1>0. /\ panicked \in BOOLEAN /\ on \in BOOLEAN /\ stray \in BOOLEAN /\ dacr \subseteq AllDomains
      /\ on \/ tlb # {} => cur.pt \in DOMAIN pts
  BY DEF Tables
<1>1. CASE EnvAlloc \/ EnvAllocStray
  <2>1. stray' \in BOOLEAN
    BY <1>0, <1>1 DEF EnvAlloc, EnvAllocStray
  <2>. QED
    BY <1>1, <2>1, TakesSlot, FillTables
<1>2. ASSUME NEW n \in DOMAIN envs, EnvFree(n) PROVE Tables'
  BY <1>0, <1>2, OthersTables DEF EnvFree, heapVars, cpu, Panic
<1>3. ASSUME NEW n \in Live, EnvSwitchTo(n) PROVE Tables'
  <2>1. cur'.pt \in DOMAIN pts
    <3>1. n \in DOMAIN envs /\ envs[n].pt \in DOMAIN pts
      BY DEF Live, Tables, Env
    <3>. QED
      BY <1>3, <3>1 DEF EnvSwitchTo, Registers, mmu_get_curpid
  <2>. QED
    BY <1>0, <1>3, <2>1, OthersTables DEF EnvSwitchTo, heapVars, Panic, MmuEnable, DomainWritten
<1>4. ASSUME NEW n \in Live, NEW va \in VAs, NEW pa \in PAs, MapSection(n, va, pa)
      PROVE  Tables'
  <2>1. DOMAIN pts' = DOMAIN pts
    BY <1>4 DEF MapSection
  <2>2. UNCHANGED <<heap, envs, pid_cnt, on, stray, dacr, cur, tlb>> /\ panicked' \in BOOLEAN
    BY <1>0, <1>4 DEF MapSection, heapVars, cpu, Panic
  <2>3. /\ on' \in BOOLEAN /\ stray' \in BOOLEAN /\ dacr' \subseteq AllDomains
        /\ on' \/ tlb' # {} => cur'.pt \in DOMAIN pts
    BY <1>0, <2>2
  <2>. QED
    BY <2>1, <2>2, <2>3, OthersTables
<1>5. CASE MmuDisable
  <2>1. UNCHANGED <<heap, envs, pid_cnt, pts, stray, dacr, cur, tlb>>
    BY <1>5 DEF MmuDisable, heapVars, Panic
  <2>2. /\ panicked' = panicked \/ panicked' = TRUE
        /\ on' = on \/ on' = FALSE
    BY <1>5 DEF MmuDisable, heapVars, Panic
  <2>3. /\ stray' \in BOOLEAN /\ dacr' \subseteq AllDomains /\ DOMAIN pts' = DOMAIN pts
        /\ panicked' \in BOOLEAN /\ on' \in BOOLEAN
    BY <1>0, <2>1, <2>2
  <2>4. on' \/ tlb' # {} => cur'.pt \in DOMAIN pts
    <3>1. CASE on' = on
      BY <3>1, <1>0, <2>1
    <3>2. CASE on' = FALSE
      BY <3>2, <1>0, <2>1
    <3>. QED
      BY <3>1, <3>2, <2>2
  <2>. QED
    BY <2>1, <2>3, <2>4, OthersTables
<1>6. CASE Hardware
  BY <1>0, <1>6, OthersTables DEF Hardware, Walk, Evict, heapVars
<1>7. CASE UNCHANGED vars
  BY <1>0, <1>7, OthersTables DEF vars, heapVars, cpu
<1>. QED
  BY <1>1, <1>2, <1>3, <1>4, <1>5, <1>6, <1>7 DEF Next, Driver

-----------------------------------------------------------------------------
(* No id is lost.  The pools start full and keep each id once; until the   *)
(* first environment past MAX_ENV, the pools of domains and asids keep     *)
(* those that no slot goes with.                                           *)
PoolsFull ==
  /\ \A i, j \in 1 .. Len(env_v) : env_v[i] = env_v[j] => i = j
  /\ \A n \in Slots : n \in DOMAIN envs \/ \E i \in 1 .. Len(env_v) : env_v[i] = n
  /\ NoId \notin DOMAIN envs => /\ Len(dom_v) - Len(env_v) = DomUb - 1 - MAX_ENV
                                /\ Len(asid_v) - Len(env_v) = AsidUb - 1 - MAX_ENV

LEMMA InitPools == Init => PoolsFull
<1> SUFFICES ASSUME Init PROVE PoolsFull
  OBVIOUS
<1>1. Len(env_v) = MAX_ENV /\ \A i \in 1 .. MAX_ENV : env_v[i] = MAX_ENV - i
  <2>1. 0 \in Nat /\ MAX_ENV \in Nat /\ 0 < MAX_ENV /\ MAX_ENV - 0 = MAX_ENV
    BY Constants
  <2>. QED
    BY <2>1, FullPool DEF Init
<1>2. Len(dom_v) = DomUb - 1 /\ Len(asid_v) = AsidUb - 1
  <2>1. 1 \in Nat /\ DomUb \in Nat /\ 1 < DomUb /\ AsidUb \in Nat /\ 1 < AsidUb
    BY Constants
  <2>. QED
    BY <2>1, FullPool DEF Init
<1>3. \A i, j \in 1 .. Len(env_v) : env_v[i] = env_v[j] => i = j
  BY <1>1, Constants
<1>4. ASSUME NEW n \in Slots PROVE \E i \in 1 .. Len(env_v) : env_v[i] = n
  <2>1. MAX_ENV - n \in 1 .. MAX_ENV /\ MAX_ENV - (MAX_ENV - n) = n
    BY Constants
  <2>. QED
    BY <2>1, <1>1
<1>5. /\ Len(dom_v) - Len(env_v) = DomUb - 1 - MAX_ENV
      /\ Len(asid_v) - Len(env_v) = AsidUb - 1 - MAX_ENV
  BY <1>1, <1>2
<1>. QED
  BY <1>3, <1>4, <1>5 DEF PoolsFull

LEMMA LiveIsRest ==
  /\ Live \subseteq DOMAIN envs
  /\ \A n \in DOMAIN envs : n \in Live <=> ~ \E i \in 1 .. Len(env_v) : env_v[i] = n
BY DEF Live

LEMMA FillPools ==
  ASSUME IInv, PoolsFull, NEW slot, slot = Taken(env_v), Fill(slot)
  PROVE  PoolsFull'
<1>1. env_v \in Seq(Slots) /\ env_v' = Left(env_v) /\ DOMAIN envs' = DOMAIN envs \cup {slot}
  BY DEF IInv, PoolsInStep, Fill
<1>2. /\ slot \in Slots \cup {NoId} /\ (slot \in Slots <=> env_v # <<>>)
      /\ slot \in Slots => /\ Len(dom_v') - Len(env_v') = Len(dom_v) - Len(env_v)
                           /\ Len(asid_v') - Len(env_v') = Len(asid_v) - Len(env_v)
  BY FillIds DEF IInv
<1>3. CASE env_v # <<>>
  <2>1. /\ Len(env_v) \in Nat /\ Len(env_v) > 0
        /\ Len(env_v') = Len(env_v) - 1 /\ slot = env_v[Len(env_v)]
        /\ \A i \in 1 .. Len(env_v) - 1 : env_v'[i] = env_v[i]
    BY <1>1, <1>3, TakeFromPool
  <2>2. \A i, j \in 1 .. Len(env_v') : env_v'[i] = env_v'[j] => i = j
    BY <2>1 DEF PoolsFull
  <2>3. ASSUME NEW n \in Slots, n \notin DOMAIN envs' PROVE \E i \in 1 .. Len(env_v') : env_v'[i] = n
    <3>1. PICK i \in 1 .. Len(env_v) : env_v[i] = n
      BY <1>1, <2>3 DEF PoolsFull
    <3>2. i \in 1 .. Len(env_v')
      BY <3>1, <1>1, <2>1, <2>3
    <3>. QED
      BY <3>1, <3>2, <2>1
  <2>4. NoId \notin DOMAIN envs' => /\ Len(dom_v') - Len(env_v') = DomUb - 1 - MAX_ENV
                                    /\ Len(asid_v') - Len(env_v') = AsidUb - 1 - MAX_ENV
    BY <1>1, <1>2, <1>3 DEF PoolsFull
  <2>. QED
    BY <2>2, <2>3, <2>4 DEF PoolsFull
<1>4. CASE env_v = <<>>
  <2>1. env_v' = env_v /\ NoId \in DOMAIN envs'
    BY <1>1, <1>2, <1>4 DEF Left
  <2>. QED
    BY <2>1, <1>1 DEF PoolsFull
<1>. QED
  BY <1>3, <1>4

LEMMA EnvFreePools ==
  ASSUME IInv, PoolsFull, NEW n \in DOMAIN envs, EnvFree(n)
  PROVE  PoolsFull'
<1>1. /\ env_v \in Seq(Slots)
      /\ InStep(env_v, dom_v, DomUb) /\ InStep(env_v, asid_v, AsidUb)
  BY DEF IInv, PoolsInStep
<1>2. envs' = envs
  BY DEF EnvFree
<1>3. CASE UNCHANGED pools
  BY <1>2, <1>3 DEF PoolsFull, pools
<1>4. CASE /\ n \in Slots /\ MayFree(env_v, MAX_ENV, n)
           /\ dom_v' = Append(dom_v, n + 1) /\ asid_v' = Append(asid_v, n + 1)
           /\ env_v' = Append(env_v, n)
  <2>1. /\ Len(dom_v') - Len(env_v') = Len(dom_v) - Len(env_v)
        /\ Len(asid_v') - Len(env_v') = Len(asid_v) - Len(env_v)
    BY <1>1, <1>4, Constants, InStepReturn
  <2>2. /\ Len(env_v') = Len(env_v) + 1 /\ env_v'[Len(env_v) + 1] = n
        /\ \A i \in 1 .. Len(env_v) : env_v'[i] = env_v[i]
    BY <1>1, <1>4, ReturnToPool
  <2>3. Len(env_v) \in Nat /\ \A i \in 1 .. Len(env_v) : env_v[i] # n
    BY <1>1, <1>4 DEF MayFree
  <2>4. \A i \in 1 .. Len(env_v') : i \in 1 .. Len(env_v) \/ i = Len(env_v) + 1
    BY <2>2, <2>3
  <2>5. \A i, j \in 1 .. Len(env_v') : env_v'[i] = env_v'[j] => i = j
    BY <2>2, <2>3, <2>4 DEF PoolsFull
  <2>6. \A i \in 1 .. Len(env_v) : i \in 1 .. Len(env_v')
    BY <2>2, <2>3
  <2>7. \A k \in Slots : k \in DOMAIN envs' \/ \E i \in 1 .. Len(env_v') : env_v'[i] = k
    BY <1>2, <2>2, <2>6 DEF PoolsFull
  <2>. QED
    BY <1>2, <2>1, <2>5, <2>7 DEF PoolsFull
<1>. QED
  BY <1>3, <1>4, Freeing

LEMMA OthersPools ==
  ASSUME PoolsFull, UNCHANGED <<pools, envs>>
  PROVE  PoolsFull'
BY DEF PoolsFull, pools

LEMMA NextPools == IInv /\ PoolsFull /\ [Next]_vars => PoolsFull'
<1> SUFFICES ASSUME IInv, PoolsFull, [Next]_vars PROVE PoolsFull'
  OBVIOUS
<1>1. CASE EnvAlloc \/ EnvAllocStray
  BY <1>1, TakesSlot, FillPools
<1>2. ASSUME NEW n \in DOMAIN envs, EnvFree(n) PROVE PoolsFull'
  BY <1>2, EnvFreePools
<1>3. ASSUME NEW n \in Live, EnvSwitchTo(n) PROVE PoolsFull'
  BY <1>3, OthersPools DEF EnvSwitchTo
<1>4. ASSUME NEW n \in Live, NEW va \in VAs, NEW pa \in PAs, MapSection(n, va, pa)
      PROVE  PoolsFull'
  BY <1>4, OthersPools DEF MapSection
<1>5. CASE MmuDisable
  BY <1>5, OthersPools DEF MmuDisable
<1>6. CASE Hardware
  BY <1>6, OthersPools DEF Hardware, Walk, Evict
<1>7. CASE UNCHANGED vars
  BY <1>7, OthersPools DEF vars
<1>. QED
  BY <1>1, <1>2, <1>3, <1>4, <1>5, <1>6, <1>7 DEF Next, Driver

(* Counting with sets of one member and of none.                           *)
LEMMA OneOrNone ==
  ASSUME NEW A, NEW B,
         \A i, j \in A : i = j,
         \A k, l \in B : k = l,
         A = {} <=> B # {}
  PROVE  Cardinality(A) + Cardinality(B) = 1
<1>1. CASE A = {}
  <2>1. PICK b \in B : TRUE
    BY <1>1
  <2>2. B = {b}
    BY <2>1
  <2>3. Cardinality(B) = 1 /\ Cardinality(A) = 0
    BY <1>1, <2>2, FS_Singleton, FS_EmptySet
  <2>. QED
    BY <2>3
<1>2. CASE A # {}
  <2>1. PICK a \in A : TRUE
    BY <1>2
  <2>2. A = {a} /\ B = {}
    BY <2>1, <1>2
  <2>3. Cardinality(A) = 1 /\ Cardinality(B) = 0
    BY <2>2, FS_Singleton, FS_EmptySet
  <2>. QED
    BY <2>3
<1>. QED
  BY <1>1, <1>2

\* Slot n is either in its pool, once, or in use.
LEMMA SlotsAccounted ==
  ASSUME IInv, PoolsFull, NoId \notin DOMAIN envs
  PROVE  /\ \A n \in Slots : (\E i \in 1 .. Len(env_v) : env_v[i] = n) <=> n \notin Live
         /\ Live \subseteq Slots /\ Len(env_v) \in Nat
         /\ \A i \in 1 .. Len(env_v) : env_v[i] \in Slots
<1>1. env_v \in Seq(Slots)
  BY DEF IInv, PoolsInStep
<1>2. Len(env_v) \in Nat /\ \A i \in 1 .. Len(env_v) : env_v[i] \in Slots
  BY <1>1
<1>3. \A n \in Slots : (\E i \in 1 .. Len(env_v) : env_v[i] = n) <=> n \notin Live
  BY LiveIsRest DEF PoolsFull
<1>4. Live \subseteq Slots
  BY LiveIsRest DEF IInv, EnvsInStep
<1>. QED
  BY <1>2, <1>3, <1>4

\* A pool that repeats the slots above base, and below it has what is never taken.
LEMMA PoolAccounted ==
  ASSUME IInv, PoolsFull, NoId \notin DOMAIN envs, NEW base \in Nat, NEW pool, NEW held,
         Len(pool) = Len(env_v) + base,
         \A i \in 1 .. Len(env_v) : pool[i + base] = env_v[i] + 1,
         \A i \in 1 .. base : pool[i] = base + MAX_ENV + 1 - i,
         \A n \in Live : held[n] = n + 1
  PROVE  Accounted(pool, 1 .. base + MAX_ENV, held)
<1>1. /\ \A n \in Slots : (\E i \in 1 .. Len(env_v) : env_v[i] = n) <=> n \notin Live
      /\ Live \subseteq Slots /\ Len(env_v) \in Nat
      /\ \A i \in 1 .. Len(env_v) : env_v[i] \in Slots
  BY SlotsAccounted
<1>2. MAX_ENV \in Nat /\ MAX_ENV > 0 /\ Slots = 0 .. MAX_ENV - 1
  BY Constants
<1>3. \A i, j \in 1 .. Len(env_v) : env_v[i] = env_v[j] => i = j
  BY DEF PoolsFull
<1>4. ASSUME NEW i \in 1 .. Len(pool)
      PROVE  \/ i \in 1 .. base /\ pool[i] = base + MAX_ENV + 1 - i
             \/ i > base /\ i - base \in 1 .. Len(env_v) /\ pool[i] = env_v[i - base] + 1
  <2>1. CASE i <= base
    BY <2>1, <1>1
  <2>2. CASE i > base
    <3>1. i - base \in 1 .. Len(env_v) /\ (i - base) + base = i
      BY <2>2, <1>1
    <3>2. pool[(i - base) + base] = env_v[i - base] + 1
      BY <3>1
    <3>. QED
      BY <2>2, <3>1, <3>2
  <2>. QED
    BY <2>1, <2>2, <1>1
<1>5. ASSUME NEW i \in 1 .. Len(pool), NEW j \in 1 .. Len(pool), pool[i] = pool[j] PROVE i = j
  <2>1. CASE i <= base /\ j <= base
    BY <2>1, <1>2, <1>4, <1>5
  <2>2. CASE i > base /\ j > base
    <3>1. /\ i - base \in 1 .. Len(env_v) /\ pool[i] = env_v[i - base] + 1
          /\ j - base \in 1 .. Len(env_v) /\ pool[j] = env_v[j - base] + 1
      BY <2>2, <1>4
    <3>2. env_v[i - base] \in Int /\ env_v[j - base] \in Int
      BY <3>1, <1>1, <1>2
    <3>3. env_v[i - base] = env_v[j - base]
      BY <3>1, <3>2, <1>5
    <3>4. i - base = j - base
      BY <3>1, <3>3, <1>3
    <3>. QED
      BY <3>4
  <2>3. CASE i <= base /\ j > base
    <3>1. /\ pool[i] = base + MAX_ENV + 1 - i /\ j - base \in 1 .. Len(env_v)
          /\ pool[j] = env_v[j - base] + 1
      BY <2>3, <1>4
    <3>2. env_v[j - base] \in 0 .. MAX_ENV - 1
      BY <3>1, <1>1, <1>2
    <3>. QED
      BY <2>3, <3>1, <3>2, <1>2, <1>5
  <2>4. CASE i > base /\ j <= base
    <3>1. /\ pool[j] = base + MAX_ENV + 1 - j /\ i - base \in 1 .. Len(env_v)
          /\ pool[i] = env_v[i - base] + 1
      BY <2>4, <1>4
    <3>2. env_v[i - base] \in 0 .. MAX_ENV - 1
      BY <3>1, <1>1, <1>2
    <3>. QED
      BY <2>4, <3>1, <3>2, <1>2, <1>5
  <2>. QED
    BY <2>1, <2>2, <2>3, <2>4
<1>6. ASSUME NEW x \in 1 .. base + MAX_ENV
      PROVE  (\E i \in 1 .. Len(pool) : pool[i] = x) <=> ~ (\E k \in Live : held[k] = x)
  <2>1. CASE x <= MAX_ENV
    <3>1. x - 1 \in Slots /\ (x - 1) + 1 = x
      BY <2>1, <1>2
    <3>2. (\E k \in Live : held[k] = x) <=> x - 1 \in Live
      <4>1. \A k \in Live : held[k] = x => k = x - 1
        BY <1>1, <1>2
      <4>2. x - 1 \in Live => held[x - 1] = x
        BY <3>1
      <4>. QED
        BY <4>1, <4>2
    <3>3. (\E i \in 1 .. Len(pool) : pool[i] = x) <=> \E i \in 1 .. Len(env_v) : env_v[i] = x - 1
      <4>1. ASSUME NEW i \in 1 .. Len(pool), pool[i] = x
            PROVE  \E j \in 1 .. Len(env_v) : env_v[j] = x - 1
        <5>1. i - base \in 1 .. Len(env_v) /\ pool[i] = env_v[i - base] + 1
          BY <4>1, <2>1, <1>2, <1>4
        <5>2. env_v[i - base] \in Int
          BY <5>1, <1>1, <1>2
        <5>3. env_v[i - base] = x - 1
          BY <5>1, <5>2, <4>1
        <5>. QED
          BY <5>1, <5>3
      <4>2. ASSUME NEW j \in 1 .. Len(env_v), env_v[j] = x - 1
            PROVE  \E i \in 1 .. Len(pool) : pool[i] = x
        <5>1. j + base \in 1 .. Len(pool)
          BY <1>1
        <5>. QED
          BY <5>1, <4>2, <3>1
      <4>. QED
        BY <4>1, <4>2
    <3>. QED
      BY <3>1, <3>2, <3>3, <1>1
  <2>2. CASE x > MAX_ENV
    <3>1. \A k \in Live : held[k] # x
      BY <2>2, <1>1, <1>2
    <3>2. base + MAX_ENV + 1 - x \in 1 .. base
      BY <2>2, <1>2
    <3>3. pool[base + MAX_ENV + 1 - x] = x
      BY <3>2, <1>2
    <3>4. base + MAX_ENV + 1 - x \in 1 .. Len(pool)
      BY <3>2, <1>1
    <3>. QED
      BY <3>1, <3>3, <3>4
  <2>. QED
    BY <2>1, <2>2, <1>2
<1>7. \A k, l \in Live : held[k] = held[l] => k = l
  BY <1>1, <1>2
<1>8. Len(pool) \in Nat
  BY <1>1
<1>9. ASSUME NEW x \in 1 .. base + MAX_ENV
      PROVE  Cardinality({ i \in 1 .. Len(pool) : pool[i] = x }) + Cardinality({ k \in Live : held[k] = x }) = 1
  <2> DEFINE A == { i \in 1 .. Len(pool) : pool[i] = x }
             B == { k \in Live : held[k] = x }
  <2>1. (\A i, j \in A : i = j) /\ (\A k, l \in B : k = l)
    BY <1>5, <1>7
  <2>2. A = {} <=> B # {}
    BY <1>6
  <2> HIDE DEF A, B
  <2>3. Cardinality(A) + Cardinality(B) = 1
    BY <2>1, <2>2, OneOrNone
  <2>. QED
    BY <2>3 DEF A, B
<1>. QED
  BY <1>9 DEF Accounted

LEMMA AllAccounted ==
  ASSUME IInv, PoolsFull
  PROVE  IdsAccounted
<1> SUFFICES ASSUME NoId \notin DOMAIN envs
             PROVE  /\ Accounted(env_v, Slots, [n \in Live |-> n])
                    /\ Accounted(dom_v, Doms, [n \in Live |-> envs[n].domain])
                    /\ Accounted(asid_v, Asids, [n \in Live |-> envs[n].asid])
  BY DEF IdsAccounted
<1>1. /\ \A n \in Slots : (\E i \in 1 .. Len(env_v) : env_v[i] = n) <=> n \notin Live
      /\ Live \subseteq Slots /\ Len(env_v) \in Nat
  BY SlotsAccounted
<1>2. Accounted(env_v, Slots, [n \in Live |-> n])
  <2> DEFINE held == [n \in Live |-> n]
  <2>1. ASSUME NEW x \in Slots
        PROVE  Cardinality({ i \in 1 .. Len(env_v) : env_v[i] = x }) + Cardinality({ k \in Live : held[k] = x }) = 1
    <3>1. \A i, j \in 1 .. Len(env_v) : env_v[i] = x /\ env_v[j] = x => i = j
      BY DEF PoolsFull
    <3>2. \A k \in Live : held[k] = k
      OBVIOUS
    <3> HIDE DEF held
    <3>3. \A k, l \in Live : held[k] = x /\ held[l] = x => k = l
      BY <3>2
    <3>4. (\E i \in 1 .. Len(env_v) : env_v[i] = x) <=> ~ (\E k \in Live : held[k] = x)
      BY <3>2, <1>1
    <3> DEFINE A == { i \in 1 .. Len(env_v) : env_v[i] = x }
               B == { k \in Live : held[k] = x }
    <3>5. (\A i, j \in A : i = j) /\ (\A k, l \in B : k = l)
      BY <3>1, <3>3
    <3>6. A = {} <=> B # {}
      BY <3>4
    <3> HIDE DEF A, B
    <3>7. Cardinality(A) + Cardinality(B) = 1
      BY <3>5, <3>6, OneOrNone
    <3>. QED
      BY <3>7 DEF A, B
  <2>. QED
    BY <2>1 DEF Accounted
<1>3. Live \subseteq DOMAIN envs /\ \A n \in DOMAIN envs : envs[n].domain = n + 1 /\ envs[n].asid = n + 1
  BY LiveIsRest DEF IInv, EnvsInStep, IdOf
<1>4. Accounted(dom_v, Doms, [n \in Live |-> envs[n].domain])
  <2> DEFINE held == [n \in Live |-> envs[n].domain]
  <2>1. \A n \in Live : held[n] = n + 1
    BY <1>3
  <2> DEFINE base == DomUb - 1 - MAX_ENV
  <2>2. Doms = 1 .. base + MAX_ENV /\ base \in Nat
    BY Constants
  <2>3. /\ Len(dom_v) = Len(env_v) + base
        /\ \A i \in 1 .. Len(env_v) : dom_v[i + base] = env_v[i] + 1
        /\ \A i \in 1 .. base : dom_v[i] = base + MAX_ENV + 1 - i
    <3>1. /\ dom_v \in Seq(1 .. DomUb - 1) /\ Len(dom_v) - Len(env_v) = base
          /\ \A i \in 1 .. Len(env_v) : dom_v[i + (Len(dom_v) - Len(env_v))] = env_v[i] + 1
          /\ \A i \in 1 .. Len(dom_v) - Len(env_v) : dom_v[i] = DomUb - i
      BY DEF IInv, PoolsInStep, InStep, PoolsFull
    <3>2. Len(dom_v) = Len(env_v) + base
      BY <3>1, <1>1
    <3>. QED
      BY <3>1, <3>2, Constants
  <2> HIDE DEF held, base
  <2>4. Accounted(dom_v, 1 .. base + MAX_ENV, held)
    BY <2>1, <2>2, <2>3, PoolAccounted
  <2>. QED
    BY <2>2, <2>4 DEF held
<1>5. Accounted(asid_v, Asids, [n \in Live |-> envs[n].asid])
  <2> DEFINE held == [n \in Live |-> envs[n].asid]
  <2>1. \A n \in Live : held[n] = n + 1
    BY <1>3
  <2> DEFINE base == AsidUb - 1 - MAX_ENV
  <2>2. Asids = 1 .. base + MAX_ENV /\ base \in Nat
    BY Constants
  <2>3. /\ Len(asid_v) = Len(env_v) + base
        /\ \A i \in 1 .. Len(env_v) : asid_v[i + base] = env_v[i] + 1
        /\ \A i \in 1 .. base : asid_v[i] = base + MAX_ENV + 1 - i
    <3>1. /\ asid_v \in Seq(1 .. AsidUb - 1) /\ Len(asid_v) - Len(env_v) = base
          /\ \A i \in 1 .. Len(env_v) : asid_v[i + (Len(asid_v) - Len(env_v))] = env_v[i] + 1
          /\ \A i \in 1 .. Len(asid_v) - Len(env_v) : asid_v[i] = AsidUb - i
      BY DEF IInv, PoolsInStep, InStep, PoolsFull
    <3>2. Len(asid_v) = Len(env_v) + base
      BY <3>1, <1>1
    <3>. QED
      BY <3>1, <3>2, Constants
  <2> HIDE DEF held, base
  <2>4. Accounted(asid_v, 1 .. base + MAX_ENV, held)
    BY <2>1, <2>2, <2>3, PoolAccounted
  <2>. QED
    BY <2>2, <2>4 DEF held
<1>. QED
  BY <1>2, <1>4, <1>5

-----------------------------------------------------------------------------
Sound == IInv /\ Tables /\ PoolsFull

LEMMA AlwaysSound == Spec => []Sound
<1>1. Init => Sound
  BY InitIInv, InitTables, InitPools DEF Sound
<1>2. Sound /\ [Next]_vars => Sound'
  BY NextIInv, NextTables, NextPools DEF Sound
<1>. QED
  BY <1>1, <1>2, PTL DEF Spec

\* Whatever is allocated and freed, the page tables of two environments share no
\* byte, also when callers go past MAX_ENV; and until they do, every slot, domain
\* and asid is in its pool, once, or held by just one environment in use
\* (driver.c:37-59, bvec.c:11-41, mmu.c:113-121).
THEOREM IdsAlwaysSound == Spec => []IdsSound
<1>1. Sound => IdsSound
  <2> SUFFICES ASSUME Sound PROVE IdsSound
    OBVIOUS
  <2>1. TypeOK
    <3>1. pid_cnt \in 0 .. MaxPid
      BY AddrSpaceAssumption DEF Sound, IInv, EnvsInStep, Tables
    <3>2. dom_v \in Seq(Doms) /\ asid_v \in Seq(Asids) /\ env_v \in Seq(Slots)
      BY DEF Sound, IInv, PoolsInStep, InStep, Doms, Asids
    <3>3. DOMAIN envs \subseteq Slots \cup {NoId} /\ \A n \in DOMAIN envs : envs[n] \in Env
      BY DEF Sound, IInv, EnvsInStep, Tables
    <3>. QED
      BY <3>1, <3>2, <3>3 DEF Sound, Tables, TypeOK
  <2>2. TablesDisjoint
    BY LiveIsRest DEF Sound, Tables, TablesDisjoint
  <2>3. IdsAccounted
    BY AllAccounted DEF Sound
  <2>. QED
    BY <2>1, <2>2, <2>3 DEF IdsSound
<1>. QED
  BY <1>1, AlwaysSound, PTL

-----------------------------------------------------------------------------
(* The TLB against the current table.  An entry can only go wrong when the *)
(* table's entry for its section is changed or the table is made anew: the *)
(* demand() of mmu_map_section() excludes the first, and the heap pointer  *)
(* the second.                                                             *)
LEMMA FillAgrees ==
  ASSUME IInv, Tables, NEW slot, slot = Taken(env_v), Fill(slot), Agrees
  PROVE  Agrees'
<1>1. UNCHANGED <<cur, tlb>>
  BY DEF Fill, cpu
<1>2. /\ heap \in Nat /\ heap <= NewEnv.pt /\ NewEnv.pt \in Nat
      /\ \A p \in DOMAIN pts : p # NewEnv.pt => pts'[p] = pts[p]
  BY PtAllocated DEF Tables, Fill
<1>3. PtBytes \in Nat /\ PtBytes > 0
  BY HeapAssumption
<1>4. \A p \in DOMAIN pts : pts'[p] = pts[p]
  BY <1>2, <1>3 DEF Tables
<1>5. tlb # {} => pts'[cur.pt] = pts[cur.pt]
  BY <1>4 DEF Tables
<1>. QED
  BY <1>1, <1>5 DEF Agrees, Serves

LEMMA MapAgrees ==
  ASSUME Tables, NEW n \in Live, NEW va \in VAs, NEW pa \in PAs, MapSection(n, va, pa), Agrees
  PROVE  Agrees'
<1> DEFINE sec == va \div Section
           q == envs[n].pt
           d == Edited(Descriptor(pa), envs[n])
<1>1. UNCHANGED <<cur, tlb>>
  BY DEF MapSection, cpu
<1>2. CASE pts' = pts
  BY <1>1, <1>2 DEF Agrees, Serves
<1>3. CASE /\ sec \notin DOMAIN pts[q]
           /\ pts' = [pts EXCEPT ![q] =
                        [s \in DOMAIN pts[q] \cup {sec} |-> IF s = sec THEN d ELSE pts[q][s]]]
  <2>1. q \in DOMAIN pts
    BY DEF Live, Tables, Env
  <2> HIDE DEF q, d, sec
  <2>2. /\ \A p \in DOMAIN pts : p # q => pts'[p] = pts[p]
        /\ pts'[q] = [s \in DOMAIN pts[q] \cup {sec} |-> IF s = sec THEN d ELSE pts[q][s]]
    BY <1>3, <2>1
  <2>3. ASSUME NEW p \in DOMAIN pts, NEW s \in DOMAIN pts[p]
        PROVE  s \in DOMAIN pts'[p] /\ pts'[p][s] = pts[p][s]
    <3>1. CASE p # q
      BY <3>1, <2>2
    <3>2. CASE p = q
      BY <3>2, <2>2, <1>3
    <3>. QED
      BY <3>1, <3>2
  <2>4. tlb # {} => cur.pt \in DOMAIN pts
    BY DEF Tables
  <2>. QED
    BY <1>1, <2>3, <2>4 DEF Agrees, Serves
<1>. QED
  BY <1>2, <1>3 DEF MapSection, CanMap

\* What the TLB serves stays right until the registers change (vm-asm.S:245-246),
\* for any number of environments, mappings and addresses.
THEOREM EntriesAlwaysStayRight == Spec => EntriesStayRight
<1>1. Sound /\ [Next]_vars => [cur' = cur /\ Agrees => Agrees']_vars
  <2> SUFFICES ASSUME Sound, [Next]_vars, cur' = cur, Agrees PROVE Agrees'
    OBVIOUS
  <2>0. IInv /\ Tables
    BY DEF Sound
  <2>1. CASE EnvAlloc \/ EnvAllocStray
    BY <2>0, <2>1, TakesSlot, FillAgrees
  <2>2. ASSUME NEW n \in DOMAIN envs, EnvFree(n) PROVE Agrees'
    BY <2>2 DEF EnvFree, cpu, Agrees, Serves
  <2>3. ASSUME NEW n \in Live, EnvSwitchTo(n) PROVE Agrees'
    BY <2>3 DEF EnvSwitchTo, Agrees, Serves
  <2>4. ASSUME NEW n \in Live, NEW va \in VAs, NEW pa \in PAs, MapSection(n, va, pa)
        PROVE  Agrees'
    BY <2>0, <2>4, MapAgrees
  <2>5. CASE MmuDisable
    BY <2>5 DEF MmuDisable, Agrees, Serves
  <2>6. ASSUME NEW sec, Walk(sec) PROVE Agrees'
    BY <2>6 DEF Walk, Agrees, Serves
  <2>7. ASSUME NEW t \in tlb, Evict(t) PROVE Agrees'
    BY <2>7 DEF Evict, Agrees, Serves
  <2>8. CASE UNCHANGED vars
    BY <2>8 DEF vars, cpu, Agrees, Serves
  <2>. QED
    BY <2>1, <2>2, <2>3, <2>4, <2>5, <2>6, <2>7, <2>8 DEF Next, Driver, Hardware
<1>. QED
  BY <1>1, AlwaysSound, PTL DEF Spec, EntriesStayRight
=============================================================================
