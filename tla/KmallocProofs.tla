---------------------------- MODULE KmallocProofs ----------------------------
(***************************************************************************)
(* Theorems about the heap of Kmalloc, for every heap, every set of sizes  *)
(* and every set of alignments that keep clear of the top of the address   *)
(* space, where roundup() wraps to 0, and of the alignment 0.              *)
(***************************************************************************)
EXTENDS Kmalloc, TLAPS

\* No request comes near the end of the address space.  That a power of two is
\* 1, 2, 4 or a multiple of 8 is arithmetic that the provers do not have.
Modest ==
  /\ Sizes \subseteq 0 .. AddrMod - Word
  /\ \A a \in Alignments : IsPow2(a) =>
       /\ a > 0 /\ HeapBound + a <= AddrMod
       /\ a \in {1, 2, 4} \/ a % Word = 0

\* The pointer stays in the heap and on a double's alignment.
HeapOK == HeapStart <= heap /\ heap <= HeapBound /\ heap % Word = 0

\* Blocks follow one another; an empty one may sit at the start of the next.
BlocksApart ==
  \A b, c \in blocks : b # c =>
    b.at + b.nbytes <= c.at \/ c.at + c.nbytes <= b.at

IInv == TypeOK /\ HeapOK /\ BlocksBelowHeap /\ BlocksApart /\ BlocksAligned

-----------------------------------------------------------------------------
LEMMA Constants ==
  /\ AddrMod \in Nat /\ AddrMod % 8 = 0 /\ AddrMod > 0 /\ Word = 8
  /\ HeapStart \in Nat /\ HeapStart % 8 = 0 /\ HeapStart > 0
  /\ HeapBound \in Nat /\ HeapStart <= HeapBound /\ HeapBound < AddrMod
  /\ Addr = 0 .. AddrMod - 1
BY KmallocAssumption DEF Word, Addr

LEMMA Words == Addr \subseteq Nat /\ Sizes \subseteq Nat /\ Sizes \subseteq Addr
<1>1. Addr \subseteq Nat
  BY Constants
<1>. QED
  BY <1>1, KmallocAssumption

\* Rounding a size up to words, away from the wrap.
LEMMA AdvanceFits ==
  ASSUME NEW sz \in 0 .. AddrMod - Word
  PROVE  /\ Advance(sz) \in Nat /\ sz <= Advance(sz) /\ Advance(sz) % 8 = 0
         /\ Advance(sz) = Roundup(sz, Word)
<1> DEFINE y == sz + 7
<1>1. y \in Nat /\ y < AddrMod /\ y % AddrMod = y
  BY Constants
<1>2. Roundup(sz, Word) = y - (y % 8)
  BY <1>1, Constants DEF Roundup
<1>. QED
  BY <1>1, <1>2 DEF Advance

\* A number less its remainder is a multiple.
LEMMA MultipleOf ==
  ASSUME NEW a \in Nat, a > 0, NEW y \in Nat
  PROVE  /\ y - (y % a) = a * (y \div a) /\ y \div a \in Nat
         /\ y % a \in 0 .. a - 1
<1>1. y = a * (y \div a) + (y % a)
  BY SMTT(30)
<1>2. y \div a \in Nat /\ y % a \in 0 .. a - 1
  BY SMTT(30)
<1>. QED
  BY <1>1, <1>2

\* A multiple leaves no remainder.
LEMMA MultipleMod ==
  ASSUME NEW a \in Nat, a > 0, NEW q \in Nat
  PROVE  (a * q) % a = 0
<1> DEFINE d == (a * q) \div a
           r == (a * q) % a
<1>1. a * q = a * d + r /\ d \in Int /\ r \in 0 .. a - 1
  BY SMTT(30)
<1> HIDE DEF d, r
<1>2. a * (q - d) = r
  BY <1>1
<1>3. q - d >= 1 \/ q - d = 0 \/ q - d <= -1
  BY <1>1
<1>4. q - d >= 1 => a * (q - d) >= a
  BY <1>1, SMTT(30)
<1>5. q - d <= -1 => a * (q - d) <= - a
  BY <1>1, SMTT(30)
<1>6. r = 0
  BY <1>1, <1>2, <1>3, <1>4, <1>5
<1>. QED
  BY <1>6 DEF r

\* Rounding the heap pointer up: never down, and onto the alignment.
LEMMA RoundupAligns ==
  ASSUME NEW h \in Nat, h % 8 = 0, NEW a \in Nat, a > 0, h + a <= AddrMod,
         a \in {1, 2, 4} \/ a % 8 = 0
  PROVE  /\ Roundup(h, a) \in Nat /\ h <= Roundup(h, a)
         /\ Roundup(h, a) % a = 0 /\ Roundup(h, a) % 8 = 0
<1> DEFINE y == h + a - 1
           q == y \div a
<1>1. y \in Nat /\ y % AddrMod = y
  BY Constants
<1>2. Roundup(h, a) = y - (y % a)
  BY <1>1 DEF Roundup
<1>3. Roundup(h, a) = a * q /\ q \in Nat /\ y % a \in 0 .. a - 1
  BY <1>1, <1>2, MultipleOf
<1>4. Roundup(h, a) \in Nat /\ h <= Roundup(h, a)
  BY <1>2, <1>3
<1>5. Roundup(h, a) % a = 0
  <2> HIDE DEF q
  <2>. QED
    BY <1>3, MultipleMod
<1>6. Roundup(h, a) % 8 = 0
  <2>1. CASE a = 1
    BY <2>1, <1>2
  <2>2. CASE a = 2
    BY <2>2, <1>2
  <2>3. CASE a = 4
    BY <2>3, <1>2
  <2>4. CASE a % 8 = 0
    <3> DEFINE d == a \div 8
    <3>1. d \in Nat /\ a = 8 * d
      BY <2>4
    <3> HIDE DEF d, q
    <3>2. a * q = 8 * (d * q) /\ d * q \in Nat
      BY <3>1, <1>3, SMTT(30)
    <3>3. (8 * (d * q)) % 8 = 0
      BY <3>2
    <3>. QED
      BY <3>2, <3>3, <1>3
  <2>. QED
    BY <2>1, <2>2, <2>3, <2>4
<1>. QED
  BY <1>4, <1>5, <1>6

-----------------------------------------------------------------------------
LEMMA BlockFacts ==
  ASSUME Modest, IInv, NEW b \in blocks
  PROVE  /\ b.at \in Nat /\ b.at \in Addr /\ b.nbytes \in Nat
         /\ HeapStart <= b.at /\ b.at + b.nbytes <= heap /\ b.at % 8 = 0
<1>1. b \in [at : Addr, nbytes : Sizes, align : Alignments \cup {Word}]
  BY DEF IInv, TypeOK
<1>2. b.at \in Addr /\ b.nbytes \in Sizes
  BY <1>1
<1>3. b.at \in Nat /\ b.nbytes \in Nat
  BY <1>2, Words
<1>4. HeapStart <= b.at /\ b.at + b.nbytes <= heap
  BY DEF IInv, BlocksBelowHeap
<1>5. b.at % 8 = 0
  BY Constants DEF IInv, BlocksAligned
<1>. QED
  BY <1>2, <1>3, <1>4, <1>5

LEMMA InitIInv == Init => IInv
<1> SUFFICES ASSUME Init PROVE IInv
  OBVIOUS
<1>1. TypeOK
  <2>1. HeapStart \in Addr /\ HeapStart .. HeapBound \subseteq Addr
    BY Constants
  <2>. QED
    BY <2>1 DEF Init, TypeOK
<1>2. HeapOK
  BY Constants DEF Init, HeapOK
<1>. QED
  BY <1>1, <1>2 DEF Init, IInv, BlocksBelowHeap, BlocksApart, BlocksAligned

\* A request served at an address h at or above the heap pointer.
LEMMA TakeIInv ==
  ASSUME Modest, IInv, NEW h \in Nat, heap <= h, h % 8 = 0,
         NEW sz \in Sizes, NEW a \in Alignments \cup {Word}, h % a = 0,
         Take(h, sz, a)
  PROVE  IInv'
<1> DEFINE b == [at |-> h, nbytes |-> sz, align |-> a]
           adv == Advance(sz)
<1>1. adv \in Nat /\ sz <= adv /\ adv % 8 = 0 /\ sz \in Nat
  BY AdvanceFits, Constants DEF Modest
<1>2. /\ heap \in Nat /\ HeapStart <= heap /\ h + adv <= HeapBound
      /\ blocks' = blocks \cup {b}
      /\ UNCHANGED panicked /\ dirty' \subseteq dirty
      /\ heap' = (h + adv) % AddrMod
  BY Constants DEF IInv, TypeOK, HeapOK, Take
<1> HIDE DEF adv
<1>3. heap' = h + adv /\ (h + adv) % 8 = 0
  <2>1. h + adv \in Nat /\ h + adv < AddrMod
    BY <1>1, <1>2, Constants
  <2>2. (h + adv) % AddrMod = h + adv
    BY <2>1, Constants, SMTT(30)
  <2>3. (h + adv) % 8 = 0
    BY <1>1, SMTT(30)
  <2>. QED
    BY <1>2, <2>2, <2>3
<1>4. HeapOK'
  BY <1>1, <1>2, <1>3, Constants DEF HeapOK
<1>5. TypeOK'
  <2>1. h \in Addr /\ heap' \in Addr
    BY <1>1, <1>2, <1>3, Constants
  <2>2. b \in [at : Addr, nbytes : Sizes, align : Alignments \cup {Word}]
    BY <2>1
  <2>. QED
    BY <2>1, <2>2, <1>2 DEF IInv, TypeOK
<1>6. ASSUME NEW c \in blocks
      PROVE  /\ c.at \in Nat /\ c.nbytes \in Nat
             /\ HeapStart <= c.at /\ c.at + c.nbytes <= heap
  BY BlockFacts
<1>7. BlocksBelowHeap'
  BY <1>1, <1>2, <1>3, <1>6, Constants DEF BlocksBelowHeap
<1>8. BlocksApart'
  <2>1. ASSUME NEW c \in blocks PROVE c.at + c.nbytes <= b.at
    BY <1>2, <1>6
  <2>2. \A c, d \in blocks : c # d =>
          c.at + c.nbytes <= d.at \/ d.at + d.nbytes <= c.at
    BY DEF IInv, BlocksApart
  <2> HIDE DEF b
  <2>. QED
    BY <2>1, <2>2, <1>2 DEF BlocksApart
<1>9. BlocksAligned'
  BY <1>2, Constants DEF IInv, BlocksAligned
<1>. QED
  BY <1>4, <1>5, <1>7, <1>8, <1>9 DEF IInv

\* Both ways to ask for memory are such a request, unless they panic.
LEMMA AllocateTakes ==
  ASSUME Modest, IInv, Allocate
  PROVE  \/ UNCHANGED <<heap, blocks, dirty>> /\ panicked' = TRUE
         \/ \E h \in Nat, sz \in Sizes, a \in Alignments \cup {Word} :
              heap <= h /\ h % 8 = 0 /\ h % a = 0 /\ Take(h, sz, a)
<1>1. heap \in Nat /\ heap % 8 = 0 /\ heap <= HeapBound
  BY Constants DEF IInv, TypeOK, HeapOK
<1>2. CASE \E sz \in Sizes : Kmalloc(sz)
  BY <1>1, <1>2, Constants DEF Kmalloc
<1>3. ASSUME NEW sz \in Sizes, NEW a \in Alignments, KmallocAligned(sz, a), IsPow2(a)
      PROVE  \E h \in Nat, s \in Sizes, al \in Alignments \cup {Word} :
               heap <= h /\ h % 8 = 0 /\ h % al = 0 /\ Take(h, s, al)
  <2>1. /\ a \in Nat /\ a > 0 /\ HeapBound + a <= AddrMod
        /\ a \in {1, 2, 4} \/ a % 8 = 0
    BY <1>3, Constants, KmallocAssumption DEF Modest
  <2>2. heap + a <= AddrMod
    BY <2>1, <1>1, Constants
  <2>3. /\ Roundup(heap, a) \in Nat /\ heap <= Roundup(heap, a)
        /\ Roundup(heap, a) % a = 0 /\ Roundup(heap, a) % 8 = 0
    BY <1>1, <2>1, <2>2, RoundupAligns
  <2>4. Take(Roundup(heap, a), sz, a)
    BY <1>3 DEF KmallocAligned
  <2>. QED
    BY <2>3, <2>4
<1>4. ASSUME NEW sz \in Sizes, NEW a \in Alignments, KmallocAligned(sz, a), ~ IsPow2(a)
      PROVE  UNCHANGED <<heap, blocks, dirty>> /\ panicked' = TRUE
  BY <1>4 DEF KmallocAligned
<1>. QED
  BY <1>2, <1>3, <1>4 DEF Allocate

LEMMA NextIInv == Modest /\ IInv /\ [Next]_vars => IInv'
<1> SUFFICES ASSUME Modest, IInv, [Next]_vars PROVE IInv'
  OBVIOUS
<1> USE DEF IInv
<1>1. /\ heap \in Nat /\ heap % 8 = 0 /\ heap <= HeapBound /\ HeapStart <= heap
      /\ blocks \subseteq [at : Addr, nbytes : Sizes, align : Alignments \cup {Word}]
      /\ Sizes \subseteq Nat /\ dirty \subseteq Addr
  BY Constants DEF TypeOK, HeapOK, Modest
<1>2. CASE Allocate
  <2>1. CASE UNCHANGED <<heap, blocks, dirty>> /\ panicked' = TRUE
    BY <2>1 DEF TypeOK, HeapOK, BlocksBelowHeap, BlocksApart, BlocksAligned
  <2>. QED
    BY <2>1, <1>2, AllocateTakes, TakeIInv
<1>3. CASE \E addr \in Starts : KmallocSetStart(addr)
  <2>1. PICK addr \in Starts : KmallocSetStart(addr)
    BY <1>3
  <2>2. addr \in Nat /\ addr % 8 = 0 /\ addr <= HeapBound /\ addr \in Addr
    BY KmallocAssumption, Constants
  <2>3. CASE addr > heap /\ heap' = addr
              /\ UNCHANGED <<blocks, dirty, panicked>>
    <3>1. TypeOK' /\ HeapOK'
      <4>1. TypeOK'
        BY <2>3, <2>2 DEF TypeOK
      <4>2. HeapOK'
        BY <2>3, <2>2, <1>1, Constants DEF HeapOK
      <4>. QED
        BY <4>1, <4>2
    <3>2. BlocksBelowHeap'
      <4>1. ASSUME NEW b \in blocks
            PROVE  HeapStart <= b.at /\ b.at + b.nbytes <= addr
        BY BlockFacts, <2>2, <2>3, <1>1
      <4>. QED
        BY <4>1, <2>3 DEF BlocksBelowHeap
    <3>. QED
      BY <2>3, <3>1, <3>2 DEF BlocksApart, BlocksAligned
  <2>4. CASE panicked' = TRUE /\ UNCHANGED <<heap, blocks, dirty>>
    BY <2>4 DEF TypeOK, HeapOK, BlocksBelowHeap, BlocksApart, BlocksAligned
  <2>. QED
    BY <2>1, <2>3, <2>4 DEF KmallocSetStart
<1>4. CASE KfreeAll
  <2>1. TypeOK' /\ HeapOK'
    BY <1>4, Constants DEF KfreeAll, TypeOK, HeapOK, Word
  <2>. QED
    BY <1>4, <2>1 DEF KfreeAll, BlocksBelowHeap, BlocksApart, BlocksAligned
<1>5. ASSUME NEW b \in blocks, KfreeAfter(b) PROVE IInv'
  <2>1. /\ b.at \in Nat /\ b.at \in Addr /\ b.nbytes \in Nat
        /\ HeapStart <= b.at /\ b.at + b.nbytes <= heap /\ b.at % 8 = 0
    BY BlockFacts
  <2>2. heap' = b.at /\ blocks' \subseteq blocks /\ UNCHANGED <<dirty, panicked>>
    BY <1>5 DEF KfreeAfter, FreedAt
  <2>3. TypeOK' /\ HeapOK'
    BY <2>1, <2>2, <1>1, Constants DEF TypeOK, HeapOK
  <2>4. BlocksBelowHeap'
    <3>1. ASSUME NEW c \in blocks'
          PROVE  HeapStart <= c.at /\ c.at + c.nbytes <= heap'
      <4>1. c \in blocks /\ c.at < b.at
        BY <1>5, <3>1 DEF KfreeAfter
      <4>2. c.at \in Nat /\ c.nbytes \in Nat /\ HeapStart <= c.at
        BY <4>1, BlockFacts
      <4>3. c.at + c.nbytes <= b.at
        BY <4>1, <4>2, <2>1 DEF BlocksApart
      <4>. QED
        BY <4>2, <4>3, <2>2
    <3>. QED
      BY <3>1 DEF BlocksBelowHeap
  <2>. QED
    BY <2>2, <2>3, <2>4 DEF BlocksApart, BlocksAligned
<1>6. ASSUME NEW b \in blocks, Write(b) PROVE IInv'
  <2>1. b.at \in Nat /\ b.nbytes \in Nat /\ b.at + b.nbytes <= heap
    BY BlockFacts
  <2>2. Bytes(b) \subseteq Addr
    BY <2>1, <1>1, Constants DEF Bytes
  <2>3. UNCHANGED <<heap, blocks, panicked>> /\ dirty' = dirty \cup Bytes(b)
    BY <1>6 DEF Write
  <2>4. TypeOK'
    BY <2>2, <2>3 DEF TypeOK
  <2>. QED
    BY <2>3, <2>4 DEF HeapOK, BlocksBelowHeap, BlocksApart, BlocksAligned
<1>7. CASE UNCHANGED vars
  BY <1>7 DEF vars, TypeOK, HeapOK, BlocksBelowHeap, BlocksApart, BlocksAligned
<1>. QED
  BY <1>2, <1>3, <1>4, <1>5, <1>6, <1>7 DEF Next

LEMMA Invariant == Modest /\ Spec => []IInv
<1> SUFFICES ASSUME Modest PROVE Spec => []IInv
  OBVIOUS
<1>1. Init => IInv
  BY InitIInv
<1>2. IInv /\ [Next]_vars => IInv'
  BY NextIInv
<1>. QED
  BY <1>1, <1>2, PTL DEF Spec

\* Blocks that follow one another share no byte.
LEMMA ApartDisjoint == Modest /\ IInv => BlocksDisjoint
<1> SUFFICES ASSUME Modest, IInv, NEW b \in blocks, NEW c \in blocks, b # c
             PROVE  Bytes(b) \cap Bytes(c) = {}
  BY DEF BlocksDisjoint
<1>1. /\ b.at \in Nat /\ b.nbytes \in Nat /\ c.at \in Nat /\ c.nbytes \in Nat
  BY BlockFacts
<1>2. b.at + b.nbytes <= c.at \/ c.at + c.nbytes <= b.at
  BY DEF IInv, BlocksApart
<1>. QED
  BY <1>1, <1>2 DEF Bytes

\* What a request clears lies above every block that is already held, and covers
\* the block it hands out.
LEMMA ClearsNew ==
  ASSUME Modest, IInv, Allocate
  PROVE  /\ \A b \in blocks \cap blocks' : Bytes(b) \cap dirty \subseteq dirty'
         /\ \A b \in blocks' \ blocks : Bytes(b) \cap dirty' = {}
<1>1. CASE UNCHANGED <<heap, blocks, dirty>> /\ panicked' = TRUE
  BY <1>1
<1>2. ASSUME NEW h \in Nat, NEW sz \in Sizes, NEW a \in Alignments \cup {Word},
             heap <= h, Take(h, sz, a)
      PROVE  /\ \A b \in blocks \cap blocks' : Bytes(b) \cap dirty \subseteq dirty'
             /\ \A b \in blocks' \ blocks : Bytes(b) \cap dirty' = {}
  <2>1. /\ Roundup(sz, Word) \in Nat /\ sz <= Roundup(sz, Word) /\ sz \in Nat
    BY AdvanceFits, Words DEF Modest
  <2>2. dirty' = dirty \ Cleared(h, sz)
    BY <1>2 DEF Take
  <2>3. heap \in Nat
    BY Words DEF IInv, TypeOK
  <2>4. ASSUME NEW b \in blocks PROVE Bytes(b) \cap Cleared(h, sz) = {}
    BY <1>2, <2>1, <2>3, BlockFacts DEF Bytes, Cleared
  <2>5. ASSUME NEW b \in blocks' \ blocks PROVE Bytes(b) \subseteq Cleared(h, sz)
    <3>1. b.at = h /\ b.nbytes = sz
      BY <1>2 DEF Take
    <3>. QED
      BY <3>1, <2>1 DEF Bytes, Cleared
  <2>. QED
    BY <2>2, <2>4, <2>5
<1>. QED
  BY <1>1, <1>2, AllocateTakes

\* A step that is not a request clears nothing and hands out nothing.
LEMMA OthersClearNothing ==
  ASSUME [Next]_vars, ~ Allocate
  PROVE  dirty \subseteq dirty' /\ blocks' \subseteq blocks
BY DEF Next, vars, KmallocSetStart, KfreeAll, KfreeAfter, Write

-----------------------------------------------------------------------------
\* The heap pointer, the blocks and the flags keep their types.
THEOREM TypeCorrect == Modest /\ Spec => []TypeOK
<1>1. IInv => TypeOK
  BY DEF IInv
<1>. QED
  BY <1>1, Invariant, PTL

\* No two blocks that callers hold share a byte (cs140e-kmalloc.c:25-52).
THEOREM NeverOverlap == Modest /\ Spec => []BlocksDisjoint
<1> SUFFICES ASSUME Modest PROVE Spec => []BlocksDisjoint
  OBVIOUS
<1>1. IInv => BlocksDisjoint
  BY ApartDisjoint
<1>. QED
  BY <1>1, Invariant, PTL

\* Every block held lies below the heap pointer.
THEOREM StaysBelow == Modest /\ Spec => []BlocksBelowHeap
<1>1. IInv => BlocksBelowHeap
  BY DEF IInv
<1>. QED
  BY <1>1, Invariant, PTL

\* Every block lies on the alignment it was asked for and on a double's.
THEOREM AlwaysAligned == Modest /\ Spec => []BlocksAligned
<1>1. IInv => BlocksAligned
  BY DEF IInv
<1>. QED
  BY <1>1, Invariant, PTL

\* All of that at once: the blocks that callers hold are sound.
THEOREM HeldBlocksSound == Modest /\ Spec => []BlocksSound
<1>1. TypeOK /\ BlocksDisjoint /\ BlocksBelowHeap /\ BlocksAligned => BlocksSound
  BY DEF BlocksSound
<1>. QED
  BY <1>1, TypeCorrect, NeverOverlap, StaysBelow, AlwaysAligned, PTL

\* A block is handed out with every byte clear (rpi.h:94-97).
THEOREM HandsOutZeroes == Modest /\ Spec => ReturnsZeroed
<1> SUFFICES ASSUME Modest PROVE Spec => ReturnsZeroed
  OBVIOUS
<1>1. IInv /\ [Next]_vars =>
        [\A b \in blocks' \ blocks : Bytes(b) \cap dirty' = {}]_vars
  BY ClearsNew, OthersClearNothing
<1>. QED
  BY <1>1, Invariant, PTL DEF Spec, ReturnsZeroed

\* What a caller stored in a block that it holds survives every request.
THEOREM ContentsSurvive == Modest /\ Spec => KeepsContents
<1> SUFFICES ASSUME Modest PROVE Spec => KeepsContents
  OBVIOUS
<1>1. IInv /\ [Next]_vars =>
        [\A b \in blocks \cap blocks' : Bytes(b) \cap dirty \subseteq dirty']_vars
  BY ClearsNew, OthersClearNothing
<1>. QED
  BY <1>1, Invariant, PTL DEF Spec, KeepsContents
============================================================================
