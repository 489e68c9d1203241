------------------------------- MODULE Kmalloc -------------------------------
(***************************************************************************)
(* The heap of libpi/cs140e-kmalloc.c: one pointer that moves up.          *)
(*                                                                         *)
(* Addresses and sizes are unsigned words, taken modulo AddrMod (2^32 in   *)
(* the code).  `blocks' is what the callers hold: the blocks handed out,   *)
(* less those that kfree_all() or kfree_after() gave back.  kfree() is     *)
(* empty and needs no action: its block stays in the heap.  `dirty' are    *)
(* the bytes the callers have written since a memset() last cleared them.  *)
(***************************************************************************)
EXTENDS Integers

CONSTANTS
  WordBits,     (* width of a word: 32 in the code                         *)
  AddrMod,      (* number of addresses, 2^WordBits                         *)
  HeapStart,    (* __heap_start__, placed by libpi/memmap                  *)
  HeapBound,    (* bound: callers keep the heap pointer at or below it     *)
  Sizes,        (* sizes the callers ask for                               *)
  Alignments,   (* alignments the callers of kmalloc_aligned() ask for     *)
  Starts        (* addresses the callers of kmalloc_set_start() pass       *)

Addr == 0 .. AddrMod - 1
Word == 8       \* sizeof(union align), which holds a double

ASSUME KmallocAssumption ==
  /\ WordBits \in Nat /\ AddrMod \in Nat
  /\ AddrMod = 2^WordBits /\ AddrMod % Word = 0
  /\ HeapStart \in Addr /\ HeapStart % Word = 0 /\ HeapStart > 0
  /\ HeapBound \in Addr /\ HeapStart <= HeapBound
  /\ Sizes \subseteq Addr /\ Alignments \subseteq Addr
  /\ \A s \in Starts : s \in Addr /\ s % Word = 0 /\ s <= HeapBound

VARIABLES
  heap,         (* the next free address                                   *)
  blocks,       (* blocks the callers hold: [at, nbytes, align]            *)
  dirty,        (* addresses written since they were last cleared          *)
  panicked      (* a demand() or an assert() has failed                    *)

vars == <<heap, blocks, dirty, panicked>>

\* the addresses of a block
Bytes(b) == b.at .. b.at + b.nbytes - 1

\* roundup(x, n) on words: the mask ~(n - 1) clears the low bits of a power
\* of two n, and every bit if n is 0
Roundup(x, n) ==
  IF n = 0 THEN 0 ELSE LET y == (x + n - 1) % AddrMod IN y - (y % n)

\* what is_pow2 tests, (x & -x) = x: it lets 0 through
IsPow2(n) == n = 0 \/ \E k \in 0 .. WordBits - 1 : n = 2^k

RoundDown(x, n) == x - (x % n)

\* the bytes memset() clears for a request of sz bytes
ClearsWords(h, sz) == h .. h + RoundDown(sz, Word) - 1
Cleared(h, sz) == h .. h + Roundup(sz, Word) - 1

\* how far the heap pointer moves for a request of sz bytes
AdvanceNone(sz) == 0
AdvanceDown(sz) == RoundDown(sz, Word)
Advance(sz) == Roundup(sz, Word)

\* kmalloc(sz) with the heap pointer at h, for a caller that wants align a
Take(h, sz, a) ==
  /\ h + Advance(sz) <= HeapBound
  /\ heap' = (h + Advance(sz)) % AddrMod
  /\ blocks' = blocks \cup {[at |-> h, nbytes |-> sz, align |-> a]}
  /\ dirty' = dirty \ Cleared(h, sz)
  /\ UNCHANGED panicked

-----------------------------------------------------------------------------
Kmalloc(sz) == Take(heap, sz, Word)

KmallocAligned(sz, a) ==
  \/ /\ IsPow2(a)
     /\ Take(Roundup(heap, a), sz, a)
  \/ /\ ~ IsPow2(a)
     /\ panicked' = TRUE
     /\ UNCHANGED <<heap, blocks, dirty>>

\* the heap pointer may only be moved up
KmallocSetStart(addr) ==
  \/ /\ addr > heap
     /\ heap' = addr
     /\ UNCHANGED <<blocks, dirty, panicked>>
  \/ /\ addr <= heap
     /\ panicked' = TRUE
     /\ UNCHANGED <<heap, blocks, dirty>>

\* every block goes back
KfreeAll ==
  /\ heap' = HeapStart
  /\ blocks' = {}
  /\ UNCHANGED <<dirty, panicked>>

\* block b goes back, and all that were handed out after it
FreedHeader(b) == b.at - (b.nbytes + Word)
FreedAt(b) == b.at
KfreeAfter(b) ==
  /\ heap' = FreedAt(b)
  /\ blocks' = { c \in blocks : c.at < b.at }
  /\ UNCHANGED <<dirty, panicked>>

\* a caller fills a block of its own
Write(b) ==
  /\ dirty' = dirty \cup Bytes(b)
  /\ UNCHANGED <<heap, blocks, panicked>>

Init ==
  /\ heap = HeapStart
  /\ blocks = {} /\ panicked = FALSE
  /\ dirty = HeapStart .. HeapBound    \* RAM is not cleared at power-up

Allocate == \/ \E sz \in Sizes : Kmalloc(sz)
            \/ \E sz \in Sizes, a \in Alignments : KmallocAligned(sz, a)

Next ==
  \/ /\ ~ panicked
     /\ \/ Allocate
        \/ \E addr \in Starts : KmallocSetStart(addr)
        \/ KfreeAll
        \/ \E b \in blocks : KfreeAfter(b) \/ Write(b)
  \/ panicked /\ UNCHANGED vars        \* panic() has rebooted the Pi

Spec == Init /\ [][Next]_vars

-----------------------------------------------------------------------------
(***************************************************************************)
(* Properties.                                                             *)
(***************************************************************************)
\* Type invariant: the heap pointer, the blocks and the flags.
TypeOK ==
  /\ heap \in Addr
  /\ blocks \subseteq [at : Addr, nbytes : Sizes, align : Alignments \cup {Word}]
  /\ dirty \subseteq Addr
  /\ panicked \in BOOLEAN

\* No two blocks that callers hold share a byte, whatever mix of kmalloc(),
\* kmalloc_aligned(), kmalloc_set_start(), kfree_all() and kfree_after() came
\* before (cs140e-kmalloc.c:25-52).
BlocksDisjoint ==
  \A b, c \in blocks : b # c => Bytes(b) \cap Bytes(c) = {}

\* Every block held lies in the part of the heap already passed by the pointer,
\* so the next request cannot reach into it.
BlocksBelowHeap ==
  \A b \in blocks : HeapStart <= b.at /\ b.at + b.nbytes <= heap

\* A block starts where its caller needs it: on the alignment passed to
\* kmalloc_aligned(), on a double's for kmalloc() (cs140e-kmalloc.c:5-9,40-45).
BlocksAligned ==
  \A b \in blocks : b.at % b.align = 0 /\ b.at % Word = 0

\* The blocks that callers hold are sound: apart from each other and from what is
\* still free, and where their callers need them (cs140e-kmalloc.c:14-52).
BlocksSound == TypeOK /\ BlocksDisjoint /\ BlocksBelowHeap /\ BlocksAligned

\* rpi.h:94-97, "returns 0-filled memory": not one byte of a block that has just
\* been handed out is as an earlier owner left it.
ReturnsZeroed ==
  [][\A b \in blocks' \ blocks : Bytes(b) \cap dirty' = {}]_vars

\* What a caller has stored in a block stays there until it gives the block back:
\* no other caller's request clears it.
KeepsContents ==
  [][\A b \in blocks \cap blocks' : Bytes(b) \cap dirty \subseteq dirty']_vars

=============================================================================
