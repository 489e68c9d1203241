--------------------------- MODULE InterruptsProofs ---------------------------
(***************************************************************************)
(* Theorems about the programs of Interrupts, for every number of pins,    *)
(* every clock and every goal: the vectors are in place before an          *)
(* interrupt can be taken, pins are as they were asked to be though main   *)
(* program and handler write the registers that they share, and neither a  *)
(* tick nor the time is lost where the clock wraps.  First the threads,    *)
(* whose theorems the others extend to every program.                      *)
(***************************************************************************)
EXTENDS Interrupts, SequenceTheorems, FiniteSetTheorems, TLAPS

-----------------------------------------------------------------------------
(* The threads of lab 9: the linked queues hold what they should, no       *)
(* thread is lost, and all that were forked run, for every number of       *)
(* threads, forks and yields.                                              *)
Memory == [head : [Queues -> Thread \cup {Null}], tail : [Queues -> Thread \cup {Null}],
           next : [Thread -> Thread \cup {Null}]]

In(Q, t) == \E q \in Queues : \E i \in 1 .. Len(Q[q]) : Q[q][i] = t

Distinct(Q) ==
  \A q, r \in Queues : \A i \in 1 .. Len(Q[q]), j \in 1 .. Len(Q[r]) :
    Q[q][i] = Q[r][j] => q = r /\ i = j

Good(m, Q) ==
  /\ m \in Memory /\ Q \in [Queues -> Seq(Thread)]
  /\ Distinct(Q)
  /\ \A q \in Queues : Holds(m, q, Q[q])

LEMMA Constants == Null = 0 /\ MaxThreads \in Nat /\ Null \notin Thread /\ Thread \subseteq Nat
BY ThreadsAssumption DEF Null, Thread

-----------------------------------------------------------------------------
(* Q_pop() takes the first of one queue and leaves the other alone.        *)
LEMMA PopHolds ==
  ASSUME NEW m \in Memory, NEW q \in Queues, NEW s \in Seq(Thread), s # <<>>, Holds(m, q, s)
  PROVE  /\ Q_pop(m, q) \in Memory
         /\ m.head[q] = s[1]
         /\ Holds(Q_pop(m, q), q, Tail(s))
<1> DEFINE p == Q_pop(m, q)
           e == m.head[q]
           h == m.next[e]
<1>1. Len(s) \in Nat /\ Len(s) > 0 /\ \A i \in 1 .. Len(s) : s[i] \in Thread
  OBVIOUS
<1>2. e = s[1] /\ e \in Thread /\ h \in Thread \cup {Null}
  BY <1>1 DEF Holds, Memory
<1>3. /\ p.head = [m.head EXCEPT ![q] = h]
      /\ p.tail = [m.tail EXCEPT ![q] = IF h = Null THEN Null ELSE m.tail[q]]
      /\ p.next = m.next
  BY DEF Q_pop
<1>4. p \in Memory
  BY <1>2 DEF Memory, Q_pop
<1>5. p.head[q] = h /\ p.tail[q] = (IF h = Null THEN Null ELSE m.tail[q])
  BY <1>3 DEF Memory
<1>t. /\ Tail(s) \in Seq(Thread) /\ Len(Tail(s)) = Len(s) - 1
      /\ \A i \in 1 .. Len(Tail(s)) : Tail(s)[i] = s[i + 1]
  BY HeadTailProperties
<1>u. (Tail(s) = <<>>) <=> (Len(s) = 1)
  <2>1. (Tail(s) = <<>>) => (Len(Tail(s)) = 0)
    BY EmptySeq
  <2>2. (Tail(s) # <<>>) => (Len(Tail(s)) # 0)
    BY <1>t, EmptySeq
  <2> QED BY <2>1, <2>2, <1>1, <1>t
<1>6. CASE Len(s) = 1
  <2>1. Tail(s) = <<>>
    BY <1>6, <1>u
  <2>2. h = Null
    BY <1>2, <1>6, <1>1 DEF Holds
  <2> QED BY <2>1, <2>2, <1>2, <1>4, <1>5 DEF Holds
<1>7. CASE Len(s) > 1
  <2>1. /\ Tail(s) # <<>> /\ Len(Tail(s)) = Len(s) - 1
        /\ \A i \in 1 .. Len(s) - 1 : Tail(s)[i] = s[i + 1]
    BY <1>1, <1>7, <1>t, <1>u
  <2>2. h = s[2] /\ h # Null
    BY <1>1, <1>2, <1>7, Constants DEF Holds
  <2>3. p.head[q] = Tail(s)[1] /\ p.tail[q] = Tail(s)[Len(Tail(s))]
    BY <2>1, <2>2, <1>1, <1>5, <1>7 DEF Holds
  <2>4. \A i \in 1 .. Len(Tail(s)) - 1 : p.next[Tail(s)[i]] = Tail(s)[i + 1]
    <3> SUFFICES ASSUME NEW i \in 1 .. Len(Tail(s)) - 1 PROVE p.next[Tail(s)[i]] = Tail(s)[i + 1]
      OBVIOUS
    <3>1. Tail(s)[i] = s[i + 1] /\ Tail(s)[i + 1] = s[i + 2] /\ i + 1 \in 1 .. Len(s) - 1
      BY <2>1, <1>1
    <3>2. m.next[s[i + 1]] = s[i + 1 + 1]
      BY <3>1, <1>1 DEF Holds
    <3> QED BY <3>1, <3>2, <1>3
  <2>5. p.next[Tail(s)[Len(Tail(s))]] = Null
    BY <2>1, <1>1, <1>3, <1>7 DEF Holds
  <2>6. Holds(p, q, Tail(s))
    BY <2>1, <2>3, <2>4, <2>5 DEF Holds
  <2> QED BY <2>6, <1>2, <1>4
<1> QED
  <2>1. \A n \in Nat : n > 0 => n = 1 \/ n > 1
    OBVIOUS
  <2>2. Len(s) = 1 \/ Len(s) > 1
    BY <2>1, <1>1
  <2> QED BY <2>2, <1>6, <1>7

LEMMA PopOthers ==
  ASSUME NEW m \in Memory, NEW q \in Queues, NEW r \in Queues, r # q,
         NEW s \in Seq(Thread), Holds(m, r, s)
  PROVE  Holds(Q_pop(m, q), r, s)
BY DEF Holds, Q_pop, Memory

(* Q_append() puts a thread that is in no queue at the end of one, and     *)
(* leaves the other alone.                                                 *)
LEMMA AppendHolds ==
  ASSUME NEW m \in Memory, NEW q \in Queues, NEW s \in Seq(Thread), Holds(m, q, s),
         NEW e \in Thread, \A i \in 1 .. Len(s) : s[i] # e,
         \A i, j \in 1 .. Len(s) : s[i] = s[j] => i = j
  PROVE  /\ Q_append(m, q, e) \in Memory
         /\ Holds(Q_append(m, q, e), q, Append(s, e))
<1> DEFINE p == Q_append(m, q, e)
           l == m.tail[q]
           n == [m.next EXCEPT ![e] = Null]
<1>1. Len(s) \in Nat /\ \A i \in 1 .. Len(s) : s[i] \in Thread
  OBVIOUS
<1>2. /\ p.head = [m.head EXCEPT ![q] = IF l = Null THEN e ELSE m.head[q]]
      /\ p.tail = [m.tail EXCEPT ![q] = e]
      /\ p.next = [t \in Thread |-> IF t = l THEN e ELSE n[t]]
  BY DEF Q_append, Linked
<1>3. /\ m.head \in [Queues -> Thread \cup {Null}] /\ m.tail \in [Queues -> Thread \cup {Null}]
      /\ m.next \in [Thread -> Thread \cup {Null}]
  BY DEF Memory
<1>4. n \in [Thread -> Thread \cup {Null}]
  BY <1>3
<1>5. p.next \in [Thread -> Thread \cup {Null}] /\ p \in Memory
  BY <1>2, <1>3, <1>4 DEF Memory, Q_append, Linked
<1>6. p.head[q] = (IF l = Null THEN e ELSE m.head[q]) /\ p.tail[q] = e
  BY <1>2, <1>3
<1>7. Append(s, e) # <<>> /\ Len(Append(s, e)) = Len(s) + 1 /\ Append(s, e)[Len(s) + 1] = e
      /\ \A i \in 1 .. Len(s) : Append(s, e)[i] = s[i]
  BY <1>1, AppendProperties
<1>8. CASE s = <<>>
  <2>1. l = Null /\ Len(s) = 0
    BY <1>8 DEF Holds
  <2>2. p.next[e] = Null
    BY <1>2, <1>3, <2>1, Constants
  <2> QED BY <1>5, <1>6, <1>7, <2>1, <2>2 DEF Holds
<1>9. CASE s # <<>>
  <2>1. Len(s) > 0 /\ l = s[Len(s)] /\ l \in Thread /\ l # Null /\ m.head[q] = s[1] /\ e # l
    BY <1>1, <1>9, Constants DEF Holds
  <2>2. p.next[e] = Null /\ p.next[l] = e
    BY <1>2, <1>3, <2>1
  <2>3. \A i \in 1 .. Len(s) - 1 : p.next[s[i]] = s[i + 1]
    <3> SUFFICES ASSUME NEW i \in 1 .. Len(s) - 1 PROVE p.next[s[i]] = s[i + 1]
      OBVIOUS
    <3>1. s[i] \in Thread /\ s[i] # l /\ s[i] # e
      BY <1>1, <2>1
    <3>2. m.next[s[i]] = s[i + 1]
      BY <1>9 DEF Holds
    <3> QED BY <3>1, <3>2, <1>2, <1>3
  <2>4. \A i \in 1 .. Len(Append(s, e)) - 1 : p.next[Append(s, e)[i]] = Append(s, e)[i + 1]
    <3> SUFFICES ASSUME NEW i \in 1 .. Len(s) PROVE p.next[Append(s, e)[i]] = Append(s, e)[i + 1]
      BY <1>7, <1>1
    <3>1. CASE i = Len(s)
      BY <3>1, <1>7, <2>1, <2>2
    <3>2. CASE i < Len(s)
      BY <3>2, <1>1, <1>7, <2>3
    <3> QED BY <3>1, <3>2, <1>1
  <2>5. p.head[q] = Append(s, e)[1]
    BY <1>6, <1>7, <1>1, <2>1
  <2>6. p.tail[q] = Append(s, e)[Len(Append(s, e))] /\ p.next[Append(s, e)[Len(Append(s, e))]] = Null
    BY <1>6, <1>7, <2>2
  <2> QED BY <1>5, <1>7, <2>4, <2>5, <2>6 DEF Holds
<1> QED BY <1>8, <1>9

LEMMA AppendOthers ==
  ASSUME NEW m \in Memory, NEW q \in Queues, NEW r \in Queues, r # q,
         NEW s \in Seq(Thread), Holds(m, r, s), NEW e \in Thread,
         \A i \in 1 .. Len(s) : s[i] # e /\ s[i] # m.tail[q]
  PROVE  Holds(Q_append(m, q, e), r, s)
<1> DEFINE p == Q_append(m, q, e)
<1>1. Len(s) \in Nat /\ \A i \in 1 .. Len(s) : s[i] \in Thread
  OBVIOUS
<1>2. p.head[r] = m.head[r] /\ p.tail[r] = m.tail[r]
  BY DEF Q_append, Linked, Memory
<1>3. \A i \in 1 .. Len(s) : p.next[s[i]] = m.next[s[i]]
  BY <1>1 DEF Q_append, Linked, Memory
<1> QED BY <1>1, <1>2, <1>3 DEF Holds

-----------------------------------------------------------------------------
(* The same two facts about both queues at once.                           *)
LEMMA EmptyIsEmpty ==
  ASSUME NEW m, NEW Q, Good(m, Q), NEW q \in Queues
  PROVE  Empty(m, q) <=> Q[q] = <<>>
<1>1. CASE Q[q] = <<>>
  BY <1>1 DEF Good, Holds, Empty
<1>2. CASE Q[q] # <<>>
  <2>1. Len(Q[q]) \in Nat \ {0} /\ Q[q] \in Seq(Thread)
    BY <1>2, EmptySeq DEF Good
  <2>2. Q[q][1] \in Thread
    BY <2>1
  <2> QED BY <1>2, <2>2, Constants DEF Good, Holds, Empty
<1> QED BY <1>1, <1>2

LEMMA InIsThread ==
  ASSUME NEW m, NEW Q, Good(m, Q), NEW t, In(Q, t)
  PROVE  t \in Thread
BY ElementOfSeq DEF In, Good

LEMMA GoodPop ==
  ASSUME NEW m, NEW Q, Good(m, Q), NEW q \in Queues, Q[q] # <<>>
  PROVE  /\ Good(Q_pop(m, q), Popped(Q, q))
         /\ m.head[q] \in Thread /\ In(Q, m.head[q]) /\ ~ In(Popped(Q, q), m.head[q])
         /\ \A t : In(Popped(Q, q), t) => In(Q, t)
         /\ \A r \in Queues \ {q} : Popped(Q, q)[r] = Q[r] /\ Q_pop(m, q).head[r] = m.head[r]
<1> DEFINE P == Popped(Q, q)
           e == m.head[q]
<1>1. m \in Memory /\ Q \in [Queues -> Seq(Thread)] /\ \A r \in Queues : Holds(m, r, Q[r])
  BY DEF Good
<1>2. Q_pop(m, q) \in Memory /\ e = Q[q][1] /\ Holds(Q_pop(m, q), q, Tail(Q[q]))
  BY <1>1, PopHolds
<1>3. /\ Tail(Q[q]) \in Seq(Thread) /\ Len(Tail(Q[q])) = Len(Q[q]) - 1 /\ Len(Q[q]) \in Nat \ {0}
      /\ \A i \in 1 .. Len(Tail(Q[q])) : Tail(Q[q])[i] = Q[q][i + 1]
  BY <1>1, HeadTailProperties, EmptySeq
<1>4. P \in [Queues -> Seq(Thread)] /\ P[q] = Tail(Q[q]) /\ \A r \in Queues \ {q} : P[r] = Q[r]
  BY <1>1, <1>3 DEF Popped
<1>5. \A r \in Queues : Holds(Q_pop(m, q), r, P[r])
  <2> SUFFICES ASSUME NEW r \in Queues PROVE Holds(Q_pop(m, q), r, P[r])
    OBVIOUS
  <2>1. CASE r = q
    BY <2>1, <1>2, <1>4
  <2>2. CASE r # q
    <3>1. Q[r] \in Seq(Thread) /\ Holds(m, r, Q[r]) /\ P[r] = Q[r]
      BY <2>2, <1>1, <1>4
    <3> QED BY <2>2, <3>1, <1>1, PopOthers
  <2> QED BY <2>1, <2>2
(* Where a thread of the popped queues stood before.                       *)
<1> DEFINE old(r, i) == IF r = q THEN i + 1 ELSE i
<1>6. \A r \in Queues : \A i \in 1 .. Len(P[r]) :
        old(r, i) \in 1 .. Len(Q[r]) /\ P[r][i] = Q[r][old(r, i)] /\ ~ (r = q /\ old(r, i) = 1)
  <2> SUFFICES ASSUME NEW r \in Queues, NEW i \in 1 .. Len(P[r])
               PROVE  old(r, i) \in 1 .. Len(Q[r]) /\ P[r][i] = Q[r][old(r, i)] /\ ~ (r = q /\ old(r, i) = 1)
    OBVIOUS
  <2>1. CASE r = q
    <3>1. i \in 1 .. Len(Tail(Q[q])) /\ P[r] = Tail(Q[q])
      BY <2>1, <1>4
    <3> QED BY <2>1, <3>1, <1>3
  <2>2. CASE r # q
    BY <2>2, <1>4
  <2> QED BY <2>1, <2>2
<1>7. Distinct(Q)
  BY DEF Good
<1>8. Distinct(P)
  <2> SUFFICES ASSUME NEW r \in Queues, NEW u \in Queues, NEW i \in 1 .. Len(P[r]),
                      NEW j \in 1 .. Len(P[u]), P[r][i] = P[u][j]
               PROVE  r = u /\ i = j
    BY DEF Distinct
  <2>1. old(r, i) \in 1 .. Len(Q[r]) /\ old(u, j) \in 1 .. Len(Q[u]) /\ Q[r][old(r, i)] = Q[u][old(u, j)]
    BY <1>6
  <2>2. r = u /\ old(r, i) = old(u, j)
    BY <2>1, <1>7 DEF Distinct
  <2> QED BY <2>2
<1>9. \A t : In(P, t) => In(Q, t)
  BY <1>6 DEF In
<1>10. 1 \in 1 .. Len(Q[q]) /\ e \in Thread /\ In(Q, e)
  BY <1>1, <1>2, <1>3 DEF In
<1>11. ~ In(P, e)
  <2> SUFFICES ASSUME NEW r \in Queues, NEW i \in 1 .. Len(P[r]), P[r][i] = e PROVE FALSE
    BY DEF In
  <2>1. old(r, i) \in 1 .. Len(Q[r]) /\ Q[r][old(r, i)] = Q[q][1] /\ ~ (r = q /\ old(r, i) = 1)
    BY <1>6, <1>2
  <2> HIDE DEF old, P, e
  <2> QED BY <2>1, <1>7, <1>10 DEF Distinct
<1>12. \A r \in Queues \ {q} : Q_pop(m, q).head[r] = m.head[r]
  BY <1>1 DEF Q_pop, Memory
<1>13. Good(Q_pop(m, q), P)
  BY <1>2, <1>4, <1>5, <1>8 DEF Good
<1> QED BY <1>4, <1>9, <1>10, <1>11, <1>12, <1>13

LEMMA GoodAppend ==
  ASSUME NEW m, NEW Q, Good(m, Q), NEW q \in Queues, NEW e \in Thread, ~ In(Q, e)
  PROVE  /\ Good(Q_append(m, q, e), Appended(Q, q, e))
         /\ \A t : In(Appended(Q, q, e), t) => t = e \/ In(Q, t)
         /\ Len(Appended(Q, q, e)[q]) = Len(Q[q]) + 1
         /\ \A r \in Queues \ {q} : Appended(Q, q, e)[r] = Q[r] /\ Q_append(m, q, e).head[r] = m.head[r]
<1> DEFINE A == Appended(Q, q, e)
<1>1. m \in Memory /\ Q \in [Queues -> Seq(Thread)] /\ \A r \in Queues : Holds(m, r, Q[r])
  BY DEF Good
<1>2. \A r \in Queues : Len(Q[r]) \in Nat /\ \A i \in 1 .. Len(Q[r]) : Q[r][i] \in Thread /\ Q[r][i] # e
  BY <1>1 DEF In
<1>3. /\ Append(Q[q], e) \in Seq(Thread) /\ Len(Append(Q[q], e)) = Len(Q[q]) + 1
      /\ \A i \in 1 .. Len(Q[q]) : Append(Q[q], e)[i] = Q[q][i]
      /\ Append(Q[q], e)[Len(Q[q]) + 1] = e
  BY <1>1, AppendProperties
<1>4. A \in [Queues -> Seq(Thread)] /\ A[q] = Append(Q[q], e) /\ \A r \in Queues \ {q} : A[r] = Q[r]
  BY <1>1, <1>3 DEF Appended
<1>5. Distinct(Q)
  BY DEF Good
<1>6. Q_append(m, q, e) \in Memory /\ Holds(Q_append(m, q, e), q, A[q])
  <2>1. \A i, j \in 1 .. Len(Q[q]) : Q[q][i] = Q[q][j] => i = j
    BY <1>5 DEF Distinct
  <2> QED BY <2>1, <1>1, <1>2, <1>4, AppendHolds
<1>7. \A r \in Queues : r # q => Holds(Q_append(m, q, e), r, A[r])
  <2> SUFFICES ASSUME NEW r \in Queues, r # q PROVE Holds(Q_append(m, q, e), r, A[r])
    OBVIOUS
  <2>1. \A i \in 1 .. Len(Q[r]) : Q[r][i] # m.tail[q]
    <3> SUFFICES ASSUME NEW i \in 1 .. Len(Q[r]), Q[r][i] = m.tail[q] PROVE FALSE
      OBVIOUS
    <3>1. CASE Q[q] = <<>>
      BY <3>1, <1>1, <1>2, Constants DEF Holds
    <3>2. CASE Q[q] # <<>>
      <4>1. Len(Q[q]) \in 1 .. Len(Q[q])
        BY <3>2, <1>1, EmptySeq
      <4>2. m.tail[q] = Q[q][Len(Q[q])]
        BY <3>2, <1>1 DEF Holds
      <4> QED BY <4>1, <4>2, <1>5 DEF Distinct
    <3> QED BY <3>1, <3>2
  <2>2. Q[r] \in Seq(Thread) /\ Holds(m, r, Q[r]) /\ A[r] = Q[r]
    BY <1>1, <1>4
  <2> QED BY <2>1, <2>2, <1>1, <1>2, AppendOthers
<1>8. \A r \in Queues : \A i \in 1 .. Len(A[r]) :
        \/ i \in 1 .. Len(Q[r]) /\ A[r][i] = Q[r][i]
        \/ r = q /\ i = Len(Q[q]) + 1 /\ A[r][i] = e
  <2> SUFFICES ASSUME NEW r \in Queues, NEW i \in 1 .. Len(A[r])
               PROVE  \/ i \in 1 .. Len(Q[r]) /\ A[r][i] = Q[r][i]
                      \/ r = q /\ i = Len(Q[q]) + 1 /\ A[r][i] = e
    OBVIOUS
  <2>1. CASE r = q
    BY <2>1, <1>2, <1>3, <1>4
  <2>2. CASE r # q
    BY <2>2, <1>4
  <2> QED BY <2>1, <2>2
<1>9. Distinct(A)
  <2> SUFFICES ASSUME NEW r \in Queues, NEW u \in Queues, NEW i \in 1 .. Len(A[r]),
                      NEW j \in 1 .. Len(A[u]), A[r][i] = A[u][j]
               PROVE  r = u /\ i = j
    BY DEF Distinct
  <2> HIDE DEF A
  <2>1. \/ i \in 1 .. Len(Q[r]) /\ A[r][i] = Q[r][i]
        \/ r = q /\ i = Len(Q[q]) + 1 /\ A[r][i] = e
    BY <1>8
  <2>2. \/ j \in 1 .. Len(Q[u]) /\ A[u][j] = Q[u][j]
        \/ u = q /\ j = Len(Q[q]) + 1 /\ A[u][j] = e
    BY <1>8
  <2> QED BY <2>1, <2>2, <1>2, <1>5 DEF Distinct
<1>10. \A t : In(A, t) => t = e \/ In(Q, t)
  BY <1>8 DEF In
<1>11. \A r \in Queues \ {q} : Q_append(m, q, e).head[r] = m.head[r]
  BY <1>1 DEF Q_append, Linked, Memory
<1>12. Good(Q_append(m, q, e), A)
  BY <1>4, <1>6, <1>7, <1>9 DEF Good
<1> QED BY <1>3, <1>4, <1>10, <1>11, <1>12

-----------------------------------------------------------------------------
(* The inductive invariant: the queues hold threads that were made, each   *)
(* once, and never the one that runs.                                      *)
Running == cur_thread = Null \/ (cur_thread \in Thread /\ cur_thread <= made /\ ~ In(queued, cur_thread))

IInv ==
  /\ Good(mem, queued)
  /\ made \in Nat /\ forked \in Nat
  /\ \A t : In(queued, t) => t <= made
  /\ Running
  /\ cur_thread = Null => Len(queued["runq"]) = forked

LEMMA Made ==
  ASSUME IInv, mk_thread
  PROVE  /\ Good(memNew, queuedNew)
         /\ New \in Thread /\ ~ In(queuedNew, New)
         /\ made' \in Nat /\ made <= made' /\ New <= made'
         /\ \A t : In(queuedNew, t) => In(queued, t)
         /\ queuedNew["runq"] = queued["runq"] /\ memNew.head["runq"] = mem.head["runq"]
<1>1. Good(mem, queued) /\ made \in Nat /\ \A t : In(queued, t) => t <= made
  BY DEF IInv
<1>2. New \in Thread
  BY DEF mk_thread
<1>3. "freeq" \in Queues /\ "runq" \in Queues \ {"freeq"}
  BY DEF Queues
<1>4. CASE Empty(mem, "freeq")
  <2>1. memNew = mem /\ queuedNew = queued /\ New = made + 1 /\ made' = made + 1
    BY <1>4 DEF memNew, queuedNew, New, mk_thread
  <2>2. ~ In(queued, made + 1)
    <3> SUFFICES ASSUME In(queued, made + 1) PROVE FALSE
      OBVIOUS
    <3>1. made + 1 <= made
      BY <1>1
    <3> QED BY <3>1, <1>1
  <2> QED BY <2>1, <2>2, <1>1, <1>2
<1>5. CASE ~ Empty(mem, "freeq")
  <2>1. /\ memNew = Q_pop(mem, "freeq") /\ queuedNew = Popped(queued, "freeq")
        /\ New = mem.head["freeq"] /\ made' = made
    BY <1>5 DEF memNew, queuedNew, New, mk_thread
  <2>2. queued["freeq"] # <<>>
    BY <1>1, <1>3, <1>5, EmptyIsEmpty
  <2>3. /\ Good(memNew, queuedNew) /\ In(queued, New) /\ ~ In(queuedNew, New)
        /\ \A t : In(queuedNew, t) => In(queued, t)
        /\ queuedNew["runq"] = queued["runq"] /\ memNew.head["runq"] = mem.head["runq"]
    BY <1>1, <1>3, <2>1, <2>2, GoodPop
  <2> QED BY <2>1, <2>3, <1>1, <1>2
<1> QED BY <1>4, <1>5

LEMMA InitHolds == ThreadsInit => IInv
<1> SUFFICES ASSUME ThreadsInit PROVE IInv
  OBVIOUS
<1>1. /\ mem = [head |-> [q \in Queues |-> Null], tail |-> [q \in Queues |-> Null],
                next |-> [t \in Thread |-> Null]]
      /\ queued = [q \in Queues |-> <<>>] /\ made = 0 /\ cur_thread = Null /\ forked = 0
  BY DEF ThreadsInit
<1>2. mem \in Memory
  BY <1>1 DEF Memory
<1>3. queued \in [Queues -> Seq(Thread)] /\ \A q \in Queues : queued[q] = <<>> /\ Len(queued[q]) = 0
  BY <1>1, EmptySeq
<1>4. Distinct(queued) /\ \A t : ~ In(queued, t)
  BY <1>3 DEF Distinct, In
<1>5. \A q \in Queues : Holds(mem, q, queued[q])
  BY <1>1, <1>3 DEF Holds
<1>6. Len(queued["runq"]) = 0
  BY <1>3 DEF Queues
<1> QED BY <1>1, <1>2, <1>3, <1>4, <1>5, <1>6 DEF IInv, Good, Running

LEMMA ForkKeeps == IInv /\ rpi_fork => IInv'
<1> SUFFICES ASSUME IInv, rpi_fork PROVE IInv'
  OBVIOUS
<1>1. /\ mk_thread /\ cur_thread = Null /\ cur_thread' = cur_thread /\ forked' = forked + 1
      /\ mem' = Q_append(memNew, "runq", New) /\ queued' = Appended(queuedNew, "runq", New)
  BY DEF rpi_fork, Yields
<1>2. "runq" \in Queues
  BY DEF Queues
<1>3. /\ Good(memNew, queuedNew) /\ New \in Thread /\ ~ In(queuedNew, New)
      /\ made' \in Nat /\ made <= made' /\ New <= made'
      /\ (\A t : In(queuedNew, t) => In(queued, t)) /\ queuedNew["runq"] = queued["runq"]
  BY <1>1, Made
<1>4. /\ Good(mem', queued') /\ Len(queued'["runq"]) = Len(queuedNew["runq"]) + 1
      /\ \A t : In(queued', t) => t = New \/ In(queuedNew, t)
  BY <1>1, <1>2, <1>3, GoodAppend
<1>5. made \in Nat /\ forked \in Nat /\ Len(queued["runq"]) = forked /\ \A t : In(queued, t) => t <= made
  BY <1>1 DEF IInv
<1>6. \A t : In(queued', t) => t <= made'
  <2> SUFFICES ASSUME NEW t, In(queued', t) PROVE t <= made'
    OBVIOUS
  <2>1. CASE t = New
    BY <2>1, <1>3
  <2>2. CASE In(queued, t)
    <3>1. t \in Nat
      BY <2>2, InIsThread, Constants DEF IInv
    <3> QED BY <2>2, <3>1, <1>3, <1>5
  <2> QED BY <2>1, <2>2, <1>3, <1>4
<1> QED BY <1>1, <1>3, <1>4, <1>5, <1>6 DEF IInv, Running

LEMMA StartKeeps == IInv /\ rpi_thread_start => IInv'
<1> SUFFICES ASSUME IInv, rpi_thread_start PROVE IInv'
  OBVIOUS
<1>1. /\ mk_thread /\ cur_thread = Null /\ forked = Forks /\ forked' = forked
      /\ mem' = Q_pop(memNew, "runq") /\ queued' = Popped(queuedNew, "runq")
      /\ cur_thread' = mem.head["runq"]
  BY DEF rpi_thread_start, SwitchTo
<1>2. "runq" \in Queues
  BY DEF Queues
<1>3. /\ Good(memNew, queuedNew) /\ made' \in Nat /\ made <= made'
      /\ (\A t : In(queuedNew, t) => In(queued, t)) /\ queuedNew["runq"] = queued["runq"]
      /\ memNew.head["runq"] = mem.head["runq"]
  BY <1>1, Made
<1>4. made \in Nat /\ forked \in Nat /\ Len(queued["runq"]) = forked /\ \A t : In(queued, t) => t <= made
  BY <1>1 DEF IInv
<1>5. queuedNew["runq"] # <<>>
  BY <1>1, <1>3, <1>4, EmptySeq, ThreadsAssumption
<1>6. /\ Good(mem', queued') /\ cur_thread' \in Thread /\ In(queuedNew, cur_thread')
      /\ ~ In(queued', cur_thread') /\ \A t : In(queued', t) => In(queuedNew, t)
  BY <1>1, <1>2, <1>3, <1>5, GoodPop
<1>7. \A t : In(queuedNew, t) => t <= made'
  <2> SUFFICES ASSUME NEW t, In(queuedNew, t) PROVE t <= made'
    OBVIOUS
  <2>1. t \in Nat /\ t <= made
    BY <1>3, <1>4, InIsThread, Constants
  <2> QED BY <2>1, <1>3, <1>4
<1>8. cur_thread' # Null
  BY <1>6, Constants
<1> QED BY <1>1, <1>3, <1>4, <1>6, <1>7, <1>8 DEF IInv, Running

(* Where another thread waits, the one that runs is queued and that one is *)
(* taken, in either order.                                                 *)
LEMMA YieldKeeps == IInv /\ rpi_yield => IInv'
<1> SUFFICES ASSUME IInv, rpi_yield PROVE IInv'
  OBVIOUS
<1>1. /\ Good(mem, queued) /\ made \in Nat /\ forked \in Nat /\ (\A t : In(queued, t) => t <= made)
      /\ cur_thread \in Thread /\ cur_thread <= made /\ ~ In(queued, cur_thread)
      /\ cur_thread # Null /\ made' = made /\ forked' = forked
  BY DEF IInv, Running, rpi_yield
<1>2. "runq" \in Queues
  BY DEF Queues
<1>3. CASE Empty(mem, "runq")
  <2>1. UNCHANGED <<mem, queued, cur_thread>>
    BY <1>3 DEF rpi_yield
  <2> QED BY <2>1, <1>1 DEF IInv, Running
<1>4. CASE ~ Empty(mem, "runq")
  <2> DEFINE p == Q_pop(mem, "runq")
             P == Popped(queued, "runq")
  <2>1. /\ mem' = Q_append(p, "runq", cur_thread) /\ queued' = Appended(P, "runq", cur_thread)
        /\ cur_thread' = mem.head["runq"]
    BY <1>4 DEF rpi_yield, SwitchTo
  <2>2. queued["runq"] # <<>>
    BY <1>1, <1>2, <1>4, EmptyIsEmpty
  <2>3. /\ Good(p, P) /\ cur_thread' \in Thread /\ In(queued, cur_thread') /\ ~ In(P, cur_thread')
        /\ \A t : In(P, t) => In(queued, t)
    BY <1>1, <1>2, <2>1, <2>2, GoodPop
  <2>4. Good(mem', queued') /\ \A t : In(queued', t) => t = cur_thread \/ In(P, t)
    BY <1>1, <1>2, <2>1, <2>3, GoodAppend
  <2>5. (\A t : In(queued', t) => t <= made) /\ cur_thread' <= made
    BY <1>1, <2>3, <2>4
  <2>6. ~ In(queued', cur_thread') /\ cur_thread' # Null
    BY <1>1, <2>3, <2>4, Constants
  <2> QED BY <1>1, <2>3, <2>4, <2>5, <2>6 DEF IInv, Running
<1> QED BY <1>3, <1>4

LEMMA ExitKeeps == IInv /\ rpi_exit => IInv'
<1> SUFFICES ASSUME IInv, rpi_exit PROVE IInv'
  OBVIOUS
<1>1. /\ Good(mem, queued) /\ made \in Nat /\ forked \in Nat /\ (\A t : In(queued, t) => t <= made)
      /\ cur_thread \in Thread /\ cur_thread <= made /\ ~ In(queued, cur_thread)
      /\ cur_thread # Null /\ made' = made
  BY DEF IInv, Running, rpi_exit
<1>2. "runq" \in Queues /\ "freeq" \in Queues /\ "runq" # "freeq"
  BY DEF Queues
<1> DEFINE f == Q_append(mem, "freeq", cur_thread)
           F == Appended(queued, "freeq", cur_thread)
<1>3. /\ Good(f, F) /\ (\A t : In(F, t) => t = cur_thread \/ In(queued, t))
      /\ F["runq"] = queued["runq"] /\ f.head["runq"] = mem.head["runq"]
  BY <1>1, <1>2, GoodAppend
<1>4. \A t : In(F, t) => t <= made
  BY <1>1, <1>3
<1>5. CASE Empty(mem, "runq")
  <2>1. mem' = f /\ queued' = F /\ cur_thread' = Null /\ forked' = 0
    BY <1>5 DEF rpi_exit
  <2>2. queued["runq"] = <<>>
    BY <1>1, <1>2, <1>5, EmptyIsEmpty
  <2>3. Len(queued'["runq"]) = 0
    BY <1>3, <2>1, <2>2, EmptySeq
  <2> QED BY <1>1, <1>3, <1>4, <2>1, <2>3 DEF IInv, Running
<1>6. CASE ~ Empty(mem, "runq")
  <2>1. mem' = Q_pop(f, "runq") /\ queued' = Popped(F, "runq") /\ cur_thread' = f.head["runq"] /\ forked' = forked
    BY <1>3, <1>6 DEF rpi_exit, SwitchTo
  <2>2. F["runq"] # <<>>
    BY <1>1, <1>2, <1>3, <1>6, EmptyIsEmpty
  <2>3. /\ Good(mem', queued') /\ cur_thread' \in Thread /\ In(F, cur_thread') /\ ~ In(queued', cur_thread')
        /\ \A t : In(queued', t) => In(F, t)
    BY <1>2, <1>3, <2>1, <2>2, GoodPop
  <2>4. (\A t : In(queued', t) => t <= made) /\ cur_thread' <= made /\ cur_thread' # Null
    BY <1>4, <2>3, Constants
  <2> QED BY <1>1, <2>1, <2>3, <2>4 DEF IInv, Running
<1> QED BY <1>5, <1>6

LEMMA StutterKeeps == IInv /\ UNCHANGED threads => IInv'
<1> SUFFICES ASSUME IInv, UNCHANGED threads PROVE IInv'
  OBVIOUS
<1>1. UNCHANGED <<mem, queued, made, forked, cur_thread>>
  BY DEF threads
<1> QED BY <1>1 DEF IInv, Running

LEMMA Always == ThreadsSpec => []IInv
<1>1. IInv /\ [ThreadsNext]_threads => IInv'
  BY ForkKeeps, StartKeeps, YieldKeeps, ExitKeeps, StutterKeeps DEF ThreadsNext
<1> QED BY <1>1, InitHolds, PTL DEF ThreadsSpec

\* The linked lists of Q.h hold, at every moment and for any number of threads,
\* what was appended and not popped, in order (Q.h:26-48).
THEOREM QueuesAlwaysHold == ThreadsSpec => []QueuesHold
<1>1. IInv => QueuesHold
  BY DEF IInv, Good, QueuesHold
<1> QED BY <1>1, Always, PTL

-----------------------------------------------------------------------------
\* No thread waits in two places, and none that runs waits too: the queues never
\* hand out a thread twice (rpi-thread.c:15-22, 84, Q.h:26-48).
OncePerQueue == Distinct(queued) /\ (cur_thread # Null => ~ In(queued, cur_thread))

THEOREM ThreadsWaitOnce == ThreadsSpec => []OncePerQueue
<1>1. IInv => OncePerQueue
  BY DEF IInv, Good, Running, OncePerQueue
<1> QED BY <1>1, Always, PTL

-----------------------------------------------------------------------------
(* Where each thread is.  In the other direction than above: what a queue  *)
(* held it still holds, but for the one that was popped.                   *)
InOne(Q, q, t) == \E i \in 1 .. Len(Q[q]) : Q[q][i] = t

LEMMA InSome == \A Q, t : In(Q, t) <=> \E q \in Queues : InOne(Q, q, t)
BY DEF In, InOne

LEMMA PopFinds ==
  ASSUME NEW m, NEW Q, Good(m, Q), NEW q \in Queues, Q[q] # <<>>, NEW r \in Queues, NEW t
  PROVE  InOne(Popped(Q, q), r, t) <=> InOne(Q, r, t) /\ ~ (r = q /\ t = m.head[q])
<1>1. Q \in [Queues -> Seq(Thread)] /\ Q[q] \in Seq(Thread) /\ Len(Q[q]) \in Nat \ {0}
  BY EmptySeq DEF Good
<1>2. m.head[q] = Q[q][1]
  BY <1>1 DEF Good, Holds
<1>3. CASE r # q
  BY <1>1, <1>3 DEF InOne, Popped
<1>4. CASE r = q
  <2>1. Popped(Q, q)[q] = Tail(Q[q])
    BY <1>1 DEF Popped
  <2>2. /\ Len(Tail(Q[q])) = Len(Q[q]) - 1
        /\ \A i \in 1 .. Len(Tail(Q[q])) : Tail(Q[q])[i] = Q[q][i + 1]
    BY <1>1, HeadTailProperties
  <2>3. ASSUME NEW i \in 1 .. Len(Q[q]), i # 1
        PROVE  i - 1 \in 1 .. Len(Q[q]) - 1 /\ Tail(Q[q])[i - 1] = Q[q][i] /\ Q[q][i] # Q[q][1]
    <3>1. i - 1 \in 1 .. Len(Q[q]) - 1 /\ 1 \in 1 .. Len(Q[q])
      BY <2>3, <1>1
    <3>2. Q[q][i] # Q[q][1]
      BY <3>1, <2>3 DEF Good, Distinct
    <3> QED BY <3>1, <3>2, <2>2
  <2>4. ASSUME NEW i \in 1 .. Len(Q[q]) - 1
        PROVE  i + 1 \in 1 .. Len(Q[q]) /\ i + 1 # 1
    BY <1>1
  <2>5. ASSUME InOne(Popped(Q, q), q, t) PROVE InOne(Q, q, t) /\ t # m.head[q]
    <3>1. PICK i \in 1 .. Len(Q[q]) - 1 : Tail(Q[q])[i] = t
      BY <2>1, <2>2, <2>5 DEF InOne
    <3>2. i + 1 \in 1 .. Len(Q[q]) /\ i + 1 # 1 /\ Q[q][i + 1] = t
      BY <3>1, <2>2, <2>4
    <3>3. Q[q][i + 1] # Q[q][1]
      BY <3>2, <2>3
    <3> QED BY <3>2, <3>3, <1>2 DEF InOne
  <2>6. ASSUME InOne(Q, q, t), t # m.head[q] PROVE InOne(Popped(Q, q), q, t)
    <3>1. PICK i \in 1 .. Len(Q[q]) : Q[q][i] = t
      BY <2>6 DEF InOne
    <3>2. i - 1 \in 1 .. Len(Tail(Q[q])) /\ Tail(Q[q])[i - 1] = t
      BY <3>1, <2>6, <1>2, <2>2, <2>3
    <3> QED BY <3>2, <2>1 DEF InOne
  <2> QED BY <1>4, <2>5, <2>6
<1> QED BY <1>3, <1>4

LEMMA AppendFinds ==
  ASSUME NEW m, NEW Q, Good(m, Q), NEW q \in Queues, NEW e \in Thread, NEW r \in Queues, NEW t
  PROVE  InOne(Appended(Q, q, e), r, t) <=> InOne(Q, r, t) \/ (r = q /\ t = e)
<1>1. Q \in [Queues -> Seq(Thread)] /\ Q[q] \in Seq(Thread) /\ Len(Q[q]) \in Nat
  BY DEF Good
<1>2. CASE r # q
  BY <1>1, <1>2 DEF InOne, Appended
<1>3. CASE r = q
  <2>1. Appended(Q, q, e)[q] = Append(Q[q], e)
    BY <1>1 DEF Appended
  <2>2. /\ Len(Append(Q[q], e)) = Len(Q[q]) + 1 /\ Append(Q[q], e)[Len(Q[q]) + 1] = e
        /\ \A i \in 1 .. Len(Q[q]) : Append(Q[q], e)[i] = Q[q][i]
    BY <1>1, AppendProperties
  <2>3. \A i \in 1 .. Len(Q[q]) + 1 : i \in 1 .. Len(Q[q]) \/ i = Len(Q[q]) + 1
    BY <1>1
  <2>4. Len(Q[q]) + 1 \in 1 .. Len(Q[q]) + 1 /\ \A i \in 1 .. Len(Q[q]) : i \in 1 .. Len(Q[q]) + 1
    BY <1>1
  <2> QED BY <1>3, <2>1, <2>2, <2>3, <2>4 DEF InOne
<1> QED BY <1>2, <1>3

-----------------------------------------------------------------------------
(* Every thread that was made is somewhere; and thread_count and the       *)
(* threads that have not run yet, which all wait in runq, are those that   *)
(* were forked.                                                            *)
Somewhere ==
  /\ made <= MaxThreads
  /\ \A t \in schedulers : t \in 1 .. made /\ t # cur_thread /\ ~ In(queued, t)
  /\ \A t \in 1 .. made : In(queued, t) \/ t = cur_thread \/ t \in schedulers

Counting ==
  /\ thread_count \in Nat /\ IsFiniteSet(fresh)
  /\ forked <= Forks /\ (cur_thread # Null => forked = Forks)
  /\ \A t \in fresh : InOne(queued, "runq", t)
  /\ forked # 0 => thread_count + Cardinality(fresh) = forked
  /\ forked = 0 => fresh = {}
  /\ AllCounted

Accounts == IInv /\ Somewhere /\ Counting

(* mk_thread() takes the new thread from freeq or from the heap, so it was *)
(* neither running nor a scheduler's.                                      *)
LEMMA MadeFrom ==
  ASSUME IInv, Somewhere, mk_thread
  PROVE  /\ made' <= MaxThreads /\ New \in 1 .. made' /\ New \notin schedulers /\ New # cur_thread
         /\ \A t \in 1 .. made' : t = New \/ t \in 1 .. made
         /\ \A t : InOne(queuedNew, "runq", t) <=> InOne(queued, "runq", t)
         /\ \A t : In(queuedNew, t) <=> In(queued, t) /\ t # New
<1>1. Good(mem, queued) /\ made \in Nat /\ \A t : In(queued, t) => t <= made
  BY DEF IInv
<1>2. New \in Thread /\ Thread = 1 .. MaxThreads /\ MaxThreads \in Nat
  BY ThreadsAssumption DEF mk_thread, Thread
<1>3. "freeq" \in Queues /\ "runq" \in Queues /\ "runq" # "freeq" /\ \A q \in Queues : q = "runq" \/ q = "freeq"
  BY DEF Queues
<1>4. CASE Empty(mem, "freeq")
  <2>1. queuedNew = queued /\ New = made + 1 /\ made' = made + 1
    BY <1>4 DEF queuedNew, New, mk_thread
  <2>2. ~ In(queued, made + 1)
    <3> SUFFICES ASSUME In(queued, made + 1) PROVE FALSE
      OBVIOUS
    <3>1. made + 1 <= made
      BY <1>1
    <3> QED BY <3>1, <1>1
  <2>3. New \notin schedulers /\ New # cur_thread
    <3>1. \A t \in schedulers : t \in 1 .. made
      BY DEF Somewhere
    <3>2. cur_thread = Null \/ (cur_thread \in Nat /\ cur_thread <= made)
      BY Constants DEF IInv, Running
    <3> QED BY <3>1, <3>2, <2>1, <1>1, Constants
  <2>4. made' <= MaxThreads /\ New \in 1 .. made' /\ \A t \in 1 .. made' : t = New \/ t \in 1 .. made
    BY <2>1, <1>1, <1>2
  <2> QED BY <2>1, <2>2, <2>3, <2>4
<1>5. CASE ~ Empty(mem, "freeq")
  <2>1. queuedNew = Popped(queued, "freeq") /\ New = mem.head["freeq"] /\ made' = made
    BY <1>5 DEF queuedNew, New, mk_thread
  <2>2. queued["freeq"] # <<>>
    BY <1>1, <1>3, <1>5, EmptyIsEmpty
  <2>3. In(queued, New) /\ ~ In(queuedNew, New)
    BY <1>1, <1>3, <2>1, <2>2, GoodPop
  <2>4. \A r \in Queues : \A t : InOne(queuedNew, r, t) <=> InOne(queued, r, t) /\ ~ (r = "freeq" /\ t = New)
    BY <1>1, <1>3, <2>1, <2>2, PopFinds
  <2>5. \A t : In(queuedNew, t) <=> In(queued, t) /\ t # New
    BY <2>3, <2>4, InSome
  <2>6. New \notin schedulers /\ New # cur_thread
    BY <2>3, <1>2, Constants DEF Somewhere, IInv, Running
  <2>7. New \in 1 .. made /\ made <= MaxThreads
    BY <2>3, <1>1, <1>2 DEF Somewhere
  <2> QED BY <2>1, <2>4, <2>5, <2>6, <2>7, <1>3
<1> QED BY <1>4, <1>5

LEMMA InitAccounts == ThreadsInit => Accounts
<1> SUFFICES ASSUME ThreadsInit PROVE Accounts
  OBVIOUS
<1>1. made = 0 /\ schedulers = {} /\ fresh = {} /\ forked = 0 /\ thread_count = 0 /\ round = 0
      /\ cur_thread = Null
  BY DEF ThreadsInit
<1>2. IInv
  BY InitHolds
<1>3. 1 .. made = {}
  BY <1>1
<1>4. Somewhere
  BY <1>1, <1>3, Constants DEF Somewhere
<1>5. IsFiniteSet(fresh)
  BY <1>1, FS_EmptySet
<1>6. Counting
  BY <1>1, <1>5, ThreadsAssumption DEF Counting, AllCounted
<1> QED BY <1>2, <1>4, <1>6 DEF Accounts

LEMMA ForkAccounts == Accounts /\ rpi_fork => Accounts'
<1> SUFFICES ASSUME Accounts, rpi_fork PROVE Accounts'
  OBVIOUS
<1>1. /\ IInv /\ Somewhere /\ Counting /\ IInv'
      /\ mk_thread /\ cur_thread = Null /\ cur_thread' = cur_thread /\ schedulers' = schedulers
      /\ round' = round /\ forked < Forks /\ forked' = forked + 1
      /\ queued' = Appended(queuedNew, "runq", New) /\ fresh' = fresh \cup {New}
      /\ thread_count' = IF forked = 0 THEN 0 ELSE thread_count
  BY ForkKeeps DEF Accounts, rpi_fork, Yields
<1>2. "runq" \in Queues
  BY DEF Queues
<1>3. Good(memNew, queuedNew) /\ New \in Thread /\ ~ In(queuedNew, New)
  BY <1>1, Made
<1>4. /\ made' <= MaxThreads /\ New \in 1 .. made' /\ New \notin schedulers /\ New # cur_thread
      /\ \A t \in 1 .. made' : t = New \/ t \in 1 .. made
      /\ \A t : InOne(queuedNew, "runq", t) <=> InOne(queued, "runq", t)
      /\ \A t : In(queuedNew, t) <=> In(queued, t) /\ t # New
  BY <1>1, MadeFrom
<1>5. \A r \in Queues : \A t : InOne(queued', r, t) <=> InOne(queuedNew, r, t) \/ (r = "runq" /\ t = New)
  BY <1>1, <1>2, <1>3, AppendFinds
<1>6. \A t : In(queued', t) <=> In(queued, t) \/ t = New
  BY <1>2, <1>4, <1>5, InSome
<1>7. made \in Nat /\ made' \in Nat /\ made <= made' /\ forked \in Nat
  BY <1>1, Made DEF IInv
<1>8. Somewhere'
  <2>1. \A t \in schedulers : t \in 1 .. made' /\ t # cur_thread' /\ ~ In(queued', t)
    BY <1>1, <1>4, <1>6, <1>7 DEF Somewhere
  <2>2. \A t \in 1 .. made' : In(queued', t) \/ t = cur_thread \/ t \in schedulers
    BY <1>4, <1>6, <1>1 DEF Somewhere
  <2> QED BY <2>1, <2>2, <1>1, <1>4 DEF Somewhere
<1>9. Counting'
  <2>1. New \notin fresh
    BY <1>1, <1>2, <1>3, <1>4, InSome DEF Counting
  <2>2. IsFiniteSet(fresh) /\ Cardinality(fresh) \in Nat
    BY <1>1, FS_CardinalityType DEF Counting
  <2>3. IsFiniteSet(fresh') /\ Cardinality(fresh') = Cardinality(fresh) + 1
    BY <1>1, <2>1, <2>2, FS_AddElement
  <2>4. thread_count' \in Nat /\ thread_count' + Cardinality(fresh') = forked'
    <3>1. CASE forked = 0
      BY <3>1, <1>1, <2>3, FS_EmptySet DEF Counting
    <3>2. CASE forked # 0
      BY <3>2, <1>1, <2>2, <2>3 DEF Counting
    <3> QED BY <3>1, <3>2
  <2>5. \A t \in fresh' : InOne(queued', "runq", t)
    BY <1>1, <1>2, <1>4, <1>5 DEF Counting
  <2>6. forked' # 0 /\ forked' <= Forks
    BY <1>1, <1>7, ThreadsAssumption
  <2> QED BY <1>1, <2>3, <2>4, <2>5, <2>6 DEF Counting, AllCounted
<1> QED BY <1>1, <1>8, <1>9 DEF Accounts

(* The switch to the first of runq, which is taken from there.             *)
LEMMA SwitchCounts ==
  ASSUME Counting, forked = Forks, NEW m, NEW Q, Good(m, Q), Q["runq"] # <<>>,
         \A t : InOne(queued, "runq", t) => InOne(Q, "runq", t),
         queued' = Popped(Q, "runq"), SwitchTo(m.head["runq"]),
         forked' = forked, round' = round
  PROVE  Counting'
<1>1. "runq" \in Queues /\ Forks \in Nat \ {0}
  BY ThreadsAssumption DEF Queues
<1>2. /\ fresh' = fresh \ {m.head["runq"]}
      /\ thread_count' = IF m.head["runq"] \in fresh THEN thread_count + 1 ELSE thread_count
  BY DEF SwitchTo
<1>3. IsFiniteSet(fresh) /\ Cardinality(fresh) \in Nat /\ thread_count \in Nat
  BY FS_CardinalityType DEF Counting
<1>4. /\ IsFiniteSet(fresh')
      /\ Cardinality(fresh') = IF m.head["runq"] \in fresh THEN Cardinality(fresh) - 1 ELSE Cardinality(fresh)
  BY <1>2, <1>3, FS_RemoveElement
<1>5. thread_count' \in Nat /\ thread_count' + Cardinality(fresh') = forked'
  BY <1>1, <1>2, <1>3, <1>4 DEF Counting
<1>6. \A t \in fresh' : InOne(queued', "runq", t)
  BY <1>1, <1>2, PopFinds DEF Counting
<1> QED BY <1>1, <1>4, <1>5, <1>6 DEF Counting, AllCounted

LEMMA StartAccounts == Accounts /\ rpi_thread_start => Accounts'
<1> SUFFICES ASSUME Accounts, rpi_thread_start PROVE Accounts'
  OBVIOUS
<1>1. /\ IInv /\ Somewhere /\ Counting /\ IInv'
      /\ mk_thread /\ cur_thread = Null /\ forked = Forks /\ forked' = forked /\ round' = round
      /\ schedulers' = schedulers \cup {New}
      /\ queued' = Popped(queuedNew, "runq")
      /\ SwitchTo(mem.head["runq"]) /\ cur_thread' = mem.head["runq"]
  BY StartKeeps DEF Accounts, rpi_thread_start, SwitchTo
<1>2. "runq" \in Queues
  BY DEF Queues
<1>3. /\ Good(memNew, queuedNew) /\ queuedNew["runq"] = queued["runq"]
      /\ memNew.head["runq"] = mem.head["runq"]
  BY <1>1, Made
<1>4. /\ made' <= MaxThreads /\ New \in 1 .. made' /\ New \notin schedulers /\ New # cur_thread
      /\ \A t \in 1 .. made' : t = New \/ t \in 1 .. made
      /\ \A t : InOne(queuedNew, "runq", t) <=> InOne(queued, "runq", t)
      /\ \A t : In(queuedNew, t) <=> In(queued, t) /\ t # New
  BY <1>1, MadeFrom
<1>5. queuedNew["runq"] # <<>>
  BY <1>1, <1>3, EmptySeq, ThreadsAssumption DEF IInv
<1>6. /\ In(queuedNew, cur_thread') /\ ~ In(queued', cur_thread')
      /\ \A r \in Queues : \A t : InOne(queued', r, t) <=> InOne(queuedNew, r, t) /\ ~ (r = "runq" /\ t = cur_thread')
  BY <1>1, <1>2, <1>3, <1>5, GoodPop, PopFinds
<1>7. \A t : In(queued', t) <=> In(queued, t) /\ t # New /\ t # cur_thread'
  BY <1>4, <1>6, InSome
<1>8. made \in Nat /\ made' \in Nat /\ made <= made'
  BY <1>1, Made DEF IInv
<1>9. Somewhere'
  <2>1. \A t \in schedulers' : t \in 1 .. made' /\ t # cur_thread' /\ ~ In(queued', t)
    BY <1>1, <1>4, <1>6, <1>7, <1>8 DEF Somewhere
  <2>2. \A t \in 1 .. made' : In(queued', t) \/ t = cur_thread' \/ t \in schedulers'
    <3> SUFFICES ASSUME NEW t \in 1 .. made', t # New PROVE In(queued', t) \/ t = cur_thread' \/ t \in schedulers'
      BY <1>1
    <3>1. t \in 1 .. made /\ t # Null
      BY <1>4, Constants
    <3> QED BY <3>1, <1>1, <1>7 DEF Somewhere
  <2> QED BY <2>1, <2>2, <1>4 DEF Somewhere
<1>10. Counting'
  BY <1>1, <1>3, <1>4, <1>5, SwitchCounts
<1> QED BY <1>1, <1>9, <1>10 DEF Accounts

LEMMA YieldAccounts == Accounts /\ rpi_yield => Accounts'
<1> SUFFICES ASSUME Accounts, rpi_yield PROVE Accounts'
  OBVIOUS
<1>1. /\ IInv /\ Somewhere /\ Counting /\ IInv' /\ Good(mem, queued)
      /\ cur_thread # Null /\ cur_thread \in Thread /\ ~ In(queued, cur_thread)
      /\ made' = made /\ schedulers' = schedulers /\ forked' = forked /\ round' = round
  BY YieldKeeps DEF Accounts, IInv, Running, rpi_yield
<1>2. "runq" \in Queues
  BY DEF Queues
<1>3. CASE Empty(mem, "runq")
  <2>1. UNCHANGED <<queued, cur_thread, thread_count, fresh>>
    BY <1>3 DEF rpi_yield
  <2>2. Somewhere' /\ Counting'
    BY <1>1, <2>1 DEF Somewhere, Counting, AllCounted
  <2> QED BY <1>1, <2>2 DEF Accounts
<1>4. CASE ~ Empty(mem, "runq")
  <2> DEFINE P == Popped(queued, "runq")
  <2>1. /\ queued' = Appended(P, "runq", cur_thread)
        /\ SwitchTo(mem.head["runq"]) /\ cur_thread' = mem.head["runq"]
    BY <1>4 DEF rpi_yield, SwitchTo
  <2>2. queued["runq"] # <<>>
    BY <1>1, <1>2, <1>4, EmptyIsEmpty
  <2>3. /\ Good(Q_pop(mem, "runq"), P) /\ In(queued, cur_thread') /\ ~ In(P, cur_thread')
        /\ \A r \in Queues : \A t : InOne(P, r, t) <=> InOne(queued, r, t) /\ ~ (r = "runq" /\ t = cur_thread')
    BY <1>1, <1>2, <2>1, <2>2, GoodPop, PopFinds
  <2>4. \A r \in Queues : \A t : InOne(queued', r, t) <=> InOne(P, r, t) \/ (r = "runq" /\ t = cur_thread)
    BY <1>1, <1>2, <2>1, <2>3, AppendFinds
  <2> HIDE DEF P
  <2>5. cur_thread' # cur_thread
    BY <2>3, <1>1
  <2>6. \A t : In(P, t) <=> In(queued, t) /\ t # cur_thread'
    BY <2>3, InSome
  <2>7. \A t : In(queued', t) <=> In(P, t) \/ t = cur_thread
    BY <2>4, <1>2, InSome
  <2>8. Somewhere'
    <3>1. \A t \in schedulers' : t \in 1 .. made' /\ t # cur_thread' /\ ~ In(queued', t)
      BY <1>1, <2>3, <2>6, <2>7 DEF Somewhere
    <3>2. \A t \in 1 .. made' : In(queued', t) \/ t = cur_thread' \/ t \in schedulers'
      BY <1>1, <2>6, <2>7 DEF Somewhere
    <3> QED BY <3>1, <3>2, <1>1 DEF Somewhere
  <2>9. Counting'
    <3>1. /\ fresh' = fresh \ {cur_thread'}
          /\ thread_count' = IF cur_thread' \in fresh THEN thread_count + 1 ELSE thread_count
      BY <2>1 DEF SwitchTo
    <3>2. /\ IsFiniteSet(fresh) /\ Cardinality(fresh) \in Nat /\ thread_count \in Nat
          /\ forked = Forks /\ Forks \in Nat \ {0}
      BY <1>1, FS_CardinalityType, ThreadsAssumption DEF Counting
    <3>3. /\ IsFiniteSet(fresh')
          /\ Cardinality(fresh') = IF cur_thread' \in fresh THEN Cardinality(fresh) - 1 ELSE Cardinality(fresh)
      BY <3>1, <3>2, FS_RemoveElement
    <3>4. thread_count' \in Nat /\ thread_count' + Cardinality(fresh') = forked'
      BY <1>1, <3>1, <3>2, <3>3 DEF Counting
    <3>5. \A t \in fresh' : InOne(queued', "runq", t)
      BY <1>1, <1>2, <2>3, <2>4, <3>1 DEF Counting
    <3> QED BY <1>1, <3>2, <3>3, <3>4, <3>5 DEF Counting, AllCounted
  <2> QED BY <1>1, <2>8, <2>9 DEF Accounts
<1> QED BY <1>3, <1>4

(* A thread that exits goes to freeq; where no other waits the round is    *)
(* over, and none is left that has not run.                                *)
LEMMA ExitAccounts == Accounts /\ rpi_exit => Accounts'
<1> SUFFICES ASSUME Accounts, rpi_exit PROVE Accounts'
  OBVIOUS
<1>1. /\ IInv /\ Somewhere /\ Counting /\ IInv' /\ Good(mem, queued)
      /\ cur_thread # Null /\ cur_thread \in Thread /\ ~ In(queued, cur_thread)
      /\ forked = Forks /\ made' = made /\ schedulers' = schedulers
  BY ExitKeeps DEF Accounts, Counting, IInv, Running, rpi_exit
<1>2. "runq" \in Queues /\ "freeq" \in Queues /\ "runq" # "freeq"
  BY DEF Queues
<1> DEFINE f == Q_append(mem, "freeq", cur_thread)
           F == Appended(queued, "freeq", cur_thread)
<1>3. /\ Good(f, F) /\ F["runq"] = queued["runq"] /\ f.head["runq"] = mem.head["runq"]
      /\ \A r \in Queues : \A t : InOne(F, r, t) <=> InOne(queued, r, t) \/ (r = "freeq" /\ t = cur_thread)
  BY <1>1, <1>2, GoodAppend, AppendFinds
<1>4. \A t : In(F, t) <=> In(queued, t) \/ t = cur_thread
  BY <1>2, <1>3, InSome
<1>5. CASE Empty(mem, "runq")
  <2>1. /\ queued' = F /\ cur_thread' = Null /\ forked' = 0 /\ round' = round + 1
        /\ thread_count' = thread_count /\ fresh' = fresh
    BY <1>5 DEF rpi_exit
  <2>2. queued["runq"] = <<>>
    BY <1>1, <1>2, <1>5, EmptyIsEmpty
  <2>3. fresh = {}
    <3>1. \A t : ~ InOne(queued, "runq", t)
      BY <2>2, EmptySeq DEF InOne
    <3> QED BY <3>1, <1>1 DEF Counting
  <2>4. thread_count = Forks
    BY <1>1, <2>3, FS_EmptySet, ThreadsAssumption DEF Counting
  <2>5. Counting'
    BY <1>1, <2>1, <2>3, <2>4, Constants, ThreadsAssumption DEF Counting, AllCounted
  <2> HIDE DEF F
  <2>6. Somewhere'
    <3>1. \A t \in schedulers' : t \in 1 .. made' /\ t # cur_thread' /\ ~ In(queued', t)
      BY <1>1, <1>4, <2>1, Constants DEF Somewhere
    <3>2. \A t \in 1 .. made' : In(queued', t) \/ t = cur_thread' \/ t \in schedulers'
      BY <1>1, <1>4, <2>1 DEF Somewhere
    <3> QED BY <3>1, <3>2, <1>1 DEF Somewhere
  <2> QED BY <1>1, <2>5, <2>6 DEF Accounts
<1>6. CASE ~ Empty(mem, "runq")
  <2>1. /\ queued' = Popped(F, "runq") /\ SwitchTo(f.head["runq"]) /\ cur_thread' = f.head["runq"]
        /\ forked' = forked /\ round' = round
    BY <1>3, <1>6 DEF rpi_exit, SwitchTo
  <2>2. F["runq"] # <<>>
    BY <1>1, <1>2, <1>3, <1>6, EmptyIsEmpty
  <2>3. /\ In(F, cur_thread') /\ ~ In(queued', cur_thread')
        /\ \A r \in Queues : \A t : InOne(queued', r, t) <=> InOne(F, r, t) /\ ~ (r = "runq" /\ t = cur_thread')
    BY <1>2, <1>3, <2>1, <2>2, GoodPop, PopFinds
  <2> HIDE DEF F, f
  <2>4. \A t : In(queued', t) <=> In(F, t) /\ t # cur_thread'
    BY <2>3, InSome
  <2>5. InOne(queued, "runq", cur_thread')
    <3>1. InOne(F, "runq", cur_thread')
      BY <2>3, InSome
    <3> QED BY <3>1, <1>2, <1>3
  <2>6. cur_thread' # cur_thread /\ cur_thread' \notin schedulers
    BY <2>5, <1>1, <1>2, InSome DEF Somewhere
  <2>7. Somewhere'
    <3>1. \A t \in schedulers' : t \in 1 .. made' /\ t # cur_thread' /\ ~ In(queued', t)
      BY <1>1, <1>4, <2>4, <2>6 DEF Somewhere
    <3>2. \A t \in 1 .. made' : In(queued', t) \/ t = cur_thread' \/ t \in schedulers'
      BY <1>1, <1>4, <2>4 DEF Somewhere
    <3> QED BY <3>1, <3>2, <1>1 DEF Somewhere
  <2>8. Counting'
    BY <1>1, <1>2, <1>3, <2>1, <2>2, SwitchCounts
  <2> QED BY <1>1, <2>7, <2>8 DEF Accounts
<1> QED BY <1>5, <1>6

LEMMA StutterAccounts == Accounts /\ UNCHANGED threads => Accounts'
<1> SUFFICES ASSUME Accounts, UNCHANGED threads PROVE Accounts'
  OBVIOUS
<1>1. UNCHANGED <<made, forked, cur_thread, queued, schedulers, fresh, thread_count, round>>
  BY DEF threads
<1>2. IInv'
  BY StutterKeeps DEF Accounts
<1> QED BY <1>1, <1>2 DEF Accounts, Somewhere, Counting, AllCounted

LEMMA NextAccounts == Accounts /\ [ThreadsNext]_threads => Accounts'
BY ForkAccounts, StartAccounts, YieldAccounts, ExitAccounts, StutterAccounts DEF ThreadsNext

-----------------------------------------------------------------------------
(* The places of ThreadsAccounted are one where the thread waits and none  *)
(* where it does not; a queue of different threads is no longer than there *)
(* are threads.                                                            *)
LEMMA PlacesCounted ==
  ASSUME Good(mem, queued), NEW t
  PROVE  /\ In(queued, t) => Cardinality(Places(t)) = 1
         /\ ~ In(queued, t) => Cardinality(Places(t)) = 0
<1>1. queued \in [Queues -> Seq(Thread)] /\ Distinct(queued)
  BY DEF Good
<1>2. ASSUME NEW q \in Queues PROVE DOMAIN queued[q] \subseteq Thread
  <2>1. queued[q] \in Seq(Thread)
    BY <1>1
  <2>2. Len(queued[q]) \in Nat /\ DOMAIN queued[q] = 1 .. Len(queued[q])
    BY <2>1
  <2>3. queued[q] \in [1 .. Len(queued[q]) -> Thread]
    BY <2>1
  <2>4. \A i, j \in 1 .. Len(queued[q]) : queued[q][i] = queued[q][j] => i = j
    BY <1>1 DEF Distinct
  <2>5. queued[q] \in Injection(1 .. Len(queued[q]), Thread)
    BY <2>3, <2>4 DEF Injection, IsInjective
  <2>6. IsFiniteSet(Thread) /\ Cardinality(Thread) = MaxThreads
    <3>1. MaxThreads \in Nat /\ Thread = 1 .. MaxThreads
      BY ThreadsAssumption DEF Thread
    <3>2. Cardinality(1 .. MaxThreads) = IF 1 > MaxThreads THEN 0 ELSE MaxThreads - 1 + 1
      BY <3>1, FS_Interval
    <3> QED BY <3>1, <3>2, FS_Interval
  <2>7. Cardinality(1 .. Len(queued[q])) <= Cardinality(Thread)
    BY <2>5, <2>6, FS_Injection
  <2>8. Cardinality(1 .. Len(queued[q])) = IF 1 > Len(queued[q]) THEN 0 ELSE Len(queued[q]) - 1 + 1
    <3>1. PICK n \in Nat : n = Len(queued[q])
      BY <2>2
    <3>2. Cardinality(1 .. n) = IF 1 > n THEN 0 ELSE n - 1 + 1
      BY FS_Interval
    <3> QED BY <3>1, <3>2
  <2>9. Len(queued[q]) <= MaxThreads
    BY <2>2, <2>6, <2>7, <2>8, Constants
  <2> QED BY <2>2, <2>9, Constants DEF Thread
<1>3. ASSUME In(queued, t) PROVE Cardinality(Places(t)) = 1
  <2>1. PICK q \in Queues : \E i \in 1 .. Len(queued[q]) : queued[q][i] = t
    BY <1>3 DEF In
  <2>2. PICK i \in 1 .. Len(queued[q]) : queued[q][i] = t
    BY <2>1
  <2>3. queued[q] \in Seq(Thread) /\ i \in DOMAIN queued[q]
    BY <1>1, <2>2
  <2>4. <<q, i>> \in Places(t)
    BY <1>2, <2>2, <2>3 DEF Places
  <2>5. ASSUME NEW p \in Places(t) PROVE p = <<q, i>>
    <3>1. p \in Queues \X Thread /\ p[2] \in DOMAIN queued[p[1]] /\ queued[p[1]][p[2]] = t
      BY DEF Places
    <3>2. p[1] \in Queues /\ p = <<p[1], p[2]>> /\ queued[p[1]] \in Seq(Thread)
      BY <3>1, <1>1
    <3>3. p[2] \in 1 .. Len(queued[p[1]])
      BY <3>1, <3>2
    <3>4. p[1] = q /\ p[2] = i
      BY <3>1, <3>2, <3>3, <2>2, <1>1 DEF Distinct
    <3> QED BY <3>2, <3>4
  <2>6. Places(t) = {<<q, i>>}
    BY <2>4, <2>5
  <2> QED BY <2>6, FS_Singleton
<1>4. ASSUME ~ In(queued, t) PROVE Cardinality(Places(t)) = 0
  <2>1. ASSUME NEW p \in Places(t) PROVE FALSE
    <3>1. p \in Queues \X Thread /\ p[2] \in DOMAIN queued[p[1]] /\ queued[p[1]][p[2]] = t
      BY DEF Places
    <3>2. p[1] \in Queues /\ queued[p[1]] \in Seq(Thread)
      BY <3>1, <1>1
    <3>3. p[2] \in 1 .. Len(queued[p[1]])
      BY <3>1, <3>2
    <3> QED BY <3>1, <3>2, <3>3, <1>4 DEF In
  <2>2. Places(t) = {}
    BY <2>1
  <2> QED BY <2>2, FS_EmptySet
<1> QED BY <1>3, <1>4

LEMMA AccountsSound == Accounts => ThreadsSound
<1> SUFFICES ASSUME Accounts PROVE ThreadsSound
  OBVIOUS
<1>1. IInv /\ Somewhere /\ Counting /\ Good(mem, queued) /\ Running /\ made \in Nat
  BY DEF Accounts, IInv
<1>2. ASSUME NEW t \in 1 .. made
      PROVE  Cardinality(Places(t)) + (IF t = cur_thread THEN 1 ELSE 0)
               + (IF t \in schedulers THEN 1 ELSE 0) = 1
  <2>1. CASE In(queued, t)
    <3>1. t # cur_thread /\ t \notin schedulers
      BY <2>1, <1>1, Constants DEF Running, Somewhere
    <3> QED BY <2>1, <3>1, <1>1, PlacesCounted
  <2>2. CASE ~ In(queued, t)
    <3>1. Cardinality(Places(t)) = 0
      BY <2>2, <1>1, PlacesCounted
    <3>2. t = cur_thread \/ t \in schedulers
      BY <2>2, <1>1 DEF Somewhere
    <3>3. ~ (t = cur_thread /\ t \in schedulers)
      BY <1>1 DEF Somewhere
    <3> QED BY <3>1, <3>2, <3>3
  <2> QED BY <2>1, <2>2
<1>3. QueuesHold /\ AllCounted
  BY <1>1 DEF Good, QueuesHold, Counting
<1> QED BY <1>2, <1>3 DEF ThreadsSound, ThreadsAccounted

\* However many threads are forked, yield and exit, in whatever order: the queues
\* hold what they should, every thread that was made is in one of them, once, or
\* runs, or was a scheduler's, and part2() counts all that it forked
\* (Q.h:26-48, rpi-thread.c:15-22, 84, thread-test.c:94).
THEOREM ThreadsAlwaysSound == ThreadsSpec => []ThreadsSound
BY InitAccounts, NextAccounts, AccountsSound, PTL DEF ThreadsSpec

-----------------------------------------------------------------------------
(* Where main program and handler are, and what is set up by then.         *)
VectorPrograms == {"timer", "sonar"}
Syscalled == {"stack", "swi", "answer", "loop", "rebooted"}

Whereabouts ==
  /\ prog \in VectorPrograms \cup {"syscall", "threads"} \cup Waiters
  /\ prog = "timer" =>
       /\ mpc \in {"install", "disable", "basic", "timer", "enable", "loop", "rebooted"}
       /\ hpc \in {"off", "pending", "clear", "count", "clock", "period", "return"}
  /\ prog = "sonar" =>
       /\ mpc \in {"install", "disable", "basic", "timer", "pins", "enable", "loop"}
       /\ hpc \in {"off", "pending", "body", "led", "return"}
  /\ prog = "syscall" =>
       mpc \in {"start", "mask", "install", "installed"} \cup Syscalled /\ hpc \in {"off", "wild"}
  /\ prog = "threads" => mpc = "threads" /\ hpc = "off"
  /\ prog \in Waiters => mpc \in {prog, "waiting", "waited"} /\ hpc = "off"

\* Interrupts come through once the last word is copied, or have no cause; lab 15's
\* may have one before int_init().
Guarded ==
  /\ copied \in 0 .. TableWords
  /\ mpc = "install" => copied < TableWords
  /\ mpc \in {"start", "mask"} => copied = 0
  /\ prog \in VectorPrograms /\ mpc # "install" => copied = TableWords
  /\ prog \in VectorPrograms /\ (~ masked \/ hpc # "off") => copied = TableWords
  /\ prog = "syscall" => ~ basicOn /\ (mpc # "start" => ~ gpuOn)
  /\ prog \notin VectorPrograms \cup {"syscall"} => masked
  /\ masked \in BOOLEAN

Lost ==
  /\ hpc = "wild" => mpc = "start"
  /\ wild => prog = "syscall" /\ hpc = "wild"
  /\ wild \in BOOLEAN

Placed == Whereabouts /\ Guarded /\ Lost

LEMMA InitPlaced == Init => Placed
<1> SUFFICES ASSUME Init PROVE Placed
  OBVIOUS
<1>1. prog \in {"timer", "sonar", "syscall", "threads", "delay", "usleep", "timers"}
  BY InterruptsAssumption DEF Init, Waiters
<1>2. /\ mpc = IF prog = "syscall" THEN "start" ELSE IF prog \in {"timer", "sonar"} THEN "install" ELSE prog
      /\ copied = 0 /\ wild = FALSE /\ masked = (prog # "syscall") /\ basicOn = FALSE /\ hpc = "off"
  BY DEF Init
<1>4. Whereabouts
  BY <1>1, <1>2 DEF Whereabouts, VectorPrograms, Waiters, Syscalled
<1>5. masked \in BOOLEAN /\ (prog # "syscall" => masked = TRUE)
  BY <1>2
<1>6. Lost
  BY <1>2 DEF Lost
<1>7. prog = "syscall" => mpc = "start"
  BY <1>2
<1>8. prog \in {"timer", "sonar"} => mpc = "install" /\ masked = TRUE /\ hpc = "off"
  BY <1>1, <1>2, <1>5
<1>9. Guarded
  BY <1>2, <1>5, <1>7, <1>8 DEF Guarded, VectorPrograms, TableWords
<1>. QED
  BY <1>4, <1>6, <1>9 DEF Placed

LEMMA InterruptPlaced == Placed /\ TakeInterrupt => Placed'
<1> SUFFICES ASSUME Placed, TakeInterrupt PROVE Placed'
  OBVIOUS
<1>1. /\ ~ masked /\ IrqLine /\ hpc = "off" /\ masked' = TRUE
      /\ wild' = (wild \/ \E w \in IrqWords : w >= copied)
      /\ hpc' = IF wild' THEN "wild" ELSE "pending"
      /\ UNCHANGED <<prog, mpc, copied, basicOn, gpuOn>>
  BY DEF TakeInterrupt, program, device
<1>2. prog \in VectorPrograms \/ (prog = "syscall" /\ mpc = "start")
  BY <1>1 DEF Placed, Guarded, IrqLine
<1>3. wild = FALSE
  BY <1>1 DEF Placed, Lost
<1>g. Guarded /\ UNCHANGED <<prog, mpc, copied, basicOn, gpuOn>> /\ masked' = TRUE
  BY <1>1 DEF Placed
<1>4. CASE prog \in VectorPrograms
  <2>1. copied = 20
    BY <1>1, <1>4 DEF Placed, Guarded, TableWords
  <2>2. wild' = FALSE /\ hpc' = "pending"
    <3>1. (\E w \in IrqWords : w >= copied) = FALSE
      BY <2>1 DEF IrqWords
    <3>2. wild' = FALSE
      BY <3>1, <1>1, <1>3
    <3>. QED
      BY <3>2, <1>1
  <2>3. Whereabouts'
    BY <1>1, <1>4, <2>2 DEF Placed, Whereabouts, VectorPrograms, Waiters
  <2>4. Guarded'
    <3>1. copied' \in 0 .. TableWords /\ mpc' \notin {"install", "start", "mask"} /\ copied' = TableWords
      BY <1>g, <1>4, <2>1 DEF Guarded, TableWords
    <3>2. prog' \in VectorPrograms /\ prog' # "syscall" /\ masked' \in BOOLEAN
      BY <1>g, <1>4 DEF VectorPrograms
    <3>. QED
      BY <3>1, <3>2 DEF Guarded
  <2>5. Lost'
    BY <2>2 DEF Lost
  <2>. QED
    BY <2>3, <2>4, <2>5 DEF Placed
<1>5. CASE prog = "syscall" /\ mpc = "start"
  <2>1. copied = 0
    BY <1>5 DEF Placed, Guarded
  <2>2. wild' = TRUE /\ hpc' = "wild"
    <3>1. (\E w \in IrqWords : w >= copied) = TRUE
      BY <2>1 DEF IrqWords
    <3>2. wild' = TRUE
      BY <3>1, <1>1, <1>3
    <3>. QED
      BY <3>2, <1>1
  <2>3. Whereabouts'
    BY <1>1, <1>5, <2>2 DEF Placed, Whereabouts, VectorPrograms, Waiters
  <2>4. Guarded'
    <3>1. ~ basicOn' /\ copied' = 0 /\ mpc' = "start" /\ masked' \in BOOLEAN
      BY <1>g, <1>5, <2>1 DEF Guarded
    <3>2. prog' = "syscall" /\ prog' \notin VectorPrograms
      BY <1>g, <1>5 DEF VectorPrograms
    <3>. QED
      BY <3>1, <3>2 DEF Guarded, TableWords
  <2>5. Lost'
    BY <1>1, <1>5, <2>2 DEF Lost
  <2>. QED
    BY <2>3, <2>4, <2>5 DEF Placed
<1>. QED
  BY <1>2, <1>4, <1>5

LEMMA HandlerPlaced == Placed /\ Handler => Placed'
<1> SUFFICES ASSUME Placed, Handler PROVE Placed'
  OBVIOUS
<1>1. UNCHANGED <<prog, mpc, copied, wild, basicOn, gpuOn>>
  BY DEF Handler, ReturnFromInterrupt, Pending, ClearAndCount, ClearThen, CountThen, ReadClock,
         SetPeriod, LedWrite, LedClear, program, vectors, device
<1>2. CASE ReturnFromInterrupt
  <2>1. hpc = "return" /\ hpc' = "off" /\ masked' = FALSE
    BY <1>2 DEF ReturnFromInterrupt
  <2>. QED
    BY <1>1, <2>1 DEF Placed, Whereabouts, Guarded, Lost, VectorPrograms, Waiters
<1>3. CASE ~ ReturnFromInterrupt
  <2>1. UNCHANGED masked
    BY <1>3 DEF Handler, Pending, ClearAndCount, ClearThen, CountThen, ReadClock, SetPeriod, LedWrite, LedClear
  <2>2. /\ hpc # "off" /\ prog \in VectorPrograms
        /\ prog = "timer" => hpc' \in {"clear", "count", "clock", "period", "return"}
        /\ prog = "sonar" => hpc' \in {"body", "led", "return"}
    BY <1>3 DEF Placed, Whereabouts, Handler, Pending, ClearAndCount, ClearThen, CountThen, ReadClock,
                SetPeriod, LedWrite, LedClear, VectorPrograms, Waiters
  <2>. QED
    BY <1>1, <2>1, <2>2 DEF Placed, Whereabouts, Guarded, Lost, VectorPrograms, Waiters
<1>. QED
  BY <1>2, <1>3

LEMMA MainPlaced == Placed /\ MainProgram => Placed'
<1> SUFFICES ASSUME Placed, MainProgram PROVE Placed'
  OBVIOUS
<1> USE DEF Placed, Whereabouts, Guarded, Lost, VectorPrograms, Waiters, Syscalled, TableWords, program, vectors, device
<1>1. CASE Install
  BY <1>1 DEF Install, InstallTo
<1>2. CASE DisableGpu
  BY <1>2 DEF DisableGpu
<1>3. CASE EnableBasic
  BY <1>3 DEF EnableBasic
<1>4. CASE EnableTimer
  BY <1>4 DEF EnableTimer
<1>5. CASE SetUpPins
  BY <1>5 DEF SetUpPins
<1>6. CASE EnableInterrupts
  BY <1>6 DEF EnableInterrupts
<1>7. CASE CountedEnough
  BY <1>7 DEF CountedEnough
<1>8. CASE InitGpuOff
  BY <1>8 DEF InitGpuOff
<1>9. CASE InitMask
  BY <1>9 DEF InitMask
<1>10. CASE Part0
  <2>1. UNCHANGED <<prog, copied, wild, masked, basicOn, gpuOn, hpc>>
    BY <1>10 DEF Part0
  <2>2. /\ mpc \in {"installed"} \cup Syscalled /\ mpc' \in Syscalled /\ prog = "syscall"
    BY <1>10 DEF Part0
  <2>. QED
    BY <2>1, <2>2
<1>11. CASE StartWait
  BY <1>11 DEF StartWait
<1>12. CASE StillWaiting
  BY <1>12 DEF StillWaiting
<1>13. CASE EndWait
  BY <1>13 DEF EndWait
<1>. QED
  BY <1>1, <1>2, <1>3, <1>4, <1>5, <1>6, <1>7, <1>8, <1>9, <1>10, <1>11, <1>12, <1>13 DEF MainProgram

\* The other steps leave both programs where they are.
LEMMA OthersStay ==
  ASSUME Expire \/ GpuAsks \/ Pass \/ UsePins \/ PinEdge \/ SetHandlers \/ RunThreads \/ UNCHANGED vars
  PROVE  UNCHANGED <<prog, mpc, copied, wild, masked, basicOn, gpuOn, hpc>>
BY DEF Expire, GpuAsks, Pass, UsePins, PinEdge, SetHandlers, RunThreads, vars, program, vectors, device

LEMMA NextPlaced == Placed /\ [Next]_vars => Placed'
<1>1. Placed /\ UNCHANGED <<prog, mpc, copied, wild, masked, basicOn, gpuOn, hpc>> => Placed'
  BY DEF Placed, Whereabouts, Guarded, Lost
<1>. QED
  BY <1>1, InterruptPlaced, HandlerPlaced, MainPlaced, OthersStay DEF Next

-----------------------------------------------------------------------------
(* The vectors of lab 15.  Until int_init() is done a word that is         *)
(* accepted goes to the table; afterwards every int_set_handler() panics,  *)
(* so the table that was copied is the one that was accepted.              *)
InForce ==
  /\ int_intialized_p \in BOOLEAN /\ dead \in BOOLEAN
  /\ {table, accepted} \subseteq [IntTypes -> {Ldr, Client}]
  /\ prog # "syscall" => ~ int_intialized_p
  /\ prog = "syscall" => (int_intialized_p <=> mpc \in Syscalled)
  /\ ~ dead => table = accepted
  /\ vector \in [IntTypes -> {Ldr, Client, "garbage"}]
  /\ prog = "syscall" /\ mpc \in {"install", "installed"} /\ ~ dead =>
       \A t \in IntTypes : t < copied => vector[t] = accepted[t]
  /\ prog = "syscall" /\ mpc = "installed" => copied = TableWords
  /\ WordsInForce

\* int_part0(): what the handler that runs is, and what it leaves in r0.
Answered ==
  /\ prog = "syscall" /\ mpc \in {"swi", "answer"} => superStack = TRUE
  /\ prog = "syscall" /\ mpc = "answer" /\ ~ dead /\ running # "none" =>
       running \in {HandleSwi, "astray"}
  /\ prog = "syscall" /\ mpc = "answer" /\ ~ dead /\ running = "none" => r0 = 13
  /\ AnswerComesBack(mpc = "loop" /\ prog = "syscall")

Handled == InForce /\ Answered

LEMMA TypesOfInterrupts == IntTypes = 0 .. 7 /\ SWI_INT = 2 /\ SWI_INT \in IntTypes
BY DEF IntTypes, RESET_INT, FIQ_INT, SWI_INT

LEMMA InitHandled == Init => Handled
<1> SUFFICES ASSUME Init PROVE Handled
  OBVIOUS
<1>1. /\ table = [t \in IntTypes |-> Ldr]
      /\ vector = [t \in IntTypes |-> "garbage"]
      /\ int_intialized_p = FALSE /\ accepted = table /\ dead = FALSE
  BY DEF Init, ExceptionsInit
<1>2. mpc = IF prog = "syscall" THEN "start" ELSE IF prog \in {"timer", "sonar"} THEN "install" ELSE prog
  BY DEF Init
<1>3. prog # "loop" /\ prog \in {"timer", "sonar", "syscall", "threads", "delay", "usleep", "timers"}
  BY InterruptsAssumption DEF Init, Waiters
<1>4. /\ accepted \in [IntTypes -> {Ldr, Client}]
      /\ vector \in [IntTypes -> {Ldr, Client, "garbage"}]
  BY <1>1, TypesOfInterrupts
<1>5. InForce
  BY <1>1, <1>2, <1>3, <1>4 DEF InForce, WordsInForce, Syscalled
<1>6. Answered
  BY <1>2, <1>3 DEF Answered, AnswerComesBack
<1>. QED
  BY <1>5, <1>6 DEF Handled

LEMMA SetHandlersHandled == Placed /\ Handled /\ SetHandlers => Handled'
<1> SUFFICES ASSUME Placed, Handled, SetHandlers PROVE Handled'
  OBVIOUS
<1>1. /\ mpc \in {"start", "loop"} /\ prog = "syscall" /\ ~ dead /\ mpc' = mpc /\ prog' = prog
      /\ copied' = copied
  BY DEF SetHandlers, program, vectors
<1>2. PICK t : t \in Settings /\ SetHandler(t)
  BY DEF SetHandlers
<1>t. table' \in [IntTypes -> {Ldr, Client}]
  BY <1>2 DEF SetHandler, Handled, InForce
<1>3. CASE /\ Settable(t) /\ table' = [table EXCEPT ![t] = Client] /\ ~ int_intialized_p
           /\ accepted' = [accepted EXCEPT ![t] = Client]
           /\ UNCHANGED <<vector, int_intialized_p, dead, mode, superStack, running, r0>>
  <2>1. mpc = "start"
    BY <1>1, <1>3 DEF Handled, InForce, Syscalled
  <2>2. InForce'
    <3>1. accepted \in [IntTypes -> {Ldr, Client}]
      BY DEF Handled, InForce
    <3>2. accepted' \in [IntTypes -> {Ldr, Client}]
      BY <3>1, <1>3, TypesOfInterrupts
    <3>3. ~ dead' /\ table' = accepted'
      BY <1>1, <1>3 DEF Handled, InForce
    <3>. QED
      BY <2>1, <1>1, <1>t, <1>3, <3>2, <3>3 DEF Handled, InForce, WordsInForce, Syscalled
  <2>3. Answered'
    BY <2>1, <1>1, <1>3 DEF Answered, AnswerComesBack
  <2>. QED
    BY <2>2, <2>3 DEF Handled
<1>4. CASE dead' = TRUE /\ UNCHANGED <<vector, accepted, int_intialized_p, mode, superStack, running, r0>>
  <2>1. InForce'
    BY <1>t, <1>1, <1>4 DEF Handled, InForce, WordsInForce
  <2>2. Answered'
    BY <1>1, <1>4 DEF Handled, Answered, AnswerComesBack
  <2>. QED
    BY <2>1, <2>2 DEF Handled
<1>. QED
  BY <1>2, <1>3, <1>4 DEF SetHandler, Panics

LEMMA InstallHandled == Placed /\ Handled /\ Install => Handled'
<1> SUFFICES ASSUME Placed, Handled, Install PROVE Handled'
  OBVIOUS
<1>1. /\ mpc = "install" /\ copied' = copied + 1 /\ prog' = prog
      /\ mpc' = IF copied' # 20 THEN mpc ELSE IF prog = "syscall" THEN "installed" ELSE "disable"
      /\ IF prog = "syscall" THEN InstallWord(copied) ELSE UNCHANGED exceptions
  BY DEF Install, InstallTo, program, TableWords
<1>2. copied \in 0 .. 20 /\ copied < 20
  BY <1>1 DEF Placed, Guarded, TableWords
<1>3. CASE prog = "syscall"
  <2>1. /\ vector' = [t \in IntTypes |-> IF t = copied THEN table[t] ELSE vector[t]]
        /\ UNCHANGED <<table, int_intialized_p, accepted, dead, mode, superStack, running, r0>>
    BY <1>1, <1>3 DEF InstallWord
  <2>2. ~ int_intialized_p /\ mpc' \in {"install", "installed"} /\ (mpc' = "installed" => copied' = 20)
    BY <1>1, <1>2, <1>3 DEF Handled, InForce, Syscalled
  <2>3. ASSUME ~ dead, NEW t \in IntTypes, t < copied' PROVE vector'[t] = accepted[t]
    BY <2>1, <2>3, <1>1, <1>2, <1>3, TypesOfInterrupts DEF Handled, InForce
  <2>4. vector' \in [IntTypes -> {Ldr, Client, "garbage"}]
    BY <2>1 DEF Handled, InForce
  <2>5. InForce'
    BY <2>1, <2>2, <2>3, <2>4, <1>1, <1>3 DEF Handled, InForce, WordsInForce, TableWords, Syscalled
  <2>6. Answered'
    BY <2>2, <1>3 DEF Answered, AnswerComesBack
  <2>. QED
    BY <2>5, <2>6 DEF Handled
<1>4. CASE prog # "syscall"
  <2>1. UNCHANGED <<table, vector, int_intialized_p, accepted, dead, mode, superStack, running, r0>>
    BY <1>1, <1>4 DEF exceptions
  <2>. QED
    BY <2>1, <1>1, <1>4 DEF Handled, InForce, Answered, WordsInForce, AnswerComesBack
<1>. QED
  BY <1>3, <1>4

\* What the rest of int_init() and int_part0() leaves.
LEMMA Part0Handled == Placed /\ Handled /\ Part0 => Handled'
<1> SUFFICES ASSUME Placed, Handled, Part0 PROVE Handled'
  OBVIOUS
<1>1. prog' = prog /\ prog = "syscall" /\ copied' = copied /\ mpc' \in Syscalled /\ ~ dead /\ dead \in BOOLEAN
  BY DEF Part0, Placed, Whereabouts, Waiters, VectorPrograms, Syscalled, program, vectors, Handled, InForce
<1>2. table' = table /\ vector' = vector /\ accepted' = accepted /\ dead' \in BOOLEAN
  BY <1>1 DEF Part0, Initialized, SetupStack, Swi, Handle, SwiReturns, exceptions
<1>3. /\ vector = accepted /\ int_intialized_p' = TRUE
  <2>1. CASE mpc = "installed"
    <3>1. \A t \in IntTypes : vector[t] = accepted[t]
      BY <2>1, <1>1, TypesOfInterrupts DEF Handled, InForce, TableWords
    <3>2. vector = accepted
      BY <3>1 DEF Handled, InForce
    <3>. QED
      BY <2>1, <3>2 DEF Part0, Initialized
  <2>2. CASE mpc \in Syscalled
    <3>1. int_intialized_p = TRUE
      BY <2>2, <1>1 DEF Handled, InForce
    <3>2. vector = accepted
      BY <3>1, <1>1 DEF Handled, InForce, WordsInForce
    <3>3. int_intialized_p' = int_intialized_p
      BY <2>2 DEF Part0, SetupStack, Swi, Handle, SwiReturns, exceptions, Syscalled
    <3>. QED
      BY <3>1, <3>2, <3>3
  <2>. QED
    BY <2>1, <2>2 DEF Part0, Syscalled
<1>4. InForce'
  BY <1>1, <1>2, <1>3 DEF Handled, InForce, WordsInForce, Syscalled
<1>5. Answered'
  <2>1. CASE mpc \in {"installed", "stack"}
    BY <2>1, <1>1 DEF Part0, SetupStack, Answered, AnswerComesBack, Syscalled
  <2>2. CASE mpc = "swi"
    <3>1. /\ mpc' = "answer" /\ superStack' = superStack
          /\ running' = IF vector[SWI_INT] = Ldr THEN HandleSwi ELSE "astray"
      BY <2>2 DEF Part0, Swi
    <3>2. running' \in {HandleSwi, "astray"} /\ running' # "none"
      BY <3>1 DEF HandleSwi
    <3>. QED
      BY <3>1, <3>2, <2>2, <1>1 DEF Handled, Answered, AnswerComesBack
  <2>3. CASE mpc = "answer" /\ Handle /\ mpc' = mpc
    <3>1. superStack = TRUE /\ superStack' = superStack
      BY <2>3, <1>1 DEF Handle, Handled, Answered
    <3>2. (r0' = 13 /\ running' = "none") \/ dead' = TRUE
      BY <2>3 DEF Handle
    <3>. QED
      BY <3>1, <3>2, <2>3, <1>1, <1>2 DEF Answered, AnswerComesBack
  <2>4. CASE mpc = "answer" /\ SwiReturns /\ mpc' = "loop"
    <3>1. running = "none" /\ r0' = r0
      BY <2>4 DEF SwiReturns
    <3>2. r0 = 13
      BY <3>1, <2>4, <1>1 DEF Handled, Answered
    <3>. QED
      BY <3>1, <3>2, <2>4, <1>1, <1>2 DEF Answered, AnswerComesBack
  <2>5. CASE mpc = "loop"
    BY <2>5, <1>1 DEF Part0, Answered, AnswerComesBack
  <2>. QED
    BY <2>1, <2>2, <2>3, <2>4, <2>5 DEF Part0
<1>. QED
  BY <1>4, <1>5 DEF Handled

\* The other steps leave the exceptions alone, and keep the main program where it
\* is or move it to where these facts ask nothing new.
LEMMA OthersHandled ==
  ASSUME Placed, Handled, UNCHANGED exceptions, prog' = prog, copied' = copied,
         prog = "syscall" => mpc' = mpc \/ (mpc = "start" /\ mpc' = "mask")
                             \/ (mpc = "mask" /\ mpc' = "install")
  PROVE  Handled'
<1>1. UNCHANGED <<table, vector, int_intialized_p, accepted, dead, mode, superStack, running, r0>>
  BY DEF exceptions
<1>2. prog = "syscall" => (mpc' \in Syscalled <=> mpc \in Syscalled)
  BY DEF Syscalled
<1>3. prog = "syscall" /\ mpc # "install" /\ mpc' = "install" => copied = 0
  BY DEF Placed, Guarded
<1>4. InForce'
  BY <1>1, <1>2, <1>3, TypesOfInterrupts DEF Handled, InForce, WordsInForce
<1>5. Answered'
  BY <1>1 DEF Handled, Answered, AnswerComesBack
<1>. QED
  BY <1>4, <1>5 DEF Handled

LEMMA NextHandled == Placed /\ Handled /\ [Next]_vars => Handled'
<1> SUFFICES ASSUME Placed, Handled, [Next]_vars PROVE Handled'
  OBVIOUS
<1> DEFINE Kept == UNCHANGED exceptions /\ prog' = prog /\ copied' = copied
           Stays == prog = "syscall" => mpc' = mpc \/ (mpc = "start" /\ mpc' = "mask")
                                        \/ (mpc = "mask" /\ mpc' = "install")
<1>1. Expire \/ GpuAsks \/ Pass \/ TakeInterrupt \/ UsePins \/ PinEdge \/ RunThreads \/ UNCHANGED vars
        => Kept /\ mpc' = mpc
  BY DEF Expire, GpuAsks, Pass, TakeInterrupt, UsePins, PinEdge, RunThreads, vars, world, others, program, vectors
<1>2. Handler => Kept /\ mpc' = mpc
  BY DEF Handler, ReturnFromInterrupt, Pending, ClearAndCount, ClearThen, CountThen, ReadClock, SetPeriod,
         LedWrite, LedClear, world, others, program, vectors
<1>3. DisableGpu \/ EnableBasic \/ EnableTimer \/ SetUpPins \/ EnableInterrupts \/ CountedEnough
        \/ StartWait \/ StillWaiting \/ EndWait => Kept /\ prog # "syscall"
  BY DEF DisableGpu, EnableBasic, EnableTimer, SetUpPins, EnableInterrupts, CountedEnough, StartWait, StillWaiting,
         EndWait, world, others, program, vectors, Placed, Whereabouts, Waiters, VectorPrograms, Syscalled
<1>4. InitGpuOff \/ InitMask => Kept /\ Stays
  BY DEF InitGpuOff, InitMask, world, program, vectors
<1>5. Kept /\ Stays => Handled'
  BY OthersHandled
<1> HIDE DEF Kept
<1>. QED
  BY <1>1, <1>2, <1>3, <1>4, <1>5, SetHandlersHandled, InstallHandled, Part0Handled DEF Next, MainProgram

-----------------------------------------------------------------------------
(* Time.  A clock that wraps is read at two points; what lies between them *)
(* is their difference modulo ClockMod as long as it is below ClockMod.    *)
LEMMA ModClock ==
  ASSUME NEW x \in Int
  PROVE  /\ x \in 0 .. ClockMod - 1 => x % ClockMod = x
         /\ x \in -ClockMod .. -1 => x % ClockMod = x + ClockMod
         /\ x \in ClockMod .. 2 * ClockMod - 1 => x % ClockMod = x - ClockMod
         /\ x % ClockMod \in Clock
<1> ClockMod \in Nat \ {0}
  BY ClockAssumption
<1>. QED
  BY SMTT(30) DEF Clock

\* The clock moves on by one microsecond.
LEMMA Tick ==
  ASSUME NEW a \in Clock
  PROVE  /\ (a + 1) % ClockMod \in Clock
         /\ (a + 1) % ClockMod = IF a = ClockMod - 1 THEN 0 ELSE a + 1
<1> ClockMod \in Nat \ {0} /\ a \in Int /\ a >= 0 /\ a <= ClockMod - 1
  BY ClockAssumption DEF Clock
<1>. QED
  BY ModClock DEF Clock

LEMMA TickSince ==
  ASSUME NEW a \in Clock, NEW b \in Clock, ((a - b) % ClockMod) + 1 < ClockMod
  PROVE  (((a + 1) % ClockMod) - b) % ClockMod = ((a - b) % ClockMod) + 1
<1> ClockMod \in Nat \ {0} /\ a \in 0 .. ClockMod - 1 /\ b \in 0 .. ClockMod - 1
  BY ClockAssumption DEF Clock
<1> DEFINE c == (a + 1) % ClockMod
<1>1. c = IF a = ClockMod - 1 THEN 0 ELSE a + 1
  BY Tick DEF Clock
<1>2. (a - b) % ClockMod = IF a >= b THEN a - b ELSE a - b + ClockMod
  BY ModClock
<1>3. c - b \in Int /\ (c - b) % ClockMod = IF c >= b THEN c - b ELSE c - b + ClockMod
  BY <1>1, ModClock
<1>. QED
  BY <1>1, <1>2, <1>3

\* When a timer triggers, said by the time that is left.
LEMMA TickUntil ==
  ASSUME NEW a \in Clock, NEW u \in Clock, NEW w \in 0 .. ClockMod - 2
  PROVE  (((a + 1) % ClockMod) + u - (w + 1)) % ClockMod = (a + u - w) % ClockMod
<1> ClockMod \in Nat \ {0} /\ a \in 0 .. ClockMod - 1 /\ u \in 0 .. ClockMod - 1
  BY ClockAssumption DEF Clock
<1> DEFINE c == (a + 1) % ClockMod
<1>1. c = IF a = ClockMod - 1 THEN 0 ELSE a + 1
  BY Tick DEF Clock
<1>2. CASE a # ClockMod - 1
  <2>1. c + u - (w + 1) = a + u - w
    BY <1>1, <1>2
  <2>. QED
    BY <2>1
<1>3. CASE a = ClockMod - 1
  <2> DEFINE x == u - w - 1
  <2>1. c + u - (w + 1) = x /\ a + u - w = x + ClockMod
    BY <1>1, <1>3
  <2>2. x \in Int /\ x >= - ClockMod /\ x < ClockMod /\ x + ClockMod \in Int
    OBVIOUS
  <2> HIDE DEF x
  <2>3. x < 0 => x % ClockMod = x + ClockMod /\ (x + ClockMod) % ClockMod = x + ClockMod
    BY <2>2, ModClock
  <2>4. x >= 0 => x % ClockMod = x /\ (x + ClockMod) % ClockMod = x
    BY <2>2, ModClock
  <2>5. x % ClockMod = (x + ClockMod) % ClockMod
    BY <2>2, <2>3, <2>4
  <2>. QED
    BY <2>1, <2>5
<1>. QED
  BY <1>2, <1>3

\* The types of what is about time, and where main program and handler say nothing of it.
Clocks ==
  /\ clk \in Clock /\ clkRead \in Clock /\ last_clk \in Clock /\ period \in Clock
  /\ us \in Clock /\ rb \in Clock
  /\ tw \in [usec : Clock, trigger_value : Clock, rollover : BOOLEAN]
  /\ gap \in 0 .. ClockMod /\ waited \in 0 .. ClockMod
  /\ spacing \in -1 .. ClockMod /\ lasted \in -1 .. ClockMod /\ cnt \in 0 .. Goal
  /\ missed \in BOOLEAN /\ polled \in BOOLEAN /\ owed \in BOOLEAN /\ pend \in BOOLEAN

\* What the handler has measured when.
Measured ==
  /\ hpc # "period" => last_clk = clkRead
  /\ clkRead # 0 /\ gap < ClockMod => gap = (clk - clkRead) % ClockMod
  /\ hpc = "period" /\ spacing \in 0 .. ClockMod - 1 =>
       last_clk # 0 /\ spacing = (clkRead - last_clk) % ClockMod
  /\ hpc # "period" /\ spacing \in 0 .. ClockMod - 1 => period = spacing

\* What the loop of delay_us() sees of the time that it has waited.
DelayWaits ==
  prog = "delay" /\ mpc = "waiting" =>
    /\ waited < ClockMod => waited = (clk - rb) % ClockMod
    /\ ~ missed /\ us # 0 => waited <= us /\ (polled => waited < us)

\* What a timer's trigger and its flag say of it: as long as the time is not over, the
\* clock is past the trigger only with the flag up; and polled at every value of the
\* clock the flag is down by the time that the clock is there.
TimerWaits ==
  prog \in {"usleep", "timers"} /\ mpc = "waiting" /\ us # 0 =>
    /\ tw.usec = us
    /\ waited < ClockMod => tw.trigger_value = (clk + us - waited) % ClockMod
    /\ waited < us /\ clk >= tw.trigger_value => tw.rollover
    /\ ~ missed /\ tw.trigger_value # 0 =>
         /\ waited <= us /\ (polled => waited < us)
         /\ waited = us => ~ tw.rollover
         /\ polled /\ clk < tw.trigger_value => ~ tw.rollover

Timed == Clocks /\ NoTickForgotten /\ Measured /\ DelayWaits /\ TimerWaits /\ (lasted # -1 => lasted >= us)

LEMMA TimedKept == Placed /\ Timed => TimeKept
<1> SUFFICES ASSUME Placed, Timed PROVE TimeKept
  OBVIOUS
<1>1. PeriodTrue
  BY DEF PeriodTrue, Timed, Measured
<1>2. mpc = "waiting" => prog \in Waiters
  BY DEF Placed, Whereabouts, VectorPrograms, Syscalled
<1>3. WaitsAsAsked
  BY <1>2 DEF WaitsAsAsked, Timed, DelayWaits, TimerWaits, Waiters
<1>. QED
  BY <1>1, <1>3 DEF TimeKept, Timed
LEMMA ClockFacts ==
  Clocks => /\ ClockMod \in Nat \ {0} /\ ClockMod \in Int
            /\ clk \in Int /\ clk >= 0 /\ clk <= ClockMod - 1
            /\ us \in Int /\ us >= 0 /\ us <= ClockMod - 1
            /\ waited \in Int /\ waited >= 0 /\ waited <= ClockMod
            /\ gap \in Int /\ gap >= 0 /\ gap <= ClockMod
            /\ clkRead \in Clock /\ last_clk \in Clock /\ rb \in Clock
BY ClockAssumption DEF Clocks, Clock

LEMMA InitTimed == Init => Timed
<1> SUFFICES ASSUME Init PROVE Timed
  OBVIOUS
<1>1. /\ cnt = 0 /\ last_clk = 0 /\ period = 0 /\ clkRead = 0 /\ spacing = -1 /\ gap = 0
      /\ clk \in Clock \cup {0} /\ us \in Clock \cup {0} /\ rb = 0 /\ tw = Off
      /\ waited = 0 /\ lasted = -1 /\ missed = FALSE /\ polled = FALSE
      /\ owed = FALSE /\ pend = FALSE /\ hpc = "off" /\ mpc # "waiting"
  BY InterruptsAssumption DEF Init, Waiters
<1>2. 0 \in Clock /\ ClockMod \in Nat \ {0} /\ Goal \in Nat
  BY ClockAssumption, InterruptsAssumption DEF Clock
<1>3. Clocks
  <2>1. tw \in [usec : Clock, trigger_value : Clock, rollover : BOOLEAN]
    BY <1>1, <1>2 DEF Off
  <2>2. /\ 0 \in 0 .. ClockMod /\ 0 \in 0 .. Goal /\ -1 \in -1 .. ClockMod
        /\ \A c \in Clock \cup {0} : c \in Clock
    BY <1>2
  <2>. QED
    BY <2>1, <2>2, <1>1, <1>2 DEF Clocks
<1>4. Measured
  BY <1>1 DEF Measured
<1>. QED
  BY <1>1, <1>3, <1>4 DEF Timed, NoTickForgotten, DelayWaits, TimerWaits

LEMMA LaterCounts ==
  ASSUME NEW t \in 0 .. ClockMod
  PROVE  Later(t) \in 0 .. ClockMod /\ (Later(t) < ClockMod => Later(t) = t + 1 /\ t + 1 < ClockMod)
BY ClockAssumption DEF Later

\* A microsecond passes.
LEMMA PassTimed == Placed /\ Timed /\ Pass => Timed'
<1> SUFFICES ASSUME Placed, Timed, Pass PROVE Timed'
  OBVIOUS
<1>1. /\ clk' = (clk + 1) % ClockMod /\ gap' = Later(gap) /\ waited' = Later(waited)
      /\ missed' = (missed \/ ~ polled) /\ polled' = FALSE
      /\ UNCHANGED <<prog, mpc, hpc, cnt, last_clk, period, clkRead, spacing, us, rb, tw, lasted, owed, pend>>
  BY DEF Pass, program, device, counts, delay
<1>2. Clocks /\ clk' \in Clock /\ clk' = IF clk = ClockMod - 1 THEN 0 ELSE clk + 1
  BY <1>1, Tick DEF Timed, Clocks
<1>3. /\ gap' \in 0 .. ClockMod /\ (gap' < ClockMod => gap' = gap + 1 /\ gap + 1 < ClockMod)
      /\ waited' \in 0 .. ClockMod
      /\ (waited' < ClockMod => waited' = waited + 1 /\ waited + 1 < ClockMod)
  BY <1>1, <1>2, LaterCounts DEF Clocks
<1>4. missed \in BOOLEAN /\ polled \in BOOLEAN /\ missed' \in BOOLEAN
  BY <1>1, <1>2 DEF Clocks
<1>5. Clocks'
  BY <1>1, <1>2, <1>3, <1>4 DEF Clocks
<1>6. Measured'
  <2>1. ASSUME clkRead # 0, gap' < ClockMod PROVE gap' = (clk' - clkRead) % ClockMod
    <3>1. gap = (clk - clkRead) % ClockMod
      BY <2>1, <1>2, <1>3, ClockFacts DEF Timed, Measured
    <3>2. clk \in Clock /\ clkRead \in Clock
      BY <1>2 DEF Clocks
    <3>3. ((clk - clkRead) % ClockMod) + 1 < ClockMod
      BY <2>1, <1>3, <3>1
    <3>. QED
      BY <3>1, <3>2, <3>3, <2>1, <1>1, <1>3, TickSince
  <2>. QED
    BY <2>1, <1>1 DEF Timed, Measured
<1>7. DelayWaits'
  <2> SUFFICES ASSUME prog = "delay", mpc = "waiting" PROVE DelayWaits'
    BY <1>1 DEF DelayWaits
  <2>1. ASSUME waited' < ClockMod PROVE waited' = (clk' - rb) % ClockMod
    <3>1. waited = (clk - rb) % ClockMod
      BY <2>1, <1>2, <1>3, ClockFacts DEF Timed, DelayWaits
    <3>2. clk \in Clock /\ rb \in Clock
      BY <1>2 DEF Clocks
    <3>3. ((clk - rb) % ClockMod) + 1 < ClockMod
      BY <2>1, <1>3, <3>1
    <3>. QED
      BY <3>1, <3>2, <3>3, <2>1, <1>1, <1>3, TickSince
  <2>2. ASSUME ~ missed', us # 0 PROVE waited' <= us
    <3>1. waited < us
      BY <2>2, <1>1, <1>4 DEF Timed, DelayWaits
    <3>. QED
      BY <3>1, <1>1, <1>2, ClockFacts DEF Later
  <2>. QED
    BY <2>1, <2>2, <1>1 DEF DelayWaits
<1>8. TimerWaits'
  <2> SUFFICES ASSUME prog \in {"usleep", "timers"}, mpc = "waiting", us # 0 PROVE TimerWaits'
    BY <1>1 DEF TimerWaits
  <2>1. tw.usec = us /\ tw.trigger_value \in Clock
    BY <1>2 DEF Timed, TimerWaits, Clocks
  <2>2. ASSUME waited < ClockMod - 1
        PROVE  /\ tw.trigger_value = (clk + us - waited) % ClockMod
               /\ tw.trigger_value = (clk' + us - (waited + 1)) % ClockMod
    <3>1. tw.trigger_value = (clk + us - waited) % ClockMod
      BY <2>2, <1>2, ClockFacts DEF Timed, TimerWaits
    <3>2. clk \in Clock /\ us \in Clock /\ waited \in 0 .. ClockMod - 2
      BY <2>2, <1>2, ClockFacts DEF Clocks
    <3>. QED
      BY <3>1, <3>2, <1>1, TickUntil
  <2>3. ASSUME waited < us PROVE waited' = waited + 1 /\ waited < ClockMod - 1
    BY <2>3, <1>1, <1>2, ClockFacts DEF Later
  <2>4. waited' < us => waited < us
    BY <1>1, <1>2, ClockFacts DEF Later
  <2>5. ASSUME waited < us, waited + 1 < us, clk < tw.trigger_value PROVE clk' < tw.trigger_value
    <3> DEFINE x == clk + us - waited
    <3>1. x \in Int /\ x >= clk + 2 /\ x < clk + ClockMod
      BY <2>5, <1>2, ClockFacts
    <3>2. tw.trigger_value = x % ClockMod
      BY <2>2, <2>3, <2>5
    <3>3. x < ClockMod => x % ClockMod = x
      BY <3>1, <1>2, ClockFacts, ModClock
    <3>4. x >= ClockMod => x % ClockMod = x - ClockMod
      BY <3>1, <1>2, ClockFacts, ModClock
    <3> HIDE DEF x
    <3>. QED
      BY <3>1, <3>2, <3>3, <3>4, <2>5, <1>2, ClockFacts
  <2>6. ASSUME waited' < us, clk' >= tw.trigger_value PROVE tw.rollover
    <3>1. waited < us /\ waited + 1 < us
      BY <2>3, <2>4, <2>6
    <3>2. ~ clk < tw.trigger_value
      BY <3>1, <2>5, <2>6, <2>1, <1>2, ClockFacts DEF Clock
    <3>3. clk >= tw.trigger_value
      BY <3>2, <2>1, <1>2, ClockFacts DEF Clock
    <3>. QED
      BY <3>1, <3>3 DEF Timed, TimerWaits
  <2>7. ASSUME ~ missed', tw.trigger_value # 0
        PROVE  waited' <= us /\ (waited' = us => ~ tw.rollover)
    <3>1. polled /\ ~ missed /\ waited < us
      BY <2>7, <1>1, <1>4 DEF Timed, TimerWaits
    <3>2. waited' <= us
      BY <3>1, <2>3, <1>2, ClockFacts
    <3>3. ASSUME waited' = us PROVE ~ tw.rollover
      <4>1. us - waited = 1
        BY <3>1, <3>3, <2>3, <1>2, ClockFacts
      <4>2. tw.trigger_value = (clk + 1) % ClockMod
        BY <4>1, <3>1, <2>2, <2>3, <1>2, ClockFacts
      <4>3. clk < tw.trigger_value
        BY <4>2, <2>7, <1>1, <1>2, ClockFacts
      <4>. QED
        BY <4>3, <3>1, <2>7 DEF Timed, TimerWaits
    <3>. QED
      BY <3>2, <3>3
  <2>8. ASSUME waited' < ClockMod PROVE tw.trigger_value = (clk' + us - waited') % ClockMod
    BY <2>2, <2>8, <1>3, <1>2, ClockFacts
  <2>. QED
    BY <2>1, <2>6, <2>7, <2>8, <1>1 DEF TimerWaits
<1>9. NoTickForgotten' /\ (lasted' # -1 => lasted' >= us')
  BY <1>1 DEF Timed, NoTickForgotten
<1>. QED
  BY <1>5, <1>6, <1>7, <1>8, <1>9 DEF Timed
\* The handler: it clears and counts, reads the clock, and subtracts.
LEMMA HandlerTimed == Placed /\ Timed /\ Handler => Timed'
<1> SUFFICES ASSUME Placed, Timed, Handler PROVE Timed'
  OBVIOUS
<1>1. UNCHANGED <<prog, mpc, clk, waited, missed, polled, us, rb, tw, lasted>>
  BY DEF Handler, ReturnFromInterrupt, Pending, ClearAndCount, ClearThen, CountThen, ReadClock, SetPeriod,
         LedWrite, LedClear, program, time, delay
<1>2. DelayWaits' /\ TimerWaits' /\ (lasted' # -1 => lasted' >= us')
  BY <1>1 DEF Timed, DelayWaits, TimerWaits
<1>3. Clocks
  BY DEF Timed
<1>4. CASE ReadClock
  <2>1. /\ hpc = "clock" /\ hpc' = "period" /\ clkRead' = clk /\ gap' = 0
        /\ spacing' = (IF last_clk = 0 THEN -1 ELSE gap)
        /\ UNCHANGED <<last_clk, period, cnt, owed, pend>>
    BY <1>4 DEF ReadClock, device
  <2>2. Clocks'
    BY <2>1, <1>1, <1>3, ClockFacts DEF Clocks
  <2>3. gap' < ClockMod => gap' = (clk' - clkRead') % ClockMod
    <3>1. clk' - clkRead' = 0 /\ gap' = 0
      BY <2>1, <1>1, <1>3, ClockFacts
    <3>2. 0 % ClockMod = 0
      BY <1>3, ClockFacts, ModClock
    <3>. QED
      BY <3>1, <3>2
  <2>4. ASSUME spacing' \in 0 .. ClockMod - 1
        PROVE  last_clk' # 0 /\ spacing' = (clkRead' - last_clk') % ClockMod
    <3>1. last_clk # 0 /\ spacing' = gap /\ gap < ClockMod
      BY <2>1, <2>4, <1>3, ClockFacts
    <3>2. last_clk = clkRead
      BY <2>1 DEF Timed, Measured
    <3>. QED
      BY <3>1, <3>2, <2>1 DEF Timed, Measured
  <2>5. Measured'
    BY <2>1, <2>3, <2>4 DEF Measured
  <2>6. NoTickForgotten'
    BY <2>1, <1>1 DEF Timed, NoTickForgotten
  <2>. QED
    BY <2>2, <2>5, <2>6, <1>2 DEF Timed
<1>5. CASE SetPeriod
  <2>1. /\ hpc = "period" /\ hpc' = "return" /\ period' = Period(clkRead, last_clk)
        /\ last_clk' = clkRead /\ UNCHANGED <<cnt, clkRead, spacing, gap, owed, pend>>
    BY <1>5 DEF SetPeriod, device, time
  <2>2. period' \in Clock
    <3>1. clkRead - last_clk \in Int /\ 0 \in Clock
      BY <1>3, ClockFacts DEF Clock
    <3>. QED
      BY <3>1, <2>1, ModClock DEF Period
  <2>3. Clocks'
    BY <2>1, <2>2, <1>1, <1>3 DEF Clocks
  <2>4. Measured'
    BY <2>1, <1>1 DEF Timed, Measured, Period
  <2>5. NoTickForgotten'
    BY <2>1, <1>1 DEF Timed, NoTickForgotten
  <2>. QED
    BY <2>3, <2>4, <2>5, <1>2 DEF Timed
<1>6. CASE (hpc = "clear" /\ ClearThen("count")) \/ LedClear
  <2>1. /\ pend' = FALSE /\ hpc' \in {"count", "return"} /\ hpc # "period"
        /\ UNCHANGED <<owed, cnt, last_clk, period, clkRead, spacing, gap>>
    BY <1>6 DEF LedClear, ClearThen, counts, time
  <2>2. Clocks' /\ Measured'
    BY <2>1, <1>1, <1>3 DEF Clocks, Timed, Measured
  <2>3. prog = "timer" => hpc' = "count"
    BY <1>6 DEF LedClear, Placed, Whereabouts, ClearThen
  <2>. QED
    BY <2>1, <2>2, <2>3, <1>1, <1>2 DEF Timed, NoTickForgotten
<1>7. CASE hpc = "count" /\ CountThen("clock")
  <2>1. /\ cnt' = (IF cnt = Goal THEN cnt ELSE cnt + 1) /\ owed' = FALSE /\ hpc' = "clock" /\ hpc # "period"
        /\ UNCHANGED <<pend, last_clk, period, clkRead, spacing, gap>>
    BY <1>7 DEF CountThen, time
  <2>2. cnt' \in 0 .. Goal
    BY <2>1, <1>3, InterruptsAssumption DEF Clocks
  <2>3. Clocks' /\ Measured'
    BY <2>1, <2>2, <1>1, <1>3 DEF Clocks, Timed, Measured
  <2>. QED
    BY <2>1, <2>3, <1>2 DEF Timed, NoTickForgotten
<1>8. CASE ReturnFromInterrupt \/ Pending \/ LedWrite
  <2>1. /\ hpc \notin {"period", "count"} /\ hpc' # "period"
        /\ UNCHANGED <<cnt, last_clk, period, clkRead, spacing, gap, owed, pend>>
    BY <1>8 DEF ReturnFromInterrupt, Pending, LedWrite, device, counts, time
  <2>2. Clocks' /\ Measured'
    BY <2>1, <1>1, <1>3 DEF Clocks, Timed, Measured
  <2>. QED
    BY <2>1, <2>2, <1>1, <1>2 DEF Timed, NoTickForgotten
<1>. QED
  BY <1>4, <1>5, <1>6, <1>7, <1>8 DEF Handler, ClearAndCount, LedClear

\* The main program begins to wait, polls, and is done.
LEMMA StartTimed == Placed /\ Timed /\ StartWait => Timed'
<1> SUFFICES ASSUME Placed, Timed, StartWait PROVE Timed'
  OBVIOUS
<1>1. /\ mpc \in Waiters /\ mpc' = "waiting" /\ rb' = clk /\ waited' = 0 /\ missed' = FALSE /\ polled' = TRUE
      /\ tw' = (IF mpc = "usleep" THEN Armed(us, clk) ELSE register_timer(us, clk))
      /\ UNCHANGED <<prog, hpc, cnt, last_clk, period, clkRead, spacing, clk, gap, us, lasted, owed, pend>>
  BY DEF StartWait, program, device, counts
<1>2. Clocks
  BY DEF Timed
<1>3. prog \in Waiters /\ prog = mpc
  BY <1>1 DEF Placed, Whereabouts, Waiters, VectorPrograms, Syscalled
<1>4. clk + us \in Int /\ (clk + us) % ClockMod \in Clock
  <2>1. clk + us \in Int
    BY <1>2, ClockFacts
  <2>. QED
    BY <2>1, ModClock
<1>5. tw' = Armed(us, clk) \/ (us = 0 /\ tw' = Off)
  BY <1>1, <1>2, ClockFacts DEF register_timer
<1>6. tw' \in [usec : Clock, trigger_value : Clock, rollover : BOOLEAN]
  <2>1. 0 \in Clock /\ us \in Clock
    BY <1>2, ClockAssumption DEF Clocks, Clock
  <2>2. Off \in [usec : Clock, trigger_value : Clock, rollover : BOOLEAN]
    BY <2>1 DEF Off
  <2>3. Armed(us, clk) \in [usec : Clock, trigger_value : Clock, rollover : BOOLEAN]
    BY <2>1, <1>4 DEF Armed
  <2>. QED
    BY <2>2, <2>3, <1>5
<1>7. Clocks'
  <2>1. 0 \in 0 .. ClockMod /\ waited \in -1 .. ClockMod
    BY <1>2, ClockFacts
  <2>2. /\ missed' \in BOOLEAN /\ polled' \in BOOLEAN /\ owed' \in BOOLEAN /\ pend' \in BOOLEAN
    BY <1>1, <1>2 DEF Clocks
  <2>. QED
    BY <2>1, <2>2, <1>1, <1>2, <1>6 DEF Clocks
<1>8. Measured' /\ NoTickForgotten' /\ (lasted' # -1 => lasted' >= us')
  BY <1>1 DEF Timed, Measured, NoTickForgotten
<1>9. DelayWaits'
  <2>1. 0 = (clk - clk) % ClockMod
    <3>1. clk - clk = 0
      BY <1>2, ClockFacts
    <3>. QED
      BY <3>1, <1>2, ClockFacts, ModClock
  <2>. QED
    BY <2>1, <1>1, <1>2, ClockFacts DEF DelayWaits
<1>10. TimerWaits'
  <2> SUFFICES ASSUME us # 0 PROVE TimerWaits'
    BY <1>1 DEF TimerWaits
  <2>1. /\ tw'.usec = us /\ tw'.trigger_value = (clk + us) % ClockMod
        /\ tw'.rollover = (tw'.trigger_value <= clk)
    BY <1>5 DEF Armed
  <2>2. clk + us - 0 = clk + us
    BY <1>2, ClockFacts
  <2>3. (clk' + us' - waited') % ClockMod = tw'.trigger_value
    BY <2>1, <2>2, <1>1
  <2>4. waited' < us' /\ waited' <= us' /\ waited' # us'
    BY <1>1, <1>2, ClockFacts
  <2>5. /\ clk' >= tw'.trigger_value => tw'.rollover
        /\ clk' < tw'.trigger_value => ~ tw'.rollover
    <3>1. tw'.trigger_value \in Int /\ clk' = clk /\ clk \in Int
      BY <1>1, <1>2, <1>6 DEF Clocks, Clock
    <3>2. tw'.rollover <=> tw'.trigger_value <= clk
      BY <2>1
    <3>. QED
      BY <3>1, <3>2
  <2>. QED
    BY <2>1, <2>3, <2>4, <2>5, <1>1 DEF TimerWaits
<1>. QED
  BY <1>7, <1>8, <1>9, <1>10 DEF Timed
LEMMA PollTimed == Placed /\ Timed /\ StillWaiting => Timed'
<1> SUFFICES ASSUME Placed, Timed, StillWaiting PROVE Timed'
  OBVIOUS
<1>1. /\ mpc = "waiting" /\ ~ Over /\ tw' = Polled(tw, clk) /\ polled' = TRUE
      /\ UNCHANGED <<prog, mpc, hpc, cnt, last_clk, period, clkRead, spacing, clk, gap, waited, missed, us, rb,
                     lasted, owed, pend>>
  BY DEF StillWaiting, program, device, counts
<1>2. Clocks
  BY DEF Timed
<1>3. /\ tw' \in [usec : Clock, trigger_value : Clock, rollover : BOOLEAN]
      /\ tw'.usec = tw.usec /\ tw'.trigger_value = tw.trigger_value
      /\ tw'.rollover = (tw.rollover /\ ~ clk < tw.trigger_value)
  BY <1>1, <1>2 DEF Clocks, Polled
<1>4. Clocks' /\ Measured' /\ NoTickForgotten' /\ (lasted' # -1 => lasted' >= us')
  BY <1>1, <1>2, <1>3 DEF Timed, Clocks, Measured, NoTickForgotten
<1>5. DelayWaits'
  <2> SUFFICES ASSUME prog = "delay" PROVE DelayWaits'
    BY <1>1 DEF DelayWaits
  <2>1. ~ DelayOver(us, rb, clk)
    BY <1>1 DEF Over
  <2>2. (clk - rb) % ClockMod < us
    <3>1. clk - rb \in Int /\ us \in Int
      BY <1>2, ClockFacts DEF Clock
    <3>2. (clk - rb) % ClockMod \in Int
      BY <3>1, ModClock DEF Clock
    <3>. QED
      BY <3>1, <3>2, <2>1 DEF DelayOver
  <2>3. ~ missed /\ us # 0 => waited <= us /\ waited < us
    BY <2>2, <1>1, <1>2, ClockFacts DEF Timed, DelayWaits
  <2>. QED
    BY <2>3, <1>1 DEF Timed, DelayWaits
<1>6. TimerWaits'
  <2> SUFFICES ASSUME prog \in {"usleep", "timers"}, us # 0 PROVE TimerWaits'
    BY <1>1 DEF TimerWaits
  <2>1. /\ tw.usec = us /\ tw.trigger_value \in Clock /\ tw.trigger_value \in Int
        /\ waited < ClockMod => tw.trigger_value = (clk + us - waited) % ClockMod
        /\ waited < us /\ clk >= tw.trigger_value => tw.rollover
    BY <1>1, <1>2 DEF Timed, TimerWaits, Clocks, Clock
  <2>2. ~ Due(tw, clk)
    BY <1>1 DEF Over
  <2>3. clk >= tw.trigger_value => tw.rollover
    BY <2>2 DEF Due
  <2>4. ASSUME ~ missed, tw.trigger_value # 0
        PROVE  /\ waited < us /\ waited <= us
               /\ waited = us => ~ tw.rollover
    <3>1. waited <= us /\ (waited = us => ~ tw.rollover)
      BY <2>4, <1>1 DEF Timed, TimerWaits
    <3>2. ASSUME waited = us PROVE FALSE
      <4>1. clk + us - waited = clk
        BY <3>2, <1>2, ClockFacts
      <4>2. clk % ClockMod = clk
        BY <1>2, ClockFacts, ModClock
      <4>3. waited < ClockMod
        BY <3>2, <1>2, ClockFacts
      <4>4. tw.trigger_value = clk
        BY <4>1, <4>2, <4>3, <2>1
      <4>. QED
        BY <4>4, <3>1, <3>2, <2>3, <1>2, ClockFacts
    <3>. QED
      BY <3>1, <3>2, <1>2, ClockFacts
  <2>5. tw'.rollover => ~ clk < tw.trigger_value
    BY <1>3
  <2>6. waited < us /\ clk >= tw.trigger_value => tw'.rollover
    BY <1>3, <2>1, <1>2, ClockFacts
  <2>7. /\ tw'.usec = us' /\ (waited' < ClockMod => tw'.trigger_value = (clk' + us' - waited') % ClockMod)
        /\ waited' < us' /\ clk' >= tw'.trigger_value => tw'.rollover
    BY <2>1, <2>6, <1>1, <1>3
  <2>8. ~ missed' /\ tw'.trigger_value # 0 =>
          /\ waited' <= us' /\ waited' < us'
          /\ waited' = us' => ~ tw'.rollover
          /\ clk' < tw'.trigger_value => ~ tw'.rollover
    BY <2>4, <2>5, <1>1, <1>3
  <2>. QED
    BY <2>7, <2>8 DEF TimerWaits
<1>. QED
  BY <1>4, <1>5, <1>6 DEF Timed

LEMMA EndTimed == Placed /\ Timed /\ EndWait => Timed'
<1> SUFFICES ASSUME Placed, Timed, EndWait PROVE Timed'
  OBVIOUS
<1>1. /\ mpc = "waiting" /\ Over /\ tw' = compare_timer(tw, clk) /\ polled' = TRUE
      /\ lasted' = waited /\ waited' = 0 /\ missed' = FALSE
      /\ mpc' = (IF prog = "timers" THEN mpc ELSE "waited")
      /\ UNCHANGED <<prog, hpc, cnt, last_clk, period, clkRead, spacing, clk, gap, us, rb, owed, pend>>
  BY DEF EndWait, program, device, counts
<1>2. Clocks
  BY DEF Timed
<1>3. prog \in Waiters
  BY <1>1 DEF Placed, Whereabouts, VectorPrograms, Syscalled
<1>4. tw \in [usec : Clock, trigger_value : Clock, rollover : BOOLEAN] /\ 0 \in Clock
  BY <1>2, ClockAssumption DEF Clocks, Clock
<1>5. clk + tw.usec \in Int /\ (clk + tw.usec) % ClockMod \in Clock
  <2>1. clk + tw.usec \in Int
    BY <1>4, <1>2, ClockFacts DEF Clock
  <2>. QED
    BY <2>1, ModClock
<1>6. tw' \in [usec : Clock, trigger_value : Clock, rollover : BOOLEAN]
  <2>1. Armed(tw.usec, clk) \in [usec : Clock, trigger_value : Clock, rollover : BOOLEAN]
    BY <1>4, <1>5 DEF Armed
  <2>2. Off \in [usec : Clock, trigger_value : Clock, rollover : BOOLEAN]
    BY <1>4 DEF Off
  <2>3. Polled(tw, clk) \in [usec : Clock, trigger_value : Clock, rollover : BOOLEAN]
    BY <1>4 DEF Polled
  <2>. QED
    BY <2>1, <2>2, <2>3, <1>1 DEF compare_timer, register_timer
<1>7. Clocks'
  <2>1. 0 \in 0 .. ClockMod /\ waited \in -1 .. ClockMod
    BY <1>2, ClockFacts
  <2>2. /\ missed' \in BOOLEAN /\ polled' \in BOOLEAN /\ owed' \in BOOLEAN /\ pend' \in BOOLEAN
    BY <1>1, <1>2 DEF Clocks
  <2>. QED
    BY <2>1, <2>2, <1>1, <1>2, <1>6 DEF Clocks
<1>8. Measured' /\ NoTickForgotten' /\ DelayWaits'
  BY <1>1 DEF Timed, Measured, NoTickForgotten, DelayWaits
<1>9. lasted' >= us'
  <2>1. CASE us = 0
    BY <2>1, <1>1, <1>2, ClockFacts
  <2>2. CASE us # 0 /\ prog = "delay"
    <3>1. (clk - rb) % ClockMod >= us
      BY <2>2, <1>1 DEF Over, DelayOver
    <3>2. waited < ClockMod => waited = (clk - rb) % ClockMod
      BY <2>2, <1>1 DEF Timed, DelayWaits
    <3>3. waited >= us
      BY <3>1, <3>2, <1>2, ClockFacts
    <3>. QED
      BY <3>3, <1>1
  <2>3. CASE us # 0 /\ prog # "delay"
    <3>1. Due(tw, clk)
      BY <2>3, <1>1 DEF Over
    <3>2. waited < us /\ clk >= tw.trigger_value => tw.rollover
      BY <2>3, <1>1, <1>3 DEF Timed, TimerWaits, Waiters
    <3>3. waited >= us
      BY <3>1, <3>2, <1>2, ClockFacts DEF Due
    <3>. QED
      BY <3>3, <1>1
  <2>. QED
    BY <2>1, <2>2, <2>3
<1>10. TimerWaits'
  <2> SUFFICES ASSUME prog = "timers", us # 0 PROVE TimerWaits'
    BY <1>1 DEF TimerWaits
  <2>1. tw.usec = us
    BY <1>1 DEF Timed, TimerWaits
  <2>2. Due(tw, clk)
    BY <1>1 DEF Over
  <2>3. tw' = Armed(us, clk)
    BY <2>1, <2>2, <1>1, <1>2, ClockFacts DEF compare_timer, register_timer
  <2>4. /\ tw'.usec = us /\ tw'.trigger_value = (clk + us) % ClockMod
        /\ tw'.rollover = (tw'.trigger_value <= clk)
    BY <2>3 DEF Armed
  <2>5. clk + us - 0 = clk + us
    BY <1>2, ClockFacts
  <2>6. (clk' + us' - waited') % ClockMod = tw'.trigger_value
    BY <2>4, <2>5, <1>1
  <2>7. waited' < us' /\ waited' <= us' /\ waited' # us'
    BY <1>1, <1>2, ClockFacts
  <2>8. /\ clk' >= tw'.trigger_value => tw'.rollover
        /\ clk' < tw'.trigger_value => ~ tw'.rollover
    <3>1. tw'.trigger_value \in Int /\ clk' = clk /\ clk \in Int
      BY <1>1, <1>2, <1>6 DEF Clocks, Clock
    <3>2. tw'.rollover <=> tw'.trigger_value <= clk
      BY <2>4
    <3>. QED
      BY <3>1, <3>2
  <2>. QED
    BY <2>4, <2>6, <2>7, <2>8, <1>1 DEF TimerWaits
<1>. QED
  BY <1>7, <1>8, <1>9, <1>10 DEF Timed

\* The other steps.
LEMMA OthersTimed ==
  ASSUME Placed, Timed,
         UNCHANGED <<prog, cnt, last_clk, period, clkRead, spacing, clk, gap, waited, missed, polled,
                     us, rb, tw, lasted>>,
         (pend' = pend /\ owed' = owed) \/ (pend' = TRUE /\ owed' \in BOOLEAN),
         hpc' = hpc \/ (hpc = "off" /\ hpc' \in {"pending", "wild"}),
         (mpc = "waiting") = (mpc' = "waiting")
  PROVE  Timed'
<1>1. Clocks'
  BY DEF Timed, Clocks
<1>2. Measured'
  BY DEF Timed, Measured
<1>3. NoTickForgotten'
  BY DEF Timed, NoTickForgotten
<1>4. DelayWaits' /\ TimerWaits'
  BY DEF Timed, DelayWaits, TimerWaits
<1>. QED
  BY <1>1, <1>2, <1>3, <1>4 DEF Timed

LEMMA NextTimed == Placed /\ Timed /\ [Next]_vars => Timed'
<1> SUFFICES ASSUME Placed, Timed, [Next]_vars PROVE Timed'
  OBVIOUS
<1> DEFINE Kept == /\ UNCHANGED <<prog, cnt, last_clk, period, clkRead, spacing, clk, gap, waited, missed, polled,
                                  us, rb, tw, lasted>>
                   /\ (pend' = pend /\ owed' = owed) \/ (pend' = TRUE /\ owed' \in BOOLEAN)
                   /\ hpc' = hpc \/ (hpc = "off" /\ hpc' \in {"pending", "wild"})
           Elsewhere == mpc # "waiting" /\ mpc' # "waiting"
<1>1. TakeInterrupt \/ Expire \/ GpuAsks \/ UsePins \/ PinEdge \/ SetHandlers \/ RunThreads \/ UNCHANGED vars
        => Kept /\ mpc' = mpc
  BY DEF TakeInterrupt, Expire, GpuAsks, UsePins, PinEdge, SetHandlers, RunThreads, vars, world, program, device,
         counts, time, delay
<1>2. Install \/ DisableGpu \/ EnableBasic \/ EnableTimer \/ SetUpPins \/ EnableInterrupts \/ CountedEnough
        \/ InitGpuOff \/ InitMask \/ Part0 => Kept
  BY DEF Install, InstallTo, DisableGpu, EnableBasic, EnableTimer, SetUpPins, EnableInterrupts, CountedEnough,
         InitGpuOff, InitMask, Part0, world, program, device, counts, time, delay
<1>3. Install \/ DisableGpu \/ EnableBasic \/ EnableTimer \/ SetUpPins \/ EnableInterrupts \/ CountedEnough
        \/ InitGpuOff \/ InitMask \/ Part0 => Elsewhere
  BY DEF Install, InstallTo, DisableGpu, EnableBasic, EnableTimer, SetUpPins, EnableInterrupts, CountedEnough,
         InitGpuOff, InitMask, Part0, TableWords
<1>4. Kept /\ (mpc' = mpc \/ Elsewhere) => Timed'
  BY OthersTimed
<1> HIDE DEF Kept, Elsewhere
<1>. QED
  BY <1>1, <1>2, <1>3, <1>4, PassTimed, HandlerTimed, StartTimed, PollTimed, EndTimed DEF Next, MainProgram

\* No expiry of the timer goes uncounted, the period that the handler computes is the time
\* between its two reads of the clock, and a wait lasts at least as long as was asked and,
\* polled at every microsecond, no longer - for every width of the clock, wherever it wraps,
\* and for whatever time is asked (timer.c:33-39, cs140e-timer.c:14-22, platform.c:79-138).
THEOREM TimeAlwaysKept == Spec => []TimeKept
<1>1. Init => Placed /\ Timed
  BY InitPlaced, InitTimed
<1>2. (Placed /\ Timed) /\ [Next]_vars => (Placed /\ Timed)'
  BY NextPlaced, NextTimed
<1>3. Placed /\ Timed => TimeKept
  BY TimedKept
<1>. QED
  BY <1>1, <1>2, <1>3, PTL DEF Spec

-----------------------------------------------------------------------------
(* The pins.  What the programs do to them is said in terms of the         *)
(* registers: a call begins, or it writes its register and returns.        *)
BeginsCall ==
  \/ \E v \in {0, 1} : Call("irq", "write", Led, v)
  \/ Call("main", "function", Led, GPIO_FUNC.OUTPUT)
  \/ \E p \in Pins, f \in Functions : Call("main", "function", p, f)
  \/ \E p \in Pins, v \in {0, 1} : Call("main", "write", p, v)
  \/ \E p \in Pins, fn \in {"falling", "rising", "clear_event"} : Call("main", fn, p, 0)

PullStep ==
  \/ \E p \in PullPins, v \in PUD : PullCall("main", p, v)
  \/ PullClock("main") \/ PullRemove("main") \/ PullDone("main")

GpioNext ==
  \/ BeginsCall \/ Return("irq") \/ Return("main") \/ PullStep
  \/ \E p \in Pins : Edge(p)

LEMMA StepsOfPins == [Next]_vars => [GpioNext]_gpio
<1>1. Expire \/ GpuAsks \/ Pass \/ TakeInterrupt \/ SetHandlers \/ RunThreads \/ UNCHANGED vars => UNCHANGED gpio
  BY DEF Expire, GpuAsks, Pass, TakeInterrupt, SetHandlers, RunThreads, vars, world
<1>2. ReturnFromInterrupt \/ Pending \/ ClearAndCount \/ ReadClock \/ SetPeriod \/ LedClear => UNCHANGED gpio
  BY DEF ReturnFromInterrupt, Pending, ClearAndCount, ClearThen, CountThen, ReadClock, SetPeriod, LedClear, world
<1>3. Install \/ DisableGpu \/ EnableBasic \/ EnableTimer \/ EnableInterrupts \/ CountedEnough \/ InitGpuOff
        \/ InitMask \/ Part0 \/ StartWait \/ StillWaiting \/ EndWait => UNCHANGED gpio
  BY DEF Install, InstallTo, DisableGpu, EnableBasic, EnableTimer, EnableInterrupts, CountedEnough, InitGpuOff,
         InitMask, Part0, StartWait, StillWaiting, EndWait, world
<1>4. LedWrite \/ SetUpPins \/ UsePins \/ PinEdge => GpioNext
  BY DEF LedWrite, SetUpPins, UsePins, PinEdge, OtherPins, GpioNext, BeginsCall, PullStep
<1>. QED
  BY <1>1, <1>2, <1>3, <1>4 DEF Next, Handler, MainProgram

\* A call in progress is one of the library's, and what it read of its register is what
\* the register still holds; the handler does nothing but write a pin.
Started == [fn : {"function", "write", "falling", "rising", "clear_event"},
            pin : Pins, arg : Nat, val : SUBSET Bits]
Pulling == [fn : {"pull"}, pin : PullPins, arg : PUD, step : {1, 2, 3}]

CallOK(c) ==
  /\ op[c] = NoOp \/ op[c] \in Started \/ (c = "main" /\ op[c] \in Pulling)
  /\ c = "irq" => op[c].fn \in {"none", "write"}
  /\ op[c].fn = "function" =>
       /\ gpio_pin_valid(op[c].pin) /\ op[c].arg \in 0 .. 7
       /\ op[c].val = regs[gpio_pin_to_function_register(op[c].pin)]
  /\ op[c].fn = "write" =>
       op[c].arg \in {0, 1} /\ op[c].val = {} /\ (lib = "libpi" => op[c].pin < 32)

Registered ==
  /\ lib \in {"cs107e", "libpi"}
  /\ regs \in [Registers -> SUBSET Bits] /\ pud \in PUD /\ pull \in [PullPins -> PUD]
  /\ op \in [Contexts -> {NoOp} \cup Started \cup Pulling] /\ \A c \in Contexts : CallOK(c)
  /\ asked \in [Pins -> [fn : -1 .. 7, lev : -1 .. 1, pud : -1 .. 3]]
  /\ \A p \in Pins : asked[p].fn # -1 => gpio_pin_valid(p)

LEMMA PinNumbers ==
  ASSUME NEW p \in Nat
  PROVE  /\ Bank(p) \in {0, 1} /\ p % 32 \in Bits
         /\ gpio_pin_valid(p) => p \div 10 \in 0 .. 5 /\ p % 10 \in 0 .. 9 /\ p = (10 * (p \div 10)) + (p % 10)
         /\ p < 32 => p % 32 = p /\ Bank(p) = 0
         /\ p \in 32 .. 63 => p % 32 = p - 32 /\ Bank(p) = 1
BY DEF Bank, Bits, gpio_pin_valid, GPIO_PIN_LAST

LEMMA PinsAreNat == Pins \subseteq Nat /\ PullPins \subseteq Pins /\ Led \in Pins
BY GpioAssumption, InterruptsAssumption

LEMMA RegistersThere ==
  /\ \A n \in 0 .. 5 : <<"GPFSEL", n>> \in Registers
  /\ \A b \in {0, 1}, r \in Banked : <<r, b>> \in Registers
BY DEF Registers

\* The steps, by what they do to the registers, the pads and what is asked.
FunctionSet ==
  /\ op["main"] \in Started /\ op["main"].fn = "function" /\ op' = [op EXCEPT !["main"] = NoOp]
  /\ regs' = [regs EXCEPT ![gpio_pin_to_function_register(op["main"].pin)] = FunctionWord(op["main"])]
  /\ asked' = [asked EXCEPT ![op["main"].pin].fn = op["main"].arg]
  /\ UNCHANGED <<lib, pud, pull>>

LevelWritten(c) ==
  /\ op[c] \in Started /\ op[c].fn = "write" /\ op' = [op EXCEPT ![c] = NoOp]
  /\ \/ /\ op[c].arg = 1
        /\ regs' = [regs EXCEPT ![<<"GPLEV", Bank(op[c].pin)>>] = @ \cup {op[c].pin % 32}]
     \/ /\ op[c].arg = 0
        /\ regs' = [regs EXCEPT ![<<"GPLEV", Bank(op[c].pin)>>] = @ \ {op[c].pin % 32}]
  /\ asked' = [asked EXCEPT ![op[c].pin].lev = op[c].arg]
  /\ UNCHANGED <<lib, pud, pull>>

EdgeWatched ==
  /\ op["main"] \in Started /\ op["main"].fn \in {"falling", "rising"} /\ op' = [op EXCEPT !["main"] = NoOp]
  /\ \E r \in {"GPFEN", "GPREN"}, b \in {0, 1}, w \in SUBSET Bits : regs' = [regs EXCEPT ![<<r, b>>] = w]
  /\ UNCHANGED <<lib, pud, pull, asked>>

EventCleared ==
  /\ op["main"] \in Started /\ op["main"].fn = "clear_event" /\ op' = [op EXCEPT !["main"] = NoOp]
  /\ regs' = [regs EXCEPT ![<<"GPEDS", Bank(op["main"].pin)>>] = @ \ {op["main"].pin % 32}]
  /\ UNCHANGED <<lib, pud, pull, asked>>

LEMMA CallKinds ==
  ASSUME Registered, NEW c \in Contexts
  PROVE  /\ op[c].fn \notin {"none", "pull"} => op[c] \in Started
         /\ op[c].fn = "pull" => c = "main" /\ op[c] \in Pulling
         /\ op[c].fn = "none" => op[c] = NoOp
BY DEF Registered, CallOK, NoOp, Started, Pulling

LEMMA WriteReturns ==
  ASSUME Registered, NEW c \in Contexts, Return(c), op[c].fn = "write"
  PROVE  LevelWritten(c)
<1>1. /\ op[c] \in Started /\ op[c].arg \in {0, 1} /\ op[c].val = {} /\ op[c].pin \in Nat
      /\ lib = "libpi" => op[c].pin < 32
  BY CallKinds, PinsAreNat DEF Registered, CallOK, Started
<1>2. WordOf(op[c]) = {op[c].pin % 32}
  <2>1. lib = "libpi" => WordOf(op[c]) = {op[c].pin}
    BY DEF WordOf, LibpiWriteWord
  <2>2. lib # "libpi" => WordOf(op[c]) = op[c].val \cup {op[c].pin % 32}
    BY DEF WordOf, OrWord, gpio_pin_to_bit_offset
  <2>. QED
    BY <1>1, <2>1, <2>2, PinNumbers
<1>3. /\ op[c].arg = 1 => RegisterOf(op[c]) = <<"GPSET", Bank(op[c].pin)>>
      /\ op[c].arg = 0 => RegisterOf(op[c]) = <<"GPCLR", Bank(op[c].pin)>>
  BY <1>1 DEF RegisterOf, gpio_pin_to_set_register, gpio_pin_to_clear_register
<1>4. /\ regs' = HwWritten(RegisterOf(op[c]), {op[c].pin % 32})
      /\ op' = [op EXCEPT ![c] = NoOp] /\ asked' = [asked EXCEPT ![op[c].pin].lev = op[c].arg]
      /\ UNCHANGED <<lib, pud, pull>>
  BY <1>2 DEF Return, Told
<1> DEFINE b == Bank(op[c].pin)
           w == {op[c].pin % 32}
<1> HIDE DEF b, w
<1>5. /\ HwWritten(<<"GPSET", b>>, w) = [regs EXCEPT ![<<"GPLEV", b>>] = @ \cup w]
      /\ HwWritten(<<"GPCLR", b>>, w) = [regs EXCEPT ![<<"GPLEV", b>>] = @ \ w]
  BY DEF HwWritten
<1>6. \/ op[c].arg = 1 /\ regs' = [regs EXCEPT ![<<"GPLEV", b>>] = @ \cup w]
      \/ op[c].arg = 0 /\ regs' = [regs EXCEPT ![<<"GPLEV", b>>] = @ \ w]
  <2>1. CASE op[c].arg = 1
    <3>1. regs' = HwWritten(<<"GPSET", b>>, w)
      BY <2>1, <1>3, <1>4 DEF b, w
    <3>. QED
      BY <2>1, <3>1, <1>5
  <2>2. CASE op[c].arg = 0
    <3>1. regs' = HwWritten(<<"GPCLR", b>>, w)
      BY <2>2, <1>3, <1>4 DEF b, w
    <3>. QED
      BY <2>2, <3>1, <1>5
  <2>. QED
    BY <2>1, <2>2, <1>1
<1>. QED
  BY <1>1, <1>4, <1>6 DEF LevelWritten, b, w

LEMMA FunctionReturns ==
  ASSUME Registered, Return("main"), op["main"].fn = "function"
  PROVE  FunctionSet
<1>1. op["main"] \in Started
  BY CallKinds DEF Contexts
<1>2. RegisterOf(op["main"]) = gpio_pin_to_function_register(op["main"].pin) /\ WordOf(op["main"]) = FunctionWord(op["main"])
  BY DEF RegisterOf, WordOf
<1>3. HwWritten(gpio_pin_to_function_register(op["main"].pin), FunctionWord(op["main"]))
        = [regs EXCEPT ![gpio_pin_to_function_register(op["main"].pin)] = FunctionWord(op["main"])]
  BY DEF gpio_pin_to_function_register, HwWritten
<1>4. /\ regs' = HwWritten(RegisterOf(op["main"]), WordOf(op["main"])) /\ op' = [op EXCEPT !["main"] = NoOp]
      /\ asked' = [asked EXCEPT ![op["main"].pin].fn = op["main"].arg]
      /\ UNCHANGED <<lib, pud, pull>>
  BY DEF Return, Told
<1>. QED
  BY <1>1, <1>2, <1>3, <1>4 DEF FunctionSet

LEMMA EventReturns ==
  ASSUME Registered, Return("main"), op["main"].fn \in {"falling", "rising", "clear_event"}
  PROVE  EdgeWatched \/ EventCleared
<1>1. op["main"] \in Started /\ op["main"].pin \in Nat /\ op["main"].val \in SUBSET Bits
  BY CallKinds, PinsAreNat DEF Contexts, Started
<1>2. /\ regs' = HwWritten(RegisterOf(op["main"]), WordOf(op["main"])) /\ op' = [op EXCEPT !["main"] = NoOp]
      /\ UNCHANGED <<lib, pud, pull, asked>>
  BY DEF Return, Told
<1>3. Bank(op["main"].pin) \in {0, 1} /\ op["main"].pin % 32 \in Bits
  BY <1>1, PinNumbers
<1>4. CASE op["main"].fn = "clear_event"
  <2>1. /\ RegisterOf(op["main"]) = <<"GPEDS", Bank(op["main"].pin)>>
        /\ WordOf(op["main"]) = {op["main"].pin % 32}
    BY <1>4 DEF RegisterOf, WordOf, EventWord, gpio_pin_to_event_register, gpio_pin_to_bit_offset
  <2>2. HwWritten(<<"GPEDS", Bank(op["main"].pin)>>, {op["main"].pin % 32})
          = [regs EXCEPT ![<<"GPEDS", Bank(op["main"].pin)>>] = @ \ {op["main"].pin % 32}]
    BY DEF HwWritten
  <2>3. regs' = [regs EXCEPT ![<<"GPEDS", Bank(op["main"].pin)>>] = @ \ {op["main"].pin % 32}]
    BY <1>2, <2>1, <2>2
  <2>. QED
    BY <1>1, <1>2, <1>4, <2>3 DEF EventCleared
<1>5. CASE op["main"].fn \in {"falling", "rising"}
  <2>1. RegisterOf(op["main"]) \in {<<"GPFEN", Bank(op["main"].pin)>>, <<"GPREN", Bank(op["main"].pin)>>}
    BY <1>5 DEF RegisterOf, gpio_pin_to_falling_register, gpio_pin_to_rising_register
  <2>2. WordOf(op["main"]) = op["main"].val \cup {op["main"].pin % 32}
    BY <1>5 DEF WordOf, OrWord, gpio_pin_to_bit_offset
  <2>3. WordOf(op["main"]) \in SUBSET Bits
    BY <2>2, <1>1, <1>3
  <2>4. PICK r \in {"GPFEN", "GPREN"} : RegisterOf(op["main"]) = <<r, Bank(op["main"].pin)>>
    BY <2>1
  <2>5. regs' = [regs EXCEPT ![<<r, Bank(op["main"].pin)>>] = WordOf(op["main"])]
    <3>1. HwWritten(<<r, Bank(op["main"].pin)>>, WordOf(op["main"]))
            = [regs EXCEPT ![<<r, Bank(op["main"].pin)>>] = WordOf(op["main"])]
      BY DEF HwWritten
    <3>. QED
      BY <2>4, <1>2, <3>1
  <2>. QED
    BY <2>3, <2>5, <1>1, <1>2, <1>3, <1>5 DEF EdgeWatched
<1>. QED
  BY <1>4, <1>5

LEMMA Returns ==
  /\ Registered /\ Return("irq") => LevelWritten("irq")
  /\ Registered /\ Return("main") => FunctionSet \/ LevelWritten("main") \/ EdgeWatched \/ EventCleared
<1>1. ASSUME Registered, Return("irq") PROVE LevelWritten("irq")
  <2>1. op["irq"].fn = "write"
    BY <1>1 DEF Registered, CallOK, Return, Contexts
  <2>. QED
    BY <2>1, <1>1, WriteReturns DEF Contexts
<1>2. ASSUME Registered, Return("main")
      PROVE  FunctionSet \/ LevelWritten("main") \/ EdgeWatched \/ EventCleared
  <2>1. op["main"].fn \in {"function", "write", "falling", "rising", "clear_event"}
    BY <1>2, CallKinds DEF Return, Contexts, Started
  <2>. QED
    BY <2>1, <1>2, WriteReturns, FunctionReturns, EventReturns DEF Contexts
<1>. QED
  BY <1>1, <1>2
LEMMA InitRegistered == Init => Registered
<1> SUFFICES ASSUME GpioInit PROVE Registered
  BY DEF Init
<1>1. op = [c \in Contexts |-> NoOp] /\ asked = [p \in Pins |-> [fn |-> -1, lev |-> -1, pud |-> -1]]
  BY DEF GpioInit
<1>2. regs = [r \in Registers |-> {}] /\ pud = 0 /\ pull = [p \in PullPins |-> 0] /\ lib \in {"cs107e", "libpi"}
  BY DEF GpioInit
<1>3. \A c \in Contexts : CallOK(c)
  BY <1>1 DEF CallOK, NoOp
<1>4. asked \in [Pins -> [fn : -1 .. 7, lev : -1 .. 1, pud : -1 .. 3]]
  BY <1>1
<1>. QED
  BY <1>1, <1>2, <1>3, <1>4 DEF Registered, PUD

\* A call that begins: what it reads is in its register, that is there.
LEMMA CallRegistered ==
  ASSUME Registered, NEW c \in Contexts, NEW fn \in {"function", "write", "falling", "rising", "clear_event"},
         NEW pin \in Pins, NEW arg \in Nat, Call(c, fn, pin, arg),
         c = "irq" => fn = "write", fn = "write" => arg \in {0, 1}
  PROVE  Registered'
<1> DEFINE o == [fn |-> fn, pin |-> pin, arg |-> arg, val |-> {}]
           v == HwRead(RegisterOf(o))
           n == [fn |-> fn, pin |-> pin, arg |-> arg, val |-> v]
<1>1. UNCHANGED <<lib, regs, pud, pull, asked>> /\ op' = [op EXCEPT ![c] = n]
  <2>1. UNCHANGED <<lib, regs, pud, pull, asked>> /\ op' = [op EXCEPT ![c] = [o EXCEPT !.val = v]]
    BY DEF Call
  <2>2. [o EXCEPT !.val = v] = n
    OBVIOUS
  <2>. QED
    BY <2>1, <2>2
<1>2. /\ lib = "libpi" => pin < 32 /\ arg \in 0 .. 7
      /\ lib # "libpi" /\ fn = "function" => gpio_pin_valid(pin) /\ arg \in 0 .. 2
  <2>1. /\ lib = "libpi" => LibpiTakes(pin, arg)
        /\ lib # "libpi" /\ fn = "function" => gpio_pin_valid(pin) /\ gpio_function_valid(arg)
    BY DEF Call, Registered
  <2>2. GPIO_FUNC.INPUT = 0 /\ GPIO_FUNC.ALT5 = 2
    BY DEF GPIO_FUNC
  <2>. QED
    BY <2>1, <2>2 DEF LibpiTakes, gpio_function_valid
<1>3. pin \in Nat /\ Bank(pin) \in {0, 1}
  BY PinsAreNat, PinNumbers
<1>4. fn = "function" => /\ gpio_pin_valid(pin) /\ arg \in 0 .. 7
                         /\ v = regs[gpio_pin_to_function_register(pin)] /\ v \in SUBSET Bits
  <2> SUFFICES ASSUME fn = "function"
               PROVE  /\ gpio_pin_valid(pin) /\ arg \in 0 .. 7
                      /\ v = regs[gpio_pin_to_function_register(pin)] /\ v \in SUBSET Bits
    OBVIOUS
  <2>1. gpio_pin_valid(pin) /\ arg \in 0 .. 7
    BY <1>2, <1>3 DEF gpio_pin_valid, GPIO_PIN_LAST
  <2>2. RegisterOf(o) = <<"GPFSEL", pin \div 10>>
    BY DEF RegisterOf, gpio_pin_to_function_register
  <2>3. HwRead(<<"GPFSEL", pin \div 10>>) = regs[<<"GPFSEL", pin \div 10>>]
    BY DEF HwRead
  <2>4. <<"GPFSEL", pin \div 10>> \in Registers
    BY <2>1, <1>3, PinNumbers, RegistersThere
  <2>5. v = regs[<<"GPFSEL", pin \div 10>>]
    BY <2>2, <2>3
  <2>6. v \in SUBSET Bits
    BY <2>4, <2>5 DEF Registered
  <2>. QED
    BY <2>1, <2>5, <2>6 DEF gpio_pin_to_function_register
<1>5. fn = "write" => v = {}
  <2>1. fn = "write" => RegisterOf(o) \in {<<"GPSET", Bank(pin)>>, <<"GPCLR", Bank(pin)>>}
    BY DEF RegisterOf, gpio_pin_to_set_register, gpio_pin_to_clear_register
  <2>. QED
    BY <2>1 DEF HwRead
<1>6. fn \in {"falling", "rising", "clear_event"} => v \in SUBSET Bits
  <2>1. fn \in {"falling", "rising", "clear_event"} =>
          RegisterOf(o) \in {<<"GPFEN", Bank(pin)>>, <<"GPREN", Bank(pin)>>, <<"GPEDS", Bank(pin)>>}
    BY DEF RegisterOf, gpio_pin_to_falling_register, gpio_pin_to_rising_register, gpio_pin_to_event_register
  <2>2. \A r \in {"GPFEN", "GPREN", "GPEDS"} :
          HwRead(<<r, Bank(pin)>>) = regs[<<r, Bank(pin)>>] /\ <<r, Bank(pin)>> \in Registers
    BY <1>3, RegistersThere DEF HwRead, Banked
  <2>. QED
    BY <2>1, <2>2 DEF Registered
<1>7. n \in Started
  BY <1>4, <1>5, <1>6 DEF Started
<1>8. /\ n.fn = fn /\ n.pin = pin /\ n.arg = arg /\ n.val = v
  OBVIOUS
<1> HIDE DEF n, v, o
<1>9. op' \in [Contexts -> {NoOp} \cup Started \cup Pulling]
  BY <1>1, <1>7 DEF Registered
<1>10. op'[c] = n /\ \A d \in Contexts : d # c => op'[d] = op[d]
  BY <1>1 DEF Registered
<1>11. CallOK(c)'
  BY <1>1, <1>2, <1>4, <1>5, <1>7, <1>8, <1>10 DEF CallOK
<1>12. \A d \in Contexts : d # c => CallOK(d)'
  BY <1>1, <1>10 DEF Registered, CallOK
<1>. QED
  BY <1>1, <1>9, <1>11, <1>12 DEF Registered

\* A register of the pins' events, edges, levels or pulls changes, or one of the functions
\* while no call for a function is under way.
LEMMA RegisterChanges ==
  ASSUME Registered, NEW r \in Registers, NEW w \in SUBSET Bits, regs' = [regs EXCEPT ![r] = w]
  PROVE  /\ regs' \in [Registers -> SUBSET Bits] /\ regs'[r] = w
         /\ \A s \in Registers : s # r => regs'[s] = regs[s]
BY DEF Registered

\* Calls stay as they are when the registers that functions are in do.
LEMMA CallsStay ==
  ASSUME Registered, NEW d \in Contexts, op'[d] = op[d] \/ op'[d] = NoOp, lib' = lib,
         op[d].fn = "function" => \A m \in 0 .. 5 : regs'[<<"GPFSEL", m>>] = regs[<<"GPFSEL", m>>]
  PROVE  CallOK(d)'
<1>1. CASE op'[d] = NoOp
  BY <1>1 DEF CallOK, NoOp
<1>2. CASE op'[d] = op[d] /\ op[d] # NoOp
  <2>1. CallOK(d)
    BY DEF Registered
  <2>2. ASSUME op[d].fn = "function"
        PROVE  regs'[gpio_pin_to_function_register(op[d].pin)] = regs[gpio_pin_to_function_register(op[d].pin)]
    <3>1. op[d].pin \in Nat /\ gpio_pin_valid(op[d].pin)
      BY <2>1, <2>2, <1>2, CallKinds, PinsAreNat DEF CallOK, Started
    <3>. QED
      BY <3>1, <2>2, PinNumbers DEF gpio_pin_to_function_register
  <2>. QED
    BY <1>2, <2>1, <2>2 DEF CallOK
<1>. QED
  BY <1>1, <1>2
\* The word that gpio_set_function() writes.
LEMMA FunctionOffsets ==
  ASSUME NEW p \in Nat, gpio_pin_valid(p)
  PROVE  gpio_pin_to_function_offset(p) \in 0 .. 27 /\ gpio_pin_to_function_offset(p) = 3 * (p % 10)
BY PinNumbers DEF gpio_pin_to_function_offset

LEMMA FunctionWordIsWord ==
  ASSUME Registered, op["main"] \in Started, op["main"].fn = "function"
  PROVE  FunctionWord(op["main"]) \in SUBSET Bits
<1>1. /\ op["main"].pin \in Nat /\ gpio_pin_valid(op["main"].pin) /\ op["main"].val \in SUBSET Bits
  BY PinsAreNat DEF Registered, CallOK, Contexts, Started
<1>2. gpio_pin_to_function_offset(op["main"].pin) \in 0 .. 27
  BY <1>1, FunctionOffsets
<1>3. FunctionBits(op["main"].arg, gpio_pin_to_function_offset(op["main"].pin)) \in SUBSET Bits
  BY <1>2 DEF FunctionBits, Bits
<1>. QED
  BY <1>1, <1>3 DEF FunctionWord

LEMMA ReturnRegistered ==
  ASSUME Registered, FunctionSet \/ (\E c \in Contexts : LevelWritten(c)) \/ EdgeWatched \/ EventCleared
  PROVE  Registered'
<1>1. CASE FunctionSet
  <2>1. /\ op["main"].pin \in Nat /\ op["main"].pin \in Pins /\ gpio_pin_valid(op["main"].pin) /\ op["main"].arg \in 0 .. 7
    BY <1>1, PinsAreNat DEF FunctionSet, Registered, CallOK, Contexts, Started
  <2>2. gpio_pin_to_function_register(op["main"].pin) \in Registers
    BY <2>1, PinNumbers, RegistersThere DEF gpio_pin_to_function_register
  <2>3. regs' \in [Registers -> SUBSET Bits]
    BY <1>1, <2>2, FunctionWordIsWord, RegisterChanges DEF FunctionSet
  <2>4. op' \in [Contexts -> {NoOp} \cup Started \cup Pulling] /\ op'["main"] = NoOp /\ op'["irq"] = op["irq"]
    BY <1>1 DEF FunctionSet, Registered, Contexts
  <2>5. op["irq"].fn # "function"
    BY DEF Registered, CallOK, Contexts
  <2>6. CallOK("main")' /\ CallOK("irq")'
    BY <2>4, <2>5, <1>1, CallsStay DEF FunctionSet, Contexts, CallOK, NoOp
  <2>7. /\ asked' \in [Pins -> [fn : -1 .. 7, lev : -1 .. 1, pud : -1 .. 3]]
        /\ \A p \in Pins : asked'[p].fn # -1 => gpio_pin_valid(p)
    BY <1>1, <2>1 DEF FunctionSet, Registered
  <2>. QED
    BY <1>1, <2>3, <2>4, <2>6, <2>7 DEF FunctionSet, Registered, Contexts
<1>2. ASSUME NEW c \in Contexts, LevelWritten(c) PROVE Registered'
  <2>1. op[c].pin \in Nat /\ op[c].pin \in Pins /\ op[c].arg \in {0, 1} /\ op[c] \in Started
    BY <1>2, PinsAreNat DEF LevelWritten, Started
  <2>2. Bank(op[c].pin) \in {0, 1} /\ op[c].pin % 32 \in Bits /\ <<"GPLEV", Bank(op[c].pin)>> \in Registers
    BY <2>1, PinNumbers, RegistersThere DEF Banked
  <2>3. \E w \in SUBSET Bits : regs' = [regs EXCEPT ![<<"GPLEV", Bank(op[c].pin)>>] = w]
    <3>1. regs[<<"GPLEV", Bank(op[c].pin)>>] \in SUBSET Bits
      BY <2>2 DEF Registered
    <3>. QED
      BY <3>1, <2>2, <1>2 DEF LevelWritten
  <2>4. regs' \in [Registers -> SUBSET Bits] /\ \A m \in 0 .. 5 : regs'[<<"GPFSEL", m>>] = regs[<<"GPFSEL", m>>]
    BY <2>2, <2>3, RegisterChanges, RegistersThere
  <2>5. op' \in [Contexts -> {NoOp} \cup Started \cup Pulling] /\ \A d \in Contexts : op'[d] = NoOp \/ op'[d] = op[d]
    BY <1>2 DEF LevelWritten, Registered
  <2>6. \A d \in Contexts : CallOK(d)'
    BY <2>4, <2>5, <1>2, CallsStay DEF LevelWritten
  <2>7. /\ asked' \in [Pins -> [fn : -1 .. 7, lev : -1 .. 1, pud : -1 .. 3]]
        /\ \A p \in Pins : asked'[p].fn # -1 => gpio_pin_valid(p)
    BY <1>2, <2>1 DEF LevelWritten, Registered
  <2>. QED
    BY <1>2, <2>4, <2>5, <2>6, <2>7 DEF LevelWritten, Registered
<1>3. CASE EdgeWatched \/ EventCleared
  <2>1. /\ op["main"].pin \in Nat /\ op' = [op EXCEPT !["main"] = NoOp] /\ UNCHANGED <<lib, pud, pull, asked>>
    BY <1>3, PinsAreNat DEF EdgeWatched, EventCleared, Started
  <2>2. \E r \in {"GPFEN", "GPREN", "GPEDS"}, b \in {0, 1}, w \in SUBSET Bits : regs' = [regs EXCEPT ![<<r, b>>] = w]
    <3>1. Bank(op["main"].pin) \in {0, 1} /\ <<"GPEDS", Bank(op["main"].pin)>> \in Registers
      BY <2>1, PinNumbers, RegistersThere DEF Banked
    <3>2. regs[<<"GPEDS", Bank(op["main"].pin)>>] \in SUBSET Bits
      BY <3>1 DEF Registered
    <3>3. CASE EventCleared
      <4> DEFINE w == regs[<<"GPEDS", Bank(op["main"].pin)>>] \ {op["main"].pin % 32}
      <4>1. regs' = [regs EXCEPT ![<<"GPEDS", Bank(op["main"].pin)>>] = w] /\ w \in SUBSET Bits
        BY <3>2, <3>3 DEF EventCleared
      <4> HIDE DEF w
      <4>. QED
        BY <4>1, <3>1
    <3>4. CASE EdgeWatched
      BY <3>4 DEF EdgeWatched
    <3>. QED
      BY <3>3, <3>4, <1>3
  <2>3. PICK r \in {"GPFEN", "GPREN", "GPEDS"}, b \in {0, 1}, w \in SUBSET Bits : regs' = [regs EXCEPT ![<<r, b>>] = w]
    BY <2>2
  <2>4. regs' \in [Registers -> SUBSET Bits] /\ \A m \in 0 .. 5 : regs'[<<"GPFSEL", m>>] = regs[<<"GPFSEL", m>>]
    <3>1. <<r, b>> \in Registers /\ \A m \in 0 .. 5 : <<"GPFSEL", m>> \in Registers /\ <<"GPFSEL", m>> # <<r, b>>
      BY RegistersThere DEF Banked
    <3>. QED
      BY <3>1, <2>3, RegisterChanges
  <2>5. op' \in [Contexts -> {NoOp} \cup Started \cup Pulling] /\ \A d \in Contexts : op'[d] = NoOp \/ op'[d] = op[d]
    BY <2>1 DEF Registered
  <2>6. \A d \in Contexts : CallOK(d)'
    BY <2>1, <2>4, <2>5, CallsStay
  <2>. QED
    BY <2>1, <2>4, <2>5, <2>6 DEF Registered
<1>. QED
  BY <1>1, <1>2, <1>3

LEMMA PullRegistered == Registered /\ PullStep => Registered'
<1> SUFFICES ASSUME Registered, PullStep PROVE Registered'
  OBVIOUS
<1>i. op["irq"].fn # "function" /\ "irq" \in Contexts /\ "main" \in Contexts
  BY DEF Registered, CallOK, Contexts
<1>1. ASSUME NEW p \in PullPins, NEW v \in PUD, PullCall("main", p, v) PROVE Registered'
  <2>1. /\ pud' = v /\ UNCHANGED <<lib, regs, pull, asked>>
        /\ op' = [op EXCEPT !["main"] = [fn |-> "pull", pin |-> p, arg |-> v, step |-> 1]]
    BY <1>1 DEF PullCall
  <2>2. [fn |-> "pull", pin |-> p, arg |-> v, step |-> 1] \in Pulling
    BY DEF Pulling
  <2>3. op' \in [Contexts -> {NoOp} \cup Started \cup Pulling]
    BY <2>1, <2>2 DEF Registered
  <2>4. op'["main"] \in Pulling /\ op'["main"].fn = "pull" /\ op'["irq"] = op["irq"]
    BY <2>1, <2>2, <1>i DEF Registered
  <2>5. CallOK("main")' /\ CallOK("irq")'
    BY <2>1, <2>4, <1>i DEF Registered, CallOK
  <2>. QED
    BY <2>1, <2>3, <2>5 DEF Registered, Contexts
<1>2. CASE PullClock("main") \/ PullRemove("main") \/ PullDone("main")
  <2>1. op["main"] \in Pulling /\ op["main"].pin \in Nat /\ op["main"].pin \in Pins
    BY <1>2, <1>i, CallKinds, PinsAreNat DEF PullClock, PullRemove, PullDone, Pulling
  <2>2. /\ regs' \in [Registers -> SUBSET Bits] /\ \A m \in 0 .. 5 : regs'[<<"GPFSEL", m>>] = regs[<<"GPFSEL", m>>]
    <3>1. \/ regs' = regs
          \/ \E b \in {0, 1}, w \in SUBSET Bits : regs' = [regs EXCEPT ![<<"GPPUDCLK", b>>] = w]
      <4>1. CASE PullClock("main")
        <5> DEFINE b == Bank(op["main"].pin)
                   w == {op["main"].pin % 32}
        <5>1. regs' = HwWritten(<<"GPPUDCLK", b>>, w)
          BY <4>1 DEF PullClock, gpio_pin_to_udclock_register
        <5>2. HwWritten(<<"GPPUDCLK", b>>, w) = [regs EXCEPT ![<<"GPPUDCLK", b>>] = w]
          BY DEF HwWritten
        <5>3. b \in {0, 1} /\ w \in SUBSET Bits
          BY <2>1, PinNumbers
        <5> HIDE DEF b, w
        <5>. QED
          BY <5>1, <5>2, <5>3
      <4>2. CASE PullRemove("main")
        BY <4>2 DEF PullRemove
      <4>3. CASE PullDone("main")
        <5>1. regs' = HwWritten(<<"GPPUDCLK", 0>>, {}) /\ {} \in SUBSET Bits
          BY <4>3 DEF PullDone
        <5>2. HwWritten(<<"GPPUDCLK", 0>>, {}) = [regs EXCEPT ![<<"GPPUDCLK", 0>>] = {}]
          BY DEF HwWritten
        <5>. QED
          BY <5>1, <5>2
      <4>. QED
        BY <4>1, <4>2, <4>3, <1>2
    <3>2. \A b \in {0, 1} : <<"GPPUDCLK", b>> \in Registers /\ \A m \in 0 .. 5 : <<"GPFSEL", m>> # <<"GPPUDCLK", b>>
      BY RegistersThere DEF Banked
    <3>3. CASE regs' = regs
      BY <3>3 DEF Registered
    <3>4. ASSUME NEW b \in {0, 1}, NEW w \in SUBSET Bits, regs' = [regs EXCEPT ![<<"GPPUDCLK", b>>] = w]
          PROVE  regs' \in [Registers -> SUBSET Bits] /\ \A m \in 0 .. 5 : regs'[<<"GPFSEL", m>>] = regs[<<"GPFSEL", m>>]
      BY <3>2, <3>4, RegisterChanges, RegistersThere
    <3>. QED
      BY <3>1, <3>3, <3>4
  <2>3. lib' = lib /\ pud' \in PUD /\ pull' \in [PullPins -> PUD]
    BY <1>2 DEF PullClock, PullRemove, PullDone, HwClocked, Registered, PUD
  <2>4. /\ asked' \in [Pins -> [fn : -1 .. 7, lev : -1 .. 1, pud : -1 .. 3]]
        /\ \A p \in Pins : asked'[p].fn # -1 => gpio_pin_valid(p)
    <3>1. asked' = asked \/ (asked' = [asked EXCEPT ![op["main"].pin].pud = op["main"].arg] /\ op["main"].arg \in 0 .. 3)
      BY <1>2, <2>1 DEF PullClock, PullRemove, PullDone, Pulling, PUD
    <3>. QED
      BY <3>1, <2>1 DEF Registered
  <2>5. \/ op' = [op EXCEPT !["main"] = NoOp]
        \/ \E s \in {2, 3} : op' = [op EXCEPT !["main"].step = s]
    BY <1>2 DEF PullClock, PullRemove, PullDone
  <2>6. /\ op' \in [Contexts -> {NoOp} \cup Started \cup Pulling] /\ op'["irq"] = op["irq"]
        /\ op'["main"] = NoOp \/ (op'["main"] \in Pulling /\ op'["main"].fn = "pull")
    <3>1. CASE op' = [op EXCEPT !["main"] = NoOp]
      BY <3>1, <1>i DEF Registered
    <3>2. ASSUME NEW s \in {2, 3}, op' = [op EXCEPT !["main"].step = s]
          PROVE  /\ op' \in [Contexts -> {NoOp} \cup Started \cup Pulling] /\ op'["irq"] = op["irq"]
                 /\ op'["main"] \in Pulling /\ op'["main"].fn = "pull"
      <4>1. [op["main"] EXCEPT !.step = s] \in Pulling /\ [op["main"] EXCEPT !.step = s].fn = "pull"
        BY <2>1 DEF Pulling
      <4>2. op' = [op EXCEPT !["main"] = [op["main"] EXCEPT !.step = s]]
        BY <3>2
      <4>. QED
        BY <4>1, <4>2, <1>i DEF Registered
    <3>. QED
      BY <3>1, <3>2, <2>5
  <2>7. CallOK("irq")'
    BY <2>2, <2>3, <2>6, <1>i, CallsStay
  <2>8. CallOK("main")'
    BY <2>6 DEF CallOK, NoOp
  <2>. QED
    BY <2>2, <2>3, <2>4, <2>6, <2>7, <2>8 DEF Registered, Contexts
<1>. QED
  BY <1>1, <1>2 DEF PullStep

LEMMA EdgeRegistered ==
  ASSUME Registered, NEW p \in Pins, Edge(p)
  PROVE  Registered'
<1>1. p \in Nat /\ Bank(p) \in {0, 1} /\ p % 32 \in Bits
  BY PinsAreNat, PinNumbers
<1>2. <<"GPEDS", Bank(p)>> \in Registers /\ \A m \in 0 .. 5 : <<"GPFSEL", m>> \in Registers /\ <<"GPFSEL", m>> # <<"GPEDS", Bank(p)>>
  BY <1>1, RegistersThere DEF Banked
<1>3. regs' = [regs EXCEPT ![<<"GPEDS", Bank(p)>>] = regs[<<"GPEDS", Bank(p)>>] \cup {p % 32}]
  BY DEF Edge, gpio_pin_to_event_register, gpio_pin_to_bit_offset
<1>4. regs[<<"GPEDS", Bank(p)>>] \cup {p % 32} \in SUBSET Bits
  BY <1>1, <1>2 DEF Registered
<1>5. regs' \in [Registers -> SUBSET Bits] /\ \A m \in 0 .. 5 : regs'[<<"GPFSEL", m>>] = regs[<<"GPFSEL", m>>]
  BY <1>2, <1>3, <1>4, RegisterChanges
<1>6. UNCHANGED <<lib, pud, pull, op, asked>>
  BY DEF Edge
<1>7. \A d \in Contexts : CallOK(d)'
  BY <1>5, <1>6, CallsStay
<1>. QED
  BY <1>5, <1>6, <1>7 DEF Registered

LEMMA GpioRegistered == Registered /\ [GpioNext]_gpio => Registered'
<1> SUFFICES ASSUME Registered, [GpioNext]_gpio PROVE Registered'
  OBVIOUS
<1>1. CASE UNCHANGED gpio
  BY <1>1 DEF gpio, Registered, CallOK
<1>2. CASE BeginsCall
  <2>1. "irq" \in Contexts /\ "main" \in Contexts /\ "irq" # "main" /\ 0 \in Nat /\ 1 \in Nat /\ GPIO_FUNC.OUTPUT \in Nat
    BY DEF Contexts, GPIO_FUNC
  <2>2. Functions \subseteq Nat
    BY GpioAssumption
  <2>. QED
    BY <1>2, <2>1, <2>2, CallRegistered, PinsAreNat DEF BeginsCall
<1>3. CASE Return("irq") \/ Return("main")
  BY <1>3, Returns, ReturnRegistered DEF Contexts
<1>4. CASE \E p \in Pins : Edge(p)
  BY <1>4, EdgeRegistered
<1>. QED
  BY <1>1, <1>2, <1>3, <1>4, PullRegistered DEF GpioNext

LEMMA NextRegistered == Registered /\ [Next]_vars => Registered'
BY StepsOfPins, GpioRegistered
-----------------------------------------------------------------------------
(* Functions.  Three bits are put in place, and only those.                *)
LEMMA Powers == 2^0 = 1 /\ 2^1 = 2 /\ 2^2 = 4
OBVIOUS

LEMMA BitsOfFunction ==
  ASSUME NEW a \in 0 .. 7, NEW off \in Nat
  PROVE  /\ off \in FunctionBits(a, off) <=> a \in {1, 3, 5, 7}
         /\ off + 1 \in FunctionBits(a, off) <=> a \in {2, 3, 6, 7}
         /\ off + 2 \in FunctionBits(a, off) <=> a \in {4, 5, 6, 7}
         /\ FunctionBits(a, off) \subseteq FunctionMask(off)
<1> DEFINE Ones == {j \in 0 .. 2 : (a \div 2^j) % 2 = 1}
<1>1. /\ 0 \in Ones <=> a \in {1, 3, 5, 7}
      /\ 1 \in Ones <=> a \in {2, 3, 6, 7}
      /\ 2 \in Ones <=> a \in {4, 5, 6, 7}
      /\ Ones \subseteq 0 .. 2
  BY Powers
<1>2. FunctionBits(a, off) = {off + k : k \in Ones}
  BY DEF FunctionBits
<1> HIDE DEF Ones
<1>3. \A i \in 0 .. 2 : off + i \in FunctionBits(a, off) <=> i \in Ones
  BY <1>1, <1>2
<1>4. FunctionBits(a, off) \subseteq off .. off + 2
  BY <1>1, <1>2
<1>5. off + 0 = off
  OBVIOUS
<1>. QED
  BY <1>1, <1>3, <1>4, <1>5 DEF FunctionMask

LEMMA FunctionOfBits ==
  ASSUME NEW w, NEW off \in Nat
  PROVE  FunctionOf(w, off) = (IF off \in w THEN 1 ELSE 0) + (IF off + 1 \in w THEN 2 ELSE 0)
                              + (IF off + 2 \in w THEN 4 ELSE 0)
<1>1. off + 0 = off
  OBVIOUS
<1>. QED
  BY <1>1, Powers DEF FunctionOf

\* The word put back has the function at its own offset, and elsewhere what it had.
Put(w, a, off) == (w \ FunctionMask(off)) \cup FunctionBits(a, off)

LEMMA FunctionPut ==
  ASSUME NEW w, NEW a \in 0 .. 7, NEW off \in Nat
  PROVE  /\ FunctionOf(Put(w, a, off), off) = a
         /\ \A other \in Nat : other >= off + 3 \/ off >= other + 3 =>
              FunctionOf(Put(w, a, off), other) = FunctionOf(w, other)
<1> DEFINE new == Put(w, a, off)
<1>1. /\ off \in FunctionMask(off) /\ off + 1 \in FunctionMask(off) /\ off + 2 \in FunctionMask(off)
      /\ FunctionMask(off) = off .. off + 2
  BY DEF FunctionMask
<1>2. /\ off \in new <=> a \in {1, 3, 5, 7}
      /\ off + 1 \in new <=> a \in {2, 3, 6, 7}
      /\ off + 2 \in new <=> a \in {4, 5, 6, 7}
  BY <1>1, BitsOfFunction DEF Put
<1>3. \A i \in Nat : i < off \/ i > off + 2 => (i \in new <=> i \in w)
  <2>1. FunctionBits(a, off) \subseteq FunctionMask(off)
    BY BitsOfFunction
  <2>2. \A i \in Nat : i < off \/ i > off + 2 => i \notin FunctionMask(off)
    BY <1>1
  <2>. QED
    BY <2>1, <2>2 DEF Put
<1> HIDE DEF new
<1>4. FunctionOf(new, off) = a
  BY <1>2, FunctionOfBits
<1>5. ASSUME NEW other \in Nat, other >= off + 3 \/ off >= other + 3 PROVE FunctionOf(new, other) = FunctionOf(w, other)
  <2>1. /\ other \in new <=> other \in w
        /\ other + 1 \in new <=> other + 1 \in w
        /\ other + 2 \in new <=> other + 2 \in w
    BY <1>3, <1>5
  <2>. QED
    BY <2>1, FunctionOfBits
<1>. QED
  BY <1>4, <1>5 DEF new

\* Steps that leave GPFSEL and the functions asked for leave this.
LEMMA FunctionsStay ==
  ASSUME Registered, FunctionsAsSet, \A m \in 0 .. 5 : regs'[<<"GPFSEL", m>>] = regs[<<"GPFSEL", m>>],
         \A p \in Pins : asked'[p].fn = asked[p].fn
  PROVE  FunctionsAsSet'
<1> SUFFICES ASSUME NEW p \in Pins, asked'[p].fn # -1 PROVE gpio_get_function(p)' = asked'[p].fn
  BY DEF FunctionsAsSet
<1>1. gpio_pin_valid(p) /\ p \in Nat /\ asked[p].fn # -1
  BY PinsAreNat DEF Registered
<1>2. gpio_get_function(p)' = gpio_get_function(p)
  BY <1>1, PinNumbers DEF gpio_get_function, gpio_pin_to_function_register
<1>. QED
  BY <1>1, <1>2 DEF FunctionsAsSet

LEMMA SetFunctions ==
  ASSUME Registered, FunctionsAsSet, FunctionSet
  PROVE  FunctionsAsSet'
<1> DEFINE q == op["main"].pin
           a == op["main"].arg
           off(p) == gpio_pin_to_function_offset(p)
           reg(p) == gpio_pin_to_function_register(p)
<1>1. /\ q \in Nat /\ q \in Pins /\ gpio_pin_valid(q) /\ a \in 0 .. 7
      /\ op["main"].val = regs[reg(q)]
  BY PinsAreNat DEF FunctionSet, Registered, CallOK, Contexts, Started
<1>2. /\ regs' = [regs EXCEPT ![reg(q)] = Put(regs[reg(q)], a, off(q))]
      /\ asked' = [asked EXCEPT ![q].fn = a]
  BY <1>1 DEF FunctionSet, FunctionWord, Put
<1> SUFFICES ASSUME NEW p \in Pins, asked'[p].fn # -1 PROVE gpio_get_function(p)' = asked'[p].fn
  BY DEF FunctionsAsSet
<1>3. p \in Nat /\ gpio_pin_valid(p) /\ asked \in [Pins -> [fn : -1 .. 7, lev : -1 .. 1, pud : -1 .. 3]]
  BY <1>1, <1>2, PinsAreNat DEF Registered
<1>4. /\ gpio_get_function(p) = FunctionOf(regs[reg(p)], off(p))
      /\ gpio_get_function(p)' = FunctionOf(regs'[reg(p)], off(p))
  BY <1>3 DEF gpio_get_function
<1>5. reg(p) \in Registers /\ reg(q) \in Registers /\ off(p) \in Nat /\ off(q) \in Nat
  BY <1>1, <1>3, PinNumbers, RegistersThere, FunctionOffsets DEF gpio_pin_to_function_register
<1>6. DOMAIN regs = Registers
  BY DEF Registered
<1>p. PICK A \in 0 .. 7, F \in Nat : A = a /\ F = off(q)
  BY <1>1, <1>5
<1>7. CASE p = q
  <2>1. regs'[reg(q)] = Put(regs[reg(q)], a, off(q))
    BY <1>2, <1>5, <1>6
  <2>2. FunctionOf(regs'[reg(q)], off(q)) = a
    <3>1. FunctionOf(Put(regs[reg(q)], A, F), F) = A
      BY FunctionPut
    <3>. QED
      BY <3>1, <2>1, <1>p
  <2>3. asked'[q].fn = a
    BY <1>1, <1>2, <1>3
  <2>. QED
    BY <1>4, <1>7, <2>2, <2>3
<1>8. CASE p # q /\ reg(p) = reg(q)
  <2>1. regs'[reg(q)] = Put(regs[reg(q)], a, off(q))
    BY <1>2, <1>5, <1>6
  <2>2. off(p) >= off(q) + 3 \/ off(q) >= off(p) + 3
    <3>1. p \div 10 = q \div 10
      BY <1>8 DEF gpio_pin_to_function_register
    <3>2. p % 10 # q % 10 /\ p % 10 \in 0 .. 9 /\ q % 10 \in 0 .. 9
      BY <3>1, <1>1, <1>3, <1>8, PinNumbers
    <3>. QED
      BY <3>2, <1>1, <1>3, FunctionOffsets
  <2>3. FunctionOf(regs'[reg(p)], off(p)) = FunctionOf(regs[reg(p)], off(p))
    <3> HIDE DEF reg, off, a
    <3>1. \A other \in Nat : other >= off(q) + 3 \/ off(q) >= other + 3 =>
            FunctionOf(Put(regs[reg(q)], a, off(q)), other)
              = FunctionOf(regs[reg(q)], other)
      <4>1. \A other \in Nat : other >= F + 3 \/ F >= other + 3 =>
              FunctionOf(Put(regs[reg(q)], A, F), other) = FunctionOf(regs[reg(q)], other)
        BY FunctionPut
      <4>2. Put(regs[reg(q)], A, F) = Put(regs[reg(q)], a, off(q))
        BY <1>p
      <4>. QED
        BY <4>1, <4>2, <1>p
    <3>. QED
      BY <3>1, <2>1, <2>2, <1>5, <1>8
  <2>4. asked'[p].fn = asked[p].fn
    BY <1>1, <1>2, <1>3, <1>8
  <2>. QED
    BY <2>3, <2>4, <1>4 DEF FunctionsAsSet
<1>9. CASE reg(p) # reg(q)
  <2>1. regs'[reg(p)] = regs[reg(p)]
    BY <1>2, <1>5, <1>6, <1>9
  <2>2. asked'[p].fn = asked[p].fn
    BY <1>1, <1>2, <1>3, <1>9
  <2>. QED
    BY <2>1, <2>2, <1>4 DEF FunctionsAsSet
<1>. QED
  BY <1>7, <1>8, <1>9
-----------------------------------------------------------------------------
(* Levels and pulls.  The chip has two banks of 32 pins; a pin beyond them *)
(* would share the bit of another.  pin_pull() takes the clock away from   *)
(* the first bank only.                                                    *)
TwoBanks == Pins \subseteq 0 .. 63 /\ PullPins \subseteq 0 .. 31

LEMMA OwnBit ==
  ASSUME TwoBanks, NEW p \in Pins, NEW q \in Pins, Bank(p) = Bank(q), p % 32 = q % 32
  PROVE  p = q
<1>1. p \in 0 .. 63 /\ q \in 0 .. 63
  BY DEF TwoBanks
<1>2. p < 32 \/ p \in 32 .. 63
  BY <1>1
<1>3. q < 32 \/ q \in 32 .. 63
  BY <1>1
<1>. QED
  BY <1>1, <1>2, <1>3, PinNumbers

LEMMA LevelsStay ==
  ASSUME Registered, LevelsAsWritten, \A b \in {0, 1} : regs'[<<"GPLEV", b>>] = regs[<<"GPLEV", b>>],
         \A p \in Pins : asked'[p].lev = asked[p].lev
  PROVE  LevelsAsWritten'
<1> SUFFICES ASSUME NEW p \in Pins, asked'[p].lev # -1 PROVE gpio_pin_read(p)' = (asked'[p].lev = 1)
  BY DEF LevelsAsWritten
<1>1. p \in Nat /\ Bank(p) \in {0, 1}
  BY PinsAreNat, PinNumbers
<1>2. gpio_pin_read(p)' = gpio_pin_read(p)
  BY <1>1 DEF gpio_pin_read, gpio_pin_to_input_register
<1>. QED
  BY <1>2 DEF LevelsAsWritten

LEMMA WriteLevels ==
  ASSUME TwoBanks, Registered, LevelsAsWritten, NEW c \in Contexts, LevelWritten(c)
  PROVE  LevelsAsWritten'
<1> DEFINE q == op[c].pin
           bank(p) == <<"GPLEV", Bank(p)>>
<1>1. q \in Pins /\ q \in Nat /\ op[c].arg \in {0, 1}
  BY PinsAreNat DEF LevelWritten, Started
<1>2. /\ \/ op[c].arg = 1 /\ regs' = [regs EXCEPT ![bank(q)] = regs[bank(q)] \cup {q % 32}]
         \/ op[c].arg = 0 /\ regs' = [regs EXCEPT ![bank(q)] = regs[bank(q)] \ {q % 32}]
      /\ asked' = [asked EXCEPT ![q].lev = op[c].arg]
  BY DEF LevelWritten
<1> SUFFICES ASSUME NEW p \in Pins, asked'[p].lev # -1 PROVE gpio_pin_read(p)' = (asked'[p].lev = 1)
  BY DEF LevelsAsWritten
<1>3. /\ bank(p) \in Registers /\ bank(q) \in Registers
      /\ asked \in [Pins -> [fn : -1 .. 7, lev : -1 .. 1, pud : -1 .. 3]] /\ DOMAIN regs = Registers
  BY <1>1, PinsAreNat, PinNumbers, RegistersThere DEF Registered, Banked
<1>4. /\ gpio_pin_read(p) = (p % 32 \in regs[bank(p)])
      /\ gpio_pin_read(p)' = (p % 32 \in regs'[bank(p)])
  BY DEF gpio_pin_read, gpio_pin_to_input_register, gpio_pin_to_bit_offset
<1>5. CASE p = q
  <2>1. asked'[p].lev = op[c].arg
    BY <1>1, <1>2, <1>3, <1>5
  <2>2. op[c].arg = 1 => p % 32 \in regs'[bank(p)]
    BY <1>2, <1>3, <1>5
  <2>3. op[c].arg = 0 => p % 32 \notin regs'[bank(p)]
    BY <1>2, <1>3, <1>5
  <2>. QED
    BY <2>1, <2>2, <2>3, <1>1, <1>4
<1>6. CASE p # q
  <2>1. asked'[p].lev = asked[p].lev
    BY <1>1, <1>2, <1>3, <1>6
  <2>2. bank(p) # bank(q) \/ p % 32 # q % 32
    BY <1>1, <1>6, OwnBit
  <2>3. p % 32 \in regs'[bank(p)] <=> p % 32 \in regs[bank(p)]
    <3>1. CASE bank(p) # bank(q)
      BY <3>1, <1>2, <1>3
    <3>2. CASE bank(p) = bank(q) /\ p % 32 # q % 32
      BY <3>2, <1>2, <1>3
    <3>. QED
      BY <3>1, <3>2, <2>2
  <2>. QED
    BY <2>1, <2>3, <1>4 DEF LevelsAsWritten
<1>. QED
  BY <1>5, <1>6

\* Between its steps a pull has driven, clocked and taken away what it must; a pad keeps
\* its pull except while the pull asked for it is being changed.
PullUnderWay ==
  /\ op["main"].fn # "pull" \/ op["main"].step = 1 => regs[<<"GPPUDCLK", 0>>] = {}
  /\ op["main"].fn = "pull" /\ op["main"].step = 1 => pud = op["main"].arg
  /\ op["main"].fn = "pull" /\ op["main"].step # 1 => pull[op["main"].pin] = op["main"].arg
  /\ \A p \in PullPins : asked[p].pud # -1 =>
       \/ pull[p] = asked[p].pud
       \/ op["main"].fn = "pull" /\ op["main"].step # 1 /\ p = op["main"].pin

LEMMA PullsStay ==
  ASSUME Registered, PullUnderWay, UNCHANGED <<pud, pull>>, regs'[<<"GPPUDCLK", 0>>] = regs[<<"GPPUDCLK", 0>>],
         \A p \in Pins : asked'[p].pud = asked[p].pud,
         op'["main"] = op["main"] \/ (op["main"].fn # "pull" /\ op'["main"].fn # "pull")
  PROVE  PullUnderWay'
BY PinsAreNat DEF PullUnderWay

LEMMA PullsProceed ==
  ASSUME TwoBanks, Registered, PullUnderWay, PullStep
  PROVE  PullUnderWay'
<1> DEFINE clock == <<"GPPUDCLK", 0>>
<1>0. /\ "main" \in Contexts /\ clock \in Registers /\ DOMAIN regs = Registers
      /\ op \in [Contexts -> {NoOp} \cup Started \cup Pulling] /\ pull \in [PullPins -> PUD]
      /\ asked \in [Pins -> [fn : -1 .. 7, lev : -1 .. 1, pud : -1 .. 3]] /\ PullPins \subseteq Pins
  BY RegistersThere, PinsAreNat DEF Contexts, Banked, Registered
<1>1. ASSUME NEW p \in PullPins, NEW v \in PUD, PullCall("main", p, v) PROVE PullUnderWay'
  <2>1. /\ op["main"] = NoOp /\ pud' = v /\ UNCHANGED <<regs, pull, asked>>
        /\ op' = [op EXCEPT !["main"] = [fn |-> "pull", pin |-> p, arg |-> v, step |-> 1]]
    BY <1>1 DEF PullCall
  <2>2. op'["main"] = [fn |-> "pull", pin |-> p, arg |-> v, step |-> 1] /\ op["main"].fn = "none"
    BY <2>1, <1>0 DEF NoOp
  <2>3. op'["main"].fn = "pull" /\ op'["main"].arg = v /\ op'["main"].step = 1
    BY <2>2
  <2>. QED
    BY <2>1, <2>2, <2>3 DEF PullUnderWay
<1>2. CASE PullClock("main") \/ PullRemove("main") \/ PullDone("main")
  <2> DEFINE q == op["main"].pin
  <2>1. /\ op["main"] \in Pulling /\ op["main"].fn = "pull" /\ q \in PullPins /\ q \in Pins
        /\ op["main"].arg \in PUD
    BY <1>2, <1>0, CallKinds DEF PullClock, PullRemove, PullDone, Pulling
  <2>2. \A p \in PullPins : Bank(p) = 0 /\ gpio_pin_to_udclock_register(p) = clock /\ p % 32 = p /\ p \in Nat
    BY PinNumbers DEF TwoBanks, gpio_pin_to_udclock_register
  <2>3. CASE PullClock("main")
    <3>1. /\ op["main"].step = 1 /\ pull' = HwClocked(clock, {q}) /\ UNCHANGED <<pud, asked>>
          /\ op' = [op EXCEPT !["main"].step = 2]
      BY <2>1, <2>2, <2>3 DEF PullClock
    <3>2. regs[clock] = {} /\ pud = op["main"].arg
      BY <2>1, <3>1 DEF PullUnderWay
    <3>3. \A p \in PullPins : pull'[p] = IF p = q THEN op["main"].arg ELSE pull[p]
      BY <2>1, <2>2, <3>1, <3>2 DEF HwClocked
    <3>4. /\ op'["main"].fn = "pull" /\ op'["main"].arg = op["main"].arg /\ op'["main"].pin = q
          /\ op'["main"].step = 2
      BY <1>0, <2>1, <3>1 DEF Pulling
    <3>5. pull'[q] = op["main"].arg
      BY <2>1, <3>3
    <3>6. \A p \in PullPins : asked'[p].pud # -1 => pull'[p] = asked'[p].pud \/ p = q
      BY <2>1, <3>1, <3>3 DEF PullUnderWay
    <3>. QED
      BY <3>4, <3>5, <3>6 DEF PullUnderWay
  <2>4. CASE PullRemove("main")
    <3>1. op["main"].step = 2 /\ op' = [op EXCEPT !["main"].step = 3] /\ UNCHANGED <<regs, pull, asked>>
      BY <2>4 DEF PullRemove
    <3>2. /\ op'["main"].fn = "pull" /\ op'["main"].arg = op["main"].arg /\ op'["main"].pin = q
          /\ op'["main"].step = 3
      BY <1>0, <2>1, <3>1 DEF Pulling
    <3>. QED
      BY <2>1, <3>1, <3>2 DEF PullUnderWay
  <2>5. CASE PullDone("main")
    <3>1. /\ op["main"].step = 3 /\ regs' = HwWritten(clock, {}) /\ op' = [op EXCEPT !["main"] = NoOp]
          /\ asked' = [asked EXCEPT ![q].pud = op["main"].arg] /\ UNCHANGED <<pud, pull>>
      BY <2>5 DEF PullDone
    <3>2. regs' = [regs EXCEPT ![clock] = {}]
      BY <3>1 DEF HwWritten
    <3>3. regs'[clock] = {} /\ op'["main"].fn = "none"
      BY <1>0, <3>1, <3>2 DEF NoOp
    <3>4. pull[q] = op["main"].arg
      BY <2>1, <3>1 DEF PullUnderWay
    <3>5. \A p \in PullPins : asked'[p].pud = IF p = q THEN op["main"].arg ELSE asked[p].pud
      BY <1>0, <2>1, <3>1
    <3>6. \A p \in PullPins : asked'[p].pud # -1 => pull'[p] = asked'[p].pud
      BY <2>1, <3>1, <3>4, <3>5 DEF PullUnderWay
    <3>. QED
      BY <3>3, <3>6 DEF PullUnderWay
  <2>. QED
    BY <2>3, <2>4, <2>5, <1>2
<1>. QED
  BY <1>1, <1>2 DEF PullStep
-----------------------------------------------------------------------------
(* All that is asked of a pin, in every step.                              *)
PinsKept == FunctionsAsSet /\ LevelsAsWritten /\ PullUnderWay

\* A step that writes one kind of register leaves the others.
LEMMA OtherRegisters ==
  ASSUME Registered, NEW n \in {"GPFSEL"} \cup Banked, NEW b, NEW w, regs' = [regs EXCEPT ![<<n, b>>] = w]
  PROVE  /\ n # "GPFSEL" => \A m \in 0 .. 5 : regs'[<<"GPFSEL", m>>] = regs[<<"GPFSEL", m>>]
         /\ \A r \in Banked, k \in {0, 1} : r # n => regs'[<<r, k>>] = regs[<<r, k>>]
BY RegistersThere DEF Registered

LEMMA BeginningKeeps ==
  ASSUME BeginsCall
  PROVE  /\ UNCHANGED <<lib, regs, pud, pull, asked>>
         /\ \A d \in Contexts : DOMAIN op = Contexts =>
              op'[d] = op[d] \/ (op[d] = NoOp /\ op'[d].fn # "pull")
<1>1. ASSUME NEW c \in Contexts, NEW fn \in {"function", "write", "falling", "rising", "clear_event"},
             NEW p, NEW a, Call(c, fn, p, a)
      PROVE  /\ UNCHANGED <<lib, regs, pud, pull, asked>>
             /\ \A d \in Contexts : DOMAIN op = Contexts =>
                  op'[d] = op[d] \/ (op[d] = NoOp /\ op'[d].fn # "pull")
  <2> DEFINE v == HwRead(RegisterOf([fn |-> fn, pin |-> p, arg |-> a, val |-> {}]))
             n == [[fn |-> fn, pin |-> p, arg |-> a, val |-> {}] EXCEPT !.val = v]
  <2>1. /\ UNCHANGED <<lib, regs, pud, pull, asked>> /\ op[c] = NoOp /\ op' = [op EXCEPT ![c] = n]
    BY <1>1 DEF Call
  <2>2. n.fn # "pull"
    OBVIOUS
  <2> HIDE DEF n
  <2>. QED
    BY <2>1, <2>2
<1>2. "irq" \in Contexts /\ "main" \in Contexts
  BY DEF Contexts
<1>. QED
  BY <1>1, <1>2 DEF BeginsCall

LEMMA GpioKept == TwoBanks /\ Registered /\ PinsKept /\ [GpioNext]_gpio => PinsKept'
<1> SUFFICES ASSUME TwoBanks, Registered, PinsKept, [GpioNext]_gpio PROVE PinsKept'
  OBVIOUS
<1>0. FunctionsAsSet /\ LevelsAsWritten /\ PullUnderWay
  BY DEF PinsKept
<1>a. /\ asked \in [Pins -> [fn : -1 .. 7, lev : -1 .. 1, pud : -1 .. 3]] /\ DOMAIN op = Contexts
      /\ "main" \in Contexts /\ "irq" \in Contexts /\ NoOp.fn = "none"
      /\ {"GPLEV", "GPEDS", "GPREN", "GPFEN", "GPPUDCLK"} \subseteq Banked
  BY DEF Registered, Contexts, NoOp, Banked
<1>1. CASE UNCHANGED gpio \/ BeginsCall
  <2>1. /\ UNCHANGED <<regs, pud, pull, asked>>
        /\ op'["main"] = op["main"] \/ (op["main"].fn # "pull" /\ op'["main"].fn # "pull")
    BY <1>1, <1>a, BeginningKeeps DEF gpio
  <2>. QED
    BY <2>1, <1>0, FunctionsStay, LevelsStay, PullsStay DEF PinsKept
<1>2. CASE FunctionSet
  <2>1. /\ \E b, w : regs' = [regs EXCEPT ![<<"GPFSEL", b>>] = w] /\ op["main"].pin \in Pins
        /\ asked' = [asked EXCEPT ![op["main"].pin].fn = op["main"].arg] /\ UNCHANGED <<pud, pull>>
        /\ op["main"].fn = "function" /\ op' = [op EXCEPT !["main"] = NoOp]
    BY <1>2 DEF FunctionSet, gpio_pin_to_function_register, Started
  <2>2. \A r \in Banked, k \in {0, 1} : regs'[<<r, k>>] = regs[<<r, k>>]
    BY <2>1, OtherRegisters DEF Banked
  <2>3. \A p \in Pins : asked'[p].lev = asked[p].lev /\ asked'[p].pud = asked[p].pud
    BY <2>1, <1>a
  <2>4. op["main"].fn # "pull" /\ op'["main"].fn # "pull"
    BY <2>1, <1>a
  <2>. QED
    BY <2>1, <2>2, <2>3, <2>4, <1>0, <1>2, <1>a, SetFunctions, LevelsStay, PullsStay DEF PinsKept
<1>3. ASSUME NEW c \in Contexts, LevelWritten(c) PROVE PinsKept'
  <2>1. /\ \E b, w : regs' = [regs EXCEPT ![<<"GPLEV", b>>] = w] /\ op[c].pin \in Pins
        /\ asked' = [asked EXCEPT ![op[c].pin].lev = op[c].arg] /\ UNCHANGED <<pud, pull>>
        /\ op[c].fn = "write" /\ op' = [op EXCEPT ![c] = NoOp]
    BY <1>3 DEF LevelWritten, Started
  <2>2. /\ \A m \in 0 .. 5 : regs'[<<"GPFSEL", m>>] = regs[<<"GPFSEL", m>>]
        /\ regs'[<<"GPPUDCLK", 0>>] = regs[<<"GPPUDCLK", 0>>]
    BY <2>1, <1>a, OtherRegisters DEF Banked
  <2>3. \A p \in Pins : asked'[p].fn = asked[p].fn /\ asked'[p].pud = asked[p].pud
    BY <2>1, <1>a
  <2>4. op'["main"] = op["main"] \/ (op["main"].fn # "pull" /\ op'["main"].fn # "pull")
    BY <2>1, <1>a
  <2>. QED
    BY <2>1, <2>2, <2>3, <2>4, <1>0, <1>3, FunctionsStay, WriteLevels, PullsStay DEF PinsKept
<1>4. CASE EdgeWatched \/ EventCleared \/ (\E p \in Pins : Edge(p))
  <2>1. /\ \E n \in {"GPFEN", "GPREN", "GPEDS"} : \E b, w : regs' = [regs EXCEPT ![<<n, b>>] = w]
        /\ UNCHANGED <<pud, pull, asked>>
        /\ op' = op \/ (op["main"].fn # "pull" /\ op' = [op EXCEPT !["main"] = NoOp])
    BY <1>4 DEF EdgeWatched, EventCleared, Edge, gpio_pin_to_event_register
  <2>2. /\ \A m \in 0 .. 5 : regs'[<<"GPFSEL", m>>] = regs[<<"GPFSEL", m>>]
        /\ \A k \in {0, 1} : regs'[<<"GPLEV", k>>] = regs[<<"GPLEV", k>>]
        /\ regs'[<<"GPPUDCLK", 0>>] = regs[<<"GPPUDCLK", 0>>]
    BY <2>1, <1>a, OtherRegisters DEF Banked
  <2>3. op'["main"] = op["main"] \/ (op["main"].fn # "pull" /\ op'["main"].fn # "pull")
    BY <2>1, <1>a
  <2>. QED
    BY <2>1, <2>2, <2>3, <1>0, FunctionsStay, LevelsStay, PullsStay DEF PinsKept
<1>5. CASE PullStep
  <2>1. /\ regs' = regs \/ \E b, w : regs' = [regs EXCEPT ![<<"GPPUDCLK", b>>] = w]
        /\ \A p \in Pins : asked'[p].fn = asked[p].fn /\ asked'[p].lev = asked[p].lev
    <3>1. ASSUME PullClock("main") \/ PullDone("main")
          PROVE  \E b, w : regs' = [regs EXCEPT ![<<"GPPUDCLK", b>>] = w]
      <4>1. PICK b, w : regs' = HwWritten(<<"GPPUDCLK", b>>, w)
        BY <3>1 DEF PullClock, PullDone, gpio_pin_to_udclock_register
      <4>2. HwWritten(<<"GPPUDCLK", b>>, w) = [regs EXCEPT ![<<"GPPUDCLK", b>>] = w]
        BY DEF HwWritten
      <4>. QED
        BY <4>1, <4>2
    <3>2. ~ (PullClock("main") \/ PullDone("main")) => UNCHANGED <<regs, asked>>
      BY <1>5 DEF PullStep, PullCall, PullRemove
    <3>3. asked' = asked \/ \E q, v : asked' = [asked EXCEPT ![q].pud = v]
      BY <1>5 DEF PullStep, PullCall, PullClock, PullRemove, PullDone
    <3>4. \A p \in Pins : asked'[p].fn = asked[p].fn /\ asked'[p].lev = asked[p].lev
      BY <3>3, <1>a
    <3>. QED
      BY <3>1, <3>2, <3>4
  <2>2. /\ \A m \in 0 .. 5 : regs'[<<"GPFSEL", m>>] = regs[<<"GPFSEL", m>>]
        /\ \A k \in {0, 1} : regs'[<<"GPLEV", k>>] = regs[<<"GPLEV", k>>]
    <3>1. ASSUME NEW b, NEW w, regs' = [regs EXCEPT ![<<"GPPUDCLK", b>>] = w]
          PROVE  /\ \A m \in 0 .. 5 : regs'[<<"GPFSEL", m>>] = regs[<<"GPFSEL", m>>]
                 /\ \A k \in {0, 1} : regs'[<<"GPLEV", k>>] = regs[<<"GPLEV", k>>]
      BY <3>1, <1>a, OtherRegisters
    <3>. QED
      BY <2>1, <3>1
  <2>. QED
    BY <2>1, <2>2, <1>0, <1>5, FunctionsStay, LevelsStay, PullsProceed DEF PinsKept
<1>6. CASE Return("irq") \/ Return("main")
  BY <1>6, <1>a, <1>2, <1>3, <1>4, Returns
<1>. QED
  BY <1>1, <1>4, <1>5, <1>6 DEF GpioNext

LEMMA InitPins == Init => PinsKept
<1> SUFFICES ASSUME GpioInit PROVE PinsKept
  BY DEF Init
<1>1. /\ \A p \in Pins : asked[p].fn = -1 /\ asked[p].lev = -1 /\ asked[p].pud = -1
      /\ op["main"] = NoOp /\ NoOp.fn = "none"
      /\ regs = [r \in Registers |-> {}]
  BY DEF GpioInit, Contexts, NoOp
<1>2. FunctionsAsSet /\ LevelsAsWritten
  BY <1>1 DEF FunctionsAsSet, LevelsAsWritten
<1>3. <<"GPPUDCLK", 0>> \in Registers
  BY RegistersThere DEF Banked
<1>4. PullUnderWay
  BY <1>1, <1>3, PinsAreNat DEF PullUnderWay
<1>. QED
  BY <1>2, <1>4 DEF PinsKept

\* A pin has the function, the level and the pull last asked for, although a call is a read
\* of a register and a later write of it, other pins share the register, and the handler
\* may write its led between the two (gpio.c:223-270, 338-353, sonar-int.c) - for any set
\* of pins of the two banks, of which the first can be pulled.
THEOREM PinsAlwaysAsAsked == TwoBanks /\ Spec => []PinsAsAsked
<1> SUFFICES ASSUME TwoBanks PROVE Spec => []PinsAsAsked
  OBVIOUS
<1>1. Init => Registered /\ PinsKept
  BY InitRegistered, InitPins
<1>2. (Registered /\ PinsKept) /\ [Next]_vars => (Registered /\ PinsKept)'
  BY NextRegistered, StepsOfPins, GpioKept
<1>3. Registered /\ PinsKept => PinsAsAsked
  BY DEF PinsKept, PinsAsAsked, PullsAsAsked, PullUnderWay, NoOp
<1>. QED
  BY <1>1, <1>2, <1>3, PTL DEF Spec

\* A detected edge is cleared by nothing but gpio_check_and_clear_event() of its own pin,
\* whatever is pending for the pins of its register (gpio.c:310-322).
THEOREM EventsAlwaysKept == TwoBanks /\ Spec => EventsKept
<1> SUFFICES ASSUME TwoBanks PROVE Spec => EventsKept
  OBVIOUS
<1> DEFINE OwnCall(p) == LET r == gpio_pin_to_event_register(p)
                         IN  p % 32 \in regs[r] \ regs'[r] =>
                               op["main"].fn = "clear_event" /\ op["main"].pin = p
<1>1. Init => Registered
  BY InitRegistered
<1>2. Registered /\ [Next]_vars => Registered'
  BY NextRegistered
<1>3. Registered /\ [Next]_vars => [\A p \in Pins : OwnCall(p)]_vars
  <2> SUFFICES ASSUME Registered, [GpioNext]_gpio, NEW p \in Pins,
                      p % 32 \in regs[gpio_pin_to_event_register(p)],
                      p % 32 \notin regs'[gpio_pin_to_event_register(p)]
               PROVE  op["main"].fn = "clear_event" /\ op["main"].pin = p
    BY StepsOfPins
  <2> DEFINE reg == <<"GPEDS", Bank(p)>>
  <2>1. /\ gpio_pin_to_event_register(p) = reg /\ reg \in Registers /\ Bank(p) \in {0, 1}
        /\ "GPEDS" \in Banked /\ "main" \in Contexts /\ "irq" \in Contexts
    BY PinsAreNat, PinNumbers, RegistersThere DEF gpio_pin_to_event_register, Banked, Contexts
  <2>2. regs'[reg] # regs[reg]
    BY <2>1
  <2>3. EventCleared
    <3>1. ~ (UNCHANGED gpio \/ BeginsCall)
      BY <2>2, BeginningKeeps DEF gpio
    <3>2. ASSUME NEW n \in {"GPFSEL"} \cup Banked, NEW b, NEW w, regs' = [regs EXCEPT ![<<n, b>>] = w]
          PROVE  n = "GPEDS"
      BY <3>2, <2>1, <2>2, OtherRegisters
    <3>3. ~ FunctionSet
      BY <3>2 DEF FunctionSet, gpio_pin_to_function_register
    <3>4. ~ LevelWritten("irq") /\ ~ LevelWritten("main")
      BY <3>2 DEF LevelWritten, Banked
    <3>5. ~ EdgeWatched
      BY <3>2 DEF EdgeWatched, Banked
    <3>6. ~ PullStep
      BY <3>2, <2>2 DEF PullStep, PullCall, PullClock, PullRemove, PullDone, HwWritten, gpio_pin_to_udclock_register, Banked
    <3>7. \A q \in Pins : ~ Edge(q)
      BY <2>1 DEF Edge, Registered
    <3>. QED
      BY <3>1, <3>3, <3>4, <3>5, <3>6, <3>7, Returns DEF GpioNext
  <2>4. /\ op["main"].fn = "clear_event" /\ op["main"].pin \in Pins
        /\ regs' = [regs EXCEPT ![<<"GPEDS", Bank(op["main"].pin)>>] = @ \ {op["main"].pin % 32}]
    BY <2>3 DEF EventCleared, Started
  <2>5. Bank(op["main"].pin) = Bank(p) /\ op["main"].pin % 32 = p % 32
    BY <2>1, <2>4 DEF Registered
  <2>. QED
    BY <2>4, <2>5, OwnBit
<1>. QED
  BY <1>1, <1>2, <1>3, PTL DEF Spec, EventsKept
-----------------------------------------------------------------------------
(* The type invariant, the vectors and the handlers.                       *)
Flags == basicOn \in BOOLEAN /\ gpuOn \in BOOLEAN /\ timerOn \in BOOLEAN /\ gpuPend \in BOOLEAN

LEMMA InitFlags == Init => Flags
BY DEF Init, Flags

LEMMA NextFlags == Flags /\ [Next]_vars => Flags'
<1> SUFFICES ASSUME Flags, [Next]_vars PROVE Flags'
  OBVIOUS
<1>1. Expire \/ Pass \/ TakeInterrupt \/ UsePins \/ PinEdge \/ SetHandlers \/ RunThreads \/ UNCHANGED vars
        => UNCHANGED <<basicOn, gpuOn, timerOn, gpuPend>>
  BY DEF Expire, Pass, TakeInterrupt, UsePins, PinEdge, SetHandlers, RunThreads, vars, device
<1>2. Handler => UNCHANGED <<basicOn, gpuOn, timerOn, gpuPend>>
  BY DEF Handler, ReturnFromInterrupt, Pending, ClearAndCount, ClearThen, CountThen, ReadClock, SetPeriod,
         LedWrite, LedClear, device
<1>3. Install \/ SetUpPins \/ EnableInterrupts \/ CountedEnough \/ InitMask \/ Part0 \/ StartWait \/ StillWaiting
        \/ EndWait => UNCHANGED <<basicOn, gpuOn, timerOn, gpuPend>>
  BY DEF Install, InstallTo, SetUpPins, EnableInterrupts, CountedEnough, InitMask, Part0, StartWait, StillWaiting,
         EndWait, device
<1>4. GpuAsks \/ DisableGpu \/ EnableBasic \/ EnableTimer \/ InitGpuOff => Flags'
  BY DEF GpuAsks, DisableGpu, EnableBasic, EnableTimer, InitGpuOff, Flags
<1>5. UNCHANGED <<basicOn, gpuOn, timerOn, gpuPend>> => Flags'
  BY DEF Flags
<1>. QED
  BY <1>1, <1>2, <1>3, <1>4, <1>5 DEF Next, MainProgram

ProgramInv == Placed /\ Handled /\ Timed /\ Registered /\ Flags

LEMMA InitProgram == Init => ProgramInv
BY InitPlaced, InitHandled, InitTimed, InitRegistered, InitFlags DEF ProgramInv

LEMMA NextProgram == ProgramInv /\ [Next]_vars => ProgramInv'
BY NextPlaced, NextHandled, NextTimed, NextRegistered, NextFlags DEF ProgramInv

LEMMA ProgramTypes == ProgramInv => TypeOK
<1> SUFFICES ASSUME ProgramInv PROVE TypeOK
  OBVIOUS
<1>1. regs \in [Registers -> SUBSET Bits] /\ pud \in PUD /\ pull \in [PullPins -> PUD]
  BY DEF ProgramInv, Registered
<1>2. masked \in BOOLEAN /\ copied \in 0 .. TableWords /\ wild \in BOOLEAN
  BY DEF ProgramInv, Placed, Guarded, Lost
<1>3. /\ pend \in BOOLEAN /\ owed \in BOOLEAN /\ missed \in BOOLEAN /\ polled \in BOOLEAN /\ cnt \in 0 .. Goal
      /\ tw \in [usec : Clock, trigger_value : Clock, rollover : BOOLEAN]
      /\ gap \in 0 .. ClockMod /\ waited \in 0 .. ClockMod /\ lasted \in -1 .. ClockMod
  BY DEF ProgramInv, Timed, Clocks
<1>4. {clk, clkRead, last_clk, period, us, rb} \subseteq Clock
  BY DEF ProgramInv, Timed, Clocks
<1>5. basicOn \in BOOLEAN /\ gpuOn \in BOOLEAN /\ timerOn \in BOOLEAN /\ gpuPend \in BOOLEAN
  BY DEF ProgramInv, Flags
<1>. QED
  BY <1>1, <1>2, <1>3, <1>4, <1>5 DEF TypeOK

\* No interrupt is taken through a vector that is not in place, save one of the GPU's in
\* lab 15 before int_init() turns them off; and in lab 15 the vectors are the words that
\* int_set_handler() accepted, whatever a client sets and when, and a system call that
\* comes back has handle_swi()'s answer (timer.c:49-60, interrupts-c.c:44-77,
\* driver.c:107-149).
THEOREM VectorsAlwaysInPlace == Spec => []VectorsInPlace
<1>1. ProgramInv => VectorsInPlace
  BY ProgramTypes DEF ProgramInv, Placed, Lost, Handled, InForce, Answered, VectorsInPlace
<1>. QED
  BY <1>1, InitProgram, NextProgram, PTL DEF Spec

\* Lab 9's threads keep their promises among the programs of the Pi as they do alone: a
\* thread is in one place, and none is lost or run twice (Q.h:26-48, rpi-thread.c:15-22, 84).
THEOREM ThreadsOfProgramsSound == Spec => []ThreadsSound
<1>1. Init => Accounts
  BY InitAccounts DEF Init
<1>2. [Next]_vars => [ThreadsNext]_threads
  <2>1. Expire \/ GpuAsks \/ Pass \/ TakeInterrupt \/ UsePins \/ PinEdge \/ SetHandlers \/ UNCHANGED vars
          => UNCHANGED threads
    BY DEF Expire, GpuAsks, Pass, TakeInterrupt, UsePins, PinEdge, SetHandlers, vars, world, others
  <2>2. Handler => UNCHANGED threads
    BY DEF Handler, ReturnFromInterrupt, Pending, ClearAndCount, ClearThen, CountThen, ReadClock, SetPeriod,
           LedWrite, LedClear, world, others
  <2>3. MainProgram => UNCHANGED threads
    BY DEF MainProgram, Install, InstallTo, DisableGpu, EnableBasic, EnableTimer, SetUpPins, EnableInterrupts,
           CountedEnough, InitGpuOff, InitMask, Part0, StartWait, StillWaiting, EndWait, world, others
  <2>4. RunThreads => ThreadsNext
    BY DEF RunThreads
  <2>. QED
    BY <2>1, <2>2, <2>3, <2>4 DEF Next
<1>3. Accounts /\ [Next]_vars => Accounts'
  BY <1>2, NextAccounts
<1>. QED
  BY <1>1, <1>3, AccountsSound, PTL DEF Spec
=============================================================================
