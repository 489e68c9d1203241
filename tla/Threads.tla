------------------------------- MODULE Threads -------------------------------
(***************************************************************************)
(* The cooperative threads of labs/lab9-threads/code: the linked queues of *)
(* Q.h, the threads that rpi-thread.c keeps in them, and part2() of        *)
(* thread-test.c, which forks threads and runs them.  The lab leaves       *)
(* rpi_yield(), rpi_exit() and the switch of rpi_thread_start() to its     *)
(* reader: they are external, and do what their callers rely on.           *)
(***************************************************************************)
EXTENDS Integers, Sequences, FiniteSets

CONSTANTS
  Forks,        (* threads that part2() forks: 30                          *)
  MaxYields,    (* a thread yields at most so often; thread_code(): 8      *)
  Rounds,       (* part2() is called so often: 20                          *)
  MaxThreads    (* bound: threads for which there is memory                *)

ASSUME ThreadsAssumption ==
  Forks \in Nat \ {0} /\ MaxYields \in Nat /\ Rounds \in Nat \ {0} /\ MaxThreads \in Nat

Null == 0
Thread == 1 .. MaxThreads
Queues == {"runq", "freeq"}

VARIABLES
  mem,          (* head and tail of each queue, next of each thread        *)
  queued,       (* history: what each queue should hold                    *)
  made,         (* threads that came from kmalloc()                        *)
  cur_thread,   (* the one that runs, Null in the client's code            *)
  schedulers,   (* the threads that were scheduler_thread                  *)
  fresh,        (* threads that have not run yet                           *)
  forked,       (* threads forked in this round                            *)
  yields,       (* times each thread is still to yield                     *)
  thread_count, (* of thread-test.c                                        *)
  round         (* calls of part2() that are over                          *)

threads == <<mem, queued, made, cur_thread, schedulers, fresh, forked, yields,
             thread_count, round>>

-----------------------------------------------------------------------------
(***************************************************************************)
(* Q.h.                                                                    *)
(***************************************************************************)
Empty(m, q) == m.head[q] = Null

\* Q_pop() of a queue that is not empty; the thread keeps its next
Q_pop(m, q) ==
  LET h == m.next[m.head[q]]
  IN  [head |-> [m.head EXCEPT ![q] = h],
       tail |-> [m.tail EXCEPT ![q] = IF h = Null THEN Null ELSE m.tail[q]],
       next |-> m.next]

Linked(m, q, e, nxt) ==
  [head |-> [m.head EXCEPT ![q] = IF m.tail[q] = Null THEN e ELSE m.head[q]],
   tail |-> [m.tail EXCEPT ![q] = e],
   next |-> [t \in Thread |-> IF t = m.tail[q] THEN e ELSE nxt[t]]]
Q_append_stale(m, q, e) == Linked(m, q, e, m.next)
Q_append(m, q, e) == Linked(m, q, e, [m.next EXCEPT ![e] = Null])

-----------------------------------------------------------------------------
(***************************************************************************)
(* rpi-thread.c and its client.                                            *)
(***************************************************************************)
\* what a queue should hold after either operation
Popped(Q, q) == [Q EXCEPT ![q] = Tail(@)]
Appended(Q, q, e) == [Q EXCEPT ![q] = Append(@, e)]

\* mk_thread(): a freed thread, or a new one
New == IF Empty(mem, "freeq") THEN made + 1 ELSE mem.head["freeq"]
mk_thread ==
  /\ New \in Thread
  /\ made' = IF Empty(mem, "freeq") THEN made + 1 ELSE made
memNew == IF Empty(mem, "freeq") THEN mem ELSE Q_pop(mem, "freeq")
queuedNew == IF Empty(mem, "freeq") THEN queued ELSE Popped(queued, "freeq")

\* thread_code() yields eight times
Yields == 0 .. MaxYields

rpi_fork ==
  /\ cur_thread = Null /\ round < Rounds /\ forked < Forks
  /\ mk_thread
  /\ mem' = Q_append(memNew, "runq", New)
  /\ queued' = Appended(queuedNew, "runq", New)
  /\ fresh' = fresh \cup {New}
  /\ \E n \in Yields : yields' = [yields EXCEPT ![New] = n]
  /\ forked' = forked + 1
  /\ thread_count' = IF forked = 0 THEN 0 ELSE thread_count
  /\ UNCHANGED <<cur_thread, schedulers, round>>

\* thread_code() begins with thread_count++
SwitchTo(t) ==
  /\ cur_thread' = t
  /\ thread_count' = IF t \in fresh THEN thread_count + 1 ELSE thread_count
  /\ fresh' = fresh \ {t}

\* rpi_thread_start(): a thread for itself, and the switch to the first
rpi_thread_start ==
  /\ cur_thread = Null /\ forked = Forks
  /\ mk_thread
  /\ schedulers' = schedulers \cup {New}
  /\ mem' = Q_pop(memNew, "runq")
  /\ queued' = Popped(queuedNew, "runq")
  /\ SwitchTo(mem.head["runq"])
  /\ UNCHANGED <<forked, yields, round>>

\* rpi_yield(): nothing to do when no other can run
rpi_yield ==
  /\ cur_thread # Null /\ yields[cur_thread] > 0
  /\ yields' = [yields EXCEPT ![cur_thread] = @ - 1]
  /\ \/ /\ Empty(mem, "runq")
        /\ UNCHANGED <<mem, queued, cur_thread, thread_count, fresh>>
     \/ /\ ~ Empty(mem, "runq")
        /\ mem' = Q_append(Q_pop(mem, "runq"), "runq", cur_thread)
        /\ queued' = Appended(Popped(queued, "runq"), "runq", cur_thread)
        /\ SwitchTo(mem.head["runq"])
  /\ UNCHANGED <<made, schedulers, forked, round>>

\* rpi_exit(): the thread is freed; the next one runs, or part2() is over
rpi_exit ==
  /\ cur_thread # Null /\ yields[cur_thread] = 0
  /\ LET freed == Q_append(mem, "freeq", cur_thread)
         all   == Appended(queued, "freeq", cur_thread)
     IN  \/ /\ Empty(mem, "runq")
            /\ mem' = freed /\ queued' = all
            /\ cur_thread' = Null /\ forked' = 0 /\ round' = round + 1
            /\ UNCHANGED <<thread_count, fresh>>
         \/ /\ ~ Empty(mem, "runq")
            /\ mem' = Q_pop(freed, "runq") /\ queued' = Popped(all, "runq")
            /\ SwitchTo(mem.head["runq"])
            /\ UNCHANGED <<forked, round>>
  /\ UNCHANGED <<made, schedulers, yields>>

ThreadsInit ==
  /\ mem = [head |-> [q \in Queues |-> Null], tail |-> [q \in Queues |-> Null],
            next |-> [t \in Thread |-> Null]]
  /\ queued = [q \in Queues |-> <<>>]
  /\ made = 0 /\ cur_thread = Null /\ schedulers = {} /\ fresh = {}
  /\ forked = 0 /\ yields = [t \in Thread |-> 0] /\ thread_count = 0 /\ round = 0

ThreadsNext == rpi_fork \/ rpi_thread_start \/ rpi_yield \/ rpi_exit

ThreadsSpec == ThreadsInit /\ [][ThreadsNext]_threads

-----------------------------------------------------------------------------
(***************************************************************************)
(* Properties.                                                             *)
(***************************************************************************)
\* The linked list m.head[q] .. m.tail[q] is the sequence s.
Holds(m, q, s) ==
  IF s = <<>> THEN m.head[q] = Null /\ m.tail[q] = Null
  ELSE /\ m.head[q] = s[1] /\ m.tail[q] = s[Len(s)]
       /\ \A i \in 1 .. Len(s) - 1 : m.next[s[i]] = s[i + 1]
       /\ m.next[s[Len(s)]] = Null

\* Every queue holds what was appended and not popped yet, in that order and
\* nothing else, though Q_pop() leaves each thread's next as it was and threads go
\* from queue to queue (Q.h:26-48).
QueuesHold == \A q \in Queues : Holds(mem, q, queued[q])

Places(t) ==
  {p \in Queues \X Thread : p[2] \in DOMAIN queued[p[1]] /\ queued[p[1]][p[2]] = t}

\* A thread that was made is in one queue, once, or runs, or was a scheduler's:
\* none runs twice, and none but the schedulers', one each time, is lost
\* (rpi-thread.c:15-22, 84).
ThreadsAccounted ==
  \A t \in 1 .. made :
    Cardinality(Places(t)) + (IF t = cur_thread THEN 1 ELSE 0)
      + (IF t \in schedulers THEN 1 ELSE 0) = 1

\* part2() counts every thread it forked (thread-test.c:94).
AllCounted == round > 0 /\ forked = 0 => thread_count = Forks

ThreadsSound == QueuesHold /\ ThreadsAccounted /\ AllCounted
=============================================================================
