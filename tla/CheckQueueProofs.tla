-------------------------- MODULE CheckQueueProofs --------------------------
(***************************************************************************)
(* The safety properties of CheckQueue for every number of workers, batch  *)
(* size, number of blocks and of checks: the counters are exact, Complete()*)
(* returns an error if and only if a check of its block fails, and no      *)
(* check is left behind.                                                   *)
(***************************************************************************)
EXTENDS CheckQueue, FiniteSetTheorems, TLAPS

USE SMTT(30)

Busy == {"work", "enter"}
Asleep == {"wait", "woken"}
Stopping == {"stop", "join", "destroyed"}
Results == 0 .. MaxBlocks

-----------------------------------------------------------------------------
(* The inductive invariant *)

TypeInv ==
  /\ pc \in [Threads -> {"out", "enter", "wait", "woken", "work"}]
  /\ nNow \in [Threads -> 0 .. BatchSize] /\ do_work \in [Threads -> BOOLEAN]
  /\ local_result \in [Threads -> Results] /\ vChecks \in [Threads -> Seq(Results)]
  /\ queue \in Seq(Results) /\ nIdle \in Int /\ nTotal \in Nat /\ nTodo \in Int
  /\ m_result \in Results /\ m_request_stop \in BOOLEAN
  /\ control \in {"none", "adding", "notify_one", "notify_all", "complete"} \cup Stopping
  /\ block \in Results /\ added \in 0 .. MaxChecks /\ failing \in BOOLEAN
  /\ answer \in Results

\* Where the master is, and what is left to do between two blocks: nothing.
MasterInv ==
  /\ control = "complete" <=> pc[Master] # "out"
  /\ pc[Master] = "out" => nNow[Master] = 0
  /\ pc[Master] \in {"wait", "woken", "work"} \/ nNow[Master] > 0 => nTotal >= 1
  /\ m_request_stop <=> control \in Stopping
  /\ control \in Stopping \cup {"none"} => nTodo = 0 /\ m_result = None
  /\ nTodo <= added

\* The batch of a thread: it is there while the thread works on it, and it is
\* skipped only after an error is known.
BatchInv ==
  \A t \in Threads :
    IF pc[t] = "work"
    THEN /\ nNow[t] >= 1 /\ Len(vChecks[t]) = nNow[t]
         /\ ~do_work[t] => m_result # None
    ELSE vChecks[t] = <<>>

\* A thread that comes back from its batch.
Back(t) == pc[t] = "enter" /\ nNow[t] > 0

\* r is no error, or an error of the block that is being connected.
Ours(r) == r = None \/ (r = block /\ failing)

\* What is found is an error of this block.  A thread may hold one of an earlier
\* block as long as m_result keeps it from being stored.
SoundInv ==
  /\ Ours(m_result) /\ \A i \in 1 .. Len(queue) : Ours(queue[i])
  /\ \A t \in Threads : \A i \in 1 .. Len(vChecks[t]) : Ours(vChecks[t][i])
  /\ \A t \in Threads : Back(t) => Ours(local_result[t]) \/ m_result # None

\* Whether some check or result of the current block is an error.
ErrorInQueue == \E i \in 1 .. Len(queue) : queue[i] # None
ErrorInBatch(t) == pc[t] = "work" /\ \E i \in 1 .. Len(vChecks[t]) : vChecks[t][i] # None
ErrorFound(t) == Back(t) /\ local_result[t] # None

\* An error is not lost on its way from the queue to m_result.
FoundInv ==
  failing /\ control \notin Stopping \cup {"none"} =>
    \/ m_result # None \/ ErrorInQueue
    \/ \E t \in Threads : ErrorInBatch(t) \/ ErrorFound(t)

QueueInv ==
  /\ TypeInv /\ Counters /\ MasterInv /\ BatchInv /\ SoundInv /\ FoundInv
  /\ AnswerExact

-----------------------------------------------------------------------------
(* Counting *)

PendingOf(p, n) ==
  {x \in Threads \X (1 .. BatchSize) : p[x[1]] \in Busy /\ x[2] <= n[x[1]]}

IdleOf(p) == {t \in Threads : p[t] \in Asleep}

\* The checks thread t has pending, and whether it is idle.
Own(p, n, t) == IF p[t] \in Busy THEN n[t] ELSE 0
Sleeps(p, t) == IF p[t] \in Asleep THEN 1 ELSE 0

LEMMA ThreadsFinite == IsFiniteSet(Threads)
  BY QueueAssumption, FS_AddElement, Zenon DEF Threads

\* n cells of a thread are n elements.
LEMMA CellsCount ==
  ASSUME NEW t, NEW n \in Nat
  PROVE  IsFiniteSet({t} \X (1 .. n)) /\ Cardinality({t} \X (1 .. n)) = n
<1>1. IsFiniteSet({t}) /\ Cardinality({t}) = 1
  BY FS_Singleton
<1>2. IsFiniteSet(1 .. n) /\ Cardinality(1 .. n) = n
  BY FS_Interval
<1>3. /\ IsFiniteSet({t} \X (1 .. n))
      /\ Cardinality({t} \X (1 .. n)) = Cardinality({t}) * Cardinality(1 .. n)
  BY <1>1, <1>2, FS_Product, Zenon
<1> QED
  BY <1>1, <1>2, <1>3

\* What is pending is what other threads have pending and what t has.
LEMMA PendingSplit ==
  ASSUME NEW p, NEW n \in [Threads -> 0 .. BatchSize], NEW t \in Threads
  PROVE  LET others == {x \in PendingOf(p, n) : x[1] # t}
         IN  /\ IsFiniteSet(others) /\ IsFiniteSet(PendingOf(p, n))
             /\ Cardinality(PendingOf(p, n)) = Cardinality(others) + Own(p, n, t)
<1> DEFINE others == {x \in PendingOf(p, n) : x[1] # t}
           own == {t} \X (1 .. Own(p, n, t))
<1>1. n[t] \in Nat /\ n[t] <= BatchSize /\ Own(p, n, t) \in Nat /\ BatchSize \in Nat
  BY QueueAssumption DEF Own
<1>2. IsFiniteSet(PendingOf(p, n))
  <2>1. IsFiniteSet(Threads \X (1 .. BatchSize))
    <3>1. IsFiniteSet(1 .. BatchSize)
      BY <1>1, FS_Interval
    <3> QED
      BY <3>1, ThreadsFinite, FS_Product, Zenon
  <2>2. PendingOf(p, n) \in SUBSET (Threads \X (1 .. BatchSize))
    BY DEF PendingOf
  <2> QED
    BY <2>1, <2>2, FS_Subset
<1>3. IsFiniteSet(others)
  BY <1>2, FS_Subset
<1>4. PendingOf(p, n) = others \cup own
  <2>1. ASSUME NEW x \in own PROVE x \in PendingOf(p, n)
    BY <1>1 DEF PendingOf, Own
  <2>2. ASSUME NEW x \in PendingOf(p, n), x[1] = t PROVE x \in own
    BY <1>1, <2>2 DEF PendingOf, Own
  <2> QED
    BY <2>1, <2>2
<1>5. others \cap own = {}
  OBVIOUS
<1>6. IsFiniteSet(own) /\ Cardinality(own) = Own(p, n, t)
  BY <1>1, CellsCount, Zenon
<1>7. Cardinality(others \cup own) = Cardinality(others) + Cardinality(own) - 0
  <2> HIDE DEF others, own
  <2> QED
    BY <1>3, <1>5, <1>6, FS_Union, FS_EmptySet
<1>8. Cardinality(others) \in Nat
  BY <1>3, FS_CardinalityType, Zenon
<1>9. Cardinality(PendingOf(p, n)) = Cardinality(others) + Own(p, n, t)
  <2> HIDE DEF others, own
  <2> QED
    BY <1>1, <1>4, <1>6, <1>7, <1>8
<1> QED
  BY <1>2, <1>3, <1>9, Zenon

\* A step of t alone changes the count by what t has pending.
LEMMA PendingChange ==
  ASSUME NEW p, NEW q, NEW m \in [Threads -> 0 .. BatchSize],
         NEW n \in [Threads -> 0 .. BatchSize], NEW t \in Threads,
         \A u \in Threads \ {t} : n[u] = m[u] /\ (p[u] \in Busy <=> q[u] \in Busy)
  PROVE  /\ Cardinality(PendingOf(p, m)) \in Nat /\ Cardinality(PendingOf(q, n)) \in Nat
         /\ Cardinality(PendingOf(q, n)) =
              Cardinality(PendingOf(p, m)) - Own(p, m, t) + Own(q, n, t)
<1> DEFINE others == {x \in PendingOf(p, m) : x[1] # t}
<1>1. others = {x \in PendingOf(q, n) : x[1] # t}
  BY DEF PendingOf
<1>2. Own(p, m, t) \in Nat /\ Own(q, n, t) \in Nat
  BY QueueAssumption DEF Own
<1>3. /\ IsFiniteSet(others) /\ Cardinality(PendingOf(p, m)) = Cardinality(others) + Own(p, m, t)
      /\ Cardinality(PendingOf(q, n)) = Cardinality(others) + Own(q, n, t)
  BY <1>1, PendingSplit
<1>4. Cardinality(others) \in Nat
  BY <1>3, FS_CardinalityType
<1> QED
  BY <1>2, <1>3, <1>4

\* If all that is pending is t's, the other threads have nothing.
LEMMA PendingAlone ==
  ASSUME NEW p, NEW n \in [Threads -> 0 .. BatchSize], NEW t \in Threads,
         Cardinality(PendingOf(p, n)) <= Own(p, n, t)
  PROVE  \A u \in Threads \ {t} : Own(p, n, u) = 0
<1> DEFINE others == {x \in PendingOf(p, n) : x[1] # t}
<1>1. IsFiniteSet(others) /\ Cardinality(others) = 0
  <2>1. /\ IsFiniteSet(others)
        /\ Cardinality(PendingOf(p, n)) = Cardinality(others) + Own(p, n, t)
    BY PendingSplit
  <2>2. Cardinality(others) \in Nat /\ Own(p, n, t) \in Nat
    BY <2>1, FS_CardinalityType, QueueAssumption DEF Own
  <2> QED
    BY <2>1, <2>2
<1>2. others = {}
  BY <1>1, FS_EmptySet
<1> SUFFICES ASSUME NEW u \in Threads \ {t}, Own(p, n, u) # 0 PROVE FALSE
  OBVIOUS
<1>3. <<u, 1>> \in others
  BY QueueAssumption DEF PendingOf, Own
<1> QED
  BY <1>2, <1>3

\* The same for the idle threads.
LEMMA IdleChange ==
  ASSUME NEW p, NEW q, NEW t \in Threads,
         \A u \in Threads \ {t} : p[u] \in Asleep <=> q[u] \in Asleep
  PROVE  /\ Cardinality(IdleOf(p)) \in Nat
         /\ Cardinality(IdleOf(q)) = Cardinality(IdleOf(p)) - Sleeps(p, t) + Sleeps(q, t)
         /\ Cardinality(IdleOf(p)) >= Sleeps(p, t)
<1>1. IsFiniteSet(IdleOf(p)) /\ IsFiniteSet(IdleOf(q))
  BY ThreadsFinite, FS_Subset DEF IdleOf
<1> DEFINE others == IdleOf(p) \ {t}
<1>2. /\ IsFiniteSet(others)
      /\ Cardinality(others) = Cardinality(IdleOf(p)) - Sleeps(p, t)
  <2>1. /\ IsFiniteSet(others)
        /\ Cardinality(others) =
             IF t \in IdleOf(p) THEN Cardinality(IdleOf(p)) - 1 ELSE Cardinality(IdleOf(p))
    BY <1>1, FS_RemoveElement, Zenon
  <2>2. Cardinality(IdleOf(p)) \in Nat
    BY <1>1, FS_CardinalityType
  <2> QED
    BY <2>1, <2>2 DEF Sleeps, IdleOf
<1>3. others = IdleOf(q) \ {t}
  BY DEF IdleOf
<1>4. Cardinality(others) = Cardinality(IdleOf(q)) - Sleeps(q, t)
  <2>1. Cardinality(others) =
          IF t \in IdleOf(q) THEN Cardinality(IdleOf(q)) - 1 ELSE Cardinality(IdleOf(q))
    BY <1>1, <1>3, FS_RemoveElement, Zenon
  <2>2. Cardinality(IdleOf(q)) \in Nat
    BY <1>1, FS_CardinalityType, Zenon
  <2> QED
    BY <2>1, <2>2 DEF Sleeps, IdleOf
<1>5. /\ Cardinality(IdleOf(p)) \in Nat /\ Cardinality(IdleOf(q)) \in Nat
      /\ Cardinality(others) \in Nat
  BY <1>1, <1>2, FS_CardinalityType, Zenon
<1>6. Sleeps(p, t) \in Nat /\ Sleeps(q, t) \in Nat
  BY DEF Sleeps
<1> QED
  BY <1>2, <1>4, <1>5, <1>6

-----------------------------------------------------------------------------
(* A critical section of Loop() *)

\* What holds of the clean-up c and of the idle count at the end of
\* the waiting loop, whether t comes from a batch or from cond.wait().
Good(t, c, idle) ==
  /\ pc[t] \in {"enter", "woken"}
  /\ c.todo = nTodo - Own(pc, nNow, t)
  /\ idle = nIdle - Sleeps(pc, t)
  /\ c.total \in Nat /\ c.total >= nTotal /\ (t = Master => c.total >= 1)
  /\ c.swap <=> ErrorFound(t) /\ m_result = None
  /\ c.wake => t # Master

\* The counters in terms of the functions above.
LEMMA CountersOf ==
  Counters <=> /\ nIdle = Cardinality(IdleOf(pc))
               /\ nTodo = Len(queue) + Cardinality(PendingOf(pc, nNow))
  BY DEF Counters, Idle, Pending, IdleOf, PendingOf, Busy, Asleep

\* No thread has more pending than all, and none sleeps that is not counted.
LEMMA OwnBound ==
  ASSUME QueueInv, NEW t \in Threads
  PROVE  /\ Own(pc, nNow, t) \in Nat /\ Len(queue) \in Nat
         /\ Own(pc, nNow, t) + Len(queue) <= nTodo
         /\ Sleeps(pc, t) <= nIdle
<1>1. Len(queue) \in Nat /\ nNow \in [Threads -> 0 .. BatchSize]
  BY DEF QueueInv, TypeInv
<1>2. Own(pc, nNow, t) \in Nat
  BY <1>1, QueueAssumption DEF Own
<1>3. Cardinality(PendingOf(pc, nNow)) >= Own(pc, nNow, t)
  <2> DEFINE others == {x \in PendingOf(pc, nNow) : x[1] # t}
  <2>1. /\ IsFiniteSet(others)
        /\ Cardinality(PendingOf(pc, nNow)) = Cardinality(others) + Own(pc, nNow, t)
    BY <1>1, PendingSplit, Zenon
  <2>2. Cardinality(others) \in Nat
    BY <2>1, FS_CardinalityType
  <2> QED
    BY <2>1, <2>2, <1>2
<1>4. Cardinality(PendingOf(pc, nNow)) \in Nat
  BY <1>1, PendingChange
<1>5. Cardinality(IdleOf(pc)) >= Sleeps(pc, t)
  BY IdleChange
<1> QED
  BY <1>1, <1>2, <1>3, <1>4, <1>5, CountersOf DEF QueueInv

LEMMA SectionGood ==
  ASSUME QueueInv, NEW t \in Threads
  PROVE  /\ pc[t] = "enter" => Good(t, CleanUp(t), nIdle)
         /\ pc[t] = "woken" => Good(t, Woken(t), nIdle - 1)
<1>1. nTotal \in Nat /\ nNow[t] \in Nat /\ nIdle \in Int /\ nTodo \in Int
  BY QueueAssumption DEF QueueInv, TypeInv
<1>2. t = Master /\ (nNow[t] > 0 \/ pc[t] = "woken") => nTotal >= 1
  BY DEF QueueInv, MasterInv
<1>3. ASSUME pc[t] = "enter" PROVE Good(t, CleanUp(t), nIdle)
  <2>1. /\ CleanUp(t).todo = nTodo - nNow[t]
        /\ CleanUp(t).total = nTotal + (IF nNow[t] > 0 THEN 0 ELSE 1)
    BY DEF CleanUp
  <2>2. /\ CleanUp(t).swap <=> nNow[t] > 0 /\ local_result[t] # None /\ m_result = None
        /\ CleanUp(t).wake => t # Master
    BY Zenon DEF CleanUp
  <2>3. Own(pc, nNow, t) = nNow[t] /\ Sleeps(pc, t) = 0
    BY <1>3 DEF Own, Sleeps, Busy, Asleep
  <2>4. /\ CleanUp(t).total \in Nat /\ CleanUp(t).total >= nTotal
        /\ t = Master => CleanUp(t).total >= 1
    BY <1>1, <1>2, <2>1
  <2>5. CleanUp(t).swap <=> ErrorFound(t) /\ m_result = None
    BY <1>3, <2>2, Zenon DEF ErrorFound, Back
  <2>6. CleanUp(t).todo = nTodo - Own(pc, nNow, t) /\ nIdle = nIdle - Sleeps(pc, t)
    BY <1>1, <2>1, <2>3
  <2> HIDE DEF CleanUp
  <2> QED
    BY <1>3, <2>2, <2>4, <2>5, <2>6, Zenon DEF Good
<1>4. ASSUME pc[t] = "woken" PROVE Good(t, Woken(t), nIdle - 1)
  BY <1>1, <1>2, <1>4 DEF Good, Woken, Own, Sleeps, Busy, Asleep, ErrorFound, Back
<1> QED
  BY <1>3, <1>4

\* Leaving the critical section: another thread is only ever woken.
Woke(t, place) ==
  /\ pc' \in [Threads -> {"out", "enter", "wait", "woken", "work"}]
  /\ pc'[t] = place
  /\ \A u \in Threads \ {t} : pc'[u] = pc[u] \/ (pc[u] = "wait" /\ pc'[u] = "woken")

LEMMA LeaveWakes ==
  ASSUME TypeInv, NEW t \in Threads, NEW c, c.wake => t # Master,
         NEW place \in {"out", "wait", "work"}, Leave(t, c, place)
  PROVE  Woke(t, place)
<1> DEFINE from == [pc EXCEPT ![t] = place]
<1>1. /\ from \in [Threads -> {"out", "enter", "wait", "woken", "work"}]
      /\ from[t] = place /\ \A u \in Threads \ {t} : from[u] = pc[u]
  BY DEF TypeInv
<1>2. CASE pc' = from
  BY <1>1, <1>2 DEF Woke
<1>3. CASE c.wake /\ pc[Master] = "wait" /\ pc' = [from EXCEPT ![Master] = "woken"]
  <2> HIDE DEF from
  <2>1. Master \in Threads /\ t # Master
    BY <1>3 DEF Threads
  <2> QED
    BY <1>1, <1>3, <2>1 DEF Woke
<1> QED
  BY <1>2, <1>3 DEF Leave, NotifyOne, Waiting

\* The result after the clean-up is this block's, keeps an error that was
\* there, and takes over the one t has found.
LEMMA ResultKept ==
  ASSUME QueueInv, NEW t \in Threads, NEW c, NEW idle, Good(t, c, idle)
  PROVE  /\ ResultAfter(t, c) \in Results /\ Ours(ResultAfter(t, c))
         /\ LocalAfter(t, c) \in [Threads -> Results]
         /\ \A u \in Threads \ {t} : LocalAfter(t, c)[u] = local_result[u]
         /\ m_result # None => ResultAfter(t, c) # None
         /\ ErrorFound(t) => ResultAfter(t, c) # None
         /\ m_result = None /\ Own(pc, nNow, t) = 0 => ResultAfter(t, c) = None
<1>1. local_result \in [Threads -> Results] /\ m_result \in Results
  BY DEF QueueInv, TypeInv
<1>2. CASE c.swap
  <2>1. /\ ResultAfter(t, c) = local_result[t] /\ local_result[t] # None /\ Back(t)
        /\ LocalAfter(t, c) = [local_result EXCEPT ![t] = m_result] /\ m_result = None
    BY <1>2 DEF ResultAfter, LocalAfter, Good, ErrorFound
  <2>2. Ours(local_result[t])
    BY <2>1 DEF QueueInv, SoundInv
  <2>3. Own(pc, nNow, t) # 0
    BY <2>1 DEF Own, Back, Busy
  <2> QED
    BY <1>1, <2>1, <2>2, <2>3
<1>3. CASE ~c.swap
  <2>1. ResultAfter(t, c) = m_result /\ LocalAfter(t, c) = local_result
    BY <1>3 DEF ResultAfter, LocalAfter
  <2>2. ErrorFound(t) => m_result # None
    BY <1>3 DEF Good
  <2>3. Ours(m_result)
    BY DEF QueueInv, SoundInv
  <2> QED
    BY <1>1, <2>1, <2>2, <2>3
<1> QED
  BY <1>2, <1>3

LEMMA PendingMoves ==
  ASSUME NEW t \in Threads, nNow \in [Threads -> 0 .. BatchSize],
         nNow' \in [Threads -> 0 .. BatchSize],
         \A u \in Threads \ {t} : nNow'[u] = nNow[u] /\ (pc[u] \in Busy <=> pc'[u] \in Busy)
  PROVE  /\ Cardinality(PendingOf(pc, nNow)) \in Nat
         /\ Cardinality(PendingOf(pc', nNow')) =
              Cardinality(PendingOf(pc, nNow)) - Own(pc, nNow, t) + Own(pc', nNow', t)
  BY PendingChange

\* The counters stay exact if they change by what t has.
LEMMA CountersNext ==
  ASSUME QueueInv, NEW t \in Threads, NEW place, Woke(t, place),
         nNow' \in [Threads -> 0 .. BatchSize],
         \A u \in Threads \ {t} : nNow'[u] = nNow[u],
         Len(queue') \in Nat,
         nTodo' = nTodo - Own(pc, nNow, t) + Own(pc', nNow', t) - Len(queue) + Len(queue'),
         nIdle' = nIdle - Sleeps(pc, t) + Sleeps(pc', t)
  PROVE  Counters'
<1>1. Len(queue) \in Nat /\ nNow \in [Threads -> 0 .. BatchSize]
  BY DEF QueueInv, TypeInv
<1>2. \A u \in Threads \ {t} : /\ pc[u] \in Busy <=> pc'[u] \in Busy
                               /\ pc[u] \in Asleep <=> pc'[u] \in Asleep
  BY DEF Woke, Busy, Asleep
<1>3. Own(pc, nNow, t) \in Nat /\ Own(pc', nNow', t) \in Nat
  BY <1>1, QueueAssumption DEF Own
<1>4. /\ Cardinality(PendingOf(pc, nNow)) \in Nat
      /\ Cardinality(PendingOf(pc', nNow')) =
           Cardinality(PendingOf(pc, nNow)) - Own(pc, nNow, t) + Own(pc', nNow', t)
  <2>1. \A u \in Threads \ {t} : nNow'[u] = nNow[u] /\ (pc[u] \in Busy <=> pc'[u] \in Busy)
    BY <1>2, Zenon
  <2> QED
    BY <1>1, <2>1, PendingMoves, Zenon
<1>5. /\ Cardinality(IdleOf(pc)) \in Nat
      /\ Cardinality(IdleOf(pc')) = Cardinality(IdleOf(pc)) - Sleeps(pc, t) + Sleeps(pc', t)
  BY <1>2, IdleChange
<1>6. /\ nIdle = Cardinality(IdleOf(pc))
      /\ nTodo = Len(queue) + Cardinality(PendingOf(pc, nNow))
  BY CountersOf DEF QueueInv
<1>7. nTodo' = Len(queue') + Cardinality(PendingOf(pc', nNow'))
  <2>1. PICK a, b, c, x, y \in Int :
          /\ a = Len(queue) /\ b = Len(queue') /\ c = Cardinality(PendingOf(pc, nNow))
          /\ x = Own(pc, nNow, t) /\ y = Own(pc', nNow', t)
    <3>1. /\ Len(queue) \in Int /\ Len(queue') \in Int
          /\ Cardinality(PendingOf(pc, nNow)) \in Int
          /\ Own(pc, nNow, t) \in Int /\ Own(pc', nNow', t) \in Int
      BY <1>1, <1>3, <1>4
    <3> QED
      BY <3>1, Zenon
  <2>2. /\ nTodo' = nTodo - x + y - a + b /\ nTodo = a + c
        /\ Cardinality(PendingOf(pc', nNow')) = c - x + y
    BY <1>4, <1>6, <2>1, Zenon
  <2>3. nTodo' = b + (c - x + y)
    BY <2>2
  <2> QED
    BY <2>1, <2>2, <2>3, Zenon
<1>8. nIdle' = Cardinality(IdleOf(pc'))
  BY <1>5, <1>6
<1> QED
  BY <1>7, <1>8 DEF Counters, Idle, Pending, IdleOf, PendingOf, Busy, Asleep

\* Waiting and leaving are alike for the invariant: t gives up its batch.
LEMMA GiveUpQueue ==
  ASSUME QueueInv, NEW t \in Threads, NEW c, NEW idle, Good(t, c, idle),
         NEW place \in {"wait", "out"}, Woke(t, place),
         place = "out" => t # Master,
         nIdle' = idle + Sleeps(pc', t), nTotal' = c.total, nTodo' = c.todo,
         m_result' = ResultAfter(t, c), local_result' = LocalAfter(t, c),
         UNCHANGED <<nNow, vChecks, do_work, queue, m_request_stop, control, block,
                     added, failing, answer>>
  PROVE  QueueInv'
<1>1. /\ Own(pc, nNow, t) \in Nat /\ Len(queue) \in Nat
      /\ Own(pc, nNow, t) + Len(queue) <= nTodo
      /\ Own(pc', nNow', t) = 0 /\ Sleeps(pc', t) \in {0, 1}
  BY OwnBound, Zenon DEF Woke, Own, Sleeps, Busy
<1>2. /\ m_result' \in Results /\ Ours(m_result')
      /\ local_result' \in [Threads -> Results]
      /\ \A u \in Threads \ {t} : local_result'[u] = local_result[u]
      /\ m_result # None => m_result' # None
      /\ ErrorFound(t) => m_result' # None
      /\ m_result = None /\ Own(pc, nNow, t) = 0 => m_result' = None
  BY ResultKept
<1>3. pc[t] \in {"enter", "woken"} /\ vChecks[t] = <<>>
  BY Zenon DEF Good, QueueInv, BatchInv
<1>4. /\ pc'[t] = place
      /\ \A u \in Threads \ {t} : pc'[u] = pc[u] \/ (pc[u] = "wait" /\ pc'[u] = "woken")
  BY DEF Woke
<1>5. TypeInv'
  BY <1>1, <1>2 DEF QueueInv, TypeInv, Good, Woke, Sleeps
<1>6. Counters'
  <2>1. nTodo \in Int /\ nIdle \in Int /\ nNow' \in [Threads -> 0 .. BatchSize]
    BY Zenon DEF QueueInv, TypeInv
  <2>2. nTodo' = nTodo - Own(pc, nNow, t) /\ nIdle' = nIdle - Sleeps(pc, t) + Sleeps(pc', t)
    BY DEF Good
  <2>3. Sleeps(pc, t) \in Int
    BY DEF Sleeps
  <2> QED
    BY <1>1, <2>1, <2>2, <2>3, CountersNext
<1>7. MasterInv'
  <2>1. Master \in Threads /\ nTodo \in Int /\ added \in Int /\ nTotal \in Nat
    BY DEF Threads, QueueInv, TypeInv
  <2>2. pc'[Master] # "out" <=> pc[Master] # "out"
    BY <1>3, <1>4, <2>1, Zenon
  <2>3. /\ nTodo' = nTodo - Own(pc, nNow, t) /\ nTotal' >= nTotal
        /\ t = Master => nTotal' >= 1 /\ nTotal' \in Nat
    BY Zenon DEF Good
  <2>4. pc'[Master] \in {"wait", "woken", "work"} \/ nNow[Master] > 0 => nTotal' >= 1
    BY <1>4, <2>1, <2>3 DEF QueueInv, MasterInv, Good
  <2>5. control \in Stopping \cup {"none"} => nTodo' = 0 /\ m_result' = None
    BY <1>1, <1>2, <2>1, <2>3 DEF QueueInv, MasterInv
  <2> QED
    BY <1>1, <2>1, <2>2, <2>3, <2>4, <2>5 DEF QueueInv, MasterInv
<1>8. BatchInv'
  BY <1>2, <1>3, <1>4, Zenon DEF QueueInv, BatchInv
<1>9. \A u \in Threads : /\ Back(u)' => u # t /\ Back(u)
                         /\ u # t /\ ErrorInBatch(u) => ErrorInBatch(u)'
                         /\ u # t /\ ErrorFound(u) => ErrorFound(u)'
  BY <1>2, <1>4, Zenon DEF Back, ErrorInBatch, ErrorFound
<1>10. SoundInv'
  <2>1. Ours(m_result)'
    BY <1>2 DEF Ours
  <2>2. ASSUME NEW u \in Threads, Back(u)'
        PROVE  Ours(local_result[u])' \/ m_result' # None
    BY <1>2, <1>9, <2>2, Zenon DEF QueueInv, SoundInv, Ours
  <2> QED
    BY <2>1, <2>2, Zenon DEF QueueInv, SoundInv, Ours
<1>11. FoundInv'
  <2>1. ~ErrorInBatch(t)
    BY <1>3, Zenon DEF ErrorInBatch
  <2> QED
    BY <1>2, <1>9, <2>1, Zenon DEF QueueInv, FoundInv, ErrorInQueue
<1>12. AnswerExact'
  BY DEF QueueInv, AnswerExact
<1> QED
  BY <1>5, <1>6, <1>7, <1>8, <1>10, <1>11, <1>12 DEF QueueInv

LEMMA WaitQueue ==
  ASSUME QueueInv, NEW t \in Threads, NEW c, NEW idle, Good(t, c, idle),
         Wait(t, c, idle)
  PROVE  QueueInv'
<1>1. Woke(t, "wait")
  BY LeaveWakes DEF QueueInv, Good, Wait
<1>2. Sleeps(pc', t) = 1
  BY <1>1 DEF Woke, Sleeps, Asleep
<1> QED
  BY <1>1, <1>2, GiveUpQueue DEF Wait

LEMMA ExitQueue ==
  ASSUME QueueInv, NEW t \in Threads, NEW c, NEW idle, Good(t, c, idle),
         Exit(t, c, idle)
  PROVE  QueueInv'
<1>1. Woke(t, "out")
  BY LeaveWakes DEF QueueInv, Good, Exit
<1>2. idle \in Int
  BY DEF Good, QueueInv, TypeInv, Sleeps
<1>3. nIdle' = idle + Sleeps(pc', t)
  BY <1>1, <1>2 DEF Woke, Sleeps, Asleep, Exit
<1>4. t # Master
  BY Zenon DEF Exit, QueueInv, MasterInv, Good, Stopping
<1> QED
  BY <1>1, <1>3, <1>4, GiveUpQueue, Zenon DEF Exit

\* Complete() returns when nothing is queued and no other thread has a check
\* pending: so no error is on its way, and no thread relies on m_result.
LEMMA ReturnQueue ==
  ASSUME QueueInv, NEW t \in Threads, NEW c, NEW idle, Good(t, c, idle),
         Return(t, c, idle)
  PROVE  QueueInv'
<1>1. /\ t = Master /\ queue = <<>> /\ c.todo = 0
      /\ pc' = [pc EXCEPT ![t] = "out"] /\ nNow' = [nNow EXCEPT ![t] = 0]
      /\ local_result' = [local_result EXCEPT ![t] = None]
      /\ nIdle' = idle /\ nTotal' = c.total - 1 /\ nTodo' = c.todo
      /\ answer' = ResultAfter(t, c) /\ m_result' = None /\ control' = "none"
      /\ UNCHANGED <<vChecks, do_work, queue, m_request_stop, block, added, failing>>
  BY Zenon DEF Return, MustWait, MayReturn
<1>2. /\ ResultAfter(t, c) \in Results /\ Ours(ResultAfter(t, c))
      /\ m_result # None => ResultAfter(t, c) # None
      /\ ErrorFound(t) => ResultAfter(t, c) # None
  BY ResultKept
<1>3. /\ Own(pc, nNow, t) \in Nat /\ Sleeps(pc, t) \in {0, 1}
      /\ nTodo = Own(pc, nNow, t) /\ nTodo \in Int /\ nIdle \in Int
  BY <1>1, OwnBound DEF QueueInv, TypeInv, Good, Sleeps
<1>4. Woke(t, "out") /\ nNow' \in [Threads -> 0 .. BatchSize]
  BY <1>1, QueueAssumption DEF QueueInv, TypeInv, Woke
<1>5. Own(pc', nNow', t) = 0 /\ Sleeps(pc', t) = 0
  BY <1>4 DEF Woke, Own, Sleeps, Busy, Asleep
<1>6. \A u \in Threads \ {t} : Own(pc, nNow, u) = 0
  <2>1. Cardinality(PendingOf(pc, nNow)) <= Own(pc, nNow, t)
    <3>1. nTodo = Len(queue) + Cardinality(PendingOf(pc, nNow))
      BY CountersOf DEF QueueInv
    <3>2. Cardinality(PendingOf(pc, nNow)) \in Nat
      BY PendingChange, Zenon DEF QueueInv, TypeInv
    <3>3. Len(queue) = 0
      BY <1>1
    <3> QED
      BY <1>3, <3>1, <3>2, <3>3
  <2> QED
    BY <2>1, PendingAlone, Zenon DEF QueueInv, TypeInv
<1>7. /\ \A u \in Threads : pc[u] # "work" /\ ~ErrorInBatch(u) /\ vChecks[u] = <<>>
      /\ \A u \in Threads : ErrorFound(u) => u = t
      /\ \A u \in Threads : ~Back(u)'
  <2>1. \A u \in Threads : pc[u] # "work"
    <3>1. ASSUME NEW u \in Threads, u # t, pc[u] = "work" PROVE FALSE
      BY <1>6, <3>1, QueueAssumption DEF QueueInv, BatchInv, TypeInv, Own, Busy
    <3> QED
      BY <3>1 DEF Good
  <2>2. \A u \in Threads : Back(u) => u = t
    BY <1>6 DEF Back, Own, Busy
  <2>3. \A u \in Threads : ~Back(u)'
    BY <1>1, <1>4, <2>2 DEF Back, Woke
  <2> QED
    BY <2>1, <2>2, <2>3, Zenon DEF ErrorInBatch, ErrorFound, QueueInv, BatchInv
<1>8. TypeInv'
  <2>1. None \in Results
    BY QueueAssumption DEF Results, None
  <2>2. nTotal' \in Nat /\ nIdle' \in Int /\ nTodo' \in Int
    BY <1>1, <1>3 DEF Good
  <2>3. local_result' \in [Threads -> Results]
    BY <1>1, <2>1, Zenon DEF QueueInv, TypeInv
  <2> QED
    BY <1>1, <1>2, <1>4, <2>1, <2>2, <2>3, Zenon DEF QueueInv, TypeInv, Woke
<1>9. Counters'
  <2>1. \A u \in Threads \ {t} : nNow'[u] = nNow[u]
    BY <1>1, Zenon DEF QueueInv, TypeInv
  <2>2. Len(queue) = 0 /\ Len(queue') = 0
    BY <1>1
  <2>3. nTodo' = nTodo - Own(pc, nNow, t) /\ nIdle' = nIdle - Sleeps(pc, t)
    BY <1>1 DEF Good
  <2>4. nTodo' = nTodo - Own(pc, nNow, t) + Own(pc', nNow', t) - Len(queue) + Len(queue')
    BY <1>3, <1>5, <2>2, <2>3
  <2>5. nIdle' = nIdle - Sleeps(pc, t) + Sleeps(pc', t)
    BY <1>3, <1>5, <2>3
  <2>6. Len(queue') \in Nat
    BY <2>2
  <2> QED
    BY <1>4, <2>1, <2>4, <2>5, <2>6, CountersNext, Zenon
<1>10. MasterInv'
  <2>1. added \in Nat
    BY DEF QueueInv, TypeInv
  <2>2. ~m_request_stop
    BY <1>1 DEF Return, MustWait
  <2> QED
    BY <1>1, <1>4, <2>1, <2>2, QueueAssumption DEF QueueInv, MasterInv, TypeInv, Woke, Stopping
<1>11. BatchInv'
  BY <1>1, <1>4, <1>7, Zenon DEF BatchInv, Woke
<1>12. SoundInv'
  BY <1>1, <1>7 DEF SoundInv, Ours
<1>13. FoundInv'
  BY <1>1 DEF FoundInv
<1>14. AnswerExact'
  <2>1. control = "complete"
    BY <1>1, Zenon DEF QueueInv, MasterInv, Good
  <2>2. failing => ResultAfter(t, c) # None
    <3>1. ~ErrorInQueue
      BY <1>1 DEF ErrorInQueue
    <3>2. failing => \/ m_result # None
                     \/ \E u \in Threads : ErrorInBatch(u) \/ ErrorFound(u)
      BY <2>1, <3>1 DEF QueueInv, FoundInv, Stopping
    <3> QED
      BY <1>2, <1>7, <3>2, Zenon
  <2>3. answer' = IF failing THEN block ELSE None
    BY <1>1, <1>2, <2>2, Zenon DEF Ours
  <2> QED
    BY <1>1, <2>3 DEF AnswerExact
<1> QED
  BY <1>8, <1>9, <1>10, <1>11, <1>12, <1>13, <1>14 DEF QueueInv

\* A batch is not empty, not larger than nBatchSize, and in the queue.
LEMMA ShareBounds ==
  ASSUME NEW c, NEW idle \in Nat, c.total \in Nat, queue \in Seq(Results), queue # <<>>
  PROVE  /\ Share(c, idle) \in 1 .. BatchSize
         /\ Share(c, idle) <= Len(queue)
<1>1. PICK len \in Nat \ {0} : len = Len(queue)
  OBVIOUS
<1>2. PICK d \in Nat \ {0} : d = c.total + idle + 1
  OBVIOUS
<1>3. PICK fair \in Nat : fair = len \div d /\ fair <= len
  <2>1. PICK q \in Int, r \in 0 .. d - 1 : q = len \div d /\ len = d * q + r
    BY Z3T(30)
  <2>2. q <= -1 => d * q <= -d
    OBVIOUS
  <2>3. q \in Nat
    BY <2>1, <2>2
  <2>4. d * q >= q
    BY <2>3
  <2> QED
    BY <2>1, <2>3, <2>4
<1>4. PICK m \in Nat : m = Min({BatchSize, fair}) /\ m <= BatchSize /\ m <= fair
  BY <1>3, QueueAssumption DEF Min
<1>5. Max({1, m}) \in {1, m} /\ Max({1, m}) >= 1
  <2>1. \E x \in {1, m} : \A y \in {1, m} : x >= y
    BY <1>4
  <2>2. Max({1, m}) \in {1, m} /\ \A y \in {1, m} : Max({1, m}) >= y
    BY <2>1, Zenon DEF Max
  <2> QED
    BY <2>2
<1>6. Share(c, idle) = Max({1, m})
  BY <1>1, <1>2, <1>3, <1>4 DEF Share
<1> QED
  BY <1>1, <1>3, <1>4, <1>5, <1>6, QueueAssumption

\* t takes the end of the queue.  An error stays where it is or comes along.
LEMMA TakeQueue ==
  ASSUME QueueInv, NEW t \in Threads, NEW c, NEW idle, Good(t, c, idle),
         Take(t, c, idle)
  PROVE  QueueInv'
<1> DEFINE n == Share(c, idle)
           rest == Len(queue) - n
<1>1. /\ queue # <<>> /\ ~m_request_stop
      /\ nNow' = [nNow EXCEPT ![t] = n]
      /\ vChecks' = [vChecks EXCEPT ![t] = SubSeq(queue, rest + 1, Len(queue))]
      /\ queue' = SubSeq(queue, 1, rest)
      /\ do_work' = [do_work EXCEPT ![t] = (ResultAfter(t, c) = None)]
      /\ Leave(t, c, "work")
      /\ nIdle' = idle /\ nTotal' = c.total /\ nTodo' = c.todo
      /\ m_result' = ResultAfter(t, c) /\ local_result' = LocalAfter(t, c)
      /\ UNCHANGED <<m_request_stop, control, block, added, failing, answer>>
  BY Zenon DEF Take, MustWait
<1>2. /\ m_result' \in Results /\ Ours(m_result')
      /\ local_result' \in [Threads -> Results]
      /\ \A u \in Threads \ {t} : local_result'[u] = local_result[u]
      /\ m_result # None => m_result' # None
      /\ ErrorFound(t) => m_result' # None
  BY <1>1, ResultKept
<1>3. /\ Own(pc, nNow, t) \in Nat /\ Len(queue) \in Nat /\ Sleeps(pc, t) \in {0, 1}
      /\ Own(pc, nNow, t) + Len(queue) <= nTodo
      /\ nTodo \in Int /\ nIdle \in Int /\ idle \in Nat
      /\ queue \in Seq(Results) /\ nNow \in [Threads -> 0 .. BatchSize]
  <2>1. Own(pc, nNow, t) + Len(queue) <= nTodo /\ Sleeps(pc, t) <= nIdle
    BY OwnBound
  <2>2. Own(pc, nNow, t) \in Nat /\ Len(queue) \in Nat
    BY OwnBound, Zenon
  <2>3. Sleeps(pc, t) \in {0, 1}
    BY DEF Sleeps
  <2>4. /\ nTodo \in Int /\ nIdle \in Int
        /\ queue \in Seq(Results) /\ nNow \in [Threads -> 0 .. BatchSize]
    BY Zenon DEF QueueInv, TypeInv
  <2>5. idle = nIdle - Sleeps(pc, t)
    BY DEF Good
  <2> QED
    BY <2>1, <2>2, <2>3, <2>4, <2>5
<1>4. n \in 1 .. BatchSize /\ n <= Len(queue)
  BY <1>1, <1>3, ShareBounds, Zenon DEF Good
<1>5. Woke(t, "work")
  BY <1>1, LeaveWakes, Zenon DEF QueueInv, Good
<1> HIDE DEF n
<1>6. /\ nNow' \in [Threads -> 0 .. BatchSize] /\ nNow'[t] = n
      /\ \A u \in Threads \ {t} : nNow'[u] = nNow[u]
  BY <1>1, <1>3, <1>4, QueueAssumption
<1>7. /\ queue' \in Seq(Results) /\ Len(queue') = rest
      /\ \A i \in 1 .. rest : queue'[i] = queue[i]
  BY <1>1, <1>3, <1>4
<1>8. /\ SubSeq(queue, rest + 1, Len(queue)) \in Seq(Results)
      /\ Len(SubSeq(queue, rest + 1, Len(queue))) = n
      /\ \A i \in 1 .. n : SubSeq(queue, rest + 1, Len(queue))[i] = queue[rest + i]
  <2>1. n \in Nat /\ n >= 1
    BY <1>4, QueueAssumption
  <2>2. rest \in Nat /\ rest < Len(queue) /\ Len(queue) - rest = n
    BY <1>3, <1>4, <2>1
  <2> HIDE DEF rest
  <2>3. /\ SubSeq(queue, rest + 1, Len(queue)) \in Seq(Results)
        /\ Len(SubSeq(queue, rest + 1, Len(queue))) = Len(queue) - rest
    BY <1>3, <2>2
  <2>4. \A i \in 1 .. Len(queue) - rest :
          SubSeq(queue, rest + 1, Len(queue))[i] = queue[rest + i]
    BY <1>3, <2>2
  <2> QED
    BY <2>2, <2>3, <2>4, Zenon
<1>9. /\ vChecks' \in [Threads -> Seq(Results)] /\ Len(vChecks'[t]) = n
      /\ \A i \in 1 .. n : vChecks'[t][i] = queue[rest + i]
      /\ \A u \in Threads \ {t} : vChecks'[u] = vChecks[u]
  BY <1>1, <1>8, Zenon DEF QueueInv, TypeInv
<1>10. /\ pc'[t] = "work"
       /\ \A u \in Threads \ {t} : pc'[u] = pc[u] \/ (pc[u] = "wait" /\ pc'[u] = "woken")
       /\ do_work' \in [Threads -> BOOLEAN] /\ (do_work'[t] <=> m_result' = None)
       /\ \A u \in Threads \ {t} : do_work'[u] = do_work[u]
  BY <1>1, <1>5, Zenon DEF Woke, QueueInv, TypeInv
<1>11. pc[t] \in {"enter", "woken"} /\ vChecks[t] = <<>>
  BY Zenon DEF Good, QueueInv, BatchInv
<1>12. nTodo' = nTodo - Own(pc, nNow, t) /\ nIdle' = nIdle - Sleeps(pc, t)
       /\ nTotal' \in Nat /\ nTotal' >= nTotal /\ (t = Master => nTotal' >= 1)
  BY <1>1, Zenon DEF Good
<1>13. TypeInv'
  <2>1. nTodo' \in Int /\ nIdle' \in Int
    BY <1>3, <1>12
  <2> QED
    BY <1>1, <1>2, <1>5, <1>6, <1>7, <1>9, <1>10, <1>12, <2>1, Zenon
    DEF QueueInv, TypeInv, Woke
<1>14. Counters'
  <2>1. Own(pc', nNow', t) = n /\ Sleeps(pc', t) = 0
    BY <1>6, <1>10, Zenon DEF Own, Sleeps, Busy, Asleep
  <2>2. nTodo' = nTodo - Own(pc, nNow, t) + Own(pc', nNow', t) - Len(queue) + Len(queue')
    BY <1>3, <1>4, <1>7, <1>12, <2>1
  <2>3. nIdle' = nIdle - Sleeps(pc, t) + Sleeps(pc', t)
    BY <1>3, <1>12, <2>1
  <2>4. Len(queue') \in Nat
    BY <1>3, <1>4, <1>7
  <2> QED
    BY <1>5, <1>6, <2>2, <2>3, <2>4, CountersNext, Zenon
<1>15. MasterInv'
  <2>1. Master \in Threads /\ nTodo \in Int /\ added \in Int /\ nTotal \in Nat
    BY DEF Threads, QueueInv, TypeInv
  <2>2. pc'[Master] # "out" <=> pc[Master] # "out"
    BY <1>10, <1>11, <2>1, Zenon
  <2>3. pc'[Master] = "out" => nNow'[Master] = 0
    BY <1>6, <1>10, <2>1, <2>2, Zenon DEF QueueInv, MasterInv
  <2>4. pc'[Master] \in {"wait", "woken", "work"} \/ nNow'[Master] > 0 => nTotal' >= 1
    BY <1>6, <1>10, <1>12, <2>1 DEF QueueInv, MasterInv
  <2>5. control \notin Stopping \cup {"none"}
    BY <1>3, <1>4, <2>1 DEF QueueInv, MasterInv
  <2>6. nTodo' <= added'
    BY <1>1, <1>3, <1>12, <2>1 DEF QueueInv, MasterInv
  <2> QED
    BY <1>1, <2>2, <2>3, <2>4, <2>5, <2>6, Zenon DEF QueueInv, MasterInv
<1>16. BatchInv'
  <2>1. ASSUME NEW u \in Threads, u # t
        PROVE  IF pc'[u] = "work"
               THEN /\ nNow'[u] >= 1 /\ Len(vChecks'[u]) = nNow'[u]
                    /\ ~do_work'[u] => m_result' # None
               ELSE vChecks'[u] = <<>>
    <3>1. /\ nNow'[u] = nNow[u] /\ vChecks'[u] = vChecks[u] /\ do_work'[u] = do_work[u]
          /\ pc'[u] = "work" <=> pc[u] = "work"
      BY <1>6, <1>9, <1>10, <2>1, Zenon
    <3> QED
      BY <1>2, <3>1, Zenon DEF QueueInv, BatchInv
  <2>2. nNow'[t] >= 1 /\ Len(vChecks'[t]) = nNow'[t]
    BY <1>4, <1>6, <1>9
  <2> QED
    BY <1>10, <2>1, <2>2, Zenon DEF BatchInv
<1>17. \A u \in Threads : /\ Back(u)' => u # t /\ Back(u)
                          /\ u # t /\ ErrorInBatch(u) => ErrorInBatch(u)'
                          /\ u # t /\ ErrorFound(u) => ErrorFound(u)'
  BY <1>2, <1>6, <1>9, <1>10 DEF Back, ErrorInBatch, ErrorFound
<1>18. SoundInv'
  <2>1. Ours(m_result)'
    BY <1>1, <1>2, Zenon DEF Ours
  <2>3. \A i \in 1 .. Len(queue') : queue'[i] = None \/ (queue'[i] = block /\ failing)
    <3>1. \A i \in 1 .. Len(queue') : i \in 1 .. Len(queue) /\ queue'[i] = queue[i]
      BY <1>3, <1>4, <1>7
    <3> QED
      BY <3>1, Zenon DEF QueueInv, SoundInv, Ours
  <2>4. ASSUME NEW u \in Threads, NEW i \in 1 .. Len(vChecks'[u])
        PROVE  vChecks'[u][i] = None \/ (vChecks'[u][i] = block /\ failing)
    <3>1. CASE u = t
      <4>1. i \in 1 .. n /\ rest + i \in 1 .. Len(queue)
        BY <1>3, <1>4, <1>9, <3>1
      <4> QED
        BY <1>9, <3>1, <4>1, Zenon DEF QueueInv, SoundInv, Ours
    <3>2. CASE u # t
      BY <1>9, <3>2 DEF QueueInv, SoundInv, Ours
    <3> QED
      BY <3>1, <3>2, Zenon
  <2>5. ASSUME NEW u \in Threads, Back(u)'
        PROVE  Ours(local_result[u])' \/ m_result' # None
    BY <1>1, <1>2, <1>17, <2>5, Zenon DEF QueueInv, SoundInv, Ours
  <2> QED
    BY <1>1, <2>1, <2>3, <2>4, <2>5, Zenon DEF SoundInv, Ours
<1>19. FoundInv'
  <2>1. ~ErrorInBatch(t)
    BY <1>11, Zenon DEF ErrorInBatch
  <2>2. ASSUME ErrorInQueue PROVE ErrorInQueue' \/ ErrorInBatch(t)'
    <3>1. PICK i \in 1 .. Len(queue) : queue[i] # None
      BY <2>2, Zenon DEF ErrorInQueue
    <3>2. CASE i <= rest
      BY <1>3, <1>4, <1>7, <3>1, <3>2 DEF ErrorInQueue
    <3>3. CASE i > rest
      <4>1. i - rest \in 1 .. n /\ rest + (i - rest) = i
        BY <1>3, <1>4, <3>3
      <4> QED
        BY <1>9, <1>10, <3>1, <4>1 DEF ErrorInBatch
    <3> QED
      BY <1>3, <1>4, <3>2, <3>3
  <2> QED
    BY <1>1, <1>2, <1>17, <2>1, <2>2, Zenon DEF QueueInv, FoundInv
<1>20. AnswerExact'
  BY <1>1, Zenon DEF QueueInv, AnswerExact
<1> QED
  BY <1>13, <1>14, <1>15, <1>16, <1>18, <1>19, <1>20 DEF QueueInv

LEMMA SectionQueue ==
  ASSUME QueueInv, NEW t \in Threads, CriticalSection(t)
  PROVE  QueueInv'
<1>1. CASE pc[t] = "enter"
  <2>1. Good(t, CleanUp(t), nIdle)
    BY <1>1, SectionGood, Zenon
  <2>2. \/ Wait(t, CleanUp(t), nIdle) \/ Return(t, CleanUp(t), nIdle)
        \/ Exit(t, CleanUp(t), nIdle) \/ Take(t, CleanUp(t), nIdle)
    BY <1>1, Zenon DEF CriticalSection
  <2> QED
    BY <2>1, <2>2, WaitQueue, ReturnQueue, ExitQueue, TakeQueue, Zenon
<1>2. CASE pc[t] = "woken"
  <2>1. Good(t, Woken(t), nIdle - 1)
    BY <1>2, SectionGood, Zenon
  <2>2. \/ Wait(t, Woken(t), nIdle - 1) \/ Return(t, Woken(t), nIdle - 1)
        \/ Exit(t, Woken(t), nIdle - 1) \/ Take(t, Woken(t), nIdle - 1)
    BY <1>2, Zenon DEF CriticalSection
  <2> QED
    BY <2>1, <2>2, WaitQueue, ReturnQueue, ExitQueue, TakeQueue, Zenon
<1> QED
  BY <1>1, <1>2 DEF CriticalSection

-----------------------------------------------------------------------------
(* The work outside the lock, and the master *)

LEMMA LeastNat ==
  ASSUME NEW T \in SUBSET Nat, T # {}
  PROVE  \E i \in T : \A j \in T : i <= j
<1>1. PICK i \in T : \A j \in T : ~(<<j, i>> \in OpToRel(<, Nat))
  BY WFMin, NatLessThanWellFounded, Zenon
<1>2. \A j \in T : ~(j < i)
  BY <1>1, Zenon DEF OpToRel
<1> QED
  BY <1>2

\* The result of a batch is one of its elements if one of them is an error.
LEMMA RunChecksExact ==
  ASSUME NEW checks \in Seq(Results)
  PROVE  LET errors == {i \in 1 .. Len(checks) : checks[i] # None}
         IN  IF errors = {} THEN RunChecks(checks) = None
             ELSE \E i \in errors : RunChecks(checks) = checks[i]
<1> DEFINE errors == {i \in 1 .. Len(checks) : checks[i] # None}
<1>1. CASE errors = {}
  BY <1>1 DEF RunChecks
<1>2. CASE errors # {}
  <2>1. \E i \in errors : \A j \in errors : i <= j
    <3>1. errors \in SUBSET Nat
      OBVIOUS
    <3> HIDE DEF errors
    <3> QED
      BY <1>2, <3>1, LeastNat, Zenon
  <2>2. Min(errors) \in errors
    BY <2>1, Zenon DEF Min
  <2> QED
    BY <1>2, <2>2, Zenon DEF RunChecks
<1> QED
  BY <1>1, <1>2, Zenon

LEMMA ExecuteQueue ==
  ASSUME QueueInv, NEW t \in Threads, Execute(t)
  PROVE  QueueInv'
<1>1. /\ pc[t] = "work" /\ pc' = [pc EXCEPT ![t] = "enter"]
      /\ local_result' =
           [local_result EXCEPT ![t] = IF do_work[t] THEN RunChecks(vChecks[t]) ELSE @]
      /\ vChecks' = [vChecks EXCEPT ![t] = <<>>]
      /\ do_work' = [do_work EXCEPT ![t] = FALSE]
      /\ UNCHANGED <<nNow, queue, nIdle, nTotal, nTodo, m_result, m_request_stop,
                     control, block, added, failing, answer>>
  BY Zenon DEF Execute, shared
<1>2. /\ nNow[t] >= 1 /\ vChecks[t] \in Seq(Results)
      /\ ~do_work[t] => m_result # None
  BY <1>1, Zenon DEF QueueInv, BatchInv, TypeInv
<1> DEFINE errors == {i \in 1 .. Len(vChecks[t]) : vChecks[t][i] # None}
<1>3. IF errors = {} THEN RunChecks(vChecks[t]) = None
      ELSE \E i \in errors : RunChecks(vChecks[t]) = vChecks[t][i]
  BY <1>2, RunChecksExact, Zenon
<1>4. /\ RunChecks(vChecks[t]) \in Results /\ Ours(RunChecks(vChecks[t]))
      /\ ErrorInBatch(t) => RunChecks(vChecks[t]) # None
  <2>1. None \in Results
    BY QueueAssumption DEF Results, None
  <2> QED
    BY <1>2, <1>3, <2>1 DEF QueueInv, SoundInv, Ours, ErrorInBatch
<1>5. /\ Woke(t, "enter") /\ \A u \in Threads \ {t} : pc'[u] = pc[u]
  BY <1>1, Zenon DEF Woke, QueueInv, TypeInv
<1>6. /\ local_result' \in [Threads -> Results]
      /\ do_work[t] => local_result'[t] = RunChecks(vChecks[t])
      /\ \A u \in Threads \ {t} : local_result'[u] = local_result[u]
  BY <1>1, <1>4, Zenon DEF QueueInv, TypeInv
<1>7. /\ vChecks' \in [Threads -> Seq(Results)] /\ vChecks'[t] = <<>>
      /\ \A u \in Threads \ {t} : vChecks'[u] = vChecks[u]
  BY <1>1 DEF QueueInv, TypeInv
<1>8. /\ do_work' \in [Threads -> BOOLEAN]
      /\ \A u \in Threads \ {t} : do_work'[u] = do_work[u]
  BY <1>1, Zenon DEF QueueInv, TypeInv
<1>9. TypeInv'
  BY <1>1, <1>5, <1>6, <1>7, <1>8, Zenon DEF QueueInv, TypeInv, Woke
<1>10. Counters'
  <2>1. /\ Own(pc, nNow, t) = nNow[t] /\ Own(pc', nNow', t) = nNow[t]
        /\ Sleeps(pc, t) = 0 /\ Sleeps(pc', t) = 0
    BY <1>1, <1>5, Zenon DEF Own, Sleeps, Busy, Asleep, Woke
  <2>2. /\ nTodo \in Int /\ nIdle \in Int /\ nNow[t] \in Int /\ Len(queue) \in Nat
        /\ nNow' \in [Threads -> 0 .. BatchSize]
    BY <1>1, QueueAssumption DEF QueueInv, TypeInv
  <2>3. nTodo' = nTodo - Own(pc, nNow, t) + Own(pc', nNow', t) - Len(queue) + Len(queue')
    BY <1>1, <2>1, <2>2
  <2>4. nIdle' = nIdle - Sleeps(pc, t) + Sleeps(pc', t)
    BY <1>1, <2>1, <2>2
  <2> QED
    BY <1>1, <1>5, <2>2, <2>3, <2>4, CountersNext, Zenon
<1>11. MasterInv'
  BY <1>1, <1>2, <1>5, Zenon DEF QueueInv, MasterInv, Woke, Threads
<1>12. BatchInv'
  <2>1. ASSUME NEW u \in Threads, u # t
        PROVE  /\ nNow'[u] = nNow[u] /\ vChecks'[u] = vChecks[u] /\ pc'[u] = pc[u]
               /\ do_work'[u] = do_work[u] /\ m_result' = m_result
    BY <1>1, <1>5, <1>7, <1>8, <2>1, Zenon
  <2>2. pc'[t] = "enter"
    BY <1>5, Zenon DEF Woke
  <2> QED
    BY <1>7, <2>1, <2>2, Zenon DEF QueueInv, BatchInv
<1>13. SoundInv'
  <2>1. ASSUME NEW u \in Threads, Back(u)'
        PROVE  Ours(local_result[u])' \/ m_result' # None
    BY <1>1, <1>2, <1>4, <1>5, <1>6, <2>1, Zenon DEF QueueInv, SoundInv, Ours, Back
  <2>2. \A u \in Threads : \A i \in 1 .. Len(vChecks'[u]) : Ours(vChecks[u][i])'
    BY <1>1, <1>7 DEF QueueInv, SoundInv, Ours
  <2>3. Ours(m_result)' /\ \A i \in 1 .. Len(queue') : Ours(queue[i])'
    BY <1>1, Zenon DEF QueueInv, SoundInv, Ours
  <2> QED
    BY <2>1, <2>2, <2>3, Zenon DEF SoundInv
<1>14. FoundInv'
  <2>1. ErrorInBatch(t) => ErrorFound(t)' \/ m_result # None
    <3>1. Back(t)'
      BY <1>1, <1>2, <1>5, QueueAssumption DEF Back, Woke, QueueInv, TypeInv
    <3> QED
      BY <1>2, <1>4, <1>6, <3>1, Zenon DEF ErrorFound
  <2>2. ~ErrorFound(t)
    BY <1>1, Zenon DEF ErrorFound, Back
  <2>3. \A u \in Threads \ {t} : /\ ErrorInBatch(u) => ErrorInBatch(u)'
                                 /\ ErrorFound(u) => ErrorFound(u)'
    BY <1>1, <1>5, <1>6, <1>7, Zenon DEF ErrorFound, ErrorInBatch, Back
  <2> QED
    BY <1>1, <2>1, <2>2, <2>3, Zenon DEF QueueInv, FoundInv, ErrorInQueue
<1>15. AnswerExact'
  BY <1>1, Zenon DEF QueueInv, AnswerExact
<1> QED
  BY <1>9, <1>10, <1>11, <1>12, <1>13, <1>14, <1>15 DEF QueueInv

\* A step in which threads are only woken, and the master goes on to a point
\* that is no different for the invariant.
LEMMA WakeQueue ==
  ASSUME QueueInv,
         pc' \in [Threads -> {"out", "enter", "wait", "woken", "work"}],
         \A u \in Threads : pc'[u] = pc[u] \/ (pc[u] = "wait" /\ pc'[u] = "woken"),
         \/ control' = control
         \/ control \in {"notify_one", "notify_all"} /\ control' = "adding"
         \/ control \in Stopping /\ control' \in Stopping,
         UNCHANGED <<nNow, vChecks, do_work, local_result, queue, nIdle, nTotal, nTodo,
                     m_result, m_request_stop, block, added, failing, answer>>
  PROVE  QueueInv'
<1>1. Master \in Threads /\ \A u \in Threads : pc'[u] = "work" <=> pc[u] = "work"
  BY Zenon DEF Threads
<1>2. TypeInv'
  BY Zenon DEF QueueInv, TypeInv, Stopping
<1>3. Counters'
  <2>1. \A u \in Threads : /\ pc'[u] \in {"wait", "woken"} <=> pc[u] \in {"wait", "woken"}
                           /\ pc'[u] \in {"work", "enter"} <=> pc[u] \in {"work", "enter"}
    BY Zenon
  <2>2. Idle' = Idle
    BY <2>1 DEF Idle
  <2>3. Pending' = Pending
    BY <2>1, Zenon DEF Pending
  <2> QED
    BY <2>2, <2>3, Zenon DEF QueueInv, Counters
<1>4. MasterInv'
  BY <1>1, Zenon DEF QueueInv, MasterInv, Stopping
<1>5. BatchInv'
  BY <1>1, Zenon DEF QueueInv, BatchInv
<1>6. \A u \in Threads : /\ Back(u)' <=> Back(u)
                         /\ ErrorInBatch(u)' <=> ErrorInBatch(u)
                         /\ ErrorFound(u)' <=> ErrorFound(u)
  BY Zenon DEF Back, ErrorInBatch, ErrorFound
<1>7. SoundInv'
  BY <1>6, Zenon DEF QueueInv, SoundInv, Ours
<1>8. FoundInv'
  BY <1>6, Zenon DEF QueueInv, FoundInv, ErrorInQueue, Stopping
<1>9. AnswerExact'
  BY Zenon DEF QueueInv, AnswerExact, Stopping
<1> QED
  BY <1>2, <1>3, <1>4, <1>5, <1>7, <1>8, <1>9, Zenon DEF QueueInv

LEMMA SpuriousQueue ==
  ASSUME QueueInv, NEW t \in Threads, SpuriousWakeup(t)
  PROVE  QueueInv'
<1>1. /\ pc' \in [Threads -> {"out", "enter", "wait", "woken", "work"}]
      /\ \A u \in Threads : pc'[u] = pc[u] \/ (pc[u] = "wait" /\ pc'[u] = "woken")
  BY Zenon DEF SpuriousWakeup, QueueInv, TypeInv
<1> QED
  BY <1>1, WakeQueue, Zenon DEF SpuriousWakeup, shared

LEMMA NotifyWakes ==
  ASSUME TypeInv, NotifyOne(Workers, pc) \/ NotifyAll(Workers)
  PROVE  /\ pc' \in [Threads -> {"out", "enter", "wait", "woken", "work"}]
         /\ \A u \in Threads : pc'[u] = pc[u] \/ (pc[u] = "wait" /\ pc'[u] = "woken")
<1>1. CASE NotifyOne(Workers, pc)
  BY <1>1, Zenon DEF NotifyOne, Waiting, TypeInv
<1>2. CASE NotifyAll(Workers)
  BY <1>2, Zenon DEF NotifyAll, Waiting, TypeInv
<1> QED
  BY <1>1, <1>2, Zenon

LEMMA MasterNotifyQueue ==
  ASSUME QueueInv, AddNotify \/ StopNotify
  PROVE  QueueInv'
<1>1. NotifyOne(Workers, pc) \/ NotifyAll(Workers)
  BY Zenon DEF AddNotify, StopNotify
<1>2. \/ control \in {"notify_one", "notify_all"} /\ control' = "adding"
      \/ control \in Stopping /\ control' \in Stopping
  BY Zenon DEF AddNotify, StopNotify, Stopping
<1>3. UNCHANGED <<nNow, vChecks, do_work, local_result, queue, nIdle, nTotal, nTodo,
                  m_result, m_request_stop, block, added, failing, answer>>
  BY Zenon DEF AddNotify, StopNotify, shared
<1> QED
  BY <1>1, <1>2, <1>3, NotifyWakes, WakeQueue, Zenon DEF QueueInv

LEMMA JoinQueue ==
  ASSUME QueueInv, Join \/ UNCHANGED vars
  PROVE  QueueInv'
  BY WakeQueue, Zenon DEF Join, vars, locals, shared, Stopping, QueueInv, TypeInv

\* Between two blocks nothing is queued and no thread has a batch.
LEMMA NothingLeft ==
  ASSUME QueueInv, nTodo = 0
  PROVE  /\ queue = <<>> /\ ~ErrorInQueue
         /\ \A u \in Threads : /\ pc[u] # "work" /\ vChecks[u] = <<>> /\ ~Back(u)
                               /\ ~ErrorInBatch(u) /\ ~ErrorFound(u)
<1>1. queue \in Seq(Results) /\ Len(queue) = 0
  <2>1. Master \in Threads
    BY DEF Threads
  <2> QED
    BY <2>1, OwnBound DEF QueueInv, TypeInv
<1>2. queue = <<>>
  BY <1>1
<1>3. ASSUME NEW u \in Threads
      PROVE  pc[u] # "work" /\ vChecks[u] = <<>> /\ ~Back(u)
  <2>1. Own(pc, nNow, u) = 0
    BY <1>1, OwnBound
  <2>2. pc[u] # "work"
    BY <2>1 DEF QueueInv, BatchInv, Own, Busy
  <2>3. ~Back(u)
    BY <2>1 DEF Back, Own, Busy
  <2> QED
    BY <2>2, <2>3 DEF QueueInv, BatchInv
<1> QED
  BY <1>1, <1>2, <1>3 DEF ErrorInQueue, ErrorInBatch, ErrorFound

LEMMA NewControlQueue ==
  ASSUME QueueInv, NewControl
  PROVE  QueueInv'
<1>1. /\ control = "none" /\ block < MaxBlocks
      /\ control' = "adding" /\ block' = block + 1
      /\ added' = 0 /\ failing' = FALSE /\ answer' = None
      /\ UNCHANGED <<pc, nNow, vChecks, do_work, local_result, queue, nIdle, nTotal,
                     nTodo, m_result, m_request_stop>>
  BY Zenon DEF NewControl, locals, shared
<1>2. nTodo = 0 /\ m_result = None /\ Master \in Threads
  BY <1>1, Zenon DEF QueueInv, MasterInv, Threads
<1>3. /\ queue = <<>> /\ \A u \in Threads : vChecks[u] = <<>> /\ ~Back(u)
  BY <1>2, NothingLeft
<1>4. TypeInv'
  <2>1. block' \in Results /\ None \in Results /\ 0 \in 0 .. MaxChecks
    BY <1>1, QueueAssumption DEF QueueInv, TypeInv, Results, None
  <2> QED
    BY <1>1, <2>1, Zenon DEF QueueInv, TypeInv
<1>5. Counters'
  BY <1>1, Zenon DEF QueueInv, Counters, Idle, Pending
<1>6. MasterInv'
  BY <1>1, <1>2 DEF QueueInv, MasterInv, Stopping
<1>7. BatchInv'
  BY <1>1, Zenon DEF QueueInv, BatchInv
<1>8. SoundInv'
  BY <1>1, <1>2, <1>3 DEF SoundInv, Ours, Back
<1>9. FoundInv' /\ AnswerExact'
  BY <1>1, Zenon DEF FoundInv, AnswerExact
<1> QED
  BY <1>4, <1>5, <1>6, <1>7, <1>8, <1>9, Zenon DEF QueueInv

LEMMA AddQueue ==
  ASSUME QueueInv, Add
  PROVE  QueueInv'
<1>1. PICK n \in 1 .. MaxChecks - added : \E cs \in [1 .. n -> {None, block}] :
        /\ queue' = queue \o cs /\ nTodo' = nTodo + n
        /\ added' = added + n
        /\ failing' = (failing \/ \E i \in 1 .. n : cs[i] # None)
        /\ control' = IF n = 1 THEN "notify_one" ELSE "notify_all"
  BY Zenon DEF Add
<1>2. PICK checks \in [1 .. n -> {None, block}] :
        /\ queue' = queue \o checks /\ nTodo' = nTodo + n
        /\ added' = added + n
        /\ failing' = (failing \/ \E i \in 1 .. n : checks[i] # None)
        /\ control' = IF n = 1 THEN "notify_one" ELSE "notify_all"
  BY <1>1, Zenon
<1>3. /\ control = "adding" /\ control' \in {"notify_one", "notify_all"}
      /\ UNCHANGED <<pc, nNow, vChecks, do_work, local_result, nIdle, nTotal,
                     m_result, m_request_stop, block, answer>>
  BY <1>2, Zenon DEF Add, locals
<1>4. /\ added \in Nat /\ n \in Nat /\ added + n \in 0 .. MaxChecks /\ nTodo \in Int
      /\ queue \in Seq(Results) /\ block \in Results /\ None \in Results
  BY QueueAssumption DEF QueueInv, TypeInv, Results, None
<1>5. checks \in Seq(Results) /\ Len(checks) = n
  BY <1>4
<1>6. /\ queue' \in Seq(Results) /\ Len(queue') = Len(queue) + n
      /\ \A i \in 1 .. Len(queue) : queue'[i] = queue[i]
      /\ \A i \in Len(queue) + 1 .. Len(queue') : queue'[i] = checks[i - Len(queue)]
      /\ \A i \in 1 .. n : queue'[Len(queue) + i] = checks[i]
  BY <1>2, <1>4, <1>5
<1>7. failing' \in BOOLEAN /\ (failing' <=> failing \/ \E i \in 1 .. n : checks[i] # None)
  BY <1>2, Zenon
<1>8. TypeInv'
  BY <1>2, <1>3, <1>4, <1>6, <1>7 DEF QueueInv, TypeInv
<1>9. Counters'
  <2>1. Idle' = Idle /\ Pending' = Pending
    BY <1>3, Zenon DEF Idle, Pending
  <2>2. Cardinality(Pending) \in Nat
    <3>1. Pending = PendingOf(pc, nNow) /\ Master \in Threads
      BY DEF Pending, PendingOf, Busy, Threads
    <3> QED
      BY <3>1, PendingChange, Zenon DEF QueueInv, TypeInv
  <2>3. nTodo = Len(queue) + Cardinality(Pending) /\ nIdle = Cardinality(Idle)
    BY Zenon DEF QueueInv, Counters
  <2>4. Len(queue) \in Nat
    BY <1>4
  <2>5. nTodo + n = Len(queue) + n + Cardinality(Pending)
    BY <1>4, <2>2, <2>3, <2>4
  <2> QED
    BY <1>2, <1>3, <1>6, <2>1, <2>3, <2>5, Zenon DEF Counters
<1>10. MasterInv'
  BY <1>2, <1>3, <1>4 DEF QueueInv, MasterInv, Stopping
<1>11. BatchInv'
  BY <1>3, Zenon DEF QueueInv, BatchInv
<1>12. SoundInv'
  <2>1. ASSUME NEW r, Ours(r) PROVE r = None \/ (r = block' /\ failing')
    BY <1>3, <1>7, <2>1, Zenon DEF Ours
  <2>2. ASSUME NEW i \in 1 .. Len(queue')
        PROVE  queue'[i] = None \/ (queue'[i] = block' /\ failing')
    <3>1. CASE i <= Len(queue)
      BY <1>4, <1>6, <2>1, <3>1 DEF QueueInv, SoundInv
    <3>2. CASE i > Len(queue)
      <4>1. i - Len(queue) \in 1 .. n /\ queue'[i] = checks[i - Len(queue)]
        BY <1>4, <1>6, <3>2
      <4> QED
        BY <1>3, <1>7, <4>1, Zenon
    <3> QED
      BY <1>4, <3>1, <3>2
  <2>3. Ours(m_result)'
    BY <1>3, <2>1, Zenon DEF QueueInv, SoundInv, Ours
  <2>4. \A u \in Threads : \A i \in 1 .. Len(vChecks'[u]) :
          vChecks'[u][i] = None \/ (vChecks'[u][i] = block' /\ failing')
    BY <1>3, <2>1, Zenon DEF QueueInv, SoundInv
  <2>5. ASSUME NEW u \in Threads, Back(u)'
        PROVE  Ours(local_result[u])' \/ m_result' # None
    BY <1>3, <2>1, <2>5, Zenon DEF QueueInv, SoundInv, Ours, Back
  <2> QED
    BY <2>2, <2>3, <2>4, <2>5, Zenon DEF SoundInv, Ours
<1>13. FoundInv'
  <2>1. ASSUME NEW i \in 1 .. n, checks[i] # None PROVE ErrorInQueue'
    <3>1. Len(queue) + i \in 1 .. Len(queue') /\ queue'[Len(queue) + i] # None
      BY <1>4, <1>6, <2>1
    <3> QED
      BY <3>1, Zenon DEF ErrorInQueue
  <2>2. ErrorInQueue => ErrorInQueue'
    BY <1>4, <1>6 DEF ErrorInQueue
  <2>3. \A u \in Threads : /\ ErrorInBatch(u) => ErrorInBatch(u)'
                           /\ ErrorFound(u) => ErrorFound(u)'
    BY <1>3, Zenon DEF ErrorInBatch, ErrorFound, Back
  <2>4. failing => \/ m_result # None \/ ErrorInQueue
                   \/ \E u \in Threads : ErrorInBatch(u) \/ ErrorFound(u)
    BY <1>3, Zenon DEF QueueInv, FoundInv, Stopping
  <2> QED
    BY <1>3, <1>7, <2>1, <2>2, <2>3, <2>4, Zenon DEF FoundInv
<1>14. AnswerExact'
  BY <1>3 DEF AnswerExact
<1> QED
  BY <1>8, <1>9, <1>10, <1>11, <1>12, <1>13, <1>14, Zenon DEF QueueInv

LEMMA CompleteQueue ==
  ASSUME QueueInv, Complete
  PROVE  QueueInv'
<1>1. /\ control = "adding" /\ control' = "complete"
      /\ pc' = [pc EXCEPT ![Master] = "enter"]
      /\ UNCHANGED <<nNow, vChecks, do_work, local_result, queue, nIdle, nTotal, nTodo,
                     m_result, m_request_stop, block, added, failing, answer>>
  BY Zenon DEF Complete, shared
<1>2. /\ Master \in Threads /\ pc[Master] = "out" /\ nNow[Master] = 0
  BY <1>1, Zenon DEF QueueInv, MasterInv, Threads
<1>3. Woke(Master, "enter") /\ \A u \in Threads \ {Master} : pc'[u] = pc[u]
  BY <1>1, <1>2, Zenon DEF Woke, QueueInv, TypeInv
<1>4. TypeInv'
  BY <1>1, <1>3, Zenon DEF QueueInv, TypeInv, Woke
<1>5. Counters'
  <2>1. /\ Own(pc, nNow, Master) = 0 /\ Own(pc', nNow', Master) = 0
        /\ Sleeps(pc, Master) = 0 /\ Sleeps(pc', Master) = 0
    BY <1>1, <1>2, <1>3, Zenon DEF Own, Sleeps, Busy, Asleep, Woke
  <2>2. /\ nTodo \in Int /\ nIdle \in Int /\ Len(queue) \in Nat
        /\ nNow' \in [Threads -> 0 .. BatchSize]
    BY <1>1 DEF QueueInv, TypeInv
  <2>3. nTodo' = nTodo - Own(pc, nNow, Master) + Own(pc', nNow', Master)
                       - Len(queue) + Len(queue')
    BY <1>1, <2>1, <2>2
  <2>4. nIdle' = nIdle - Sleeps(pc, Master) + Sleeps(pc', Master)
    BY <1>1, <2>1, <2>2
  <2> QED
    BY <1>1, <1>2, <1>3, <2>2, <2>3, <2>4, CountersNext, Zenon
<1>6. MasterInv'
  BY <1>1, <1>2, <1>3, Zenon DEF QueueInv, MasterInv, Stopping, Woke
<1>7. \A u \in Threads : pc'[u] = "work" <=> pc[u] = "work"
  BY <1>2, <1>3 DEF Woke
<1>8. BatchInv'
  BY <1>1, <1>7, Zenon DEF QueueInv, BatchInv
<1>9. \A u \in Threads : Back(u)' <=> Back(u)
  BY <1>1, <1>2, <1>3 DEF Back, Woke
<1>10. SoundInv'
  BY <1>1, <1>9, Zenon DEF QueueInv, SoundInv, Ours
<1>11. FoundInv'
  BY <1>1, <1>7, <1>9, Zenon
  DEF QueueInv, FoundInv, ErrorInQueue, ErrorInBatch, ErrorFound, Stopping
<1>12. AnswerExact'
  BY <1>1 DEF AnswerExact
<1> QED
  BY <1>4, <1>5, <1>6, <1>8, <1>10, <1>11, <1>12 DEF QueueInv

LEMMA StopQueue ==
  ASSUME QueueInv, Stop
  PROVE  QueueInv'
<1>1. /\ control = "none" /\ control' = "stop" /\ m_request_stop' = TRUE
      /\ UNCHANGED <<pc, nNow, vChecks, do_work, local_result, queue, nIdle, nTotal,
                     nTodo, m_result, block, added, failing, answer>>
  BY Zenon DEF Stop, locals
<1>2. TypeInv'
  BY <1>1, Zenon DEF QueueInv, TypeInv, Stopping
<1>3. Counters'
  BY <1>1, Zenon DEF QueueInv, Counters, Idle, Pending
<1>4. MasterInv'
  BY <1>1, Zenon DEF QueueInv, MasterInv, Stopping
<1>5. BatchInv'
  BY <1>1, Zenon DEF QueueInv, BatchInv
<1>6. SoundInv'
  BY <1>1, Zenon DEF QueueInv, SoundInv, Ours, Back
<1>7. FoundInv' /\ AnswerExact'
  BY <1>1 DEF FoundInv, AnswerExact, Stopping
<1> QED
  BY <1>2, <1>3, <1>4, <1>5, <1>6, <1>7 DEF QueueInv

LEMMA InitQueue == Init => QueueInv
<1> SUFFICES ASSUME Init PROVE QueueInv
  OBVIOUS
<1>1. TypeInv
  <2>1. 0 \in Results /\ 0 \in 0 .. BatchSize /\ 0 \in 0 .. MaxChecks
    BY QueueAssumption DEF Results
  <2>2. /\ pc \in [Threads -> {"out", "enter", "wait", "woken", "work"}]
        /\ nNow \in [Threads -> 0 .. BatchSize] /\ do_work \in [Threads -> BOOLEAN]
    BY <2>1 DEF Init
  <2>3. local_result \in [Threads -> Results] /\ vChecks \in [Threads -> Seq(Results)]
    BY <2>1 DEF Init, None
  <2>4. queue \in Seq(Results) /\ nIdle \in Int /\ nTotal \in Nat /\ nTodo \in Int
    BY DEF Init
  <2>5. /\ m_result \in Results /\ block \in Results /\ answer \in Results
        /\ added \in 0 .. MaxChecks
    BY <2>1 DEF Init, None
  <2>6. /\ m_request_stop \in BOOLEAN /\ failing \in BOOLEAN
        /\ control \in {"none", "adding", "notify_one", "notify_all", "complete"} \cup Stopping
    BY Zenon DEF Init
  <2> QED
    BY <2>2, <2>3, <2>4, <2>5, <2>6, Zenon DEF TypeInv
<1>2. Counters
  <2>1. Idle = {} /\ Pending = {}
    BY DEF Init, Idle, Pending
  <2> QED
    BY <2>1, FS_EmptySet DEF Init, Counters
<1>3. MasterInv /\ BatchInv
  BY DEF Init, MasterInv, BatchInv, Stopping, Threads
<1>4. SoundInv /\ FoundInv /\ AnswerExact
  BY DEF Init, SoundInv, FoundInv, AnswerExact, Ours, Back
<1> QED
  BY <1>1, <1>2, <1>3, <1>4 DEF QueueInv

-----------------------------------------------------------------------------
(* The theorems *)

\* No critical section of Loop(), no batch, notification or wake-up, and no
\* call of the master breaks the invariant.
THEOREM QueueInvariant == Spec => []QueueInv
<1>1. QueueInv /\ [Next]_vars => QueueInv'
  <2> SUFFICES ASSUME QueueInv, [Next]_vars PROVE QueueInv'
    BY Zenon
  <2>1. ASSUME NEW t \in Threads, Loop(t) PROVE QueueInv'
    BY <2>1, SectionQueue, ExecuteQueue DEF Loop
  <2>2. ASSUME NEW t \in Threads, SpuriousWakeup(t) PROVE QueueInv'
    BY <2>2, SpuriousQueue
  <2>3. CASE NewControl
    BY <2>3, NewControlQueue
  <2>4. CASE Add
    BY <2>4, AddQueue
  <2>5. CASE Complete
    BY <2>5, CompleteQueue
  <2>6. CASE Stop
    BY <2>6, StopQueue
  <2>7. CASE AddNotify \/ StopNotify
    BY <2>7, MasterNotifyQueue
  <2>8. CASE Join \/ UNCHANGED vars
    BY <2>8, JoinQueue
  <2> QED
    BY <2>1, <2>2, <2>3, <2>4, <2>5, <2>6, <2>7, <2>8, Zenon DEF Next
<1> QED
  BY <1>1, InitQueue, PTL DEF Spec

\* The batches stay within nBatchSize, and no more is queued or counted than
\* the block has checks.
THEOREM QueueTypes == Spec => []TypeOK
<1>1. QueueInv => TypeOK
  <2> SUFFICES ASSUME QueueInv PROVE TypeOK
    OBVIOUS
  <2>1. Len(queue) \in Nat /\ Len(queue) <= nTodo
    <3>1. Master \in Threads /\ nTodo \in Int
      BY Zenon DEF Threads, QueueInv, TypeInv
    <3> QED
      BY <3>1, OwnBound
  <2>2. nTodo \in Int /\ nTodo <= added /\ added \in 0 .. MaxChecks
    BY Zenon DEF QueueInv, TypeInv, MasterInv
  <2>3. \A t \in Threads : Len(vChecks[t]) <= nNow[t]
    BY QueueAssumption DEF QueueInv, BatchInv, TypeInv
  <2> QED
    BY <2>1, <2>2, <2>3, QueueAssumption DEF QueueInv, TypeInv, TypeOK, Results, Stopping
<1> QED
  BY <1>1, QueueInvariant, PTL

\* nIdle and nTodo, which each thread changes under the lock for itself, count
\* the threads that sleep and the checks that are not done.
THEOREM CountersExact == Spec => []Counters
<1>1. QueueInv => Counters
  BY DEF QueueInv
<1> QED
  BY <1>1, QueueInvariant, PTL

\* Complete() returns an error exactly when a check of this block fails, for
\* every schedule of the workers and whatever earlier blocks left behind.
THEOREM Answers == Spec => []AnswerExact
<1>1. QueueInv => AnswerExact
  BY DEF QueueInv
<1> QED
  BY <1>1, QueueInvariant, PTL

\* After Complete() no thread holds a check of the block.
THEOREM NoCheckLeft == Spec => []NoCheckOutlives
<1>1. QueueInv => NoCheckOutlives
  BY NothingLeft, Zenon DEF QueueInv, MasterInv, NoCheckOutlives
<1> QED
  BY <1>1, QueueInvariant, PTL
=============================================================================
