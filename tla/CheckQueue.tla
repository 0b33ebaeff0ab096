----------------------------- MODULE CheckQueue -----------------------------
(***************************************************************************)
(* The queue that verifies the scripts of a block on several threads       *)
(* (src/checkqueue.h) and its use by Chainstate::ConnectBlock()            *)
(* (src/validation.cpp): one control per block, which adds the checks of   *)
(* one transaction after the other and then joins the workers until all    *)
(* are done.                                                               *)
(*                                                                         *)
(* A thread's critical section is one action.  The condition variables     *)
(* have no memory, a notification outside the lock is a step of its own,   *)
(* and a waiting thread may wake without being notified.  A check is       *)
(* represented by its result: None, or the number of the block for an      *)
(* error.                                                                  *)
(***************************************************************************)
EXTENDS Integers, Sequences, FiniteSets, FiniteSetsExt

CONSTANTS
  Workers,    \* m_worker_threads
  Master,     \* the thread that connects blocks
  BatchSize,  \* nBatchSize
  MaxBlocks,  \* bound: blocks connected before the queue is destroyed
  MaxChecks   \* bound: checks of a block

Threads == Workers \cup {Master}

None == 0

ASSUME QueueAssumption ==
  /\ Master \notin Workers /\ IsFiniteSet(Workers)
  /\ BatchSize \in Nat \ {0} /\ MaxBlocks \in Nat /\ MaxChecks \in Nat

VARIABLES
  pc,             \* where a thread is in Loop(): "out", "enter", "wait", "woken", "work"
  nNow, vChecks, do_work, local_result,   \* the locals of Loop()
  queue, nIdle, nTotal, nTodo, m_result, m_request_stop,
  control,        \* the master: "none", "adding", "notify_one", "notify_all",
                  \* "complete", and, in the destructor, "stop", "join",
                  \* "destroyed"
  block,          \* number of the block being connected
  added,          \* how many checks were added for this block
  failing,        \* history: one of them fails
  answer          \* what Complete() returned for this block

locals == <<pc, nNow, vChecks, do_work, local_result>>
shared == <<queue, nIdle, nTotal, nTodo, m_result, m_request_stop>>
vars == <<locals, shared, control, block, added, failing, answer>>

-----------------------------------------------------------------------------
(* The condition variables *)

Waiting(threads) == {t \in threads : pc[t] = "wait"}

\* notify_one(): any one of the threads that wait, if there is one.
NotifyOne(threads, from) ==
  IF Waiting(threads) = {} THEN pc' = from
  ELSE \E t \in Waiting(threads) : pc' = [from EXCEPT ![t] = "woken"]

NotifyAll(threads) ==
  pc' = [t \in Threads |-> IF t \in Waiting(threads) THEN "woken" ELSE pc[t]]

-----------------------------------------------------------------------------
(* Loop() *)

\* Mutants of CleanUp: the last worker does not tell the master; a batch that
\* ended with an error is not counted as done.
CleanUpSilent(t) ==
  [todo  |-> nTodo - nNow[t],
   total |-> nTotal + (IF nNow[t] > 0 THEN 0 ELSE 1),
   swap  |-> nNow[t] > 0 /\ local_result[t] # None /\ m_result = None,
   wake  |-> FALSE]

CleanUpSuccess(t) ==
  [todo  |-> IF local_result[t] = None THEN nTodo - nNow[t] ELSE nTodo,
   total |-> nTotal + (IF nNow[t] > 0 THEN 0 ELSE 1),
   swap  |-> nNow[t] > 0 /\ local_result[t] # None /\ m_result = None,
   wake  |-> nNow[t] > 0 /\ nTodo = nNow[t] /\ t # Master]

\* The clean-up of the previous batch at the head of the critical section.
CleanUp(t) ==
  [todo  |-> nTodo - nNow[t],
   total |-> nTotal + (IF nNow[t] > 0 THEN 0 ELSE 1),
   swap  |-> nNow[t] > 0 /\ local_result[t] # None /\ m_result = None,
   wake  |-> nNow[t] > 0 /\ nTodo = nNow[t] /\ t # Master]

\* A thread that was waiting has nothing to clean up.
Woken(t) == [todo |-> nTodo, total |-> nTotal, swap |-> FALSE, wake |-> FALSE]

\* Mutants of MayReturn and MustWait.
MayReturnEarly(t, c) == t = Master /\ queue = <<>>
MustWaitForWork(t) == queue = <<>>

\* The conditions of `while (queue.empty() && !m_request_stop)` and of the
\* return inside it.
MustWait(t) == queue = <<>> /\ ~m_request_stop
MayReturn(t, c) == t = Master /\ c.todo = 0

ResultAfter(t, c) == IF c.swap THEN local_result[t] ELSE m_result
LocalAfter(t, c) ==
  IF c.swap THEN [local_result EXCEPT ![t] = m_result] ELSE local_result

\* pc' after thread t leaves the critical section for the given place; the
\* notification of the master is made inside it.
Leave(t, c, place) ==
  IF c.wake THEN NotifyOne({Master}, [pc EXCEPT ![t] = place])
            ELSE pc' = [pc EXCEPT ![t] = place]

\* cond.wait()
Wait(t, c, idle) ==
  /\ MustWait(t) /\ ~MayReturn(t, c)
  /\ Leave(t, c, "wait")
  /\ nIdle' = idle + 1 /\ nTotal' = c.total /\ nTodo' = c.todo
  /\ m_result' = ResultAfter(t, c) /\ local_result' = LocalAfter(t, c)
  /\ UNCHANGED <<nNow, vChecks, do_work, queue, m_request_stop, control, block,
                 added, failing, answer>>

\* The master returns the result and resets it for the next block; its locals
\* are gone.
Return(t, c, idle) ==
  /\ MustWait(t) /\ MayReturn(t, c)
  /\ pc' = [pc EXCEPT ![t] = "out"]
  /\ nIdle' = idle /\ nTotal' = c.total - 1 /\ nTodo' = c.todo
  /\ answer' = ResultAfter(t, c) /\ m_result' = None
  /\ local_result' = [local_result EXCEPT ![t] = None]
  /\ nNow' = [nNow EXCEPT ![t] = 0]
  /\ control' = "none"
  /\ UNCHANGED <<vChecks, do_work, queue, m_request_stop, block, added, failing>>

Exit(t, c, idle) ==
  /\ ~MustWait(t) /\ m_request_stop
  /\ Leave(t, c, "out")
  /\ nIdle' = idle /\ nTotal' = c.total /\ nTodo' = c.todo
  /\ m_result' = ResultAfter(t, c) /\ local_result' = LocalAfter(t, c)
  /\ UNCHANGED <<nNow, vChecks, do_work, queue, m_request_stop, control, block,
                 added, failing, answer>>

\* Mutant of Share: no upper limit, no share.
ShareAll(c, idle) == Len(queue)

\* How many checks are taken from the end of the queue.
Share(c, idle) ==
  LET fair == Len(queue) \div (c.total + idle + 1)
  IN  Max({1, Min({BatchSize, fair})})

Take(t, c, idle) ==
  /\ ~MustWait(t) /\ ~m_request_stop
  /\ LET n    == Share(c, idle)
         rest == Len(queue) - n
     IN  /\ nNow' = [nNow EXCEPT ![t] = n]
         /\ vChecks' = [vChecks EXCEPT ![t] = SubSeq(queue, rest + 1, Len(queue))]
         /\ queue' = SubSeq(queue, 1, rest)
  /\ do_work' = [do_work EXCEPT ![t] = (ResultAfter(t, c) = None)]
  /\ Leave(t, c, "work")
  /\ nIdle' = idle /\ nTotal' = c.total /\ nTodo' = c.todo
  /\ m_result' = ResultAfter(t, c) /\ local_result' = LocalAfter(t, c)
  /\ UNCHANGED <<m_request_stop, control, block, added, failing, answer>>

CriticalSection(t) ==
  \/ /\ pc[t] = "enter"
     /\ LET c == CleanUp(t)
        IN  Wait(t, c, nIdle) \/ Return(t, c, nIdle) \/ Exit(t, c, nIdle) \/ Take(t, c, nIdle)
  \/ /\ pc[t] = "woken"
     /\ LET c == Woken(t)
        IN  \/ Wait(t, c, nIdle - 1) \/ Return(t, c, nIdle - 1)
            \/ Exit(t, c, nIdle - 1) \/ Take(t, c, nIdle - 1)

\* Mutant of RunChecks: the loop goes on after an error.
RunChecksLast(checks) == checks[Len(checks)]

\* The result of the loop over a batch: it stops at the first error.
RunChecks(checks) ==
  LET errors == {i \in 1 .. Len(checks) : checks[i] # None}
  IN  IF errors = {} THEN None ELSE checks[Min(errors)]

\* The work outside the lock.  Without do_work local_result keeps its value.
\* (do_work is set again before it is read.)
Execute(t) ==
  /\ pc[t] = "work"
  /\ local_result' = [local_result EXCEPT ![t] = IF do_work[t] THEN RunChecks(vChecks[t]) ELSE @]
  /\ vChecks' = [vChecks EXCEPT ![t] = <<>>]
  /\ pc' = [pc EXCEPT ![t] = "enter"]
  /\ do_work' = [do_work EXCEPT ![t] = FALSE]
  /\ UNCHANGED <<nNow, shared, control, block, added, failing, answer>>

SpuriousWakeup(t) ==
  /\ pc[t] = "wait"
  /\ pc' = [pc EXCEPT ![t] = "woken"]
  /\ UNCHANGED <<nNow, vChecks, do_work, local_result, shared, control, block,
                 added, failing, answer>>

-----------------------------------------------------------------------------
(* The master *)

\* CCheckQueueControl of the next block.
NewControl ==
  /\ control = "none" /\ block < MaxBlocks
  /\ control' = "adding" /\ block' = block + 1
  /\ added' = 0 /\ failing' = FALSE /\ answer' = None
  /\ UNCHANGED <<locals, shared>>

\* Add(): an empty batch is ignored.
Add ==
  /\ control = "adding"
  /\ \E n \in 1 .. MaxChecks - added : \E checks \in [1 .. n -> {None, block}] :
       /\ queue' = queue \o checks /\ nTodo' = nTodo + n
       /\ added' = added + n
       /\ failing' = (failing \/ \E i \in 1 .. n : checks[i] # None)
       /\ control' = IF n = 1 THEN "notify_one" ELSE "notify_all"
  /\ UNCHANGED <<locals, nIdle, nTotal, m_result, m_request_stop, block, answer>>

\* The notification after the lock is released.
AddNotify ==
  /\ \/ control = "notify_one" /\ NotifyOne(Workers, pc)
     \/ control = "notify_all" /\ NotifyAll(Workers)
  /\ control' = "adding"
  /\ UNCHANGED <<nNow, vChecks, do_work, local_result, shared, block, added, failing, answer>>

\* Complete(), called by ConnectBlock() or by the destructor of the control.
Complete ==
  /\ control = "adding"
  /\ control' = "complete"
  /\ pc' = [pc EXCEPT ![Master] = "enter"]
  /\ UNCHANGED <<nNow, vChecks, do_work, local_result, shared, block, added, failing, answer>>

\* ~CCheckQueue()
Stop ==
  /\ control = "none"
  /\ m_request_stop' = TRUE /\ control' = "stop"
  /\ UNCHANGED <<locals, queue, nIdle, nTotal, nTodo, m_result, block, added, failing, answer>>

StopNotify ==
  /\ control = "stop"
  /\ NotifyAll(Workers)
  /\ control' = "join"
  /\ UNCHANGED <<nNow, vChecks, do_work, local_result, shared, block, added, failing, answer>>

Join ==
  /\ control = "join" /\ \A t \in Workers : pc[t] = "out"
  /\ control' = "destroyed"
  /\ UNCHANGED <<locals, shared, block, added, failing, answer>>

-----------------------------------------------------------------------------
Init ==
  /\ pc = [t \in Threads |-> IF t = Master THEN "out" ELSE "enter"]
  /\ nNow = [t \in Threads |-> 0] /\ vChecks = [t \in Threads |-> <<>>]
  /\ do_work = [t \in Threads |-> FALSE]
  /\ local_result = [t \in Threads |-> None]
  /\ queue = <<>> /\ nIdle = 0 /\ nTotal = 0 /\ nTodo = 0 /\ m_result = None
  /\ m_request_stop = FALSE /\ control = "none" /\ block = 0 /\ added = 0
  /\ failing = FALSE /\ answer = None

Loop(t) == CriticalSection(t) \/ Execute(t)

Next ==
  \/ \E t \in Threads : Loop(t) \/ SpuriousWakeup(t)
  \/ NewControl \/ Add \/ AddNotify \/ Complete \/ Stop \/ StopNotify \/ Join

\* Every thread keeps running: a free mutex is obtained, checks end, and
\* ConnectBlock() goes on after Add().
Spec ==
  /\ Init /\ [][Next]_vars
  /\ \A t \in Threads : WF_vars(Loop(t))
  /\ WF_vars(AddNotify) /\ WF_vars(StopNotify) /\ WF_vars(Join)

-----------------------------------------------------------------------------
(* Properties *)

TypeOK ==
  /\ pc \in [Threads -> {"out", "enter", "wait", "woken", "work"}]
  /\ nNow \in [Threads -> 0 .. BatchSize] /\ do_work \in [Threads -> BOOLEAN]
  /\ local_result \in [Threads -> 0 .. MaxBlocks]
  /\ \A t \in Threads : Len(vChecks[t]) <= nNow[t]
  /\ Len(queue) <= MaxChecks /\ nTodo \in 0 .. MaxChecks
  /\ m_result \in 0 .. MaxBlocks
  /\ control \in {"none", "adding", "notify_one", "notify_all", "complete", "stop",
                  "join", "destroyed"}

\* The threads in cond.wait(), and one pair for each check that a thread took
\* from the queue and did not clean up after yet.
Idle == {t \in Threads : pc[t] \in {"wait", "woken"}}
Pending ==
  {x \in Threads \X (1 .. BatchSize) :
     pc[x[1]] \in {"work", "enter"} /\ x[2] <= nNow[x[1]]}

\* The counters that threads change in separate critical sections agree with
\* where the threads are: nIdle counts the threads in cond.wait(), nTodo the
\* checks in the queue or in a batch that was not cleaned up after yet.
Counters ==
  /\ nIdle = Cardinality(Idle)
  /\ nTodo = Len(queue) + Cardinality(Pending)

\* Complete() returns an error if and only if a check of this block fails, and
\* never one of an earlier block, although threads skip checks once an error is
\* known and keep their local result from batch to batch.
AnswerExact ==
  control = "none" => answer = IF failing THEN block ELSE None

\* When Complete() has returned no check of the block is left anywhere: the
\* data the checks point to is freed by ConnectBlock() after that.
NoCheckOutlives ==
  control = "none" => queue = <<>> /\ \A t \in Threads : vChecks[t] = <<>>

\* Complete() returns: the last worker's notification is never lost.
CompleteReturns == control = "complete" ~> control = "none"

\* The destructor returns: no worker sleeps through the stop request.
DestructorReturns == control = "stop" ~> control = "destroyed"
=============================================================================
