----------------------------- MODULE MiningPage -----------------------------
(***************************************************************************)
(* The mining tab of the GUI (src/qt/miningpage.cpp): the GUI thread with  *)
(* its Start and Stop buttons, queued stopMining() calls and destructor,   *)
(* and the thread running miningThreadFunc(), which owns the MiningEngine. *)
(* The engine is the abstract MiningSession that MiningEngine is shown to  *)
(* implement.                                                              *)
(*                                                                         *)
(* Undefined behaviour of the GUI thread ends in a state of its own, from  *)
(* which it takes no further step: "dangling" (a call through m_engine     *)
(* after the mining thread destroyed the engine) and "double_join" (stop() *)
(* joining the threads that mine_parallel() is joining).                   *)
(***************************************************************************)
EXTENDS Naturals

CONSTANTS
  Proofs,       \* proofs PoW::valid() accepts
  MaxBlocks,    \* bound: blocks accepted between two resets of the counter
  MaxPosted     \* bound: queued stopMining() calls not yet run

ASSUME PageAssumption ==
  /\ Proofs # {}
  /\ MaxBlocks \in Nat \ {0}
  /\ MaxPosted \in Nat \ {0}

VARIABLES
  gui,             \* where the GUI thread is
  m_isMining,
  m_stopRequested,
  posted,          \* stopMining() calls queued for the GUI thread
  logPosted,       \* the message that reads m_engine's hardware is queued
  tpc,             \* where the mining thread is
  m_engine,        \* whether m_engine points to an engine
  session, asked, proofs,   \* that engine, as a MiningSession
  m_blocksFound,
  sessionBlocks    \* history: blocks accepted since mining was last started

engineVars == <<session, asked, proofs>>
guiVars    == <<m_isMining, m_stopRequested>>
queueVars  == <<posted, logPosted>>
countVars  == <<m_blocksFound, sessionBlocks>>
vars == <<gui, guiVars, queueVars, tpc, m_engine, engineVars, countVars>>

Engine == INSTANCE MiningSession WITH Valid <- Proofs

Init ==
  /\ gui = "ready" /\ m_isMining = FALSE /\ m_stopRequested = FALSE
  /\ posted = 0 /\ logPosted = FALSE /\ tpc = "none" /\ m_engine = FALSE
  /\ Engine!Init
  /\ m_blocksFound = 0 /\ sessionBlocks = 0

ThreadGone == tpc \in {"none", "done"}

-----------------------------------------------------------------------------
(* The GUI thread *)

\* Mutant: the counter is not reset.
StartMiningKeeps ==
  /\ gui = "ready" /\ ~m_isMining
  /\ gui' = "joining"
  /\ UNCHANGED <<guiVars, queueVars, tpc, m_engine, engineVars, countVars>>

\* startMining() up to the join: the counters are reset first.
StartMining ==
  /\ gui = "ready" /\ ~m_isMining
  /\ gui' = "joining"
  /\ m_blocksFound' = 0
  /\ UNCHANGED <<guiVars, queueVars, tpc, m_engine, engineVars, sessionBlocks>>

\* Mutant: the previous thread is replaced without being joined.
StartThreadNoJoin ==
  /\ gui = "joining"
  /\ gui' = "ready"
  /\ m_isMining' = TRUE /\ m_stopRequested' = FALSE
  /\ tpc' = "start"
  /\ sessionBlocks' = 0
  /\ UNCHANGED <<queueVars, m_engine, engineVars, m_blocksFound>>

\* m_miningThread.join() returned; the new thread is created.
StartThread ==
  /\ gui = "joining" /\ ThreadGone
  /\ gui' = "ready"
  /\ m_isMining' = TRUE /\ m_stopRequested' = FALSE
  /\ tpc' = "start"
  /\ sessionBlocks' = 0
  /\ UNCHANGED <<queueVars, m_engine, engineVars, m_blocksFound>>

\* stopMining() up to the test of m_engine.
StopMining ==
  /\ gui = "ready" /\ m_isMining
  /\ gui' = "stop_test"
  /\ m_isMining' = FALSE /\ m_stopRequested' = TRUE
  /\ UNCHANGED <<queueVars, tpc, m_engine, engineVars, countVars>>

\* A queued stopMining() reaches the GUI thread.
RunPosted ==
  /\ gui = "ready" /\ posted > 0
  /\ posted' = posted - 1
  /\ IF m_isMining
       THEN gui' = "stop_test" /\ m_isMining' = FALSE /\ m_stopRequested' = TRUE
       ELSE UNCHANGED <<gui, guiVars>>
  /\ UNCHANGED <<logPosted, tpc, m_engine, engineVars, countVars>>

\* The queued message that calls m_engine->get_hardware_info().
RunLog ==
  /\ gui = "ready" /\ logPosted
  /\ logPosted' = FALSE
  /\ gui' = IF m_engine THEN gui ELSE "dangling"
  /\ UNCHANGED <<guiVars, posted, tpc, m_engine, engineVars, countVars>>

TestEngine ==
  /\ gui = "stop_test"
  /\ gui' = IF m_engine THEN "stop_call" ELSE "ready"
  /\ UNCHANGED <<guiVars, queueVars, tpc, m_engine, engineVars, countVars>>

\* m_engine->request_stop().
CallRequestStop ==
  /\ gui = "stop_call"
  /\ \/ m_engine /\ Engine!Ask /\ gui' = "ready"
     \/ ~m_engine /\ gui' = "dangling" /\ UNCHANGED engineVars
  /\ UNCHANGED <<guiVars, queueVars, tpc, m_engine, countVars>>

\* ~MiningPage() up to the call of m_engine->stop().
Destroy ==
  /\ gui = "ready"
  /\ gui' = IF m_engine THEN "destroy_stop" ELSE "destroy_join"
  /\ m_stopRequested' = TRUE
  /\ UNCHANGED <<m_isMining, queueVars, tpc, m_engine, engineVars, countVars>>

\* m_engine->stop() raises the flag, ...
DestroyStop ==
  /\ gui = "destroy_stop"
  /\ \/ m_engine /\ Engine!Ask /\ gui' = "destroy_wait"
     \/ ~m_engine /\ gui' = "dangling" /\ UNCHANGED engineVars
  /\ UNCHANGED <<guiVars, queueVars, tpc, m_engine, countVars>>

\* ... joins the workers, which mine_parallel() joins too while a session is
\* running, and lowers the flag again.
DestroyWait ==
  /\ gui = "destroy_wait"
  /\ \/ m_engine /\ Engine!Forget /\ gui' = "destroy_join"
     \/ m_engine /\ session = "mining" /\ gui' = "double_join"
        /\ UNCHANGED engineVars
     \/ ~m_engine /\ gui' = "dangling" /\ UNCHANGED engineVars
  /\ UNCHANGED <<guiVars, queueVars, tpc, m_engine, countVars>>

DestroyJoin ==
  /\ gui = "destroy_join" /\ ThreadGone
  /\ gui' = "closed"
  /\ UNCHANGED <<guiVars, queueVars, tpc, m_engine, engineVars, countVars>>

-----------------------------------------------------------------------------
(* The mining thread: miningThreadFunc() *)

\* Mutant: an early return without cleanup().
SetupFailsSilent ==
  /\ tpc = "start"
  /\ tpc' = "done"
  /\ UNCHANGED <<gui, guiVars, queueVars, m_engine, engineVars, countVars>>

\* No models, no node or no address: ask the GUI thread to run stopMining().
SetupFails ==
  /\ tpc = "start" /\ posted < MaxPosted
  /\ tpc' = "done"
  /\ posted' = posted + 1
  /\ UNCHANGED <<gui, guiVars, logPosted, m_engine, engineVars, countVars>>

CreateEngine ==
  /\ tpc = "start"
  /\ tpc' = "loop"
  /\ m_engine' = TRUE /\ logPosted' = TRUE
  /\ session' = "idle" /\ asked' = FALSE /\ proofs' = {}
  /\ UNCHANGED <<gui, guiVars, posted, countVars>>

LoopTest ==
  /\ tpc = "loop"
  /\ tpc' = IF m_stopRequested THEN "reset" ELSE "template"
  /\ UNCHANGED <<gui, guiVars, queueVars, m_engine, engineVars, countVars>>

\* createNewBlock() fails, or something in the loop body throws: back to the
\* loop test, after a pause or at once when stopping.
TemplateFails ==
  /\ tpc = "template"
  /\ tpc' = "loop"
  /\ UNCHANGED <<gui, guiVars, queueVars, m_engine, engineVars, countVars>>

TemplateReady ==
  /\ tpc = "template"
  /\ tpc' = "mine"
  /\ UNCHANGED <<gui, guiVars, queueVars, m_engine, engineVars, countVars>>

\* The call of mine_parallel() begins, ...
BeginMining ==
  /\ tpc = "mine"
  /\ tpc' = "mining"
  /\ Engine!Start
  /\ UNCHANGED <<gui, guiVars, queueVars, m_engine, countVars>>

\* ... its workers report proofs, ...
ProofFound ==
  /\ tpc = "mining"
  /\ Engine!Report
  /\ UNCHANGED <<gui, guiVars, queueVars, tpc, m_engine, countVars>>

\* Mutant: the workers look for proofs only, never at stop_requested.
EndMiningProof ==
  /\ tpc = "mining" /\ proofs # {}
  /\ tpc' = "after"
  /\ Engine!End
  /\ UNCHANGED <<gui, guiVars, queueVars, m_engine, countVars>>

\* ... and it returns.
EndMining ==
  /\ tpc = "mining"
  /\ tpc' = "after"
  /\ Engine!End
  /\ UNCHANGED <<gui, guiVars, queueVars, m_engine, countVars>>

\* The stop test after mine_parallel(), then the found flag.
AfterMining ==
  /\ tpc = "after"
  /\ tpc' = IF m_stopRequested THEN "reset"
            ELSE IF proofs # {} THEN "submit" ELSE "loop"
  /\ UNCHANGED <<gui, guiVars, queueVars, m_engine, engineVars, countVars>>

\* CheckProofOfWork() or ProcessNewBlock() rejects the block.
SubmitRejected ==
  /\ tpc = "submit"
  /\ tpc' = "loop"
  /\ UNCHANGED <<gui, guiVars, queueVars, m_engine, engineVars, countVars>>

SubmitAccepted ==
  /\ tpc = "submit" /\ m_blocksFound < MaxBlocks /\ sessionBlocks < MaxBlocks
  /\ tpc' = "loop"
  /\ m_blocksFound' = m_blocksFound + 1
  /\ sessionBlocks' = sessionBlocks + 1
  /\ UNCHANGED <<gui, guiVars, queueVars, m_engine, engineVars>>

\* m_engine.reset() and the end of the thread.
ResetEngine ==
  /\ tpc = "reset"
  /\ tpc' = "done"
  /\ m_engine' = FALSE
  /\ UNCHANGED <<gui, guiVars, queueVars, engineVars, countVars>>

-----------------------------------------------------------------------------
GuiStep ==
  \/ StartThread \/ RunPosted \/ RunLog \/ TestEngine \/ CallRequestStop
  \/ DestroyStop \/ DestroyWait \/ DestroyJoin

ThreadStep ==
  \/ SetupFails \/ CreateEngine \/ LoopTest \/ TemplateFails \/ TemplateReady
  \/ BeginMining \/ EndMining \/ AfterMining
  \/ SubmitRejected \/ SubmitAccepted \/ ResetEngine

UserStep == StartMining \/ StopMining \/ Destroy

Next == GuiStep \/ ThreadStep \/ ProofFound \/ UserStep

Spec == Init /\ [][Next]_vars

\* The event loop runs queued calls and finishes the call it is in, and the
\* mining thread keeps running; the user need not act and a proof need never
\* be found.
FairSpec == Spec /\ WF_vars(GuiStep) /\ WF_vars(ThreadStep)

-----------------------------------------------------------------------------
Destroying == gui \in {"destroy_stop", "destroy_wait", "destroy_join", "closed"}
Undefined  == gui \in {"dangling", "double_join"}

TypeOK ==
  /\ gui \in {"ready", "joining", "stop_test", "stop_call", "destroy_stop",
              "destroy_wait", "destroy_join", "closed", "dangling",
              "double_join"}
  /\ m_isMining \in BOOLEAN /\ m_stopRequested \in BOOLEAN
  /\ posted \in 0 .. MaxPosted /\ logPosted \in BOOLEAN
  /\ tpc \in {"none", "start", "loop", "template", "mine", "mining", "after",
              "submit", "reset", "done"}
  /\ m_engine \in BOOLEAN
  /\ session \in {"idle", "mining"} /\ asked \in BOOLEAN
  /\ proofs \subseteq Proofs
  /\ m_blocksFound \in 0 .. MaxBlocks /\ sessionBlocks \in 0 .. MaxBlocks

\* A mining thread is started, and an earlier stop withdrawn, only once the
\* previous thread has ended and destroyed its engine: startMining() joins
\* before it assigns m_stopRequested and m_miningThread.
HandOver ==
  [][ \/ tpc' = "start" /\ tpc # "start"
      \/ m_stopRequested /\ ~m_stopRequested'
      => ThreadGone /\ ~m_engine ]_vars

\* The tab never shows "mining" over a thread that has ended, unless the
\* stopMining() that cleanup() queued is still to run: every early return of
\* miningThreadFunc() and every exit from its loop is accounted for.
ExitAccounted == tpc = "done" /\ m_isMining =>
  posted > 0 \/ Destroying \/ Undefined

\* A failed start is eventually shown as stopped.
FailureShown ==
  (tpc = "done" /\ m_isMining) ~> (~m_isMining \/ Destroying \/ Undefined)

\* A stop that reaches the engine while a session runs ends the mining thread,
\* whether or not a proof is ever found.
StopEndsThread ==
  (m_stopRequested /\ session = "mining" /\ asked) ~> ThreadGone

\* startMining() resets the counter before it has joined the previous thread,
\* so a block that thread is just submitting is counted for the new session;
\* it is never more than that one, as the thread then sees m_stopRequested.
AtMostOneLateBlock ==
  m_isMining => m_blocksFound \in {sessionBlocks, sessionBlocks + 1}

\* What the buttons and the comment at the call of mine_parallel() promise:
\* after stopMining() or the destructor raised m_stopRequested the mining
\* thread ends, without a proof having to be found.
StopMiningStops == m_stopRequested ~> (ThreadGone \/ Undefined)

\* The destructor's blocking stop() never joins threads that mine_parallel()
\* is joining at the same time.
JoinedOnce == gui # "double_join"
=============================================================================
