-------------------------- MODULE MiningPageProofs --------------------------
(***************************************************************************)
(* The mining tab's safety properties, for every set of proofs and every   *)
(* bound on the queue and on the blocks counted.                           *)
(***************************************************************************)
EXTENDS MiningPage, TLAPS

USE SMTT(30)

\* m_engine points to an engine exactly while the mining thread is between
\* CreateEngine and ResetEngine.
EngineOwned ==
  m_engine <=> tpc \in {"loop", "template", "mine", "mining", "after",
                        "submit", "reset"}

(***************************************************************************)
(* What the flags say of the two threads.  A page that is not shown as     *)
(* mining has asked a thread that still runs to stop; one that is mining   *)
(* and asked to stop is being destroyed; a thread past its loop was asked  *)
(* to; while startMining() waits for the join the old thread adds at most  *)
(* the block it is submitting to the counter that was reset.               *)
(***************************************************************************)
Flags ==
  /\ ~m_isMining => ThreadGone \/ m_stopRequested
  /\ m_isMining /\ m_stopRequested => Destroying \/ Undefined
  /\ tpc = "reset" => m_stopRequested
  /\ gui \in {"joining", "stop_test", "stop_call"} => ~m_isMining
  /\ gui = "joining" =>
       m_blocksFound = 0 \/ (m_blocksFound = 1 /\ tpc # "submit")

PageInv ==
  TypeOK /\ EngineOwned /\ Flags /\ ExitAccounted /\ AtMostOneLateBlock

\* The tab before its first start.
LEMMA InitPage == Init => PageInv
<1> SUFFICES ASSUME Init PROVE PageInv
  OBVIOUS
<1> USE DEF Init, Engine!Init
<1>1. TypeOK
  <2>1. /\ posted \in 0 .. MaxPosted /\ m_blocksFound \in 0 .. MaxBlocks
        /\ sessionBlocks \in 0 .. MaxBlocks
    BY PageAssumption, SMT
  <2> QED
    BY <2>1, Zenon DEF TypeOK
<1>2. EngineOwned
  BY DEF EngineOwned
<1>3. Flags /\ ExitAccounted /\ AtMostOneLateBlock
  BY DEF Flags, ExitAccounted, AtMostOneLateBlock, ThreadGone
<1> QED
  BY <1>1, <1>2, <1>3 DEF PageInv

\* The GUI thread: buttons, queued calls and the destructor.
LEMMA GuiPage ==
  ASSUME PageInv, GuiStep \/ UserStep
  PROVE  PageInv'
<1> USE PageAssumption DEF PageInv, TypeOK, EngineOwned, Flags,
        ExitAccounted, AtMostOneLateBlock, ThreadGone, Destroying, Undefined,
        guiVars, queueVars, engineVars, countVars
<1>1. CASE StartThread
  <2> USE <1>1 DEF StartThread
  <2>1. TypeOK'
    <3>1. sessionBlocks' \in 0 .. MaxBlocks
      OBVIOUS
    <3> QED
      BY <3>1, Zenon
  <2>2. EngineOwned' /\ ExitAccounted'
    OBVIOUS
  <2>3. Flags'
    OBVIOUS
  <2>4. AtMostOneLateBlock'
    OBVIOUS
  <2> QED
    BY <2>1, <2>2, <2>3, <2>4
<1>2. CASE RunPosted
  <2> USE <1>2 DEF RunPosted
  <2>1. TypeOK'
    <3>1. posted' \in 0 .. MaxPosted
      OBVIOUS
    <3>2. gui' \in {"ready", "stop_test"} /\ m_isMining' \in BOOLEAN
          /\ m_stopRequested' \in BOOLEAN
      BY Zenon
    <3> QED
      BY <3>1, <3>2, Zenon
  <2>2. EngineOwned' /\ ExitAccounted'
    OBVIOUS
  <2>3. Flags'
    OBVIOUS
  <2>4. AtMostOneLateBlock'
    BY Zenon
  <2> QED
    BY <2>1, <2>2, <2>3, <2>4
<1>3. CASE RunLog
  BY <1>3, Zenon DEF RunLog
<1>4. CASE TestEngine
  BY <1>4 DEF TestEngine
<1>5. CASE CallRequestStop
  BY <1>5, ZenonT(40) DEF CallRequestStop, Engine!Ask
<1>6. CASE DestroyStop
  BY <1>6, ZenonT(40) DEF DestroyStop, Engine!Ask
<1>7. CASE DestroyWait
  BY <1>7, ZenonT(40) DEF DestroyWait, Engine!Forget
<1>8. CASE DestroyJoin
  BY <1>8 DEF DestroyJoin
<1>9. CASE StartMining
  BY <1>9 DEF StartMining
<1>10. CASE StopMining
  BY <1>10, Zenon DEF StopMining
<1>11. CASE Destroy
  BY <1>11 DEF Destroy
<1> QED
  BY <1>1, <1>2, <1>3, <1>4, <1>5, <1>6, <1>7, <1>8, <1>9, <1>10, <1>11,
     ZenonT(40)
  DEF GuiStep, UserStep

\* The mining thread and the workers of its engine.
LEMMA ThreadPage ==
  ASSUME PageInv, ThreadStep \/ ProofFound
  PROVE  PageInv'
<1> USE PageAssumption DEF PageInv, TypeOK, EngineOwned, Flags,
        ExitAccounted, AtMostOneLateBlock, ThreadGone, Destroying, Undefined,
        guiVars, queueVars, engineVars, countVars
<1>1. CASE SetupFails
  BY <1>1 DEF SetupFails
<1>2. CASE CreateEngine
  BY <1>2, Zenon DEF CreateEngine
<1>3. CASE LoopTest
  BY <1>3 DEF LoopTest
<1>4. CASE TemplateFails
  BY <1>4 DEF TemplateFails
<1>5. CASE TemplateReady
  BY <1>5 DEF TemplateReady
<1>6. CASE BeginMining
  BY <1>6, ZenonT(40) DEF BeginMining, Engine!Start
<1>7. CASE EndMining
  BY <1>7 DEF EndMining, Engine!End
<1>8. CASE AfterMining
  BY <1>8 DEF AfterMining
<1>9. CASE SubmitRejected
  BY <1>9 DEF SubmitRejected
<1>10. CASE SubmitAccepted
  BY <1>10 DEF SubmitAccepted
<1>11. CASE ResetEngine
  BY <1>11, Zenon DEF ResetEngine
<1>12. CASE ProofFound
  BY <1>12 DEF ProofFound, Engine!Report
<1> QED
  BY <1>1, <1>2, <1>3, <1>4, <1>5, <1>6, <1>7, <1>8, <1>9, <1>10, <1>11,
     <1>12, ZenonT(40)
  DEF ThreadStep

\* The invariant of the tab and its mining thread.
THEOREM PageInvariant == Spec => []PageInv
<1>1. ASSUME PageInv, UNCHANGED vars PROVE PageInv'
  BY <1>1
  DEF PageInv, TypeOK, EngineOwned, Flags, ExitAccounted, AtMostOneLateBlock,
      ThreadGone, Destroying, Undefined, vars, guiVars, queueVars, engineVars,
      countVars
<1>2. PageInv /\ [Next]_vars => PageInv'
  BY <1>1, GuiPage, ThreadPage DEF Next
<1> QED
  BY <1>2, InitPage, PTL DEF Spec

\* Every way out of miningThreadFunc() leaves the tab shown as stopped, or the
\* call that will show it queued.
THEOREM ExitsAccounted == Spec => []ExitAccounted
<1>1. PageInv => ExitAccounted
  BY DEF PageInv
<1> QED
  BY <1>1, PageInvariant, PTL

\* startMining()'s early reset of the counter costs at most one block's worth
\* of accuracy.
THEOREM OneLateBlock == Spec => []AtMostOneLateBlock
<1>1. PageInv => AtMostOneLateBlock
  BY DEF PageInv
<1> QED
  BY <1>1, PageInvariant, PTL

\* startMining() starts a thread, and withdraws an earlier stop, only when the
\* previous thread has ended and destroyed its engine.
THEOREM CleanHandOver == Spec => HandOver
<1>1. ASSUME PageInv, Next,
             \/ tpc' = "start" /\ tpc # "start"
             \/ m_stopRequested /\ ~m_stopRequested'
      PROVE  ThreadGone /\ ~m_engine
  <2>1. CASE StartThread
    BY <1>1, <2>1 DEF StartThread, PageInv, EngineOwned, ThreadGone
  <2>2. CASE GuiStep /\ ~StartThread
    BY <1>1, <2>2
    DEF GuiStep, RunPosted, RunLog, TestEngine, CallRequestStop, DestroyStop,
        DestroyWait, DestroyJoin, guiVars
  <2>3. CASE ThreadStep \/ ProofFound
    BY <1>1, <2>3
    DEF ThreadStep, SetupFails, CreateEngine, LoopTest, TemplateFails,
        TemplateReady, BeginMining, EndMining, AfterMining, SubmitRejected,
        SubmitAccepted, ResetEngine, ProofFound, guiVars
  <2>4. CASE UserStep
    BY <1>1, <2>4 DEF UserStep, StartMining, StopMining, Destroy, guiVars
  <2> QED
    BY <1>1, <2>1, <2>2, <2>3, <2>4 DEF Next
<1>2. PageInv /\ [Next]_vars =>
        [ \/ tpc' = "start" /\ tpc # "start"
          \/ m_stopRequested /\ ~m_stopRequested'
          => ThreadGone /\ ~m_engine ]_vars
  <2> SUFFICES ASSUME PageInv, [Next]_vars
               PROVE  [ \/ tpc' = "start" /\ tpc # "start"
                        \/ m_stopRequested /\ ~m_stopRequested'
                        => ThreadGone /\ ~m_engine ]_vars
    BY Zenon
  <2>1. CASE UNCHANGED vars
    BY <2>1, Zenon
  <2>2. CASE Next
    BY <1>1, <2>2
  <2> QED
    BY <2>1, <2>2, Zenon
<1> QED
  BY <1>2, PageInvariant, PTL DEF Spec, HandOver
=============================================================================
