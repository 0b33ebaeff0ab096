--------------------------- MODULE NodeMinerProofs ---------------------------
(***************************************************************************)
(* NodeMiner's safety properties for every set of proofs, every bound on   *)
(* the chain and every number of blocks a call may ask for.                *)
(***************************************************************************)
EXTENDS NodeMiner, TLAPS

USE SMTT(30)

(***************************************************************************)
(* The inductive invariant.  A call that is past its loop test still owes  *)
(* a block, which keeps the countdown from passing zero; nobody mines on   *)
(* more than the tip, and the last block the thread had accepted is below  *)
(* it, also when it was accepted beside the tip; a call that StopHTTPServer*)
(* waited for does not come back.                                          *)
(***************************************************************************)
Owing == rpc \in {"template", "mine", "mining", "after", "submit"}

NodeInv ==
  /\ TypeOK /\ GenerateExact /\ NewParent /\ StoppedBeforeReset
  /\ Owing => nGenerate > 0
  /\ dprev <= height /\ rprev <= height /\ dlast < height
  /\ shut \in {"http_stopped", "reset"} => rpc = "idle"

\* The node before its miners have taken a step.
LEMMA InitNode == Init => NodeInv
<1> SUFFICES ASSUME Init PROVE NodeInv
  OBVIOUS
<1> USE DEF Init, D!Init, R!Init
<1>1. TypeOK
  <2>1. /\ height \in 0 .. MaxHeight /\ dprev \in 0 .. MaxHeight
        /\ dlast \in -1 .. MaxHeight /\ rprev \in 0 .. MaxHeight
        /\ wanted \in Requested \cup {0} /\ nGenerate \in 0 .. wanted
        /\ hashes \in 0 .. wanted
    BY NodeAssumption, SMT
  <2> QED
    BY <2>1, Zenon DEF TypeOK
<1>2. GenerateExact /\ NewParent /\ StoppedBeforeReset
  BY DEF GenerateExact, NewParent, StoppedBeforeReset
<1> QED
  BY <1>1, <1>2 DEF NodeInv, Owing

\* MiningThread(): none of its steps touches the call.
LEMMA DaemonNode ==
  ASSUME NodeInv, DaemonStep \/ DReport
  PROVE  NodeInv'
<1> USE NodeAssumption DEF NodeInv, TypeOK, GenerateExact, NewParent,
        StoppedBeforeReset, Owing, node, call, dengine, rengine
<1>1. CASE DLoop
  BY <1>1 DEF DLoop
<1>2. CASE DRetry
  BY <1>2 DEF DRetry
<1>3. CASE DTemplate
  BY <1>3 DEF DTemplate
<1>4. CASE DBegin
  BY <1>4, ZenonT(40) DEF DBegin, D!Start
<1>5. CASE DEnd
  BY <1>5 DEF DEnd, D!End
<1>6. CASE DAfter
  BY <1>6 DEF DAfter
<1>7. CASE DReject
  BY <1>7 DEF DReject
<1>8. CASE DAccept
  BY <1>8 DEF DAccept, Connect
<1>9. CASE DReport
  BY <1>9 DEF DReport, D!Report
<1> QED
  BY <1>1, <1>2, <1>3, <1>4, <1>5, <1>6, <1>7, <1>8, <1>9,
     ZenonT(40)
  DEF DaemonStep

\* generateBlocks(): none of its steps touches the mining thread.
LEMMA CallNode ==
  ASSUME NodeInv, CallStep \/ RReport \/ RCall
  PROVE  NodeInv'
<1> USE NodeAssumption DEF NodeInv, TypeOK, GenerateExact, NewParent,
        StoppedBeforeReset, Owing, node, daemon, dengine, rengine
<1>1. CASE RLoop
  BY <1>1 DEF RLoop
<1>2. CASE RNoTemplate
  BY <1>2 DEF RNoTemplate
<1>3. CASE RTemplate
  BY <1>3 DEF RTemplate
<1>4. CASE RBegin
  BY <1>4, ZenonT(40) DEF RBegin, R!Start
<1>5. CASE REnd
  BY <1>5 DEF REnd, R!End
<1>6. CASE RAfter
  <2>1. /\ rpc = "after" /\ rpc' \in {"return", "submit"}
        /\ rsession' = rsession /\ rproofs' = rproofs /\ rasked' \in BOOLEAN
    BY <1>6, Zenon DEF RAfter, R!Forget
  <2>2. /\ height' = height /\ m_interrupt' = m_interrupt /\ shut' = shut
        /\ dpc' = dpc /\ dprev' = dprev /\ dlast' = dlast /\ dsession' = dsession
        /\ dasked' = dasked /\ dproofs' = dproofs /\ rprev' = rprev
        /\ nGenerate' = nGenerate /\ hashes' = hashes /\ wanted' = wanted
    BY <1>6, Zenon DEF RAfter
  <2> QED
    BY <2>1, <2>2
<1>7. CASE RReject
  BY <1>7 DEF RReject
<1>8. CASE RAccept
  BY <1>8 DEF RAccept, Connect
<1>9. CASE RReturn
  BY <1>9 DEF RReturn
<1>10. CASE RReport
  BY <1>10 DEF RReport, R!Report
<1>11. CASE RCall
  BY <1>11 DEF RCall
<1> QED
  BY <1>1, <1>2, <1>3, <1>4, <1>5, <1>6, <1>7, <1>8, <1>9, <1>10, <1>11,
     ZenonT(40)
  DEF CallStep

\* Shutdown(), the interrupt and the network.
LEMMA ShutdownNode ==
  ASSUME NodeInv, ShutdownStep \/ Signal \/ BlockArrives
  PROVE  NodeInv'
<1> USE NodeAssumption DEF NodeInv, TypeOK, GenerateExact, NewParent,
        StoppedBeforeReset, Owing, node, daemon, call, dengine, rengine
<1>1. CASE InterruptRPC
  BY <1>1 DEF InterruptRPC
<1>2. CASE StopHTTPServer
  BY <1>2 DEF StopHTTPServer
<1>3. CASE JoinMiner
  BY <1>3 DEF JoinMiner
<1>4. CASE Signal
  BY <1>4 DEF Signal
<1>5. CASE BlockArrives
  BY <1>5 DEF BlockArrives
<1> QED
  BY <1>1, <1>2, <1>3, <1>4, <1>5 DEF ShutdownStep

\* The invariant of the miners, the interrupt and Shutdown() together.
THEOREM NodeInvariant == Spec => []NodeInv
<1>1. ASSUME NodeInv, UNCHANGED vars PROVE NodeInv'
  BY <1>1
  DEF NodeInv, TypeOK, GenerateExact, NewParent, StoppedBeforeReset, Owing,
      vars, node, daemon, call, dengine, rengine
<1>2. NodeInv /\ [Next]_vars => NodeInv'
  BY <1>1, DaemonNode, CallNode, ShutdownNode DEF Next
<1> QED
  BY <1>2, InitNode, PTL DEF Spec

\* Shutdown() destroys the node's objects only when the mining thread is joined
\* and no generate call runs.
THEOREM NoMinerLeft == Spec => []StoppedBeforeReset
<1>1. NodeInv => StoppedBeforeReset
  BY DEF NodeInv
<1> QED
  BY <1>1, NodeInvariant, PTL

\* MiningThread() never mines twice on one parent once its block was accepted.
THEOREM ParentOnce == Spec => []NewParent
<1>1. NodeInv => NewParent
  BY DEF NodeInv
<1> QED
  BY <1>1, NodeInvariant, PTL

\* A generate call's hashes and what it still owes add up to nblocks.
THEOREM CallExact == Spec => []GenerateExact
<1>1. NodeInv => GenerateExact
  BY DEF NodeInv
<1> QED
  BY <1>1, NodeInvariant, PTL
=============================================================================
