-------------------------- MODULE MiningEngineTypes --------------------------
(***************************************************************************)
(* Type correctness of MiningEngine for every number of threads, batch     *)
(* size, nonce space, request pool and world of candidates.  The type      *)
(* invariant is inductive only together with what a program counter says   *)
(* of the state: LocalInv, GpuInv and PhaseInv.                            *)
(*                                                                         *)
(* And which nonces a worker holds: two workers never sieve the same nonce *)
(* at the same time when the number of threads divides the nonce space (a  *)
(* power of two in the code).  The argument is a residue: worker w only    *)
(* ever holds nonces congruent to StartNonce + w modulo NThreads, through  *)
(* every stride and every wrap.                                            *)
(***************************************************************************)
EXTENDS MiningEngine, TLAPS

USE SMTT(30)

AtCandidate == {"submit", "await", "scan", "process", "process_add",
                "process_found", "accepted"}

HoldsRequest == {"await", "scan", "process", "process_add", "process_found",
                 "accepted"}

\* What a worker's program counter says of its locals.
LocalInv ==
  \A w \in Workers :
    /\ wpc[w] \in AtCandidate \cup {"interval"} => seg[w] >= 1
    /\ wpc[w] \in AtCandidate => k[w] < Batch
    /\ wpc[w] = "await" => req[w] # NoReq
    /\ wpc[w] \notin HoldsRequest => req[w] = NoReq

GpuInv == gpc \in {"batch", "signal"} <=> greq # NoReq

\* Which threads exist in each phase of mine_parallel.
PhaseInv ==
  /\ parallel_mining_active <=> mp # "idle"
  /\ mp # "join" => \A w \in Workers : wpc[w] = "none"
  /\ mp = "idle" => gpc = "none"

TypeInv == TypeOK /\ LocalInv /\ GpuInv /\ PhaseInv

\* uint32_t arithmetic stays in the nonce space.
LEMMA ModNonces == ASSUME NEW x \in Int PROVE x % NonceMod \in Nonces
  BY SizeAssumption DEF Nonces

LEMMA NonceType ==
  ASSUME TypeOK, NEW w \in Workers, NEW i \in 0 .. Batch
  PROVE  NonceOf(w, i) \in Nonces
<1>1. nonce_base[w] \in Int /\ i \in Int /\ NThreads \in Int
  BY SizeAssumption DEF TypeOK, WorkerTypeOK, Nonces
<1>2. nonce_base[w] + i * NThreads \in Int
  BY <1>1
<1> QED
  BY <1>2, ModNonces DEF NonceOf

LEMMA NextBaseType ==
  ASSUME TypeOK, NEW w \in Workers PROVE NextBase(w) \in Nonces
<1>1. nonce_base[w] \in Int /\ Batch \in Int /\ NThreads \in Int
  BY SizeAssumption DEF TypeOK, WorkerTypeOK, Nonces
<1>2. nonce_base[w] + Batch * NThreads \in Int
  BY <1>1
<1> QED
  BY <1>2, ModNonces DEF NextBase

\* The candidates a worker takes in an interval are offsets.
LEMMA CandidatesType ==
  ASSUME TypeOK, NEW w \in Workers, seg[w] >= 1
  PROVE  Candidates(w) \in Seq(Offsets)
<1>1. Nonce(w) \in Nonces
  BY NonceType DEF Nonce, TypeOK, WorkerTypeOK
<1>2. seg[w] \in 1 .. Segments
  BY SizeAssumption DEF TypeOK, WorkerTypeOK
<1> QED
  BY <1>1, <1>2, WorldAssumption, Zenon DEF Candidates

LEMMA TypeInit == Init => TypeInv
<1> SUFFICES ASSUME Init PROVE TypeInv
  OBVIOUS
<1>1. 0 \in Nonces /\ 0 \in Offsets
  BY SizeAssumption DEF Nonces, Offsets
<1>2. CallerTypeOK
  BY Zenon DEF Init, CallerTypeOK
<1>3. GpuTypeOK
  BY DEF Init, GpuTypeOK, ReqOrNone
<1>4. ProofTypeOK
  BY <1>1, Zenon DEF Init, ProofTypeOK
<1>5. 0 \in 0 .. Segments /\ 0 \in 0 .. Batch /\ <<>> \in Seq(Offsets)
  BY SizeAssumption
<1>6. WorkerTypeOK
  BY <1>1, <1>5 DEF Init, WorkerTypeOK, ReqOrNone
<1>7. LocalInv /\ GpuInv /\ PhaseInv
  BY DEF Init, LocalInv, GpuInv, PhaseInv, AtCandidate, HoldsRequest
<1> QED
  BY <1>2, <1>3, <1>4, <1>6, <1>7 DEF TypeInv, TypeOK

LEMMA TypeStep == TypeInv /\ [Next]_vars => TypeInv'
<1> SUFFICES ASSUME TypeInv, [Next]_vars PROVE TypeInv'
  BY Zenon
<1> USE DEF TypeInv, TypeOK, callerVars, scanVars, gpuVars, reqVars, procVars,
      histVars, At, Goto
<1>1. CASE MineParallel
  <2>1. WorkerTypeOK' /\ LocalInv'
    BY <1>1, Zenon DEF MineParallel, WorkerTypeOK, LocalInv
  <2>2. CallerTypeOK'
    BY <1>1, Zenon DEF MineParallel, CallerTypeOK
  <2>3. GpuTypeOK'
    BY <1>1 DEF MineParallel, GpuTypeOK, ReqOrNone, NotifyGpu
  <2>4. ProofTypeOK'
    <3>1. 0 \in Nonces /\ 0 \in Offsets
      BY SizeAssumption DEF Nonces, Offsets
    <3> QED
      BY <1>1, <3>1, Zenon DEF MineParallel, ProofTypeOK
  <2>5. GpuInv'
    BY <1>1 DEF MineParallel, GpuInv, PhaseInv, GpuTypeOK, ReqOrNone, NotifyGpu
  <2>6. PhaseInv'
    BY <1>1, Zenon DEF MineParallel, PhaseInv, WorkerTypeOK, NotifyGpu
  <2> QED
    BY <2>1, <2>2, <2>3, <2>4, <2>5, <2>6
<1>2. CASE LaunchWorkers
  <2>1. GpuTypeOK' /\ ProofTypeOK' /\ GpuInv'
    BY <1>2 DEF LaunchWorkers, GpuTypeOK, ProofTypeOK, GpuInv
  <2>2. CallerTypeOK'
    BY <1>2 DEF LaunchWorkers, CallerTypeOK
  <2>3. WorkerTypeOK'
    <3>1. \A w \in Workers : (StartNonce + w) % NonceMod \in Nonces
      BY ModNonces, SizeAssumption DEF Workers, Nonces
    <3> QED
      BY <1>2, <3>1 DEF LaunchWorkers, WorkerTypeOK
  <2>4. LocalInv'
    BY <1>2, Zenon DEF LaunchWorkers, LocalInv, PhaseInv, WorkerTypeOK, AtCandidate,
       HoldsRequest
  <2>5. PhaseInv'
    BY <1>2 DEF LaunchWorkers, PhaseInv, WorkerTypeOK, NotifyGpu
  <2> QED
    BY <2>1, <2>2, <2>3, <2>4, <2>5
<1>3. CASE JoinWorkers
  <2>1. GpuTypeOK' /\ ProofTypeOK' /\ GpuInv'
    BY <1>3 DEF JoinWorkers, GpuTypeOK, ProofTypeOK, GpuInv
  <2>2. CallerTypeOK'
    BY <1>3 DEF JoinWorkers, CallerTypeOK
  <2>3. WorkerTypeOK'
    BY <1>3, Zenon DEF JoinWorkers, WorkerTypeOK, ReqOrNone
  <2>4. LocalInv'
    BY <1>3, Zenon DEF JoinWorkers, LocalInv, PhaseInv, WorkerTypeOK, AtCandidate,
       HoldsRequest
  <2>5. PhaseInv'
    BY <1>3, Zenon DEF JoinWorkers, PhaseInv, WorkerTypeOK, NotifyGpu
  <2> QED
    BY <2>1, <2>2, <2>3, <2>4, <2>5
<1>4. CASE StopGpu
  <2>1. WorkerTypeOK' /\ ProofTypeOK' /\ LocalInv'
    BY <1>4, Zenon DEF StopGpu, WorkerTypeOK, ProofTypeOK, LocalInv
  <2>2. CallerTypeOK'
    BY <1>4 DEF StopGpu, CallerTypeOK
  <2>3. GpuTypeOK'
    BY <1>4 DEF StopGpu, GpuTypeOK, ReqOrNone, NotifyGpu
  <2>4. GpuInv'
    BY <1>4 DEF StopGpu, GpuInv, PhaseInv, GpuTypeOK, ReqOrNone, NotifyGpu
  <2>5. PhaseInv'
    BY <1>4, Zenon DEF StopGpu, PhaseInv, WorkerTypeOK, NotifyGpu
  <2> QED
    BY <2>1, <2>2, <2>3, <2>4, <2>5
<1>5. CASE Return
  <2>1. WorkerTypeOK' /\ ProofTypeOK' /\ LocalInv'
    BY <1>5, Zenon DEF Return, WorkerTypeOK, ProofTypeOK, LocalInv
  <2>2. CallerTypeOK'
    BY <1>5, Zenon DEF Return, CallerTypeOK
  <2>3. GpuTypeOK'
    BY <1>5 DEF Return, GpuTypeOK, ReqOrNone, NotifyGpu
  <2>4. GpuInv'
    BY <1>5 DEF Return, GpuInv, PhaseInv, GpuTypeOK, ReqOrNone, NotifyGpu
  <2>5. PhaseInv'
    BY <1>5 DEF Return, PhaseInv, WorkerTypeOK, NotifyGpu
  <2> QED
    BY <2>1, <2>2, <2>3, <2>4, <2>5
<1>6. CASE StopIdle
  <2>1. WorkerTypeOK' /\ GpuTypeOK' /\ LocalInv' /\ GpuInv' /\ PhaseInv'
    BY <1>6, Zenon DEF StopIdle, WorkerTypeOK, GpuTypeOK, LocalInv, GpuInv, PhaseInv
  <2>2. CallerTypeOK'
    BY <1>6, Zenon DEF StopIdle, CallerTypeOK
  <2>3. ProofTypeOK'
    BY <1>6, Zenon DEF StopIdle, ProofTypeOK
  <2> QED
    BY <2>1, <2>2, <2>3
<1>7. CASE GpuInit
  <2>1. WorkerTypeOK' /\ ProofTypeOK' /\ LocalInv'
    BY <1>7, Zenon DEF GpuInit, WorkerTypeOK, ProofTypeOK, LocalInv
  <2>2. CallerTypeOK'
    BY <1>7, Zenon DEF GpuInit, CallerTypeOK
  <2>3. GpuTypeOK'
    BY <1>7 DEF GpuInit, GpuTypeOK, ReqOrNone, NotifyGpu
  <2>4. GpuInv'
    BY <1>7 DEF GpuInit, GpuInv, PhaseInv, GpuTypeOK, ReqOrNone, NotifyGpu
  <2>5. PhaseInv'
    BY <1>7 DEF GpuInit, PhaseInv, WorkerTypeOK, NotifyGpu
  <2> QED
    BY <2>1, <2>2, <2>3, <2>4, <2>5
<1>8. CASE GpuLoop
  <2>1. CallerTypeOK' /\ WorkerTypeOK' /\ ProofTypeOK' /\ LocalInv'
    BY <1>8, Zenon DEF GpuLoop, CallerTypeOK, WorkerTypeOK, ProofTypeOK, LocalInv
  <2>2. GpuTypeOK'
    BY <1>8 DEF GpuLoop, GpuTypeOK, ReqOrNone, NotifyGpu
  <2>3. GpuInv'
    BY <1>8 DEF GpuLoop, GpuInv, PhaseInv, GpuTypeOK, ReqOrNone, NotifyGpu
  <2>4. PhaseInv'
    BY <1>8, Zenon DEF GpuLoop, PhaseInv, WorkerTypeOK, NotifyGpu
  <2> QED
    BY <2>1, <2>2, <2>3, <2>4
<1>9. CASE GpuCheck
  <2>1. CallerTypeOK' /\ WorkerTypeOK' /\ ProofTypeOK' /\ LocalInv'
    BY <1>9, Zenon DEF GpuCheck, CallerTypeOK, WorkerTypeOK, ProofTypeOK, LocalInv
  <2>2. GpuTypeOK'
    <3>1. CASE gpu_request_queue # <<>>
      <4>1. Head(gpu_request_queue) \in Requests /\ Tail(gpu_request_queue) \in Seq(Requests)
        BY <3>1 DEF GpuTypeOK
      <4> QED
        BY <1>9, <3>1, <4>1, Zenon DEF GpuCheck, GpuTypeOK, ReqOrNone
    <3>2. CASE gpu_request_queue = <<>>
      BY <1>9, <3>2 DEF GpuCheck, GpuTypeOK
    <3> QED
      BY <3>1, <3>2
  <2>3. GpuInv'
    BY <1>9, WorldAssumption DEF GpuCheck, GpuInv, PhaseInv, GpuTypeOK,
       ReqOrNone, NotifyGpu
  <2>4. PhaseInv'
    BY <1>9 DEF GpuCheck, PhaseInv, WorkerTypeOK, NotifyGpu
  <2> QED
    BY <2>1, <2>2, <2>3, <2>4
<1>10. CASE GpuBlock
  <2>1. CallerTypeOK' /\ WorkerTypeOK' /\ ProofTypeOK' /\ LocalInv'
    BY <1>10, Zenon DEF GpuBlock, CallerTypeOK, WorkerTypeOK, ProofTypeOK, LocalInv
  <2>2. GpuTypeOK'
    BY <1>10 DEF GpuBlock, GpuTypeOK, ReqOrNone, NotifyGpu
  <2>3. GpuInv'
    BY <1>10 DEF GpuBlock, GpuInv, PhaseInv, GpuTypeOK, ReqOrNone, NotifyGpu
  <2>4. PhaseInv'
    BY <1>10, Zenon DEF GpuBlock, PhaseInv, WorkerTypeOK, NotifyGpu
  <2> QED
    BY <2>1, <2>2, <2>3, <2>4
<1>11. CASE GpuSpuriousWake
  <2>1. CallerTypeOK' /\ WorkerTypeOK' /\ ProofTypeOK' /\ LocalInv'
    BY <1>11, Zenon DEF GpuSpuriousWake, CallerTypeOK, WorkerTypeOK, ProofTypeOK,
       LocalInv
  <2>2. GpuTypeOK'
    BY <1>11 DEF GpuSpuriousWake, GpuTypeOK, ReqOrNone, NotifyGpu
  <2>3. GpuInv'
    BY <1>11 DEF GpuSpuriousWake, GpuInv, PhaseInv, GpuTypeOK, ReqOrNone,
       NotifyGpu
  <2>4. PhaseInv'
    BY <1>11, Zenon DEF GpuSpuriousWake, PhaseInv, WorkerTypeOK, NotifyGpu
  <2> QED
    BY <2>1, <2>2, <2>3, <2>4
<1>12. CASE GpuBatch
  <2>1. CallerTypeOK' /\ WorkerTypeOK' /\ ProofTypeOK' /\ LocalInv'
    BY <1>12, Zenon DEF GpuBatch, CallerTypeOK, WorkerTypeOK, ProofTypeOK, LocalInv
  <2>2. GpuTypeOK'
    BY <1>12, Zenon DEF GpuBatch, GpuTypeOK, ReqOrNone, NotifyGpu
  <2>3. GpuInv'
    BY <1>12 DEF GpuBatch, GpuInv, PhaseInv, GpuTypeOK, ReqOrNone, NotifyGpu
  <2>4. PhaseInv'
    BY <1>12, Zenon DEF GpuBatch, PhaseInv, WorkerTypeOK, NotifyGpu
  <2> QED
    BY <2>1, <2>2, <2>3, <2>4
<1>13. CASE GpuSignal
  <2>1. CallerTypeOK' /\ WorkerTypeOK' /\ ProofTypeOK' /\ LocalInv'
    BY <1>13, Zenon DEF GpuSignal, CallerTypeOK, WorkerTypeOK, ProofTypeOK, LocalInv
  <2>2. GpuTypeOK'
    <3>1. greq \in Requests
      BY <1>13 DEF GpuSignal, GpuInv, GpuTypeOK, ReqOrNone
    <3> QED
      BY <1>13, <3>1, Zenon DEF GpuSignal, GpuTypeOK, ReqOrNone
  <2>3. GpuInv'
    BY <1>13 DEF GpuSignal, GpuInv, PhaseInv, GpuTypeOK, ReqOrNone, NotifyGpu
  <2>4. PhaseInv'
    BY <1>13, Zenon DEF GpuSignal, PhaseInv, WorkerTypeOK, NotifyGpu
  <2> QED
    BY <2>1, <2>2, <2>3, <2>4
<1>14. CASE RequestStop
  <2>1. WorkerTypeOK' /\ GpuTypeOK' /\ LocalInv' /\ GpuInv' /\ PhaseInv'
    BY <1>14, Zenon DEF RequestStop, WorkerTypeOK, GpuTypeOK, LocalInv, GpuInv,
       PhaseInv
  <2>2. CallerTypeOK'
    BY <1>14 DEF RequestStop, CallerTypeOK
  <2>3. ProofTypeOK'
    BY <1>14 DEF RequestStop, ProofTypeOK
  <2> QED
    BY <2>1, <2>2, <2>3
<1>15. CASE RequestStopNotify
  <2>1. WorkerTypeOK' /\ ProofTypeOK' /\ LocalInv'
    BY <1>15, Zenon DEF RequestStopNotify, WorkerTypeOK, ProofTypeOK, LocalInv
  <2>2. CallerTypeOK'
    BY <1>15 DEF RequestStopNotify, CallerTypeOK
  <2>3. GpuTypeOK'
    BY <1>15 DEF RequestStopNotify, GpuTypeOK, ReqOrNone, NotifyGpu
  <2>4. GpuInv'
    BY <1>15, Zenon DEF RequestStopNotify, GpuInv, PhaseInv, GpuTypeOK, ReqOrNone,
       NotifyGpu
  <2>5. PhaseInv'
    BY <1>15 DEF RequestStopNotify, PhaseInv, WorkerTypeOK, NotifyGpu
  <2> QED
    BY <2>1, <2>2, <2>3, <2>4, <2>5
<1>16. ASSUME NEW w \in Workers, WorkerExit(w) PROVE TypeInv'
  <2>1. CallerTypeOK' /\ GpuTypeOK' /\ GpuInv'
    BY <1>16, Zenon DEF WorkerExit, DropLocals, CallerTypeOK, GpuTypeOK, GpuInv
  <2>2. WorkerTypeOK'
    <3>1. [i \in 0 .. Batch - 1 |-> 0] \in [0 .. Batch - 1 -> Offsets]
      BY DEF Offsets
    <3>2. 0 \in Nonces /\ 0 \in 0 .. Segments /\ 0 \in 0 .. Batch /\ <<>> \in Seq(Offsets)
      BY SizeAssumption DEF Nonces, Offsets
    <3> QED
      BY <1>16, <3>1, <3>2, Zenon DEF WorkerExit, DropLocals, WorkerTypeOK, ReqOrNone
  <2>3. ProofTypeOK'
    BY <1>16, Zenon DEF WorkerExit, DropLocals, ProofTypeOK
  <2>4. LocalInv'
    BY <1>16, Zenon DEF WorkerExit, DropLocals, LocalInv, PhaseInv, WorkerTypeOK,
       AtCandidate, HoldsRequest
  <2>5. PhaseInv'
    BY <1>16, Zenon DEF WorkerExit, DropLocals, PhaseInv, WorkerTypeOK, NotifyGpu
  <2> QED
    BY <2>1, <2>2, <2>3, <2>4, <2>5
<1>17. ASSUME NEW w \in Workers, SkipBatch(w) PROVE TypeInv'
  <2>1. CallerTypeOK' /\ GpuTypeOK' /\ ProofTypeOK' /\ LocalInv' /\ GpuInv'
    BY <1>17 DEF SkipBatch, CallerTypeOK, GpuTypeOK, ProofTypeOK, LocalInv,
       GpuInv
  <2>2. WorkerTypeOK'
    BY <1>17, NextBaseType, Zenon DEF SkipBatch, WorkerTypeOK, ReqOrNone
  <2>3. PhaseInv'
    BY <1>17 DEF SkipBatch, PhaseInv, WorkerTypeOK, NotifyGpu
  <2> QED
    BY <2>1, <2>2, <2>3
<1>18. ASSUME NEW w \in Workers, BeginBatch(w) PROVE TypeInv'
  <2>1. CallerTypeOK' /\ GpuTypeOK' /\ GpuInv'
    BY <1>18, Zenon DEF BeginBatch, CallerTypeOK, GpuTypeOK, GpuInv
  <2>2. WorkerTypeOK'
    <3>1. [i \in 0 .. Batch - 1 |-> 0] \in [0 .. Batch - 1 -> Offsets]
      BY DEF Offsets
    <3>2. 0 \in Nonces /\ 0 \in 0 .. Segments /\ 0 \in 0 .. Batch /\ <<>> \in Seq(Offsets)
      BY SizeAssumption DEF Nonces, Offsets
    <3> QED
      BY <1>18, <3>1, <3>2, Zenon DEF BeginBatch, WorkerTypeOK, ReqOrNone
  <2>3. ProofTypeOK'
    BY <1>18 DEF BeginBatch, ProofTypeOK
  <2>4. LocalInv'
    BY <1>18, Zenon DEF BeginBatch, LocalInv, PhaseInv, WorkerTypeOK, AtCandidate,
       HoldsRequest
  <2>5. PhaseInv'
    BY <1>18, Zenon DEF BeginBatch, PhaseInv, WorkerTypeOK, NotifyGpu
  <2> QED
    BY <2>1, <2>2, <2>3, <2>4, <2>5
<1>19. ASSUME NEW w \in Workers, ReadGpuFlag(w) PROVE TypeInv'
  <2>1. CallerTypeOK' /\ GpuTypeOK' /\ ProofTypeOK' /\ GpuInv'
    BY <1>19 DEF ReadGpuFlag, CallerTypeOK, GpuTypeOK, ProofTypeOK, GpuInv
  <2>2. WorkerTypeOK'
    BY <1>19, Zenon DEF ReadGpuFlag, WorkerTypeOK, ReqOrNone
  <2>3. LocalInv'
    BY <1>19, Zenon DEF ReadGpuFlag, LocalInv, PhaseInv, WorkerTypeOK, AtCandidate,
       HoldsRequest
  <2>4. PhaseInv'
    BY <1>19, Zenon DEF ReadGpuFlag, PhaseInv, WorkerTypeOK, NotifyGpu
  <2> QED
    BY <2>1, <2>2, <2>3, <2>4
<1>20. ASSUME NEW w \in Workers, NextSegment(w) PROVE TypeInv'
  <2>1. CallerTypeOK' /\ GpuTypeOK' /\ ProofTypeOK' /\ GpuInv'
    BY <1>20 DEF NextSegment, CallerTypeOK, GpuTypeOK, ProofTypeOK, GpuInv
  <2>2. WorkerTypeOK'
    BY <1>20, SizeAssumption DEF NextSegment, WorkerTypeOK, ReqOrNone
  <2>3. LocalInv'
    BY <1>20 DEF NextSegment, LocalInv, PhaseInv, WorkerTypeOK, AtCandidate,
       HoldsRequest
  <2>4. PhaseInv'
    BY <1>20, Zenon DEF NextSegment, PhaseInv, WorkerTypeOK, NotifyGpu
  <2> QED
    BY <2>1, <2>2, <2>3, <2>4
<1>21. ASSUME NEW w \in Workers, EndBatch(w) PROVE TypeInv'
  <2>1. CallerTypeOK' /\ GpuTypeOK' /\ ProofTypeOK' /\ GpuInv'
    BY <1>21 DEF EndBatch, CallerTypeOK, GpuTypeOK, ProofTypeOK, GpuInv
  <2>2. WorkerTypeOK'
    BY <1>21, NextBaseType, Zenon DEF EndBatch, WorkerTypeOK, ReqOrNone
  <2>3. LocalInv'
    BY <1>21, Zenon DEF EndBatch, LocalInv, PhaseInv, WorkerTypeOK, AtCandidate,
       HoldsRequest
  <2>4. PhaseInv'
    BY <1>21, Zenon DEF EndBatch, PhaseInv, WorkerTypeOK, NotifyGpu
  <2> QED
    BY <2>1, <2>2, <2>3, <2>4
<1>22. ASSUME NEW w \in Workers, EndIntervals(w) PROVE TypeInv'
  <2>1. CallerTypeOK' /\ GpuTypeOK' /\ ProofTypeOK' /\ GpuInv'
    BY <1>22 DEF EndIntervals, CallerTypeOK, GpuTypeOK, ProofTypeOK, GpuInv
  <2>2. WorkerTypeOK'
    BY <1>22, Zenon DEF EndIntervals, WorkerTypeOK, ReqOrNone
  <2>3. LocalInv'
    BY <1>22, Zenon DEF EndIntervals, LocalInv, PhaseInv, WorkerTypeOK, AtCandidate,
       HoldsRequest
  <2>4. PhaseInv'
    BY <1>22, Zenon DEF EndIntervals, PhaseInv, WorkerTypeOK, NotifyGpu
  <2> QED
    BY <2>1, <2>2, <2>3, <2>4
<1>23. ASSUME NEW w \in Workers, SkipInterval(w) PROVE TypeInv'
  <2>1. CallerTypeOK' /\ GpuTypeOK' /\ ProofTypeOK' /\ GpuInv'
    BY <1>23 DEF SkipInterval, CallerTypeOK, GpuTypeOK, ProofTypeOK, GpuInv
  <2>2. WorkerTypeOK'
    BY <1>23, SizeAssumption DEF SkipInterval, WorkerTypeOK, ReqOrNone
  <2>3. LocalInv'
    BY <1>23, Zenon DEF SkipInterval, LocalInv, PhaseInv, WorkerTypeOK, AtCandidate,
       HoldsRequest
  <2>4. PhaseInv'
    BY <1>23, Zenon DEF SkipInterval, PhaseInv, WorkerTypeOK, NotifyGpu
  <2> QED
    BY <2>1, <2>2, <2>3, <2>4
<1>24. ASSUME NEW w \in Workers, TakeCpuPath(w) PROVE TypeInv'
  <2>1. CallerTypeOK' /\ GpuTypeOK' /\ ProofTypeOK' /\ GpuInv'
    BY <1>24 DEF TakeCpuPath, CallerTypeOK, GpuTypeOK, ProofTypeOK, GpuInv
  <2>2. WorkerTypeOK'
    <3>1. Candidates(w) \in Seq(Offsets)
      BY <1>24, CandidatesType, Zenon DEF TakeCpuPath, LocalInv
    <3> QED
      BY <1>24, <3>1, Zenon DEF TakeCpuPath, WorkerTypeOK
  <2>3. LocalInv'
    BY <1>24, Zenon DEF TakeCpuPath, LocalInv, PhaseInv, WorkerTypeOK, AtCandidate,
       HoldsRequest
  <2>4. PhaseInv'
    BY <1>24, Zenon DEF TakeCpuPath, PhaseInv, WorkerTypeOK, NotifyGpu
  <2> QED
    BY <2>1, <2>2, <2>3, <2>4
<1>25. ASSUME NEW w \in Workers, TakeGpuPath(w) PROVE TypeInv'
  <2>1. CallerTypeOK' /\ GpuTypeOK' /\ ProofTypeOK' /\ GpuInv'
    BY <1>25 DEF TakeGpuPath, CallerTypeOK, GpuTypeOK, ProofTypeOK, GpuInv
  <2>2. WorkerTypeOK'
    BY <1>25, Zenon DEF TakeGpuPath, WorkerTypeOK, ReqOrNone
  <2>3. LocalInv'
    BY <1>25, Zenon DEF TakeGpuPath, LocalInv, PhaseInv, WorkerTypeOK, AtCandidate,
       HoldsRequest
  <2>4. PhaseInv'
    BY <1>25, Zenon DEF TakeGpuPath, PhaseInv, WorkerTypeOK, NotifyGpu
  <2> QED
    BY <2>1, <2>2, <2>3, <2>4
<1>26. ASSUME NEW w \in Workers, Submit(w) PROVE TypeInv'
  <2>1. CallerTypeOK' /\ ProofTypeOK'
    BY <1>26, Zenon DEF Submit, CallerTypeOK, ProofTypeOK
  <2>2. WorkerTypeOK'
    <3>1. req' \in [Workers -> ReqOrNone]
      BY <1>26, Zenon DEF Submit, WorkerTypeOK, ReqOrNone
    <3>2. wpc' = [wpc EXCEPT ![w] = "await"] /\ UNCHANGED <<nonce_base, scanVars>>
      BY <1>26, Zenon DEF Submit, Goto
    <3> QED
      BY <3>1, <3>2, Zenon DEF WorkerTypeOK, scanVars
  <2>3. GpuTypeOK'
    BY <1>26 DEF Submit, GpuTypeOK, ReqOrNone, NotifyGpu
  <2>4. LocalInv'
    BY <1>26, WorldAssumption, Zenon DEF Submit, LocalInv, PhaseInv, WorkerTypeOK,
       AtCandidate, HoldsRequest
  <2>5. GpuInv'
    BY <1>26, WorldAssumption, Zenon DEF Submit, GpuInv, PhaseInv, GpuTypeOK,
       ReqOrNone, NotifyGpu
  <2>6. PhaseInv'
    BY <1>26, Zenon DEF Submit, PhaseInv, WorkerTypeOK, NotifyGpu
  <2> QED
    BY <2>1, <2>2, <2>3, <2>4, <2>5, <2>6
<1>27. ASSUME NEW w \in Workers, AwaitDone(w) PROVE TypeInv'
  <2>1. CallerTypeOK' /\ GpuTypeOK' /\ GpuInv'
    BY <1>27, Zenon DEF AwaitDone, CallerTypeOK, GpuTypeOK, GpuInv
  <2>2. WorkerTypeOK'
    <3>1. Candidates(w) \in Seq(Offsets) /\ <<>> \in Seq(Offsets)
      <4>1. Candidates(w) \in Seq(Offsets)
        BY <1>27, CandidatesType, Zenon DEF AwaitDone, LocalInv, AtCandidate, At
      <4> QED
        BY <4>1
    <3> QED
      BY <1>27, <3>1, Zenon DEF AwaitDone, WorkerTypeOK
  <2>3. ProofTypeOK'
    <3>1. Nonce(w) \in Nonces
      BY NonceType, Zenon DEF Nonce, WorkerTypeOK
    <3> QED
      BY <1>27, <3>1, Zenon DEF AwaitDone, ProofTypeOK
  <2>4. LocalInv'
    BY <1>27, Zenon DEF AwaitDone, LocalInv, PhaseInv, WorkerTypeOK, AtCandidate,
       HoldsRequest
  <2>5. PhaseInv'
    BY <1>27, Zenon DEF AwaitDone, PhaseInv, WorkerTypeOK, NotifyGpu
  <2> QED
    BY <2>1, <2>2, <2>3, <2>4, <2>5
<1>28. ASSUME NEW w \in Workers, AwaitGiveUp(w) PROVE TypeInv'
  <2>1. CallerTypeOK' /\ GpuTypeOK' /\ GpuInv'
    BY <1>28, Zenon DEF AwaitGiveUp, CallerTypeOK, GpuTypeOK, GpuInv
  <2>2. WorkerTypeOK'
    BY <1>28, Zenon DEF AwaitGiveUp, WorkerTypeOK, ReqOrNone
  <2>3. ProofTypeOK'
    BY <1>28, WorldAssumption, Zenon DEF AwaitGiveUp, ProofTypeOK
  <2>4. LocalInv'
    BY <1>28, Zenon DEF AwaitGiveUp, LocalInv, PhaseInv, WorkerTypeOK, AtCandidate,
       HoldsRequest
  <2>5. PhaseInv'
    BY <1>28, Zenon DEF AwaitGiveUp, PhaseInv, WorkerTypeOK, NotifyGpu
  <2> QED
    BY <2>1, <2>2, <2>3, <2>4, <2>5
<1>29. ASSUME NEW w \in Workers, EndScan(w) PROVE TypeInv'
  <2>1. CallerTypeOK' /\ GpuTypeOK' /\ ProofTypeOK' /\ GpuInv'
    BY <1>29 DEF EndScan, CallerTypeOK, GpuTypeOK, ProofTypeOK, GpuInv
  <2>2. WorkerTypeOK'
    <3>1. k[w] + 1 \in 0 .. Batch /\ <<>> \in Seq(Offsets)
      BY <1>29, SizeAssumption DEF EndScan, LocalInv, AtCandidate, WorkerTypeOK
    <3> QED
      BY <1>29, <3>1, Zenon DEF EndScan, WorkerTypeOK, ReqOrNone
  <2>3. LocalInv'
    BY <1>29, Zenon DEF EndScan, LocalInv, PhaseInv, WorkerTypeOK, AtCandidate,
       HoldsRequest
  <2>4. PhaseInv'
    BY <1>29, Zenon DEF EndScan, PhaseInv, WorkerTypeOK, NotifyGpu
  <2> QED
    BY <2>1, <2>2, <2>3, <2>4
<1>30. ASSUME NEW w \in Workers, ScanCandidate(w) PROVE TypeInv'
  <2>1. CallerTypeOK' /\ GpuTypeOK' /\ ProofTypeOK' /\ LocalInv' /\ GpuInv'
    BY <1>30 DEF ScanCandidate, CallerTypeOK, GpuTypeOK, ProofTypeOK, LocalInv,
       GpuInv
  <2>2. WorkerTypeOK'
    <3>1. Head(todo[w]) \in Offsets /\ Tail(todo[w]) \in Seq(Offsets)
      <4>1. todo[w] \in Seq(Offsets) /\ todo[w] # <<>>
        BY <1>30, Zenon DEF ScanCandidate, WorkerTypeOK
      <4> QED
        BY <4>1
    <3>2. last_prime_offset' \in [Workers -> [0 .. Batch - 1 -> Offsets]]
      BY <1>30, <3>1, Zenon DEF ScanCandidate, WorkerTypeOK
    <3> QED
      BY <1>30, <3>1, <3>2, Zenon DEF ScanCandidate, WorkerTypeOK
  <2>3. PhaseInv'
    BY <1>30, Zenon DEF ScanCandidate, PhaseInv, WorkerTypeOK, NotifyGpu
  <2> QED
    BY <2>1, <2>2, <2>3
<1>31. ASSUME NEW w \in Workers, FoundProof(w) PROVE TypeInv'
  <2>1. CallerTypeOK' /\ GpuTypeOK' /\ GpuInv'
    BY <1>31, Zenon DEF FoundProof, CallerTypeOK, GpuTypeOK, GpuInv
  <2>2. WorkerTypeOK'
    BY <1>31, Zenon DEF FoundProof, WorkerTypeOK, ReqOrNone
  <2>3. ProofTypeOK'
    <3>1. Nonce(w) \in Nonces
      BY NonceType DEF Nonce, WorkerTypeOK
    <3>2. last_prime_offset[w][k[w]] \in Offsets
      BY <1>31, SizeAssumption DEF FoundProof, LocalInv, AtCandidate,
         WorkerTypeOK
    <3>3. /\ reported' = reported \cup {<<Nonce(w), last_prime_offset[w][k[w]]>>}
          /\ UNCHANGED <<found, found_nonce, found_add, asked, dropped>>
      BY <1>31, Zenon DEF FoundProof, procVars
    <3>4. <<Nonce(w), last_prime_offset[w][k[w]]>> \in Nonces \X Offsets
      BY <3>1, <3>2
    <3> QED
      BY <3>3, <3>4, Zenon DEF ProofTypeOK
  <2>4. LocalInv'
    BY <1>31, Zenon DEF FoundProof, LocalInv, PhaseInv, WorkerTypeOK, AtCandidate,
       HoldsRequest
  <2>5. PhaseInv'
    BY <1>31, Zenon DEF FoundProof, PhaseInv, WorkerTypeOK, NotifyGpu
  <2> QED
    BY <2>1, <2>2, <2>3, <2>4, <2>5
<1>32. ASSUME NEW w \in Workers, ProcessNonce(w) PROVE TypeInv'
  <2>1. CallerTypeOK' /\ GpuTypeOK' /\ GpuInv'
    BY <1>32, Zenon DEF ProcessNonce, CallerTypeOK, GpuTypeOK, GpuInv
  <2>2. WorkerTypeOK'
    BY <1>32, Zenon DEF ProcessNonce, WorkerTypeOK, ReqOrNone
  <2>3. ProofTypeOK'
    <3>1. Nonce(w) \in Nonces
      BY NonceType DEF Nonce, WorkerTypeOK
    <3> QED
      BY <1>32, <3>1, Zenon DEF ProcessNonce, ProofTypeOK
  <2>4. LocalInv'
    BY <1>32, Zenon DEF ProcessNonce, LocalInv, PhaseInv, WorkerTypeOK, AtCandidate,
       HoldsRequest
  <2>5. PhaseInv'
    BY <1>32, Zenon DEF ProcessNonce, PhaseInv, WorkerTypeOK, NotifyGpu
  <2> QED
    BY <2>1, <2>2, <2>3, <2>4, <2>5
<1>33. ASSUME NEW w \in Workers, ProcessAdd(w) PROVE TypeInv'
  <2>1. CallerTypeOK' /\ GpuTypeOK' /\ GpuInv'
    BY <1>33, Zenon DEF ProcessAdd, CallerTypeOK, GpuTypeOK, GpuInv
  <2>2. WorkerTypeOK'
    BY <1>33, Zenon DEF ProcessAdd, WorkerTypeOK, ReqOrNone
  <2>3. ProofTypeOK'
    <3>1. last_prime_offset[w][k[w]] \in Offsets
      BY <1>33, SizeAssumption DEF ProcessAdd, LocalInv, AtCandidate,
         WorkerTypeOK
    <3> QED
      BY <1>33, <3>1, Zenon DEF ProcessAdd, ProofTypeOK
  <2>4. LocalInv'
    BY <1>33, Zenon DEF ProcessAdd, LocalInv, PhaseInv, WorkerTypeOK, AtCandidate,
       HoldsRequest
  <2>5. PhaseInv'
    BY <1>33, Zenon DEF ProcessAdd, PhaseInv, WorkerTypeOK, NotifyGpu
  <2> QED
    BY <2>1, <2>2, <2>3, <2>4, <2>5
<1>34. ASSUME NEW w \in Workers, ProcessFound(w) PROVE TypeInv'
  <2>1. CallerTypeOK' /\ GpuTypeOK' /\ GpuInv'
    BY <1>34, Zenon DEF ProcessFound, CallerTypeOK, GpuTypeOK, GpuInv
  <2>2. WorkerTypeOK'
    BY <1>34, Zenon DEF ProcessFound, WorkerTypeOK, ReqOrNone
  <2>3. ProofTypeOK'
    BY <1>34, Zenon DEF ProcessFound, ProofTypeOK
  <2>4. LocalInv'
    BY <1>34, Zenon DEF ProcessFound, LocalInv, PhaseInv, WorkerTypeOK, AtCandidate,
       HoldsRequest
  <2>5. PhaseInv'
    BY <1>34, Zenon DEF ProcessFound, PhaseInv, WorkerTypeOK, NotifyGpu
  <2> QED
    BY <2>1, <2>2, <2>3, <2>4, <2>5
<1>35. ASSUME NEW w \in Workers, StopAfterProof(w) PROVE TypeInv'
  <2>1. GpuTypeOK' /\ GpuInv'
    BY <1>35, Zenon DEF StopAfterProof, DropLocals, GpuTypeOK, GpuInv
  <2>2. CallerTypeOK'
    BY <1>35, Zenon DEF StopAfterProof, DropLocals, CallerTypeOK
  <2>3. WorkerTypeOK'
    <3>1. [i \in 0 .. Batch - 1 |-> 0] \in [0 .. Batch - 1 -> Offsets]
      BY DEF Offsets
    <3>2. 0 \in Nonces /\ 0 \in 0 .. Segments /\ 0 \in 0 .. Batch /\ <<>> \in Seq(Offsets)
      BY SizeAssumption DEF Nonces, Offsets
    <3> QED
      BY <1>35, <3>1, <3>2, Zenon DEF StopAfterProof, DropLocals, WorkerTypeOK,
         ReqOrNone
  <2>4. ProofTypeOK'
    BY <1>35, Zenon DEF StopAfterProof, DropLocals, ProofTypeOK
  <2>5. LocalInv'
    BY <1>35, Zenon DEF StopAfterProof, DropLocals, LocalInv, PhaseInv, WorkerTypeOK,
       AtCandidate, HoldsRequest
  <2>6. PhaseInv'
    BY <1>35, Zenon DEF StopAfterProof, DropLocals, PhaseInv, WorkerTypeOK, NotifyGpu
  <2> QED
    BY <2>1, <2>2, <2>3, <2>4, <2>5, <2>6
<1>36. CASE UNCHANGED vars
  BY <1>36 DEF vars, CallerTypeOK, WorkerTypeOK, GpuTypeOK, ProofTypeOK,
     LocalInv, GpuInv, PhaseInv
<1> QED
  BY <1>1, <1>2, <1>3, <1>4, <1>5, <1>6, <1>7, <1>8, <1>9, <1>10, <1>11, <1>12, <1>13, <1>14, <1>15, <1>16, <1>17, <1>18, <1>19, <1>20, <1>21, <1>22, <1>23, <1>24, <1>25, <1>26, <1>27, <1>28, <1>29, <1>30, <1>31, <1>32, <1>33, <1>34, <1>35, <1>36, Zenon
  DEF Next, CallerStep, WorkerStep, GpuStep, StopperStep

\* The engine never leaves its types: nonces wrap within uint32_t, and segment
\* and interval counters, the queue and the requests stay within their ranges.
THEOREM TypeCorrect == Spec => []TypeOK
<1>1. Spec => []TypeInv
  BY TypeInit, TypeStep, PTL DEF Spec
<1>2. TypeInv => TypeOK
  BY DEF TypeInv
<1> QED
  BY <1>1, <1>2, PTL

-----------------------------------------------------------------------------
(* Remainders *)

LEMMA ModDef ==
  ASSUME NEW d \in Nat, d > 0, NEW x \in Int
  PROVE  x % d = x - d * (x \div d)
  BY Z3T(30)

LEMMA MulAbove ==
  ASSUME NEW d \in Nat, d > 0, NEW u \in Int
  PROVE  /\ u >= 1 => d * u >= d
         /\ u <= -1 => d * u <= -d
  OBVIOUS

LEMMA Distribute ==
  ASSUME NEW a \in Int, NEW b \in Int, NEW d \in Int
  PROVE  d * (a + b) = d * a + d * b /\ d * (a - b) = d * a - d * b
  OBVIOUS

\* Adding a multiple of d does not change the remainder.
LEMMA ModShift ==
  ASSUME NEW d \in Nat, d > 0, NEW x \in Int, NEW t \in Int
  PROVE  (x + d * t) % d = x % d
<1>1. PICK y \in Int : y = x + d * t
  OBVIOUS
<1>2. PICK a \in Int, r \in 0 .. d - 1 : a = x \div d /\ r = x % d
  OBVIOUS
<1>3. PICK b \in Int, s \in 0 .. d - 1 : b = y \div d /\ s = y % d
  OBVIOUS
<1>4. r = x - d * a
  BY <1>2, ModDef
<1>5. s = y - d * b
  BY <1>3, ModDef
<1>6. PICK e \in Int : e = a + t - b
  OBVIOUS
<1>7. d * e = d * a + d * t - d * b
  <2>1. d * e = d * (a + t) - d * b
    BY <1>6, Distribute
  <2>2. d * (a + t) = d * a + d * t
    BY Distribute
  <2> QED
    BY <2>1, <2>2
<1>8. s - r = d * e
  <2>1. PICK dt \in Int, da \in Int, db \in Int :
          dt = d * t /\ da = d * a /\ db = d * b
    OBVIOUS
  <2>2. y = x + dt /\ r = x - da /\ s = y - db /\ d * e = da + dt - db
    BY <2>1, <1>1, <1>4, <1>5, <1>7, Zenon
  <2> QED
    BY <2>2
<1>9. e = 0
  BY <1>8, MulAbove
<1> QED
  BY <1>1, <1>2, <1>3, <1>8, <1>9

\* Numbers less than d apart have different remainders.
LEMMA ModApart ==
  ASSUME NEW d \in Nat, d > 0, NEW s \in Int,
         NEW x \in 0 .. d - 1, NEW y \in 0 .. d - 1,
         (s + x) % d = (s + y) % d
  PROVE  x = y
<1>1. PICK a \in Int, b \in Int : a = (s + x) \div d /\ b = (s + y) \div d
  OBVIOUS
<1>2. (s + x) - d * a = (s + y) - d * b
  BY <1>1, ModDef
<1>3. PICK e \in Int : e = a - b
  OBVIOUS
<1>4. d * e = d * a - d * b
  BY <1>3, Distribute
<1>5. x - y = d * e
  <2>1. PICK da \in Int, db \in Int : da = d * a /\ db = d * b
    OBVIOUS
  <2>2. (s + x) - da = (s + y) - db /\ d * e = da - db
    BY <1>2, <1>4, <2>1, Zenon
  <2> QED
    BY <2>2
<1>6. e = 0
  BY <1>5, MulAbove
<1> QED
  BY <1>5, <1>6

-----------------------------------------------------------------------------
(* The residue of a worker's nonces *)

\* The nonce space is a whole number of rounds over the threads.
ThreadsDivide == \E q \in Nat : NonceMod = NThreads * q

NonceInv ==
  \A w \in Workers : wpc[w] \notin {"none", "done"} =>
    nonce_base[w] % NThreads = (StartNonce + w) % NThreads

\* Wrapping to uint32_t keeps the residue.
LEMMA WrapResidue ==
  ASSUME ThreadsDivide, NEW x \in Int
  PROVE  (x % NonceMod) % NThreads = x % NThreads
<1>1. PICK q \in Nat : NonceMod = NThreads * q
  BY DEF ThreadsDivide
<1>2. NThreads \in Nat /\ NThreads > 0 /\ NonceMod \in Nat /\ NonceMod > 0
  BY SizeAssumption
<1>3. PICK a \in Int : a = x \div NonceMod
  BY <1>2
<1>4. x % NonceMod = x - NonceMod * a
  BY <1>2, <1>3, ModDef
<1>5. PICK t \in Int : t = q * (-a)
  OBVIOUS
<1>6. NonceMod * (-a) = NThreads * t
  BY <1>1, <1>2, <1>5
<1>7. x % NonceMod = x + NThreads * t
  <2>1. NonceMod * (-a) = -(NonceMod * a)
    BY <1>2
  <2> QED
    BY <1>4, <1>6, <2>1, <1>2
<1> QED
  BY <1>2, <1>7, ModShift, Zenon

\* So do the strides of a batch.
LEMMA StrideResidue ==
  ASSUME ThreadsDivide, TypeOK, NEW w \in Workers, NEW i \in Nat
  PROVE  ((nonce_base[w] + i * NThreads) % NonceMod) % NThreads
           = nonce_base[w] % NThreads
<1>1. nonce_base[w] \in Int /\ NThreads \in Nat /\ NThreads > 0
  BY SizeAssumption DEF TypeOK, WorkerTypeOK, Nonces
<1>2. PICK b \in Int : b = nonce_base[w]
  BY <1>1
<1>3. b + i * NThreads = b + NThreads * i /\ b + i * NThreads \in Int
  BY <1>1
<1>4. (b + NThreads * i) % NThreads = b % NThreads
  BY <1>1, i \in Int, ModShift, Zenon
<1>5. ((b + i * NThreads) % NonceMod) % NThreads = (b + i * NThreads) % NThreads
  BY <1>3, WrapResidue
<1> QED
  BY <1>2, <1>3, <1>4, <1>5, Zenon

LEMMA NonceStep ==
  ThreadsDivide /\ TypeInv /\ NonceInv /\ [Next]_vars => NonceInv'
<1> SUFFICES ASSUME ThreadsDivide, TypeInv, NonceInv, [Next]_vars
             PROVE  NonceInv'
  OBVIOUS
<1> USE DEF callerVars, scanVars, At, Goto
<1>1. CASE \/ MineParallel \/ StopGpu \/ Return \/ StopIdle \/ StopperStep
           \/ GpuStep \/ GpuSpuriousWake
  BY <1>1, Zenon
  DEF MineParallel, StopGpu, Return, StopIdle, StopperStep, RequestStop,
      RequestStopNotify, GpuStep, GpuInit, GpuLoop, GpuCheck, GpuBlock,
      GpuBatch, GpuSignal, GpuSpuriousWake, NonceInv
<1>2. CASE LaunchWorkers
  <2>1. \A w \in Workers : StartNonce + w \in Int
    BY SizeAssumption DEF Workers, Nonces
  <2> QED
    BY <1>2, <2>1, WrapResidue, Zenon DEF LaunchWorkers, NonceInv
<1>3. CASE JoinWorkers
  BY <1>3, Zenon DEF JoinWorkers, NonceInv
<1>4. ASSUME NEW w \in Workers, SkipBatch(w) \/ EndBatch(w) PROVE NonceInv'
  <2>1. nonce_base' = [nonce_base EXCEPT ![w] = NextBase(w)]
    BY <1>4, Zenon DEF SkipBatch, EndBatch
  <2>2. wpc[w] \in {"head", "segment"} /\ \A v \in Workers \ {w} : wpc'[v] = wpc[v]
    BY <1>4, Zenon DEF SkipBatch, EndBatch, TypeInv, TypeOK, WorkerTypeOK
  <2>3. NextBase(w) % NThreads = nonce_base[w] % NThreads
    BY StrideResidue, SizeAssumption, Zenon DEF NextBase, TypeInv
  <2>4. \A v \in Workers : nonce_base'[v] % NThreads = nonce_base[v] % NThreads
    BY <2>1, <2>3, Zenon DEF TypeInv, TypeOK, WorkerTypeOK
  <2> QED
    BY <2>2, <2>4, Zenon DEF NonceInv
<1>5. ASSUME NEW w \in Workers, WorkerExit(w) \/ StopAfterProof(w)
      PROVE  NonceInv'
  <2>1. wpc'[w] = "done" /\ \A v \in Workers \ {w} :
          wpc'[v] = wpc[v] /\ nonce_base'[v] = nonce_base[v]
    BY <1>5, Zenon DEF WorkerExit, StopAfterProof, DropLocals, TypeInv, TypeOK,
                WorkerTypeOK
  <2> QED
    BY <2>1, Zenon DEF NonceInv
<1>6. ASSUME NEW w \in Workers, WorkerStep(w), ~SkipBatch(w), ~EndBatch(w),
             ~WorkerExit(w), ~StopAfterProof(w)
      PROVE  NonceInv'
  <2> USE DEF WorkerStep, BeginBatch, ReadGpuFlag, NextSegment, EndIntervals,
      SkipInterval, TakeCpuPath, TakeGpuPath, Submit, AwaitDone, AwaitGiveUp,
      EndScan, ScanCandidate, FoundProof, ProcessNonce, ProcessAdd, ProcessFound
  <2>1. nonce_base' = nonce_base /\ wpc[w] \notin {"none", "done"}
    BY <1>6, Zenon
  <2>2. \A v \in Workers \ {w} : wpc'[v] = wpc[v]
    BY <1>6, Zenon DEF TypeInv, TypeOK, WorkerTypeOK
  <2> QED
    BY <2>1, <2>2 DEF NonceInv
<1>7. CASE UNCHANGED vars
  BY <1>7, Zenon DEF vars, NonceInv
<1> QED
  BY <1>1, <1>2, <1>3, <1>4, <1>5, <1>6, <1>7, Zenon DEF Next, CallerStep

LEMMA ResidueDisjoint == ThreadsDivide /\ TypeInv /\ NonceInv => NonceDisjoint
<1> SUFFICES ASSUME ThreadsDivide, TypeInv, NonceInv,
                    NEW w \in Workers, NEW v \in Workers, w # v,
                    wpc[w] \notin {"none", "done"}, wpc[v] \notin {"none", "done"},
                    NEW n \in BatchNonces(w), n \in BatchNonces(v)
             PROVE  FALSE
  BY Zenon DEF NonceDisjoint
<1>1. PICK i \in 0 .. Batch - 1 : n = NonceOf(w, i)
  BY DEF BatchNonces
<1>2. PICK j \in 0 .. Batch - 1 : n = NonceOf(v, j)
  BY Zenon DEF BatchNonces
<1>3. n % NThreads = (StartNonce + w) % NThreads
  BY <1>1, StrideResidue, SizeAssumption DEF NonceInv, NonceOf, TypeInv
<1>4. n % NThreads = (StartNonce + v) % NThreads
  BY <1>2, StrideResidue, SizeAssumption DEF NonceInv, NonceOf, TypeInv
<1>5. /\ StartNonce \in Int /\ NThreads \in Nat /\ NThreads > 0
      /\ w \in 0 .. NThreads - 1 /\ v \in 0 .. NThreads - 1
  BY SizeAssumption DEF Workers, Nonces
<1> QED
  BY <1>3, <1>4, <1>5, ModApart, Zenon

\* However the workers interleave and however often their nonces wrap, the
\* batches of two running workers are disjoint.
THEOREM NoncesDisjoint == ThreadsDivide /\ Spec => []NonceDisjoint
<1> SUFFICES ASSUME ThreadsDivide PROVE Spec => []NonceDisjoint
  OBVIOUS
<1>1. Init => TypeInv /\ NonceInv
  BY TypeInit DEF Init, NonceInv
<1>2. TypeInv /\ NonceInv /\ [Next]_vars => (TypeInv /\ NonceInv)'
  BY TypeStep, NonceStep
<1>3. TypeInv /\ NonceInv => NonceDisjoint
  BY ResidueDisjoint
<1> QED
  BY <1>1, <1>2, <1>3, PTL DEF Spec
=============================================================================
