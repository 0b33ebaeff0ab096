------------------------- MODULE MiningEngineProofs -------------------------
(***************************************************************************)
(* Safety of MiningEngine for every value of the constants: who may touch  *)
(* a GPU request, what is left running when mine_parallel returns, what    *)
(* the processor holds, that a nonce tested to the end hides no proof, and *)
(* that the engine implements MiningSession.                               *)
(***************************************************************************)
EXTENDS MiningEngineTypes

USE SMTT(30)

\* Who may look at a GPURequest: it is queued at most once, is not done while
\* the queue or the GPU thread holds it, and a worker past its wait holds a
\* request that is done.
RequestInv ==
  /\ \A w, v \in Workers : req[w] # NoReq /\ req[w] = req[v] => w = v
  /\ \A w \in Workers : req[w] # NoReq /\ wpc[w] # "await" => req[w] \in done
  /\ \A r \in Requests : Queued(r) => r \notin done
  /\ greq # NoReq => greq \notin done /\ ~Queued(greq)
  /\ \A i, j \in 1 .. Len(gpu_request_queue) :
       gpu_request_queue[i] = gpu_request_queue[j] => i = j

InProcess == {"process", "process_add", "process_found", "accepted"}

\* What process() has stored, while at most one proof was reported.
ProofInv ==
  /\ \A w \in Workers : wpc[w] \in InProcess =>
       <<Nonce(w), last_prime_offset[w][k[w]]>> \in reported
  /\ \A p \in reported : reported = {p} =>
       /\ (found \/ \E w \in Workers :
              wpc[w] \in {"process_add", "process_found", "accepted"})
            => found_nonce = p[1]
       /\ (found \/ \E w \in Workers : wpc[w] \in {"process_found", "accepted"})
            => found_add = p[2]
  /\ found => reported # {}
  /\ reported # {} => found \/ \E w \in Workers :
       wpc[w] \in {"process", "process_add", "process_found"}

\* Why the session is being stopped.
StopInv ==
  /\ \A w \in Workers : wpc[w] = "done" => stop_requested
  /\ mp \in {"stopgpu", "joingpu"} => stop_requested
  /\ mp # "idle" /\ stop_requested => asked \/ reported # {}

IInv == TypeInv /\ RequestInv /\ ProofInv /\ StopInv

-----------------------------------------------------------------------------
(* GPU requests *)

\* A step that leaves the requests alone keeps RequestInv, as long as it takes
\* no worker past its wait.
LEMMA RequestQuiet ==
  ASSUME RequestInv, UNCHANGED <<req, greq, gpu_request_queue, done>>,
         \A w \in Workers : req[w] # NoReq /\ wpc[w] = "await" =>
           wpc'[w] = "await" \/ req[w] \in done
  PROVE  RequestInv'
  BY Zenon DEF RequestInv, Queued

\* So does a worker that lets go of its request.
LEMMA RequestDropped ==
  ASSUME TypeInv, RequestInv, NEW w \in Workers,
         UNCHANGED <<greq, gpu_request_queue, done>>,
         req' = [req EXCEPT ![w] = NoReq],
         \A v \in Workers \ {w} : wpc'[v] = wpc[v]
  PROVE  RequestInv'
<1> USE DEF TypeInv, TypeOK, WorkerTypeOK
<1>1. \A v \in Workers : req'[v] # NoReq => v # w /\ req'[v] = req[v]
  OBVIOUS
<1>2. \A v, u \in Workers : req'[v] # NoReq /\ req'[v] = req'[u] => v = u
  BY <1>1 DEF RequestInv
<1>3. \A v \in Workers :
        req'[v] # NoReq /\ wpc'[v] # "await" => req'[v] \in done'
  BY <1>1, Zenon DEF RequestInv
<1> QED
  BY <1>2, <1>3, Zenon DEF RequestInv, Queued

LEMMA RequestStep == TypeInv /\ RequestInv /\ [Next]_vars => RequestInv'
<1> SUFFICES ASSUME TypeInv, RequestInv, [Next]_vars PROVE RequestInv'
  BY Zenon
<1> USE DEF callerVars, scanVars, gpuVars, reqVars, procVars, histVars, At, Goto
<1>1. CASE MineParallel \/ StopGpu \/ Return \/ StopIdle \/ StopperStep
  BY <1>1, RequestQuiet, Zenon
  DEF MineParallel, StopGpu, Return, StopIdle, StopperStep, RequestStop,
      RequestStopNotify
<1>2. CASE LaunchWorkers \/ JoinWorkers
  BY <1>2, RequestQuiet, Zenon
  DEF LaunchWorkers, JoinWorkers, TypeInv, LocalInv, PhaseInv, HoldsRequest
<1>3. CASE GpuInit \/ GpuLoop \/ GpuBlock \/ GpuSpuriousWake \/ GpuBatch
  BY <1>3, RequestQuiet, Zenon
  DEF GpuInit, GpuLoop, GpuBlock, GpuSpuriousWake, GpuBatch
<1>4. CASE GpuCheck
  <2>1. CASE gpu_request_queue = <<>>
    BY <1>4, <2>1, RequestQuiet, Zenon DEF GpuCheck
  <2>2. CASE gpu_request_queue # <<>>
    <3> DEFINE q == gpu_request_queue
    <3>1. q \in Seq(Requests) /\ q # <<>> /\ q' = Tail(q) /\ greq' = q[1]
      BY <1>4, <2>2 DEF GpuCheck, TypeInv, TypeOK, GpuTypeOK
    <3>2. /\ Len(q) \in Nat /\ Len(q) >= 1 /\ Len(q') = Len(q) - 1
          /\ \A i \in 1 .. Len(q') : q'[i] = q[i + 1]
      BY <3>1
    <3>3. UNCHANGED <<req, done, wpc>>
      BY <1>4, Zenon DEF GpuCheck
    <3>4. PICK h \in Requests : h = q[1]
      BY <3>1, <3>2
    <3>5. \A r \in Requests : Queued(r)' => Queued(r) /\ r # h
      BY <3>2, <3>4 DEF RequestInv, Queued
    <3>6. h \notin done /\ ~Queued(h)'
      BY <3>2, <3>4, <3>5 DEF RequestInv, Queued
    <3>7. \A i, j \in 1 .. Len(q') : q'[i] = q'[j] => i = j
      BY <3>2 DEF RequestInv
    <3>8. greq' \notin done' /\ ~Queued(greq)'
      BY <3>1, <3>3, <3>4, <3>6 DEF Queued
    <3> HIDE DEF q
    <3> QED
      BY <3>3, <3>5, <3>7, <3>8 DEF RequestInv, q
  <2> QED
    BY <2>1, <2>2
<1>5. CASE GpuSignal
  <2>1. greq # NoReq /\ greq' = NoReq /\ done' = done \cup {greq}
    BY <1>5 DEF GpuSignal, TypeInv, GpuInv
  <2>2. UNCHANGED <<req, gpu_request_queue, wpc>>
    BY <1>5 DEF GpuSignal
  <2> QED
    BY <2>1, <2>2 DEF RequestInv, Queued
<1>6. ASSUME NEW w \in Workers, Submit(w) PROVE RequestInv'
  <2> DEFINE q == gpu_request_queue
  <2>1. PICK r \in Requests :
          /\ ~InUse(r)
          /\ req' = [req EXCEPT ![w] = r]
          /\ done' = done \ {r}
          /\ q' = Append(q, r)
    BY <1>6, Zenon DEF Submit
  <2>2. /\ \A v \in Workers : req[v] # r
        /\ greq # r /\ ~Queued(r)
    BY <2>1 DEF InUse
  <2>3. wpc' = [wpc EXCEPT ![w] = "await"] /\ greq' = greq
    BY <1>6 DEF Submit
  <2>4. /\ q \in Seq(Requests) /\ Len(q) \in Nat /\ Len(q') = Len(q) + 1
        /\ q'[Len(q) + 1] = r
        /\ \A i \in 1 .. Len(q) : q'[i] = q[i]
    BY <2>1 DEF TypeInv, TypeOK, GpuTypeOK
  <2>5. \A v \in Workers : /\ v = w => req'[v] = r /\ wpc'[v] = "await"
                           /\ v # w => req'[v] = req[v] /\ wpc'[v] = wpc[v]
    BY <2>1, <2>3 DEF TypeInv, TypeOK, WorkerTypeOK
  <2>6. \A v, u \in Workers : req'[v] # NoReq /\ req'[v] = req'[u] => v = u
    BY <2>2, <2>5 DEF RequestInv
  <2>7. \A v \in Workers :
          req'[v] # NoReq /\ wpc'[v] # "await" => req'[v] \in done'
    BY <2>1, <2>2, <2>5 DEF RequestInv
  <2>8. \A x \in Requests : Queued(x)' => Queued(x) \/ x = r
    BY <2>4 DEF Queued
  <2>9. \A x \in Requests : Queued(x)' => x \notin done'
    BY <2>1, <2>8 DEF RequestInv
  <2>10. greq' # NoReq => greq' \notin done' /\ ~Queued(greq)'
    <3>1. greq \in Requests \cup {NoReq}
      BY DEF TypeInv, TypeOK, GpuTypeOK, ReqOrNone
    <3>2. greq # NoReq => ~Queued(greq)'
      BY <2>2, <2>3, <2>4 DEF RequestInv, Queued
    <3> QED
      BY <2>1, <2>3, <3>2 DEF RequestInv
  <2>11. \A i, j \in 1 .. Len(q') : q'[i] = q'[j] => i = j
    BY <2>2, <2>4 DEF RequestInv, Queued
  <2> QED
    BY <2>6, <2>7, <2>9, <2>10, <2>11, Zenon DEF RequestInv
<1>7. ASSUME NEW w \in Workers, AwaitDone(w) PROVE RequestInv'
  BY <1>7, RequestQuiet, Zenon DEF AwaitDone, TypeInv, TypeOK, WorkerTypeOK
<1>8. ASSUME NEW w \in Workers,
             WorkerExit(w) \/ AwaitGiveUp(w) \/ EndScan(w) \/ StopAfterProof(w)
      PROVE  RequestInv'
  <2>1. UNCHANGED <<greq, gpu_request_queue, done>>
    BY <1>8, Zenon DEF WorkerExit, AwaitGiveUp, EndScan, StopAfterProof
  <2>2. req' = [req EXCEPT ![w] = NoReq]
    BY <1>8, Zenon DEF WorkerExit, AwaitGiveUp, EndScan, StopAfterProof, DropLocals
  <2>3. \A v \in Workers \ {w} : wpc'[v] = wpc[v]
    BY <1>8, Zenon DEF WorkerExit, AwaitGiveUp, EndScan, StopAfterProof, TypeInv,
                TypeOK, WorkerTypeOK
  <2> QED
    BY <2>1, <2>2, <2>3, RequestDropped, Zenon
<1>9. ASSUME NEW w \in Workers,
             \/ SkipBatch(w) \/ BeginBatch(w) \/ ReadGpuFlag(w)
             \/ NextSegment(w) \/ EndBatch(w) \/ EndIntervals(w)
             \/ SkipInterval(w) \/ TakeCpuPath(w) \/ TakeGpuPath(w)
             \/ ScanCandidate(w) \/ FoundProof(w) \/ ProcessNonce(w)
             \/ ProcessAdd(w) \/ ProcessFound(w)
      PROVE  RequestInv'
  <2>1. UNCHANGED <<req, greq, gpu_request_queue, done>>
    BY <1>9, Zenon DEF SkipBatch, BeginBatch, ReadGpuFlag, NextSegment, EndBatch,
       EndIntervals, SkipInterval, TakeCpuPath, TakeGpuPath, ScanCandidate,
       FoundProof, ProcessNonce, ProcessAdd, ProcessFound
  <2>2. \A v \in Workers : wpc[v] = "await" => wpc'[v] = "await"
    BY <1>9, Zenon DEF SkipBatch, BeginBatch, ReadGpuFlag, NextSegment, EndBatch,
       EndIntervals, SkipInterval, TakeCpuPath, TakeGpuPath, ScanCandidate,
       FoundProof, ProcessNonce, ProcessAdd, ProcessFound, TypeInv, TypeOK,
       WorkerTypeOK
  <2> QED
    BY <2>1, <2>2, RequestQuiet
<1>10. CASE UNCHANGED vars
  BY <1>10, RequestQuiet DEF vars
<1> QED
  BY <1>1, <1>2, <1>3, <1>4, <1>5, <1>6, <1>7, <1>8, <1>9, <1>10, Zenon
  DEF Next, CallerStep, WorkerStep, GpuStep

-----------------------------------------------------------------------------
(* What the processor holds *)

\* A step keeps ProofInv when it reports and stores nothing and leaves the
\* workers that are inside process() where they are.
LEMMA ProofQuiet ==
  ASSUME ProofInv, UNCHANGED <<found, found_nonce, found_add, reported>>,
         \A w \in Workers :
           wpc[w] \in InProcess \/ wpc'[w] \in InProcess =>
             /\ wpc'[w] = wpc[w] /\ nonce_base'[w] = nonce_base[w]
             /\ k'[w] = k[w] /\ last_prime_offset'[w] = last_prime_offset[w]
  PROVE  ProofInv'
<1>1. \A w \in Workers : wpc'[w] \in InProcess =>
        <<Nonce(w), last_prime_offset[w][k[w]]>>' \in reported'
  BY Zenon DEF ProofInv, Nonce, NonceOf
<1>2. \A w \in Workers :
        /\ wpc'[w] = "process" <=> wpc[w] = "process"
        /\ wpc'[w] = "process_add" <=> wpc[w] = "process_add"
        /\ wpc'[w] = "process_found" <=> wpc[w] = "process_found"
        /\ wpc'[w] = "accepted" <=> wpc[w] = "accepted"
  BY DEF InProcess
<1> QED
  BY <1>1, <1>2 DEF ProofInv

\* A step of worker w inside process() moves only that worker.
LEMMA ProofOwnStep ==
  ASSUME TypeInv, NEW w \in Workers,
         \/ FoundProof(w) \/ ProcessNonce(w) \/ ProcessAdd(w)
         \/ ProcessFound(w) \/ StopAfterProof(w)
  PROVE  /\ \A v \in Workers \ {w} :
              /\ wpc'[v] = wpc[v] /\ k'[v] = k[v]
              /\ nonce_base'[v] = nonce_base[v]
              /\ last_prime_offset'[v] = last_prime_offset[v]
         /\ ~StopAfterProof(w) =>
              UNCHANGED <<k, nonce_base, last_prime_offset>>
  BY Zenon DEF FoundProof, ProcessNonce, ProcessAdd, ProcessFound, StopAfterProof,
         DropLocals, TypeInv, TypeOK, WorkerTypeOK, Goto, scanVars

LEMMA ProofStep == TypeInv /\ ProofInv /\ [Next]_vars => ProofInv'
<1> SUFFICES ASSUME TypeInv, ProofInv, [Next]_vars PROVE ProofInv'
  BY Zenon
<1> USE DEF callerVars, scanVars, gpuVars, reqVars, procVars, histVars, At, Goto
<1>1. CASE MineParallel
  <2>1. reported' = {} /\ found' = FALSE
    BY <1>1 DEF MineParallel
  <2>2. \A w \in Workers : wpc'[w] = "none"
    BY <1>1 DEF MineParallel, TypeInv, PhaseInv
  <2> QED
    BY <2>1, <2>2 DEF ProofInv, InProcess
<1>2. CASE StopGpu \/ Return \/ StopIdle \/ StopperStep
  BY <1>2, ProofQuiet, Zenon
  DEF StopGpu, Return, StopIdle, StopperStep, RequestStop, RequestStopNotify
<1>3. CASE LaunchWorkers \/ JoinWorkers
  <2>1. \A w \in Workers : wpc[w] \notin InProcess /\ wpc'[w] \notin InProcess
    BY <1>3 DEF LaunchWorkers, JoinWorkers, TypeInv, PhaseInv, InProcess
  <2>2. UNCHANGED <<found, found_nonce, found_add, reported>>
    BY <1>3 DEF LaunchWorkers, JoinWorkers
  <2> QED
    BY <2>1, <2>2, ProofQuiet
<1>4. CASE GpuStep \/ GpuSpuriousWake
  BY <1>4, ProofQuiet, Zenon
  DEF GpuStep, GpuInit, GpuLoop, GpuCheck, GpuBlock, GpuSpuriousWake, GpuBatch,
      GpuSignal
<1>5. ASSUME NEW w \in Workers, FoundProof(w) PROVE ProofInv'
  <2> DEFINE p == <<Nonce(w), last_prime_offset[w][k[w]]>>
  <2>1. /\ reported' = reported \cup {p}
        /\ UNCHANGED <<found, found_nonce, found_add>>
        /\ wpc' = [wpc EXCEPT ![w] = "process"]
    BY <1>5, Zenon DEF FoundProof
  <2>2. wpc[w] = "scan" /\ ~StopAfterProof(w)
    BY <1>5 DEF FoundProof, StopAfterProof
  <2>3. UNCHANGED <<k, nonce_base, last_prime_offset>>
    BY <1>5, <2>2, ProofOwnStep
  <2>4. \A v \in Workers : v # w => wpc'[v] = wpc[v]
    BY <2>1 DEF TypeInv, TypeOK, WorkerTypeOK
  <2>5. wpc'[w] = "process"
    BY <2>1 DEF TypeInv, TypeOK, WorkerTypeOK
  <2>6. \A v \in Workers : wpc'[v] \in InProcess =>
          <<Nonce(v), last_prime_offset[v][k[v]]>>' \in reported'
    BY <2>1, <2>3, <2>4, <2>5, Zenon DEF ProofInv, Nonce, NonceOf
  <2>7. ASSUME reported' = {p} PROVE reported = {} \/ reported = {p}
    BY <2>1, <2>7, Zenon
  <2>8. reported = {} => ~found /\ \A v \in Workers : wpc[v] \notin InProcess
    BY DEF ProofInv
  <2>9. \A v \in Workers :
          wpc'[v] \in {"process_add", "process_found", "accepted"} =>
            wpc'[v] = wpc[v]
    BY <2>4, <2>5
  <2>10. \A x \in reported' : reported' = {x} =>
          /\ (found' \/ \E v \in Workers :
                 wpc'[v] \in {"process_add", "process_found", "accepted"})
               => found_nonce' = x[1]
          /\ (found' \/ \E v \in Workers :
                 wpc'[v] \in {"process_found", "accepted"})
               => found_add' = x[2]
    <3> HIDE DEF p
    <3> SUFFICES ASSUME NEW x \in reported', reported' = {x}
                 PROVE  /\ (found' \/ \E v \in Workers :
                              wpc'[v] \in {"process_add", "process_found", "accepted"})
                            => found_nonce' = x[1]
                        /\ (found' \/ \E v \in Workers :
                              wpc'[v] \in {"process_found", "accepted"})
                            => found_add' = x[2]
      OBVIOUS
    <3>1. x = p
      BY <2>1
    <3>2. CASE reported = {}
      BY <2>1, <2>8, <2>9, <3>2 DEF InProcess
    <3>3. CASE reported = {p}
      BY <2>1, <2>9, <3>1, <3>3, Zenon DEF ProofInv
    <3> QED
      BY <2>7, <3>1, <3>2, <3>3
  <2>11. reported' # {}
    BY <2>1, Zenon
  <2> QED
    BY <2>5, <2>6, <2>10, <2>11, Zenon DEF ProofInv
<1>6. ASSUME NEW w \in Workers,
             ProcessNonce(w) \/ ProcessAdd(w) \/ ProcessFound(w)
      PROVE  ProofInv'
  <2> DEFINE p == <<Nonce(w), last_prime_offset[w][k[w]]>>
  <2>1. reported' = reported
    BY <1>6, Zenon DEF ProcessNonce, ProcessAdd, ProcessFound
  <2>2. /\ wpc[w] \in InProcess /\ wpc'[w] \in InProcess
        /\ ~StopAfterProof(w)
        /\ \A v \in Workers \ {w} : wpc'[v] = wpc[v]
    BY <1>6, Zenon DEF ProcessNonce, ProcessAdd, ProcessFound, StopAfterProof,
                InProcess, TypeInv, TypeOK, WorkerTypeOK
  <2>3. UNCHANGED <<k, nonce_base, last_prime_offset>>
    BY <1>6, <2>2, ProofOwnStep, Zenon
  <2>4. p \in reported
    BY <2>2, Zenon DEF ProofInv
  <2>5. \A v \in Workers : wpc'[v] \in InProcess =>
          <<Nonce(v), last_prime_offset[v][k[v]]>>' \in reported'
    BY <2>1, <2>2, <2>3, Zenon DEF ProofInv, Nonce, NonceOf
  <2>6. \A x \in reported : reported = {x} =>
          x[1] = Nonce(w) /\ x[2] = last_prime_offset[w][k[w]]
    BY <2>4
  <2>7. CASE ProcessNonce(w)
    <3>1. /\ wpc[w] = "process" /\ wpc'[w] = "process_add"
          /\ found_nonce' = Nonce(w) /\ UNCHANGED <<found, found_add>>
      BY <2>7, Zenon DEF ProcessNonce, TypeInv, TypeOK, WorkerTypeOK
    <3> HIDE DEF p
    <3> QED
      BY <2>1, <2>2, <2>4, <2>5, <2>6, <3>1, Zenon DEF ProofInv
  <2>8. CASE ProcessAdd(w)
    <3>1. /\ wpc[w] = "process_add" /\ wpc'[w] = "process_found"
          /\ found_add' = last_prime_offset[w][k[w]]
          /\ UNCHANGED <<found, found_nonce>>
      BY <2>8, Zenon DEF ProcessAdd, TypeInv, TypeOK, WorkerTypeOK
    <3> HIDE DEF p
    <3> QED
      BY <2>1, <2>2, <2>4, <2>5, <2>6, <3>1, Zenon DEF ProofInv
  <2>9. CASE ProcessFound(w)
    <3>1. /\ wpc[w] = "process_found" /\ wpc'[w] = "accepted"
          /\ found' = TRUE /\ UNCHANGED <<found_nonce, found_add>>
      BY <2>9, Zenon DEF ProcessFound, TypeInv, TypeOK, WorkerTypeOK
    <3> HIDE DEF p
    <3> QED
      BY <2>1, <2>2, <2>4, <2>5, <3>1, Zenon DEF ProofInv
  <2> QED
    BY <1>6, <2>7, <2>8, <2>9
<1>7. ASSUME NEW w \in Workers, StopAfterProof(w) PROVE ProofInv'
  <2>1. /\ wpc[w] = "accepted" /\ wpc'[w] = "done"
        /\ UNCHANGED <<found, found_nonce, found_add, reported>>
    BY <1>7 DEF StopAfterProof, TypeInv, TypeOK, WorkerTypeOK
  <2>2. \A v \in Workers \ {w} :
          /\ wpc'[v] = wpc[v] /\ k'[v] = k[v]
          /\ nonce_base'[v] = nonce_base[v]
          /\ last_prime_offset'[v] = last_prime_offset[v]
    BY <1>7, ProofOwnStep, Zenon
  <2>3. \A v \in Workers : wpc'[v] \in InProcess =>
          v # w /\ <<Nonce(v), last_prime_offset[v][k[v]]>>' \in reported'
    BY <2>1, <2>2, Zenon DEF ProofInv, Nonce, NonceOf, InProcess
  <2>4. \A v \in Workers :
          /\ wpc'[v] = "process" <=> wpc[v] = "process"
          /\ wpc'[v] = "process_add" <=> wpc[v] = "process_add"
          /\ wpc'[v] = "process_found" <=> wpc[v] = "process_found"
          /\ wpc'[v] = "accepted" => wpc[v] = "accepted"
    BY <2>1, <2>2, Zenon
  <2> QED
    BY <2>1, <2>3, <2>4, Zenon DEF ProofInv
<1>8. ASSUME NEW w \in Workers,
             \/ WorkerExit(w) \/ SkipBatch(w) \/ BeginBatch(w)
             \/ ReadGpuFlag(w) \/ NextSegment(w) \/ EndBatch(w)
             \/ EndIntervals(w) \/ SkipInterval(w) \/ TakeCpuPath(w)
             \/ TakeGpuPath(w) \/ Submit(w) \/ AwaitDone(w)
             \/ AwaitGiveUp(w) \/ EndScan(w) \/ ScanCandidate(w)
      PROVE  ProofInv'
  <2> USE DEF WorkerExit, SkipBatch, BeginBatch, ReadGpuFlag, NextSegment,
      EndBatch, EndIntervals, SkipInterval, TakeCpuPath, TakeGpuPath, Submit,
      AwaitDone, AwaitGiveUp, EndScan, ScanCandidate, DropLocals
  <2>1. UNCHANGED <<found, found_nonce, found_add, reported>>
    BY <1>8, Zenon
  <2>2. \A v \in Workers \ {w} :
          /\ wpc'[v] = wpc[v] /\ nonce_base'[v] = nonce_base[v]
          /\ k'[v] = k[v] /\ last_prime_offset'[v] = last_prime_offset[v]
    BY <1>8, Zenon DEF TypeInv, TypeOK, WorkerTypeOK
  <2>3. wpc[w] \notin InProcess /\ wpc'[w] \notin InProcess
    BY <1>8, Zenon DEF InProcess, TypeInv, TypeOK, WorkerTypeOK
  <2> QED
    BY <2>1, <2>2, <2>3, ProofQuiet, Zenon
<1>9. CASE UNCHANGED vars
  BY <1>9, ProofQuiet, Zenon DEF vars
<1> QED
  BY <1>1, <1>2, <1>3, <1>4, <1>5, <1>6, <1>7, <1>8, <1>9
  DEF Next, CallerStep, WorkerStep

-----------------------------------------------------------------------------
(* Why a session stops *)

LEMMA StopStep ==
  TypeInv /\ ProofInv /\ StopInv /\ [Next]_vars => StopInv'
<1> SUFFICES ASSUME TypeInv, ProofInv, StopInv, [Next]_vars PROVE StopInv'
  BY Zenon
<1> USE DEF callerVars, scanVars, gpuVars, reqVars, procVars, histVars, At, Goto
<1>1. CASE MineParallel \/ LaunchWorkers
  BY <1>1 DEF MineParallel, LaunchWorkers, StopInv, TypeInv, PhaseInv
<1>2. CASE JoinWorkers
  <2>1. stop_requested
    BY <1>2, SizeAssumption DEF JoinWorkers, StopInv, Workers
  <2> QED
    BY <1>2, <2>1 DEF JoinWorkers, StopInv
<1>3. CASE StopGpu \/ Return
  BY <1>3, Zenon DEF StopGpu, Return, StopInv
<1>4. CASE StopIdle
  BY <1>4, Zenon DEF StopIdle, StopInv, TypeInv, PhaseInv
<1>5. CASE StopperStep
  BY <1>5 DEF StopperStep, RequestStop, RequestStopNotify, StopInv
<1>6. CASE GpuStep \/ GpuSpuriousWake
  BY <1>6 DEF GpuStep, GpuInit, GpuLoop, GpuCheck, GpuBlock, GpuSpuriousWake,
              GpuBatch, GpuSignal, StopInv
<1>7. ASSUME NEW w \in Workers, WorkerExit(w) PROVE StopInv'
  BY <1>7 DEF WorkerExit, StopInv, TypeInv, TypeOK, WorkerTypeOK
<1>8. ASSUME NEW w \in Workers, StopAfterProof(w) PROVE StopInv'
  <2>1. reported # {} /\ UNCHANGED <<mp, asked, reported>> /\ stop_requested'
    BY <1>8, Zenon DEF StopAfterProof, ProofInv, InProcess
  <2> QED
    BY <2>1, Zenon DEF StopInv
<1>9. ASSUME NEW w \in Workers, WorkerStep(w),
             ~WorkerExit(w), ~StopAfterProof(w)
      PROVE  StopInv'
  <2> USE DEF WorkerStep, SkipBatch, BeginBatch, ReadGpuFlag, NextSegment,
      EndBatch, EndIntervals, SkipInterval, TakeCpuPath, TakeGpuPath, Submit,
      AwaitDone, AwaitGiveUp, EndScan, ScanCandidate, FoundProof,
      ProcessNonce, ProcessAdd, ProcessFound
  <2>1. UNCHANGED <<mp, asked, stop_requested>> /\ reported \subseteq reported'
    BY <1>9, Zenon
  <2>2. \A v \in Workers : wpc'[v] = "done" => wpc[v] = "done"
    BY <1>9, Zenon DEF TypeInv, TypeOK, WorkerTypeOK
  <2> QED
    BY <2>1, <2>2, Zenon DEF StopInv
<1>10. CASE UNCHANGED vars
  BY <1>10, Zenon DEF vars, StopInv
<1> QED
  BY <1>1, <1>2, <1>3, <1>4, <1>5, <1>6, <1>7, <1>8, <1>9, <1>10
  DEF Next, CallerStep

-----------------------------------------------------------------------------
(* The theorems *)

LEMMA Inductive == Spec => []IInv
<1>1. Init => IInv
  <2> SUFFICES ASSUME Init PROVE IInv
    OBVIOUS
  <2>1. RequestInv /\ ProofInv /\ StopInv
    BY DEF Init, RequestInv, ProofInv, StopInv, Queued, InProcess
  <2> QED
    BY <2>1, TypeInit DEF IInv
<1>2. IInv /\ [Next]_vars => IInv'
  BY TypeStep, RequestStep, ProofStep, StopStep DEF IInv
<1> QED
  BY <1>1, <1>2, PTL DEF Spec

\* Whatever waits time out and whatever is left in the queue, two workers never
\* share a GPURequest and results are read only when the GPU is through.
THEOREM RequestsOwned == Spec => []RequestOwnership
<1>1. IInv => RequestOwnership
  <2> SUFFICES ASSUME IInv PROVE RequestOwnership
    OBVIOUS
  <2>1. \A w \in Workers : req[w] \in Requests \cup {NoReq}
    BY DEF IInv, TypeInv, TypeOK, WorkerTypeOK, ReqOrNone
  <2> QED
    BY <2>1, Zenon DEF IInv, RequestInv, RequestOwnership
<1> QED
  BY <1>1, Inductive, PTL

\* When mine_parallel has returned, no thread of it is left.
THEOREM NothingLeftRunning == Spec => []Quiescent
<1>1. IInv => Quiescent
  BY Zenon DEF IInv, TypeInv, PhaseInv, GpuInv, LocalInv, HoldsRequest, Quiescent
<1> QED
  BY <1>1, Inductive, PTL

\* The processor keeps the proof it is given, with any number of workers.
THEOREM ProofIsKept == Spec => []ProofKept
<1>1. IInv => ProofKept
  <2> SUFFICES ASSUME IInv PROVE ProofKept
    OBVIOUS
  <2>1. reported \subseteq Nonces \X Offsets
    BY DEF IInv, TypeInv, TypeOK, ProofTypeOK
  <2>2. ASSUME NEW p \in reported, reported = {p}, found
        PROVE  <<found_nonce, found_add>> = p
    <3>1. found_nonce = p[1] /\ found_add = p[2]
      BY <2>2, Zenon DEF IInv, ProofInv
    <3>2. p = <<p[1], p[2]>>
      BY <2>1
    <3> QED
      BY <3>1, <3>2
  <2>3. mp = "idle" => (found <=> reported # {})
    BY DEF IInv, ProofInv, TypeInv, PhaseInv
  <2> QED
    BY <2>2, <2>3 DEF ProofKept
<1> QED
  BY <1>1, Inductive, PTL

\* mine_parallel, with all its threads, implements the session its callers rely
\* on: it returns only after a proof or a stop request, and reports only valid
\* proofs.
THEOREM ImplementsSession == Spec => Session!Spec
<1>1. Init => Session!Init
  BY DEF Init, Session!Init
<1>2. IInv /\ [Next]_vars => [Session!Next]_(Session!vars)
  <2> SUFFICES ASSUME IInv, [Next]_vars
               PROVE  Session!Next \/ UNCHANGED Session!vars
    BY Zenon
  <2> USE DEF callerVars, scanVars, gpuVars, reqVars, procVars, histVars
  <2>1. CASE MineParallel
    <3>1. Session!Start
      BY <2>1, Zenon DEF MineParallel, Session!Start
    <3> QED
      BY <3>1 DEF Session!Next
  <2>2. CASE Return
    <3>1. asked \/ reported # {}
      BY <2>2, Zenon DEF Return, IInv, StopInv
    <3>2. Session!End
      BY <2>2, <3>1, Zenon DEF Return, Session!End
    <3> QED
      BY <3>2 DEF Session!Next
  <2>3. CASE StopIdle
    <3>1. Session!Forget
      BY <2>3, Zenon DEF StopIdle, Session!Forget
    <3> QED
      BY <3>1, Zenon DEF Session!Next
  <2>4. CASE RequestStop
    <3>1. Session!Ask
      BY <2>4 DEF RequestStop, Session!Ask
    <3> QED
      BY <3>1 DEF Session!Next
  <2>5. ASSUME NEW w \in Workers, FoundProof(w) PROVE Session!Next
    <3>1. mp # "idle"
      BY <2>5, Zenon DEF FoundProof, At, IInv, TypeInv, PhaseInv
    <3>2. Session!Report
      BY <2>5, <3>1, Zenon DEF FoundProof, ClosesProof, Session!Report
    <3> QED
      BY <3>2 DEF Session!Next
  <2>6. CASE LaunchWorkers \/ JoinWorkers \/ StopGpu
    BY <2>6, Zenon DEF LaunchWorkers, JoinWorkers, StopGpu, Session!vars
  <2>7. CASE GpuStep \/ GpuSpuriousWake \/ RequestStopNotify
    BY <2>7, Zenon DEF GpuStep, GpuInit, GpuLoop, GpuCheck, GpuBlock, GpuBatch,
       GpuSignal, GpuSpuriousWake, RequestStopNotify, Session!vars
  <2>8. ASSUME NEW w \in Workers, WorkerStep(w), ~FoundProof(w)
        PROVE  UNCHANGED Session!vars
    BY <2>8, Zenon DEF WorkerStep, WorkerExit, SkipBatch, BeginBatch, ReadGpuFlag,
       NextSegment, EndBatch, EndIntervals, SkipInterval, TakeCpuPath,
       TakeGpuPath, Submit, AwaitDone, AwaitGiveUp, EndScan, ScanCandidate,
       ProcessNonce, ProcessAdd, ProcessFound, StopAfterProof, Session!vars
  <2>9. CASE UNCHANGED vars
    BY <2>9, Zenon DEF vars, Session!vars
  <2> QED
    BY <2>1, <2>2, <2>3, <2>4, <2>5, <2>6, <2>7, <2>8, <2>9
    DEF Next, CallerStep, StopperStep
<1> QED
  BY <1>1, <1>2, Inductive, PTL DEF Spec, Session!Spec

-----------------------------------------------------------------------------
(* How far a batch is searched *)

Scanning == {"scan", "process", "process_add", "process_found", "accepted"}
InBatch == {"hashed", "segment", "interval"} \cup AtCandidate

\* The candidates that are left of an interval are the last ones it had.
TodoOf(w) ==
  wpc[w] \in Scanning =>
    /\ Len(todo[w]) <= Len(Candidates(w))
    /\ \A j \in 1 .. Len(todo[w]) :
         todo[w][j] = Candidates(w)[Len(Candidates(w)) - Len(todo[w]) + j]

\* Worker w is through with candidate j of segment t of its interval i.
Tested(w, i, t, j) ==
  \/ t < seg[w]
  \/ /\ t = seg[w]
     /\ \/ wpc[w] \in {"hashed", "segment"}
        \/ i < k[w]
        \/ i = k[w] /\ wpc[w] \in Scanning /\ j <= Len(Candidates(w)) - Len(todo[w])

TestedPrimes(w, i) ==
  {p \in Primes[NonceOf(w, i)] :
     \E t \in 1 .. Segments : \E j \in 1 .. Len(Cands[NonceOf(w, i)][t]) :
       Cands[NonceOf(w, i)][t][j] = p /\ Tested(w, i, t, j)}

\* last_prime_offset is the last prime so far, and no two of them are a proof.
Searched(w, i) ==
  /\ IF last_prime_offset[w][i] = 0 THEN TestedPrimes(w, i) = {}
     ELSE /\ last_prime_offset[w][i] \in TestedPrimes(w, i)
          /\ \A p \in TestedPrimes(w, i) : p <= last_prime_offset[w][i]
  /\ \A p, q \in TestedPrimes(w, i) : ~StartsProof(NonceOf(w, i), p, q)

SearchOf(w) ==
  wpc[w] \in InBatch => \A i \in 0 .. Batch - 1 :
    NonceOf(w, i) \in ValidHash \ dropped[w] => Searched(w, i)

\* A stop request is not taken back while the session runs.
SearchInv == ~stop_requested => \A w \in Workers : TodoOf(w) /\ SearchOf(w)

LEMMA Below == ASSUME NEW n \in Nat, NEW x \in 1 .. n PROVE x < n \/ x = n
  OBVIOUS

LEMMA SearchedNext ==
  ASSUME NEW w, NEW i, NEW n, NonceOf(w, i)' = n,
         IF last_prime_offset'[w][i] = 0 THEN TestedPrimes(w, i)' = {}
         ELSE /\ last_prime_offset'[w][i] \in TestedPrimes(w, i)'
              /\ \A p \in TestedPrimes(w, i)' : p <= last_prime_offset'[w][i],
         \A p, q \in TestedPrimes(w, i)' : ~StartsProof(n, p, q)
  PROVE  Searched(w, i)'
  BY DEF Searched, StartsProof, SievedPrimes

\* A step that tests no candidate of an interval keeps what is known of it.
LEMMA SameSearched ==
  ASSUME NEW w \in Workers, NEW i \in 0 .. Batch - 1, Searched(w, i),
         nonce_base'[w] = nonce_base[w],
         last_prime_offset'[w][i] = last_prime_offset[w][i],
         \A t \in 1 .. Segments : \A j \in 1 .. Len(Cands[NonceOf(w, i)][t]) :
           Tested(w, i, t, j)' <=> Tested(w, i, t, j)
  PROVE  Searched(w, i)'
<1>1. NonceOf(w, i)' = NonceOf(w, i)
  BY Zenon DEF NonceOf
<1>2. TestedPrimes(w, i)' = TestedPrimes(w, i)
  BY <1>1, Zenon DEF TestedPrimes
<1> QED
  BY <1>1, <1>2, Zenon DEF Searched, StartsProof, SievedPrimes

\* The locals of w that matter here.
View(w) == <<wpc[w], nonce_base[w], seg[w], k[w], todo[w], last_prime_offset[w], dropped[w]>>

LEMMA SameView ==
  ASSUME NEW w \in Workers, View(w)' = View(w), TodoOf(w), SearchOf(w)
  PROVE  TodoOf(w)' /\ SearchOf(w)'
<1>1. /\ wpc'[w] = wpc[w] /\ nonce_base'[w] = nonce_base[w] /\ seg'[w] = seg[w]
      /\ k'[w] = k[w] /\ todo'[w] = todo[w] /\ dropped'[w] = dropped[w]
      /\ last_prime_offset'[w] = last_prime_offset[w]
  BY Zenon DEF View
<1>2. /\ \A i \in 0 .. Batch - 1 : NonceOf(w, i)' = NonceOf(w, i)
      /\ Candidates(w)' = Candidates(w)
  BY <1>1, Zenon DEF NonceOf, Nonce, Candidates
<1>3. TodoOf(w)'
  BY <1>1, <1>2, Zenon DEF TodoOf
<1>4. \A i \in 0 .. Batch - 1 : Searched(w, i) => Searched(w, i)'
  <2>1. ASSUME NEW i, NEW t, NEW j PROVE Tested(w, i, t, j)' <=> Tested(w, i, t, j)
    BY <1>1, <1>2, Zenon DEF Tested
  <2> QED
    BY <1>1, <2>1, SameSearched, Zenon
<1> QED
  BY <1>1, <1>2, <1>3, <1>4, Zenon DEF SearchOf

LEMMA OtherView ==
  ASSUME TypeInv, NEW w \in Workers, NEW v \in Workers, v # w, WorkerStep(w)
  PROVE  View(v)' = View(v)
<1> USE DEF TypeInv, TypeOK, WorkerTypeOK, ProofTypeOK, scanVars, histVars, Goto, View
<1>1. CASE WorkerExit(w) \/ StopAfterProof(w)
  BY <1>1, Zenon DEF WorkerExit, StopAfterProof, DropLocals
<1>2. CASE SkipBatch(w) \/ BeginBatch(w) \/ ReadGpuFlag(w) \/ NextSegment(w) \/ EndBatch(w)
  BY <1>2, Zenon DEF SkipBatch, BeginBatch, ReadGpuFlag, NextSegment, EndBatch
<1>3. CASE EndIntervals(w) \/ SkipInterval(w) \/ TakeCpuPath(w) \/ TakeGpuPath(w)
  BY <1>3, Zenon DEF EndIntervals, SkipInterval, TakeCpuPath, TakeGpuPath
<1>4. CASE Submit(w)
  BY <1>4, Zenon DEF Submit
<1>5. CASE AwaitDone(w)
  BY <1>5, Zenon DEF AwaitDone
<1>6. CASE AwaitGiveUp(w)
  BY <1>6, Zenon DEF AwaitGiveUp
<1>7. CASE EndScan(w) \/ ScanCandidate(w) \/ FoundProof(w)
  BY <1>7, Zenon DEF EndScan, ScanCandidate, FoundProof
<1>8. CASE ProcessNonce(w) \/ ProcessAdd(w) \/ ProcessFound(w)
  BY <1>8, Zenon DEF ProcessNonce, ProcessAdd, ProcessFound
<1> QED
  BY <1>1, <1>2, <1>3, <1>4, <1>5, <1>6, <1>7, <1>8, Zenon DEF WorkerStep

\* A step of w that tests no candidate: it goes on to the next interval or
\* segment, or leaves out nonces that it counts as dropped.
LEMMA QuietSearch ==
  ASSUME NEW w \in Workers, TodoOf(w), SearchOf(w), wpc[w] \in InBatch,
         nonce_base'[w] = nonce_base[w],
         last_prime_offset'[w] = last_prime_offset[w], dropped[w] \subseteq dropped'[w],
         \A i \in 0 .. Batch - 1 : NonceOf(w, i) \in ValidHash \ dropped'[w] =>
           \A t \in 1 .. Segments : \A j \in 1 .. Len(Cands[NonceOf(w, i)][t]) :
             Tested(w, i, t, j)' <=> Tested(w, i, t, j)
  PROVE  SearchOf(w)'
<1>1. \A i \in 0 .. Batch - 1 : NonceOf(w, i)' = NonceOf(w, i)
  BY Zenon DEF NonceOf
<1>2. ASSUME NEW i \in 0 .. Batch - 1, NonceOf(w, i) \in ValidHash \ dropped'[w]
      PROVE  Searched(w, i)'
  <2>1. Searched(w, i) /\ last_prime_offset'[w][i] = last_prime_offset[w][i]
    BY <1>2, Zenon DEF SearchOf
  <2>2. \A t \in 1 .. Segments : \A j \in 1 .. Len(Cands[NonceOf(w, i)][t]) :
          Tested(w, i, t, j)' <=> Tested(w, i, t, j)
    BY <1>2, Zenon
  <2> QED
    BY <2>1, <2>2, SameSearched, Zenon
<1> QED
  BY <1>1, <1>2, Zenon DEF SearchOf

\* The locals of a worker have their types.
LEMMA LocalTypes ==
  ASSUME TypeInv, NEW w \in Workers, NEW i \in 0 .. Batch - 1
  PROVE  /\ NonceOf(w, i) \in Nonces /\ seg[w] \in Nat /\ k[w] \in Nat /\ Batch \in Nat
         /\ todo[w] \in Seq(Offsets) /\ Len(todo[w]) \in Nat
         /\ \A t \in 1 .. Segments : /\ Cands[NonceOf(w, i)][t] \in Seq(Offsets)
                                     /\ Len(Cands[NonceOf(w, i)][t]) \in Nat
<1>1. NonceOf(w, i) \in Nonces
  BY NonceType, SizeAssumption DEF TypeInv
<1>2. \A t \in 1 .. Segments : Cands[NonceOf(w, i)][t] \in Seq(Offsets)
  BY <1>1, WorldAssumption, Zenon
<1>3. \A t \in 1 .. Segments : Len(Cands[NonceOf(w, i)][t]) \in Nat
  BY <1>2
<1>4. /\ seg[w] \in 0 .. Segments /\ k[w] \in 0 .. Batch /\ todo[w] \in Seq(Offsets)
  BY DEF TypeInv, TypeOK, WorkerTypeOK
<1>5. Len(todo[w]) \in Nat
  BY <1>4
<1> QED
  BY <1>1, <1>2, <1>3, <1>4, <1>5, SizeAssumption

\* At a candidate the current interval is one of the batch.
LEMMA AtInterval ==
  ASSUME TypeInv, NEW w \in Workers, wpc[w] \in AtCandidate \cup {"interval"}, k[w] < Batch
  PROVE  /\ k[w] \in 0 .. Batch - 1 /\ Nonce(w) = NonceOf(w, k[w])
         /\ seg[w] \in 1 .. Segments /\ Nonce(w) \in Nonces
         /\ Candidates(w) = Cands[Nonce(w)][seg[w]]
         /\ Candidates(w) \in Seq(Offsets) /\ Len(Candidates(w)) \in Nat
         /\ todo[w] \in Seq(Offsets) /\ Len(todo[w]) \in Nat
<1>1. k[w] \in 0 .. Batch /\ seg[w] \in 0 .. Segments /\ seg[w] >= 1
  BY Zenon DEF TypeInv, TypeOK, WorkerTypeOK, LocalInv
<1>2. k[w] \in 0 .. Batch - 1 /\ seg[w] \in 1 .. Segments
  BY <1>1, SizeAssumption
<1>3. Candidates(w) = Cands[Nonce(w)][seg[w]] /\ Nonce(w) = NonceOf(w, k[w])
  BY Zenon DEF Candidates, Nonce
<1> QED
  BY <1>2, <1>3, LocalTypes, Zenon

LEMMA BetweenIntervals ==
  ASSUME TypeInv, ~stop_requested, NEW w \in Workers, TodoOf(w), SearchOf(w),
         \/ ReadGpuFlag(w) \/ NextSegment(w) \/ EndIntervals(w) \/ SkipInterval(w)
         \/ TakeGpuPath(w) \/ Submit(w) \/ EndScan(w)
  PROVE  TodoOf(w)' /\ SearchOf(w)'
<1>1. /\ wpc[w] \in InBatch /\ wpc'[w] \in InBatch /\ wpc'[w] \notin Scanning
      /\ nonce_base'[w] = nonce_base[w]
      /\ last_prime_offset'[w] = last_prime_offset[w] /\ dropped'[w] = dropped[w]
  BY Zenon DEF ReadGpuFlag, NextSegment, EndIntervals, SkipInterval, TakeGpuPath, Submit, EndScan,
         At, Goto, scanVars, histVars, InBatch, AtCandidate, Scanning, TypeInv, TypeOK,
         WorkerTypeOK
<1>2. TodoOf(w)'
  BY <1>1, Zenon DEF TodoOf
<1>3. ASSUME NEW i \in 0 .. Batch - 1, NonceOf(w, i) \in ValidHash \ dropped'[w],
             NEW t \in 1 .. Segments, NEW j \in 1 .. Len(Cands[NonceOf(w, i)][t])
      PROVE  Tested(w, i, t, j)' <=> Tested(w, i, t, j)
  <2>1. /\ seg[w] \in Nat /\ k[w] \in Nat /\ Batch \in Nat /\ i \in Nat /\ i < Batch /\ t \in Nat
        /\ Len(Cands[NonceOf(w, i)][t]) \in Nat /\ j \in Nat
    <3>1. /\ seg[w] \in Nat /\ k[w] \in Nat /\ Batch \in Nat
          /\ Len(Cands[NonceOf(w, i)][t]) \in Nat
      BY LocalTypes, Zenon
    <3> QED
      BY <3>1
  <2>2. /\ seg \in [Workers -> 0 .. Segments] /\ k \in [Workers -> 0 .. Batch]
        /\ wpc \in [Workers -> {"none", "head", "hashed", "segment", "interval",
                          "submit", "await", "scan", "process", "process_add",
                          "process_found", "accepted", "done"}]
    BY Zenon DEF TypeInv, TypeOK, WorkerTypeOK
  <2>3. Tested(w, i, t, j)' <=>
          \/ t < seg'[w]
          \/ t = seg'[w] /\ (wpc'[w] \in {"hashed", "segment"} \/ i < k'[w])
    BY <1>1, Zenon DEF Tested
  <2>4. CASE ReadGpuFlag(w) \/ TakeGpuPath(w) \/ Submit(w)
    <3>1. /\ seg'[w] = seg[w] /\ k'[w] = k[w] /\ wpc[w] \notin Scanning
          /\ wpc'[w] \in {"hashed", "segment"} <=> wpc[w] \in {"hashed", "segment"}
      BY <2>2, <2>4, Zenon DEF ReadGpuFlag, TakeGpuPath, Submit, At, Goto, scanVars, Scanning
    <3> QED
      BY <2>3, <3>1, Zenon DEF Tested
  <2>5. CASE NextSegment(w)
    <3>1. seg'[w] = seg[w] + 1 /\ k'[w] = 0 /\ wpc[w] = "segment" /\ wpc'[w] = "interval"
      BY <2>2, <2>5, Zenon DEF NextSegment, At, Goto
    <3>2. ~(i < 0) /\ (t < seg[w] + 1 <=> t < seg[w] \/ t = seg[w])
      BY <2>1
    <3> QED
      BY <2>3, <3>1, <3>2, Zenon DEF Tested
  <2>6. CASE EndIntervals(w)
    <3>1. /\ seg'[w] = seg[w] /\ k[w] = Batch /\ wpc[w] = "interval" /\ wpc'[w] = "segment"
      BY <2>2, <2>6, Zenon DEF EndIntervals, At, Goto, scanVars
    <3> QED
      BY <2>1, <2>3, <3>1, Zenon DEF Tested
  <2>7. CASE SkipInterval(w)
    <3>1. /\ seg'[w] = seg[w] /\ k[w] < Batch /\ k'[w] = k[w] + 1
          /\ wpc[w] = "interval" /\ wpc'[w] = "interval"
          /\ Nonce(w) \notin ValidHash \/ Candidates(w) = <<>>
      BY <2>2, <2>7, Zenon DEF SkipInterval, At
    <3>2. Cands[NonceOf(w, i)][t] # <<>> /\ (i < k[w] + 1 <=> i < k[w] \/ i = k[w])
      BY <2>1
    <3>3. ~(t = seg[w] /\ i = k[w])
      BY <1>1, <1>3, <3>1, <3>2, Zenon DEF Nonce, Candidates
    <3> QED
      BY <2>3, <3>1, <3>2, <3>3, Zenon DEF Tested, Scanning
  <2>8. CASE EndScan(w)
    <3>1. /\ seg'[w] = seg[w] /\ k'[w] = k[w] + 1 /\ todo[w] = <<>>
          /\ wpc[w] = "scan" /\ wpc'[w] = "interval"
      BY <2>2, <2>8, Zenon DEF EndScan, At, Goto
    <3>2. /\ j <= Len(Cands[NonceOf(w, i)][t]) - Len(<<>>)
          /\ i < k[w] + 1 <=> i < k[w] \/ i = k[w]
      BY <2>1
    <3>3. t = seg[w] /\ i = k[w] => j <= Len(Candidates(w)) - Len(todo[w])
      BY <3>1, <3>2, Zenon DEF Nonce, Candidates
    <3> QED
      BY <2>3, <3>1, <3>2, <3>3, Zenon DEF Tested, Scanning
  <2> QED
    BY <2>4, <2>5, <2>6, <2>7, <2>8, Zenon
<1> QED
  BY <1>1, <1>2, <1>3, QuietSearch, Zenon

\* The worker starts with the first candidate, or with none after a failed
\* GPU batch, whose nonce it drops.
LEMMA BeginScan ==
  ASSUME TypeInv, NEW w \in Workers, TodoOf(w), SearchOf(w),
         TakeCpuPath(w) \/ AwaitDone(w)
  PROVE  TodoOf(w)' /\ SearchOf(w)'
<1>1. /\ wpc[w] \in {"interval", "await"} /\ wpc'[w] = "scan"
      /\ nonce_base'[w] = nonce_base[w] /\ seg'[w] = seg[w] /\ k'[w] = k[w]
      /\ last_prime_offset'[w] = last_prime_offset[w]
      /\ \/ todo'[w] = Candidates(w) /\ dropped'[w] = dropped[w]
         \/ todo'[w] = <<>> /\ dropped'[w] = dropped[w] \cup {Nonce(w)}
  BY DEF TakeCpuPath, AwaitDone, At, Goto, histVars, TypeInv, TypeOK, WorkerTypeOK,
         ProofTypeOK
<1>2. k[w] < Batch /\ wpc[w] \in AtCandidate \cup {"interval"}
  BY <1>1, Zenon DEF TakeCpuPath, AwaitDone, At, TypeInv, LocalInv, AtCandidate
<1>3. /\ k[w] \in 0 .. Batch - 1 /\ Nonce(w) = NonceOf(w, k[w])
      /\ Candidates(w) \in Seq(Offsets) /\ Len(Candidates(w)) \in Nat
  BY <1>2, AtInterval, Zenon
<1>4. Candidates(w)' = Candidates(w)
  BY <1>1, Zenon DEF Candidates, Nonce, NonceOf
<1>5. TodoOf(w)'
  <2>1. CASE todo'[w] = Candidates(w)
    <3>1. PICK cands \in Seq(Offsets) : cands = Candidates(w)
      BY <1>3, Zenon
    <3>2. /\ Len(cands) <= Len(cands)
          /\ \A j \in 1 .. Len(cands) : Len(cands) - Len(cands) + j = j
      BY <3>1
    <3> QED
      BY <1>4, <2>1, <3>1, <3>2, Zenon DEF TodoOf
  <2>2. CASE todo'[w] = <<>>
    <3>1. Len(<<>>) <= Len(Candidates(w)) /\ 1 .. Len(<<>>) = {}
      BY <1>3
    <3> QED
      BY <1>4, <2>2, <3>1, Zenon DEF TodoOf
  <2> QED
    BY <1>1, <2>1, <2>2, Zenon
<1>6. ASSUME NEW i \in 0 .. Batch - 1, NonceOf(w, i) \in ValidHash \ dropped'[w],
             NEW t \in 1 .. Segments, NEW j \in 1 .. Len(Cands[NonceOf(w, i)][t])
      PROVE  Tested(w, i, t, j)' <=> Tested(w, i, t, j)
  <2>1. i = k'[w] => ~(j <= Len(Candidates(w)') - Len(todo'[w]))
    <3>1. ~(j <= Len(Candidates(w)) - Len(Candidates(w)))
      BY <1>3
    <3> QED
      BY <1>1, <1>3, <1>4, <1>6, <3>1, Zenon
  <2> QED
    BY <1>1, <2>1, Zenon DEF Tested, Scanning
<1>7. wpc[w] \in InBatch /\ dropped[w] \subseteq dropped'[w]
  BY <1>1, Zenon DEF InBatch, AtCandidate
<1> QED
  BY <1>1, <1>5, <1>6, <1>7, QuietSearch, Zenon

\* break: the rest of this segment is dropped.
LEMMA GiveUpSearch ==
  ASSUME TypeInv, NEW w \in Workers, TodoOf(w), SearchOf(w), AwaitGiveUp(w)
  PROVE  TodoOf(w)' /\ SearchOf(w)'
<1>1. /\ wpc[w] = "await" /\ wpc'[w] = "segment"
      /\ nonce_base'[w] = nonce_base[w] /\ seg'[w] = seg[w]
      /\ last_prime_offset'[w] = last_prime_offset[w]
      /\ dropped'[w] = dropped[w] \cup ({NonceOf(w, i) : i \in k[w] .. Batch - 1} \cap ValidHash)
  BY Zenon DEF AwaitGiveUp, At, Goto, scanVars, TypeInv, TypeOK, WorkerTypeOK, ProofTypeOK
<1>2. TodoOf(w)'
  BY <1>1, Zenon DEF TodoOf, Scanning
<1>3. ASSUME NEW i \in 0 .. Batch - 1, NonceOf(w, i) \in ValidHash \ dropped'[w],
             NEW t \in 1 .. Segments, NEW j \in 1 .. Len(Cands[NonceOf(w, i)][t])
      PROVE  Tested(w, i, t, j)' <=> Tested(w, i, t, j)
  <2>1. i < k[w]
    BY <1>1, <1>3, LocalTypes
  <2> QED
    BY <1>1, <2>1, Zenon DEF Tested
<1>4. wpc[w] \in InBatch /\ dropped[w] \subseteq dropped'[w]
  BY <1>1, Zenon DEF InBatch, AtCandidate
<1> QED
  BY <1>1, <1>2, <1>3, <1>4, QuietSearch, Zenon

\* One candidate.  If it is prime, the only gap it closes is the one from the
\* last prime, and that is no proof.
LEMMA ScanSearch ==
  ASSUME TypeInv, NEW w \in Workers, TodoOf(w), SearchOf(w), ScanCandidate(w)
  PROVE  TodoOf(w)' /\ SearchOf(w)'
<1>1. /\ wpc[w] = "scan" /\ k[w] < Batch
      /\ wpc[w] \in AtCandidate \cup {"interval"}
  BY Zenon DEF ScanCandidate, At, TypeInv, LocalInv, AtCandidate
<1>2. PICK kk \in 0 .. Batch - 1, s \in 1 .. Segments, n \in Nonces :
        kk = k[w] /\ s = seg[w] /\ n = Nonce(w) /\ n = NonceOf(w, kk)
  BY <1>1, AtInterval, Zenon
<1>3. PICK cands \in Seq(Offsets) : cands = Candidates(w) /\ cands = Cands[n][s]
  BY <1>1, <1>2, AtInterval, Zenon
<1>4. PICK left \in Seq(Offsets) : left = todo[w] /\ left # <<>>
  BY <1>1, AtInterval, Zenon DEF ScanCandidate
<1>5. PICK c : c = Head(left)
  OBVIOUS
<1>6. PICK pos \in Int : pos = Len(cands) - Len(left) + 1
  <2>1. Len(cands) \in Nat /\ Len(left) \in Nat
    OBVIOUS
  <2> QED
    BY <2>1
<1>7. /\ wpc'[w] = "scan" /\ ~ClosesProof(w) /\ nonce_base'[w] = nonce_base[w]
      /\ seg'[w] = s /\ k'[w] = kk /\ todo'[w] = Tail(left) /\ dropped'[w] = dropped[w]
      /\ \A i \in 0 .. Batch - 1 : last_prime_offset'[w][i] =
           IF i = kk /\ c \in Primes[n] THEN c ELSE last_prime_offset[w][i]
  BY <1>1, <1>2, <1>4, <1>5, Zenon
  DEF ScanCandidate, At, histVars, TypeInv, TypeOK, WorkerTypeOK
<1>8. /\ Candidates(w)' = cands /\ NonceOf(w, kk)' = n
      /\ \A i \in 0 .. Batch - 1 : NonceOf(w, i)' = NonceOf(w, i)
  BY <1>2, <1>3, <1>7, Zenon DEF Candidates, Nonce, NonceOf
<1>9. /\ Len(left) \in Nat /\ Len(cands) \in Nat /\ 1 <= Len(left) /\ Len(left) <= Len(cands)
      /\ \A j \in 1 .. Len(left) : left[j] = cands[Len(cands) - Len(left) + j]
  <2>1. Len(left) \in Nat /\ Len(cands) \in Nat /\ 1 <= Len(left)
    BY <1>4
  <2>2. /\ Len(todo[w]) <= Len(Candidates(w))
        /\ \A j \in 1 .. Len(todo[w]) :
             todo[w][j] = Candidates(w)[Len(Candidates(w)) - Len(todo[w]) + j]
    BY <1>1, Zenon DEF TodoOf, Scanning
  <2> QED
    BY <1>3, <1>4, <2>1, <2>2, Zenon
<1>10. /\ Len(Tail(left)) = Len(left) - 1
       /\ \A j \in 1 .. Len(left) - 1 : Tail(left)[j] = left[j + 1]
  BY <1>4
<1>11. pos \in 1 .. Len(cands) /\ c = cands[pos] /\ c \in Nat
  <2>1. c = left[1] /\ c \in Nat
    BY <1>4, <1>5 DEF Offsets
  <2>2. left[1] = cands[Len(cands) - Len(left) + 1]
    BY <1>9
  <2> QED
    BY <1>6, <1>9, <2>1, <2>2
<1>12. TodoOf(w)'
  <2>1. PICK rest : rest = todo'[w] /\ rest = Tail(left)
    BY <1>7, Zenon
  <2>2. ASSUME NEW j \in 1 .. Len(rest)
        PROVE  rest[j] = cands[Len(cands) - Len(rest) + j]
    <3>1. PICK l \in Int, m \in Int : /\ l = Len(left) /\ m = Len(cands)
                                      /\ Len(rest) = l - 1 /\ rest[j] = left[j + 1]
      BY <1>9, <1>10, <2>1
    <3>2. j + 1 \in 1 .. l /\ m - l + (j + 1) = m - (l - 1) + j
      BY <3>1
    <3> QED
      BY <1>9, <3>1, <3>2, Zenon
  <2>3. Len(rest) <= Len(cands)
    BY <1>9, <1>10, <2>1
  <2> QED
    BY <1>8, <2>1, <2>2, <2>3, Zenon DEF TodoOf
<1>13. ASSUME NEW i \in 0 .. Batch - 1, i # kk, Searched(w, i) PROVE Searched(w, i)'
  <2>1. last_prime_offset'[w][i] = last_prime_offset[w][i]
    BY <1>7, <1>13, Zenon
  <2>2. \A t \in 1 .. Segments : \A j \in 1 .. Len(Cands[NonceOf(w, i)][t]) :
          Tested(w, i, t, j)' <=> Tested(w, i, t, j)
    BY <1>1, <1>2, <1>7, <1>13, Zenon DEF Tested
  <2> QED
    BY <1>7, <1>13, <2>1, <2>2, SameSearched, Zenon
<1>14. ASSUME NEW t \in 1 .. Segments, NEW j \in 1 .. Len(Cands[n][t])
       PROVE  /\ Tested(w, kk, t, j)' <=> Tested(w, kk, t, j) \/ (t = s /\ j = pos)
              /\ Tested(w, kk, t, j) => t < s \/ (t = s /\ j < pos)
  <2>1. t \in Int /\ j \in Int /\ s \in Int /\ ~(kk < kk)
    BY <1>2
  <2>2. Tested(w, kk, t, j) <=> t < s \/ (t = s /\ j <= Len(cands) - Len(left))
    BY <1>1, <1>2, <1>3, <1>4, <2>1, Zenon DEF Tested, Scanning
  <2>3. Tested(w, kk, t, j)' <=> t < s \/ (t = s /\ j <= Len(cands) - (Len(left) - 1))
    BY <1>7, <1>8, <1>10, <2>1, Zenon DEF Tested, Scanning
  <2> QED
    BY <1>6, <1>9, <2>1, <2>2, <2>3
<1>15. ASSUME NEW p \in TestedPrimes(w, kk)
       PROVE  p < c /\ p \in SievedPrimes(n) /\ p \in Nat
  <2>1. PICK t \in 1 .. Segments : \E i \in 1 .. Len(Cands[n][t]) :
          Cands[n][t][i] = p /\ Tested(w, kk, t, i)
    BY <1>2, <1>15, Zenon DEF TestedPrimes
  <2>2. PICK j \in 1 .. Len(Cands[n][t]) : Cands[n][t][j] = p /\ Tested(w, kk, t, j)
    BY <2>1, Zenon
  <2>3. t < s \/ (t = s /\ j < pos)
    BY <1>14, <2>2, Zenon
  <2>4. Cands[n][t][j] < Cands[n][s][pos]
    BY <1>3, <1>11, <2>3, SieveAssumption, Zenon
  <2>5. p \in Primes[n] /\ Primes[n] \subseteq Nat
    BY <1>2, <1>15, WorldAssumption, Zenon DEF TestedPrimes, Offsets
  <2> QED
    BY <1>3, <1>11, <2>2, <2>4, <2>5, Zenon DEF SievedPrimes
<1>16. c # 0 /\ (c \in Primes[n] => c \in SievedPrimes(n))
  <2>1. Cands[n][s][pos] > 0
    BY <1>3, <1>11, SieveAssumption, Zenon
  <2>2. c # 0
    BY <1>3, <1>11, <2>1
  <2> QED
    BY <1>3, <1>11, <2>2, Zenon DEF SievedPrimes
<1>17. TestedPrimes(w, kk)' = TestedPrimes(w, kk) \cup ({c} \cap Primes[n])
  <2>1. TestedPrimes(w, kk)' =
          {p \in Primes[n] : \E t \in 1 .. Segments : \E j \in 1 .. Len(Cands[n][t]) :
             Cands[n][t][j] = p /\ Tested(w, kk, t, j)'}
    BY <1>8, Zenon DEF TestedPrimes
  <2>2. TestedPrimes(w, kk) =
          {p \in Primes[n] : \E t \in 1 .. Segments : \E j \in 1 .. Len(Cands[n][t]) :
             Cands[n][t][j] = p /\ Tested(w, kk, t, j)}
    BY <1>2, Zenon DEF TestedPrimes
  <2>3. ASSUME NEW p \in TestedPrimes(w, kk)' PROVE p \in TestedPrimes(w, kk) \cup {c}
    <3>1. PICK t \in 1 .. Segments : \E j \in 1 .. Len(Cands[n][t]) :
            Cands[n][t][j] = p /\ Tested(w, kk, t, j)'
      BY <2>1, <2>3, Zenon
    <3>2. PICK j \in 1 .. Len(Cands[n][t]) : Cands[n][t][j] = p /\ Tested(w, kk, t, j)'
      BY <3>1, Zenon
    <3>3. Tested(w, kk, t, j) \/ (t = s /\ j = pos)
      BY <1>14, <3>2, Zenon
    <3> QED
      BY <1>3, <1>11, <2>1, <2>2, <2>3, <3>2, <3>3, Zenon
  <2>4. TestedPrimes(w, kk) \subseteq TestedPrimes(w, kk)'
    BY <1>14, <2>1, <2>2, Zenon
  <2>5. c \in Primes[n] => c \in TestedPrimes(w, kk)'
    BY <1>3, <1>11, <1>14, <2>1, Zenon
  <2>6. TestedPrimes(w, kk)' \subseteq Primes[n]
    BY <2>1, Zenon
  <2> QED
    BY <2>3, <2>4, <2>5, <2>6, Zenon
<1>18. PICK a : a = last_prime_offset[w][kk]
  BY Zenon
<1>19. ~(c \in Primes[n] /\ a # 0 /\ StartsProof(n, a, c))
  BY <1>2, <1>4, <1>5, <1>7, <1>18, Zenon DEF ClosesProof, StartsProof
<1>20. PICK old : old = TestedPrimes(w, kk)
  BY Zenon
<1>21. ASSUME Searched(w, kk) PROVE Searched(w, kk)'
  <2>1. /\ IF a = 0 THEN old = {} ELSE a \in old /\ \A p \in old : p <= a
        /\ \A p, q \in old : ~StartsProof(n, p, q)
    BY <1>2, <1>18, <1>20, <1>21, Zenon DEF Searched
  <2> SUFFICES /\ IF last_prime_offset'[w][kk] = 0 THEN TestedPrimes(w, kk)' = {}
                  ELSE /\ last_prime_offset'[w][kk] \in TestedPrimes(w, kk)'
                       /\ \A p \in TestedPrimes(w, kk)' : p <= last_prime_offset'[w][kk]
               /\ \A p, q \in TestedPrimes(w, kk)' : ~StartsProof(n, p, q)
    BY <1>8, SearchedNext, Zenon
  <2>2. CASE c \notin Primes[n]
    <3>1. TestedPrimes(w, kk)' = old /\ last_prime_offset'[w][kk] = a
      BY <1>7, <1>17, <1>18, <1>20, <2>2, Zenon
    <3> QED
      BY <2>1, <3>1, Zenon
  <2>3. CASE c \in Primes[n]
    <3>1. TestedPrimes(w, kk)' = old \cup {c} /\ last_prime_offset'[w][kk] = c
      BY <1>7, <1>17, <1>20, <2>3, Zenon
    <3>2. \A p \in old \cup {c} : p <= c
      BY <1>11, <1>15, <1>20
    <3>3. ASSUME NEW p \in old \cup {c}, NEW q \in old \cup {c}, StartsProof(n, p, q)
          PROVE  FALSE
      <4>1. p < q /\ \A x \in SievedPrimes(n) : ~(p < x /\ x < q)
        BY <3>3, Zenon DEF StartsProof
      <4>2. p \in old /\ q = c
        <5>1. p # c
          BY <1>11, <1>15, <1>20, <4>1
        <5>2. q \in old => FALSE
          BY <2>1, <3>3, <5>1, Zenon
        <5> QED
          BY <5>1, <5>2
      <4>3. a # 0 /\ a \in old /\ p <= a
        BY <2>1, <4>2, Zenon
      <4>4. a \in SievedPrimes(n) /\ a < c /\ a \in Nat /\ p \in Nat
        BY <1>15, <1>20, <4>2, <4>3, Zenon
      <4>5. p = a
        BY <4>1, <4>2, <4>3, <4>4
      <4> QED
        BY <1>19, <2>3, <3>3, <4>2, <4>3, <4>5, Zenon
    <3> QED
      BY <1>16, <3>1, <3>2, <3>3, Zenon
  <2> QED
    BY <2>2, <2>3, Zenon
<1> QED
  BY <1>1, <1>7, <1>8, <1>12, <1>13, <1>21, Zenon DEF SearchOf, InBatch, AtCandidate

LEMMA OwnSearch ==
  ASSUME TypeInv, ~stop_requested, ~stop_requested', NEW w \in Workers,
         TodoOf(w), SearchOf(w), WorkerStep(w)
  PROVE  TodoOf(w)' /\ SearchOf(w)'
<1>1. CASE WorkerExit(w) \/ StopAfterProof(w)
  BY <1>1, Zenon DEF WorkerExit, StopAfterProof
<1>2. CASE SkipBatch(w) \/ EndBatch(w)
  <2>1. wpc'[w] = "head"
    BY <1>2, Zenon DEF SkipBatch, EndBatch, At, Goto, TypeInv, TypeOK, WorkerTypeOK
  <2> QED
    BY <2>1, Zenon DEF TodoOf, SearchOf, Scanning, InBatch, AtCandidate
<1>3. CASE BeginBatch(w)
  <2>1. /\ wpc'[w] = "hashed" /\ seg'[w] = 0
        /\ \A i \in 0 .. Batch - 1 : last_prime_offset'[w][i] = 0
    BY <1>3, Zenon DEF BeginBatch, At, Goto, TypeInv, TypeOK, WorkerTypeOK
  <2>2. \A i \in 0 .. Batch - 1 : TestedPrimes(w, i)' = {}
    <3>1. \A t \in 1 .. Segments : ~(t < 0) /\ t # 0
      OBVIOUS
    <3> QED
      BY <2>1, <3>1, Zenon DEF TestedPrimes, Tested
  <2> QED
    BY <2>1, <2>2, Zenon DEF TodoOf, SearchOf, Searched, Scanning
<1>4. CASE \/ ReadGpuFlag(w) \/ NextSegment(w) \/ EndIntervals(w) \/ SkipInterval(w)
           \/ TakeGpuPath(w) \/ Submit(w) \/ EndScan(w)
  BY <1>4, BetweenIntervals
<1>5. CASE TakeCpuPath(w) \/ AwaitDone(w)
  BY <1>5, BeginScan
<1>6. CASE AwaitGiveUp(w)
  BY <1>6, GiveUpSearch
<1>7. CASE ScanCandidate(w)
  BY <1>7, ScanSearch
<1>8. CASE FoundProof(w) \/ ProcessNonce(w) \/ ProcessAdd(w) \/ ProcessFound(w)
  <2>1. /\ wpc[w] \in Scanning /\ wpc'[w] \in Scanning
        /\ nonce_base' = nonce_base /\ seg' = seg /\ k' = k /\ todo' = todo
        /\ last_prime_offset' = last_prime_offset /\ dropped' = dropped
    BY <1>8, Zenon DEF FoundProof, ProcessNonce, ProcessAdd, ProcessFound, At, Goto, scanVars,
                histVars, Scanning, TypeInv, TypeOK, WorkerTypeOK
  <2>2. Candidates(w)' = Candidates(w)
    BY <2>1, Zenon DEF Candidates, Nonce, NonceOf
  <2>3. TodoOf(w)'
    BY <2>1, <2>2, Zenon DEF TodoOf
  <2>4. \A i, t, j : Tested(w, i, t, j)' <=> Tested(w, i, t, j)
    BY <2>1, <2>2, Zenon DEF Tested, Scanning
  <2>5. wpc[w] \in InBatch
    BY <2>1, Zenon DEF InBatch, Scanning, AtCandidate
  <2> QED
    BY <2>1, <2>3, <2>4, <2>5, QuietSearch, Zenon
<1> QED
  BY <1>1, <1>2, <1>3, <1>4, <1>5, <1>6, <1>7, <1>8, Zenon DEF WorkerStep

LEMMA SearchStep == TypeInv /\ SearchInv /\ [Next]_vars => SearchInv'
<1> SUFFICES ASSUME TypeInv, SearchInv, [Next]_vars PROVE SearchInv'
  OBVIOUS
<1>1. ASSUME NEW w \in Workers, WorkerStep(w) PROVE SearchInv'
  <2> SUFFICES ASSUME ~stop_requested', NEW v \in Workers PROVE TodoOf(v)' /\ SearchOf(v)'
    BY Zenon DEF SearchInv
  <2>1. ~stop_requested
    BY <1>1, Zenon DEF WorkerStep, WorkerExit, SkipBatch, BeginBatch, ReadGpuFlag, NextSegment,
         EndBatch, EndIntervals, SkipInterval, TakeCpuPath, TakeGpuPath, Submit, AwaitDone,
         AwaitGiveUp, EndScan, ScanCandidate, FoundProof, ProcessNonce, ProcessAdd,
         ProcessFound, StopAfterProof
  <2>2. TodoOf(v) /\ SearchOf(v)
    BY <2>1, Zenon DEF SearchInv
  <2> QED
    BY <1>1, <2>1, <2>2, OwnSearch, OtherView, SameView
<1>2. CASE MineParallel \/ LaunchWorkers \/ JoinWorkers \/ StopIdle
  <2>1. \A w \in Workers : wpc'[w] \in {"none", "head"}
    BY <1>2, Zenon DEF MineParallel, LaunchWorkers, JoinWorkers, StopIdle, TypeInv, PhaseInv
  <2> QED
    BY <2>1, Zenon DEF SearchInv, TodoOf, SearchOf, Scanning, InBatch, AtCandidate
<1>3. CASE \/ StopGpu \/ Return \/ GpuStep \/ GpuSpuriousWake \/ StopperStep
           \/ UNCHANGED vars
  <2>1. /\ stop_requested => stop_requested'
        /\ UNCHANGED <<wpc, nonce_base, seg, k, todo, last_prime_offset, dropped>>
    <3>1. CASE StopGpu \/ Return
      BY <3>1 DEF StopGpu, Return, histVars, scanVars
    <3>2. CASE GpuStep
      BY <3>2 DEF GpuStep, GpuInit, GpuLoop, GpuCheck, GpuBlock, GpuBatch, GpuSignal,
           histVars, scanVars
    <3>3. CASE GpuSpuriousWake \/ StopperStep \/ UNCHANGED vars
      BY <3>3 DEF GpuSpuriousWake, StopperStep, RequestStop, RequestStopNotify, vars,
           histVars, scanVars
    <3> QED
      BY <1>3, <3>1, <3>2, <3>3, Zenon
  <2>2. \A w \in Workers : View(w)' = View(w)
    BY <2>1, Zenon DEF View
  <2> QED
    BY <2>1, <2>2, SameView, Zenon DEF SearchInv
<1> QED
  BY <1>1, <1>2, <1>3 DEF Next, CallerStep

\* A batch that was searched to the end hides no proof, however the workers, the
\* GPU and stop requests interleave: every gap between consecutive sieved primes
\* was looked at, those across segments included.
THEOREM SearchIsExhaustive == Spec => []Exhaustive
<1>1. Init => TypeInv /\ SearchInv
  BY TypeInit, Zenon DEF Init, SearchInv, TodoOf, SearchOf, Scanning, InBatch, AtCandidate
<1>2. TypeInv /\ SearchInv /\ [Next]_vars => (TypeInv /\ SearchInv)'
  BY TypeStep, SearchStep
<1>3. TypeInv /\ SearchInv => Exhaustive
  <2> SUFFICES ASSUME TypeInv, SearchInv, NEW w \in Workers,
                      wpc[w] = "segment", seg[w] = Segments, ~stop_requested,
                      NEW n \in BatchNonces(w) \ dropped[w]
               PROVE  ~Findable(n)
    BY Zenon DEF Exhaustive
  <2>1. PICK i \in 0 .. Batch - 1 : n = NonceOf(w, i)
    BY DEF BatchNonces
  <2>2. Searched(w, i)
    BY <2>1, Zenon DEF SearchInv, SearchOf, InBatch, BatchNonces
  <2>3. TestedPrimes(w, i) = SievedPrimes(n)
    <3>1. \A t \in 1 .. Segments : \A j : Tested(w, i, t, j)
      BY SizeAssumption, Below, Zenon DEF Tested
    <3> QED
      BY <2>1, <3>1, Zenon DEF TestedPrimes, SievedPrimes
  <2> QED
    BY <2>1, <2>2, <2>3, Zenon DEF Searched, Findable
<1> QED
  BY <1>1, <1>2, <1>3, PTL DEF Spec
=============================================================================
