---------------------------- MODULE MiningEngine ----------------------------
(***************************************************************************)
(* MiningEngine::mine_parallel and the threads it runs                     *)
(* (src/pow/mining_engine.cpp): n_threads sieve workers that each walk     *)
(* their own nonces, one GPU thread that runs the Fermat pre-filter for    *)
(* them over a shared queue, the caller that starts and joins them, and a  *)
(* second thread that may call request_stop() at any moment.               *)
(*                                                                         *)
(* What is abstracted: a nonce stands for its block hash, an odd Nat for   *)
(* an offset from hash * 2^shift, and the constants Cands, Primes, MinGap  *)
(* and Valid for what the sieve, BPSW, target_size() and PoW::valid() say  *)
(* of them.  The three primality paths of a worker (GPU, AVX-512, scalar)  *)
(* keep their control and differ only in who filters the candidates.       *)
(***************************************************************************)
EXTENDS Integers, Sequences, FiniteSets

CONSTANTS
  NThreads,      \* n_threads
  Batch,         \* COMBINED_SIEVE_BATCH, nonces sieved together
  NonceMod,      \* 2^32 in the code: nonces are uint32_t
  StartNonce,    \* start_nonce
  Segments,      \* segments of one sieve
  HasGpu,        \* tier # CPU_ONLY
  GpuCanFail,    \* the driver may fail to initialise or fail a batch
  GpuMin,        \* fewest candidates worth a GPU batch (16)
  Requests,      \* the GPURequest objects the allocator can hand out
  MaxAbandoned,  \* bound: requests left behind by timed-out waits, beyond
                 \* which no further wait times out and no session starts
  ValidHash,     \* nonces whose hash has at least 200 bits
  Cands,         \* Cands[n][s]: candidates of nonce n in segment s
  Primes,        \* Primes[n]: the offsets of nonce n that pass BPSW
  MinGap,        \* the gap target_size() asks for
  Valid,         \* the <<nonce, adder>> pairs PoW::valid() accepts
  NoReq          \* a null shared_ptr<GPURequest>

Workers == 0 .. NThreads - 1
Nonces  == 0 .. NonceMod - 1
Offsets == Nat

ASSUME SizeAssumption ==
  /\ NThreads \in Nat \ {0}
  /\ Batch \in Nat \ {0}
  /\ NonceMod \in Nat \ {0}
  /\ StartNonce \in Nonces
  /\ Segments \in Nat \ {0}
  /\ GpuMin \in Nat /\ MaxAbandoned \in Nat /\ MinGap \in Nat
  /\ HasGpu \in BOOLEAN /\ GpuCanFail \in BOOLEAN

ASSUME WorldAssumption ==
  /\ ValidHash \subseteq Nonces
  /\ Cands \in [Nonces -> [1 .. Segments -> Seq(Offsets)]]
  /\ Primes \in [Nonces -> SUBSET Offsets]
  /\ Valid \subseteq Nonces \X Offsets
  /\ NoReq \notin Requests

\* get_candidates() walks the bits of a segment upwards and returns odd offsets.
ASSUME SieveAssumption ==
  \A n \in Nonces : \A s, t \in 1 .. Segments :
    \A i \in 1 .. Len(Cands[n][s]), j \in 1 .. Len(Cands[n][t]) :
      /\ Cands[n][s][i] > 0
      /\ s < t \/ (s = t /\ i < j) => Cands[n][s][i] < Cands[n][t][j]

VARIABLES
  mp,                      \* where the caller is in mine_parallel
  parallel_mining_active,
  stop_requested,
  gpu_initialized,
  wpc,                     \* where each worker is in parallel_worker
  nonce_base,
  use_gpu,
  seg,                     \* segments the worker's sieve has produced
  k,                       \* interval the worker is at
  todo,                    \* candidates of that interval still to test
  last_prime_offset,       \* per interval; 0 while have_first_prime is false
  req,                     \* the request the worker holds
  gpc,                     \* where the GPU thread is in gpu_worker_func
  greq,                    \* the request the GPU thread holds
  gpu_request_queue,
  done,                    \* the requests whose done flag is set
  results,                 \* results of each request
  found, found_nonce, found_add,  \* fields of the PoWProcessor
  stopper,                 \* where the other thread is in request_stop
  asked,                   \* history: request_stop() was called in this session
  reported,                \* history: proofs passed to process()
  dropped                  \* history: nonces of each worker's batch of which
                           \* candidates were skipped because of the GPU

callerVars == <<mp, parallel_mining_active>>
scanVars   == <<use_gpu, seg, k, todo, last_prime_offset>>
gpuVars    == <<gpc, greq>>
reqVars    == <<done, results>>
procVars   == <<found, found_nonce, found_add>>
histVars   == <<asked, reported, dropped>>

vars == <<callerVars, stop_requested, gpu_initialized, wpc, nonce_base,
          scanVars, req, gpuVars, gpu_request_queue, reqVars, procVars,
          stopper, histVars>>

-----------------------------------------------------------------------------
(* Helpers *)

\* Mutant: a worker takes adjacent nonces, ignoring the stride of the others.
NonceOfAdjacent(w, i) == (nonce_base[w] + i) % NonceMod

\* Nonce of interval i of worker w's current batch, in uint32_t arithmetic.
NonceOf(w, i) == (nonce_base[w] + i * NThreads) % NonceMod

Nonce(w) == NonceOf(w, k[w])

BatchNonces(w) == {NonceOf(w, i) : i \in 0 .. Batch - 1} \cap ValidHash

NextBase(w) == (nonce_base[w] + Batch * NThreads) % NonceMod

Candidates(w) == Cands[Nonce(w)][seg[w]]

Queued(r) == \E i \in 1 .. Len(gpu_request_queue) : gpu_request_queue[i] = r

\* Mutant of InUse: the queue and the GPU thread hold plain pointers.
InUseByWorker(r) == \E w \in Workers : req[w] = r

\* A GPURequest lives as long as some shared_ptr refers to it.
InUse(r) == Queued(r) \/ greq = r \/ \E w \in Workers : req[w] = r

\* Requests nobody waits for any more that still sit in the queue or at the GPU.
Abandoned ==
  {r \in Requests : (Queued(r) \/ greq = r) /\ \A w \in Workers : req[w] # r}

\* gpu_queue_mutex is held across steps only while the GPU thread is between
\* evaluating its wait predicate and blocking.
QueueLocked == gpc = "blocking"

\* gpu_queue_cv.notify_one() / notify_all(): only the GPU thread waits on it.
NotifyGpu == gpc' = IF gpc = "waiting" THEN "check" ELSE gpc

Goto(w, l) == wpc' = [wpc EXCEPT ![w] = l]

At(w, l) == wpc[w] = l

-----------------------------------------------------------------------------
(* The caller: mine_parallel() *)

Init ==
  /\ mp = "idle" /\ parallel_mining_active = FALSE
  /\ stop_requested = FALSE /\ gpu_initialized = FALSE
  /\ wpc = [w \in Workers |-> "none"]
  /\ nonce_base = [w \in Workers |-> 0]
  /\ use_gpu = [w \in Workers |-> FALSE]
  /\ seg = [w \in Workers |-> 0]
  /\ k = [w \in Workers |-> 0]
  /\ todo = [w \in Workers |-> <<>>]
  /\ last_prime_offset = [w \in Workers |-> [i \in 0 .. Batch - 1 |-> 0]]
  /\ req = [w \in Workers |-> NoReq]
  /\ gpc = "none" /\ greq = NoReq
  /\ gpu_request_queue = <<>>
  /\ done = {}
  /\ results = [r \in Requests |-> "none"]
  /\ found = FALSE /\ found_nonce = 0 /\ found_add = 0
  /\ stopper = "none"
  /\ asked = FALSE /\ reported = {} /\ dropped = [w \in Workers |-> {}]

\* Entry of mine_parallel, with a fresh processor.  parallel_mining_active is
\* false here, so the stop() at its head is not taken.  The GPU queue is not
\* emptied: requests abandoned by an earlier call are still in it.
MineParallel ==
  /\ mp = "idle"
  /\ Cardinality(Abandoned) <= MaxAbandoned
  /\ mp' = "launch"
  /\ parallel_mining_active' = TRUE
  /\ stop_requested' = FALSE
  /\ gpu_initialized' = FALSE
  /\ gpc' = IF HasGpu THEN "init" ELSE "none"
  /\ found' = FALSE /\ found_nonce' = 0 /\ found_add' = 0
  /\ asked' = FALSE /\ reported' = {}
  /\ UNCHANGED <<wpc, nonce_base, scanVars, req, greq, gpu_request_queue,
                 reqVars, stopper, dropped>>

LaunchWorkers ==
  /\ mp = "launch"
  /\ mp' = "join"
  /\ wpc' = [w \in Workers |-> "head"]
  /\ nonce_base' = [w \in Workers |-> (StartNonce + w) % NonceMod]
  /\ UNCHANGED <<parallel_mining_active, stop_requested, gpu_initialized,
                 scanVars, req, gpuVars, gpu_request_queue, reqVars, procVars,
                 stopper, histVars>>

JoinWorkers ==
  /\ mp = "join"
  /\ \A w \in Workers : At(w, "done")
  /\ mp' = "stopgpu"
  /\ wpc' = [w \in Workers |-> "none"]
  /\ UNCHANGED <<parallel_mining_active, stop_requested, gpu_initialized,
                 nonce_base, scanVars, req, gpuVars, gpu_request_queue,
                 reqVars, procVars, stopper, histVars>>

\* Mutant of StopGpu: the waiting GPU thread is not notified.
StopGpuSilent ==
  /\ mp = "stopgpu" /\ gpc # "none"
  /\ ~QueueLocked
  /\ mp' = "joingpu"
  /\ stop_requested' = TRUE
  /\ UNCHANGED <<parallel_mining_active, gpu_initialized, wpc, nonce_base,
                 scanVars, req, gpuVars, gpu_request_queue, reqVars, procVars,
                 stopper, histVars>>

\* gpu_thread.joinable(): the flag is set under gpu_queue_mutex, then notified.
StopGpu ==
  /\ mp = "stopgpu" /\ gpc # "none"
  /\ ~QueueLocked
  /\ mp' = "joingpu"
  /\ stop_requested' = TRUE
  /\ NotifyGpu
  /\ UNCHANGED <<parallel_mining_active, gpu_initialized, wpc, nonce_base,
                 scanVars, req, greq, gpu_request_queue, reqVars, procVars,
                 stopper, histVars>>

\* Mutant of Return: the GPU thread is detached, not joined.
ReturnNoJoin ==
  /\ mp \in {"stopgpu", "joingpu"}
  /\ mp' = "idle"
  /\ parallel_mining_active' = FALSE
  /\ UNCHANGED <<stop_requested, gpu_initialized, wpc, nonce_base, scanVars,
                 req, gpuVars, gpu_request_queue, reqVars, procVars, stopper,
                 histVars>>

\* gpu_thread.join() when there is such a thread, and the end of the call.
Return ==
  /\ \/ mp = "stopgpu" /\ gpc = "none"
     \/ mp = "joingpu" /\ gpc = "exited"
  /\ mp' = "idle"
  /\ gpc' = "none"
  /\ parallel_mining_active' = FALSE
  /\ UNCHANGED <<stop_requested, gpu_initialized, wpc, nonce_base, scanVars,
                 req, greq, gpu_request_queue, reqVars, procVars, stopper,
                 histVars>>

\* stop() on an engine that is not mining (end of GenerateBlock, destructor):
\* there is nothing to join and the flags are reset.
StopIdle ==
  /\ mp = "idle"
  /\ stop_requested' = FALSE
  /\ gpu_initialized' = FALSE
  /\ asked' = FALSE
  /\ UNCHANGED <<callerVars, wpc, nonce_base, scanVars, req, gpuVars,
                 gpu_request_queue, reqVars, procVars, stopper, reported, dropped>>

-----------------------------------------------------------------------------
(* A sieve worker: parallel_worker() *)

\* The worker returns: its locals are gone.
DropLocals(w) ==
  /\ nonce_base' = [nonce_base EXCEPT ![w] = 0]
  /\ use_gpu' = [use_gpu EXCEPT ![w] = FALSE]
  /\ seg' = [seg EXCEPT ![w] = 0]
  /\ k' = [k EXCEPT ![w] = 0]
  /\ todo' = [todo EXCEPT ![w] = <<>>]
  /\ last_prime_offset' =
       [last_prime_offset EXCEPT ![w] = [i \in 0 .. Batch - 1 |-> 0]]
  /\ req' = [req EXCEPT ![w] = NoReq]
  /\ dropped' = [dropped EXCEPT ![w] = {}]

WorkerExit(w) ==
  /\ At(w, "head") /\ stop_requested
  /\ Goto(w, "done")
  /\ DropLocals(w)
  /\ UNCHANGED <<callerVars, stop_requested, gpu_initialized, gpuVars,
                 gpu_request_queue, reqVars, procVars, stopper, asked, reported>>

\* Phase 1 when every hash of the batch has too few bits.
SkipBatch(w) ==
  /\ At(w, "head") /\ ~stop_requested
  /\ BatchNonces(w) = {}
  /\ nonce_base' = [nonce_base EXCEPT ![w] = NextBase(w)]
  /\ UNCHANGED <<callerVars, stop_requested, gpu_initialized, wpc, scanVars,
                 req, gpuVars, gpu_request_queue, reqVars, procVars, stopper,
                 histVars>>

\* Phase 1: reset the sieve and the per-interval gap state.
BeginBatch(w) ==
  /\ At(w, "head") /\ ~stop_requested
  /\ BatchNonces(w) # {}
  /\ Goto(w, "hashed")
  /\ seg' = [seg EXCEPT ![w] = 0]
  /\ last_prime_offset' =
       [last_prime_offset EXCEPT ![w] = [i \in 0 .. Batch - 1 |-> 0]]
  /\ dropped' = [dropped EXCEPT ![w] = {}]
  /\ UNCHANGED <<callerVars, stop_requested, gpu_initialized, nonce_base,
                 use_gpu, k, todo, req, gpuVars, gpu_request_queue, reqVars,
                 procVars, stopper, asked, reported>>

\* gpu_initialized is read once for the whole batch.
ReadGpuFlag(w) ==
  /\ At(w, "hashed")
  /\ Goto(w, "segment")
  /\ use_gpu' = [use_gpu EXCEPT ![w] = gpu_initialized /\ HasGpu]
  /\ UNCHANGED <<callerVars, stop_requested, gpu_initialized, nonce_base, seg,
                 k, todo, last_prime_offset, req, gpuVars, gpu_request_queue,
                 reqVars, procVars, stopper, histVars>>

\* Mutant of NextSegment: the gap state is reset for every segment.
NextSegmentForgets(w) ==
  /\ At(w, "segment")
  /\ seg[w] < Segments /\ ~stop_requested
  /\ Goto(w, "interval")
  /\ seg' = [seg EXCEPT ![w] = @ + 1]
  /\ k' = [k EXCEPT ![w] = 0]
  /\ last_prime_offset' =
       [last_prime_offset EXCEPT ![w] = [i \in 0 .. Batch - 1 |-> 0]]
  /\ UNCHANGED <<callerVars, stop_requested, gpu_initialized, nonce_base,
                 use_gpu, todo, req, gpuVars, gpu_request_queue, reqVars,
                 procVars, stopper, histVars>>

NextSegment(w) ==
  /\ At(w, "segment")
  /\ seg[w] < Segments /\ ~stop_requested
  /\ Goto(w, "interval")
  /\ seg' = [seg EXCEPT ![w] = @ + 1]
  /\ k' = [k EXCEPT ![w] = 0]
  /\ UNCHANGED <<callerVars, stop_requested, gpu_initialized, nonce_base,
                 use_gpu, todo, last_prime_offset, req, gpuVars,
                 gpu_request_queue, reqVars, procVars, stopper, histVars>>

\* No segment left, or told to stop: count the batch and move on.
EndBatch(w) ==
  /\ At(w, "segment")
  /\ seg[w] = Segments \/ stop_requested
  /\ Goto(w, "head")
  /\ nonce_base' = [nonce_base EXCEPT ![w] = NextBase(w)]
  /\ UNCHANGED <<callerVars, stop_requested, gpu_initialized, scanVars, req,
                 gpuVars, gpu_request_queue, reqVars, procVars, stopper, histVars>>

\* The interval loop ends, or is left because of stop_requested.
EndIntervals(w) ==
  /\ At(w, "interval")
  /\ \/ k[w] = Batch
     \/ k[w] < Batch /\ Nonce(w) \in ValidHash /\ stop_requested
  /\ Goto(w, "segment")
  /\ UNCHANGED <<callerVars, stop_requested, gpu_initialized, nonce_base,
                 scanVars, req, gpuVars, gpu_request_queue, reqVars, procVars,
                 stopper, histVars>>

\* An interval with a bad hash or with no candidate in this segment.
SkipInterval(w) ==
  /\ At(w, "interval") /\ k[w] < Batch
  /\ \/ Nonce(w) \notin ValidHash
     \/ ~stop_requested /\ Candidates(w) = <<>>
  /\ k' = [k EXCEPT ![w] = @ + 1]
  /\ UNCHANGED <<callerVars, stop_requested, gpu_initialized, wpc, nonce_base,
                 use_gpu, seg, todo, last_prime_offset, req, gpuVars,
                 gpu_request_queue, reqVars, procVars, stopper, histVars>>

ToGpu(w) == use_gpu[w] /\ Len(Candidates(w)) >= GpuMin

\* The AVX-512 and the scalar path: the candidates are tested on this thread.
TakeCpuPath(w) ==
  /\ At(w, "interval") /\ k[w] < Batch
  /\ Nonce(w) \in ValidHash /\ ~stop_requested /\ Candidates(w) # <<>>
  /\ ~ToGpu(w)
  /\ Goto(w, "scan")
  /\ todo' = [todo EXCEPT ![w] = Candidates(w)]
  /\ UNCHANGED <<callerVars, stop_requested, gpu_initialized, nonce_base,
                 use_gpu, seg, k, last_prime_offset, req, gpuVars,
                 gpu_request_queue, reqVars, procVars, stopper, histVars>>

TakeGpuPath(w) ==
  /\ At(w, "interval") /\ k[w] < Batch
  /\ Nonce(w) \in ValidHash /\ ~stop_requested /\ Candidates(w) # <<>>
  /\ ToGpu(w)
  /\ Goto(w, "submit")
  /\ UNCHANGED <<callerVars, stop_requested, gpu_initialized, nonce_base,
                 scanVars, req, gpuVars, gpu_request_queue, reqVars, procVars,
                 stopper, histVars>>

\* make_shared<GPURequest>, push under gpu_queue_mutex, notify_one.
Submit(w) ==
  /\ At(w, "submit") /\ ~QueueLocked
  /\ \E r \in Requests :
       /\ ~InUse(r)
       /\ req' = [req EXCEPT ![w] = r]
       /\ done' = done \ {r}
       /\ results' = [results EXCEPT ![r] = "none"]
       /\ gpu_request_queue' = Append(gpu_request_queue, r)
  /\ NotifyGpu
  /\ Goto(w, "await")
  /\ UNCHANGED <<callerVars, stop_requested, gpu_initialized, nonce_base,
                 scanVars, greq, procVars, stopper, histVars>>

\* The wait ends with done set.  A batch the driver failed has all-zero
\* results, which the worker cannot tell from "all composite".
AwaitDone(w) ==
  /\ At(w, "await") /\ req[w] \in done
  /\ Goto(w, "scan")
  /\ todo' = [todo EXCEPT ![w] = IF results[req[w]] = "ok" THEN Candidates(w)
                                                           ELSE <<>>]
  /\ dropped' = IF results[req[w]] = "ok" THEN dropped
                  ELSE [dropped EXCEPT ![w] = @ \cup {Nonce(w)}]
  /\ UNCHANGED <<callerVars, stop_requested, gpu_initialized, nonce_base,
                 use_gpu, seg, k, last_prime_offset, req, gpuVars,
                 gpu_request_queue, reqVars, procVars, stopper, asked,
                 reported>>

\* The ten seconds pass, or stop_requested is seen, with done still false:
\* break, which leaves the loop over the intervals of this segment.
AwaitGiveUp(w) ==
  /\ At(w, "await") /\ req[w] \notin done
  /\ stop_requested \/ Cardinality(Abandoned) < MaxAbandoned
  /\ Goto(w, "segment")
  /\ req' = [req EXCEPT ![w] = NoReq]
  /\ dropped' = [dropped EXCEPT ![w] = @ \cup
       ({NonceOf(w, i) : i \in k[w] .. Batch - 1} \cap ValidHash)]
  /\ UNCHANGED <<callerVars, stop_requested, gpu_initialized, nonce_base,
                 scanVars, gpuVars, gpu_request_queue, reqVars, procVars,
                 stopper, asked, reported>>

\* The candidates of the interval are used up, or stop_requested is seen
\* between two of them; the request goes out of scope.
EndScan(w) ==
  /\ At(w, "scan")
  /\ todo[w] = <<>> \/ stop_requested
  /\ Goto(w, "interval")
  /\ k' = [k EXCEPT ![w] = @ + 1]
  /\ todo' = [todo EXCEPT ![w] = <<>>]
  /\ req' = [req EXCEPT ![w] = NoReq]
  /\ UNCHANGED <<callerVars, stop_requested, gpu_initialized, nonce_base,
                 use_gpu, seg, last_prime_offset, gpuVars, gpu_request_queue,
                 reqVars, procVars, stopper, histVars>>

\* The candidate closes a gap long enough whose PoW object is valid.
ClosesProof(w) ==
  LET c == Head(todo[w])
      a == last_prime_offset[w][k[w]]
  IN  /\ c \in Primes[Nonce(w)]
      /\ a # 0
      /\ c - a >= MinGap
      /\ <<Nonce(w), a>> \in Valid

\* One candidate: composite, the first prime, or a prime that ends a gap
\* which is too short or which PoW::valid() rejects.
ScanCandidate(w) ==
  /\ At(w, "scan") /\ todo[w] # <<>> /\ ~stop_requested
  /\ ~ClosesProof(w)
  /\ todo' = [todo EXCEPT ![w] = Tail(@)]
  /\ last_prime_offset' =
       IF Head(todo[w]) \in Primes[Nonce(w)]
         THEN [last_prime_offset EXCEPT ![w][k[w]] = Head(todo[w])]
         ELSE last_prime_offset
  /\ UNCHANGED <<callerVars, stop_requested, gpu_initialized, wpc, nonce_base,
                 use_gpu, seg, k, req, gpuVars, gpu_request_queue, reqVars,
                 procVars, stopper, histVars>>

\* process() is called: no lock is held in any of the three paths.
FoundProof(w) ==
  /\ At(w, "scan") /\ todo[w] # <<>> /\ ~stop_requested
  /\ ClosesProof(w)
  /\ Goto(w, "process")
  /\ reported' = reported \cup {<<Nonce(w), last_prime_offset[w][k[w]]>>}
  /\ UNCHANGED <<callerVars, stop_requested, gpu_initialized, nonce_base,
                 scanVars, req, gpuVars, gpu_request_queue, reqVars, procVars,
                 stopper, asked, dropped>>

\* Mutant of ProcessNonce: found is set before the proof is stored.
ProcessNonceFound(w) ==
  /\ At(w, "process")
  /\ Goto(w, "process_add")
  /\ found_nonce' = Nonce(w)
  /\ found' = TRUE
  /\ UNCHANGED <<callerVars, stop_requested, gpu_initialized, nonce_base,
                 scanVars, req, gpuVars, gpu_request_queue, reqVars, found_add,
                 stopper, histVars>>

\* process() stores the nonce, then the adder, then sets found.
ProcessNonce(w) ==
  /\ At(w, "process")
  /\ Goto(w, "process_add")
  /\ found_nonce' = Nonce(w)
  /\ UNCHANGED <<callerVars, stop_requested, gpu_initialized, nonce_base,
                 scanVars, req, gpuVars, gpu_request_queue, reqVars, found,
                 found_add, stopper, histVars>>

ProcessAdd(w) ==
  /\ At(w, "process_add")
  /\ Goto(w, "process_found")
  /\ found_add' = last_prime_offset[w][k[w]]
  /\ UNCHANGED <<callerVars, stop_requested, gpu_initialized, nonce_base,
                 scanVars, req, gpuVars, gpu_request_queue, reqVars, found,
                 found_nonce, stopper, histVars>>

ProcessFound(w) ==
  /\ At(w, "process_found")
  /\ Goto(w, "accepted")
  /\ found' = TRUE
  /\ UNCHANGED <<callerVars, stop_requested, gpu_initialized, nonce_base,
                 scanVars, req, gpuVars, gpu_request_queue, reqVars,
                 found_nonce, found_add, stopper, histVars>>

\* Mutant of StopAfterProof: only the worker that found the proof stops.
StopAfterProofAlone(w) ==
  /\ At(w, "accepted")
  /\ Goto(w, "done")
  /\ DropLocals(w)
  /\ UNCHANGED <<callerVars, stop_requested, gpu_initialized, gpuVars,
                 gpu_request_queue, reqVars, procVars, stopper, asked, reported>>

\* process() returned false, as every processor of the program does.
StopAfterProof(w) ==
  /\ At(w, "accepted")
  /\ Goto(w, "done")
  /\ stop_requested' = TRUE
  /\ DropLocals(w)
  /\ UNCHANGED <<callerVars, gpu_initialized, gpuVars, gpu_request_queue,
                 reqVars, procVars, stopper, asked, reported>>

-----------------------------------------------------------------------------
(* The GPU thread: gpu_worker_func() *)

GpuInit ==
  /\ gpc = "init"
  /\ \/ gpu_initialized' = TRUE /\ gpc' = "loop"
     \/ GpuCanFail /\ gpu_initialized' = FALSE /\ gpc' = "exited"
  /\ UNCHANGED <<callerVars, stop_requested, wpc, nonce_base, scanVars, req,
                 greq, gpu_request_queue, reqVars, procVars, stopper, histVars>>

GpuLoop ==
  /\ gpc = "loop"
  /\ gpc' = IF stop_requested THEN "exited" ELSE "check"
  /\ UNCHANGED <<callerVars, stop_requested, gpu_initialized, wpc, nonce_base,
                 scanVars, req, greq, gpu_request_queue, reqVars, procVars,
                 stopper, histVars>>

\* The wait predicate, evaluated under gpu_queue_mutex.
GpuCheck ==
  /\ gpc = "check"
  /\ \/ /\ gpu_request_queue # <<>>
        /\ gpc' = "batch"
        /\ greq' = Head(gpu_request_queue)
        /\ gpu_request_queue' = Tail(gpu_request_queue)
     \/ /\ gpu_request_queue = <<>>
        /\ gpc' = IF stop_requested THEN "exited" ELSE "blocking"
        /\ UNCHANGED <<greq, gpu_request_queue>>
  /\ UNCHANGED <<callerVars, stop_requested, gpu_initialized, wpc, nonce_base,
                 scanVars, req, reqVars, procVars, stopper, histVars>>

\* The wait releases the mutex and blocks.
GpuBlock ==
  /\ gpc = "blocking"
  /\ gpc' = "waiting"
  /\ UNCHANGED <<callerVars, stop_requested, gpu_initialized, wpc, nonce_base,
                 scanVars, req, greq, gpu_request_queue, reqVars, procVars,
                 stopper, histVars>>

GpuSpuriousWake ==
  /\ gpc = "waiting"
  /\ gpc' = "check"
  /\ UNCHANGED <<callerVars, stop_requested, gpu_initialized, wpc, nonce_base,
                 scanVars, req, greq, gpu_request_queue, reqVars, procVars,
                 stopper, histVars>>

\* gpu_fermat_batch() fills results; its return value is ignored.
GpuBatch ==
  /\ gpc = "batch"
  /\ gpc' = "signal"
  /\ \E res \in IF GpuCanFail THEN {"ok", "failed"} ELSE {"ok"} :
       results' = [results EXCEPT ![greq] = res]
  /\ UNCHANGED <<callerVars, stop_requested, gpu_initialized, wpc, nonce_base,
                 scanVars, req, greq, gpu_request_queue, done, procVars,
                 stopper, histVars>>

GpuSignal ==
  /\ gpc = "signal"
  /\ gpc' = "loop"
  /\ done' = done \cup {greq}
  /\ greq' = NoReq
  /\ UNCHANGED <<callerVars, stop_requested, gpu_initialized, wpc, nonce_base,
                 scanVars, req, gpu_request_queue, results, procVars, stopper,
                 histVars>>

-----------------------------------------------------------------------------
(* Another thread: request_stop() *)

\* The flag is set without gpu_queue_mutex.  The pipeline is idle during
\* mine_parallel, so pipeline->stop_mining() returns at once.
RequestStop ==
  /\ stopper = "none"
  /\ stopper' = "notify"
  /\ stop_requested' = TRUE
  /\ asked' = TRUE
  /\ UNCHANGED <<callerVars, gpu_initialized, wpc, nonce_base, scanVars, req,
                 gpuVars, gpu_request_queue, reqVars, procVars, reported, dropped>>

RequestStopNotify ==
  /\ stopper = "notify"
  /\ stopper' = "none"
  /\ NotifyGpu
  /\ UNCHANGED <<callerVars, stop_requested, gpu_initialized, wpc, nonce_base,
                 scanVars, req, greq, gpu_request_queue, reqVars, procVars,
                 histVars>>

-----------------------------------------------------------------------------
(* The specification *)

CallerStep == LaunchWorkers \/ JoinWorkers \/ StopGpu \/ Return

WorkerStep(w) ==
  \/ WorkerExit(w) \/ SkipBatch(w) \/ BeginBatch(w) \/ ReadGpuFlag(w)
  \/ NextSegment(w) \/ EndBatch(w)
  \/ EndIntervals(w) \/ SkipInterval(w) \/ TakeCpuPath(w) \/ TakeGpuPath(w)
  \/ Submit(w) \/ AwaitDone(w) \/ AwaitGiveUp(w)
  \/ EndScan(w) \/ ScanCandidate(w) \/ FoundProof(w)
  \/ ProcessNonce(w) \/ ProcessAdd(w) \/ ProcessFound(w) \/ StopAfterProof(w)

GpuStep ==
  GpuInit \/ GpuLoop \/ GpuCheck \/ GpuBlock \/ GpuBatch \/ GpuSignal

StopperStep == RequestStop \/ RequestStopNotify

Next ==
  \/ MineParallel \/ CallerStep \/ StopIdle
  \/ \E w \in Workers : WorkerStep(w)
  \/ GpuStep \/ GpuSpuriousWake
  \/ StopperStep

Spec == Init /\ [][Next]_vars

\* Threads are scheduled and mutexes are handed on; a condition variable may
\* or may not wake spuriously, and nobody has to call mine_parallel or
\* request_stop.
Fairness ==
  /\ WF_vars(CallerStep) /\ SF_vars(StopGpu)
  /\ \A w \in Workers : WF_vars(WorkerStep(w)) /\ SF_vars(Submit(w))
  /\ WF_vars(GpuStep)
  /\ WF_vars(RequestStopNotify)

FairSpec == Spec /\ Fairness

-----------------------------------------------------------------------------
(* Properties *)

ReqOrNone == Requests \cup {NoReq}

CallerTypeOK ==
  /\ mp \in {"idle", "launch", "join", "stopgpu", "joingpu"}
  /\ parallel_mining_active \in BOOLEAN
  /\ stop_requested \in BOOLEAN
  /\ gpu_initialized \in BOOLEAN
  /\ stopper \in {"none", "notify"}

WorkerTypeOK ==
  /\ wpc \in [Workers -> {"none", "head", "hashed", "segment", "interval",
                          "submit", "await", "scan", "process", "process_add",
                          "process_found", "accepted", "done"}]
  /\ nonce_base \in [Workers -> Nonces]
  /\ use_gpu \in [Workers -> BOOLEAN]
  /\ seg \in [Workers -> 0 .. Segments]
  /\ k \in [Workers -> 0 .. Batch]
  /\ todo \in [Workers -> Seq(Offsets)]
  /\ last_prime_offset \in [Workers -> [0 .. Batch - 1 -> Offsets]]
  /\ req \in [Workers -> ReqOrNone]

GpuTypeOK ==
  /\ gpc \in {"none", "init", "loop", "check", "blocking", "waiting",
              "batch", "signal", "exited"}
  /\ greq \in ReqOrNone
  /\ gpu_request_queue \in Seq(Requests)
  /\ done \subseteq Requests
  /\ results \in [Requests -> {"none", "ok", "failed"}]

ProofTypeOK ==
  /\ found \in BOOLEAN /\ found_nonce \in Nonces /\ found_add \in Offsets
  /\ asked \in BOOLEAN
  /\ reported \subseteq Nonces \X Offsets
  /\ dropped \in [Workers -> SUBSET Nonces]

\* TypeOK: every variable keeps its type; in particular nonces stay in the
\* uint32_t range and segment and interval counters within the sieve.
TypeOK == CallerTypeOK /\ WorkerTypeOK /\ GpuTypeOK /\ ProofTypeOK

\* RequestOwnership: GPURequest objects are never shared by two workers, and a
\* worker reads request->results only after the GPU thread is through with
\* them, even when earlier waits timed out and their requests are still queued.
RequestOwnership ==
  /\ \A w, v \in Workers : req[w] # NoReq /\ req[w] = req[v] => w = v
  /\ \A w \in Workers : wpc[w] # "await" /\ req[w] # NoReq =>
       req[w] \in done /\ greq # req[w] /\ ~Queued(req[w])

\* Quiescent: once mine_parallel has returned (parallel_mining_active false) no
\* thread of the session is left that could still call the caller's processor
\* or touch the GPU, and no worker holds a request.
Quiescent ==
  ~parallel_mining_active =>
    /\ gpc = "none" /\ greq = NoReq
    /\ \A w \in Workers : wpc[w] = "none" /\ req[w] = NoReq

\* ProofKept: process() never loses a proof.  When a single proof was reported
\* the processor holds exactly it as soon as found is set, and a session that
\* reported proofs does not return without found.
ProofKept ==
  /\ \A p \in reported : reported = {p} /\ found => <<found_nonce, found_add>> = p
  /\ mp = "idle" => (found <=> reported # {})

\* WholeProof: what the processor holds after mine_parallel is a proof PoW::valid
\* accepted.  With two workers inside process() at once it need not be.
WholeProof == mp = "idle" /\ found => <<found_nonce, found_add>> \in Valid

\* NonceDisjoint: two workers never sieve the same nonce at the same time, when
\* the number of threads divides the nonce space.
NonceDisjoint ==
  \A w, v \in Workers :
    wpc[w] \notin {"none", "done"} /\ wpc[v] \notin {"none", "done"} /\ w # v =>
      BatchNonces(w) \cap BatchNonces(v) = {}

\* The primes of nonce n that survive the sieve, over all segments.
SievedPrimes(n) ==
  {p \in Primes[n] :
     \E s \in 1 .. Segments : \E i \in 1 .. Len(Cands[n][s]) : Cands[n][s][i] = p}

\* a and b are consecutive among them and a starts a proof.
StartsProof(n, a, b) ==
  /\ a < b /\ b - a >= MinGap
  /\ \A p \in SievedPrimes(n) : ~(a < p /\ p < b)
  /\ <<n, a>> \in Valid

Findable(n) == \E a, b \in SievedPrimes(n) : StartsProof(n, a, b)

\* Exhaustive: a nonce counted as tested hides no proof: if consecutive sieved
\* primes of it, in one segment or across segments, give a valid proof, the
\* worker did not pass it by, except where it skipped candidates because of the
\* GPU (a timed-out wait or a failed batch).
Exhaustive ==
  \A w \in Workers :
    wpc[w] = "segment" /\ seg[w] = Segments /\ ~stop_requested =>
      \A n \in BatchNonces(w) \ dropped[w] : ~Findable(n)

\* NothingDropped: a GPU timeout costs no candidates, because the worker falls
\* back to the CPU path for them (mining_engine.cpp:1338).
NothingDropped == \A w \in Workers : ~stop_requested => dropped[w] = {}

\* StopReturns: a stop request made while a session runs makes mine_parallel
\* return, whatever the workers and the GPU thread wait for at that moment.
StopReturns == (asked /\ mp # "idle") ~> (mp = "idle")

\* Session: what mine_parallel promises its caller (MiningSession), with every
\* thread of the engine hidden.
Session == INSTANCE MiningSession WITH
  session <- IF mp = "idle" THEN "idle" ELSE "mining",
  proofs <- reported

\* RefinesSession: the engine implements that promise, liveness included.
RefinesSession == Session!FairSpec

=============================================================================
