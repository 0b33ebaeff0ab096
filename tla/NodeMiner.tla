------------------------------ MODULE NodeMiner ------------------------------
(***************************************************************************)
(* The node's two other users of MiningEngine: the background thread of    *)
(* -gen (MiningThread in src/init.cpp) and the generate* calls             *)
(* (GenerateBlock and generateBlocks in src/rpc/mining.cpp), with the      *)
(* chain tip they build on, the interrupt flag and Shutdown().             *)
(*                                                                         *)
(* Both create an engine per block and never call request_stop() on it     *)
(* while it mines.  The chain is its tip height: a block on the tip is     *)
(* connected, a block on an older parent is accepted as a side block.      *)
(***************************************************************************)
EXTENDS Integers

CONSTANTS
  Proofs,       \* proofs PoW::valid() accepts
  MaxHeight,    \* bound: blocks that ever arrive
  Requested     \* the values of nblocks tried

ASSUME NodeAssumption ==
  /\ Proofs # {} /\ MaxHeight \in Nat /\ Requested \subseteq Nat

VARIABLES
  height,                      \* height of the active tip
  m_interrupt, shut,           \* the interrupt flag; where Shutdown() is
  dpc, dprev, dlast,           \* mining thread: place, parent of its template,
                               \* history: parent of its last accepted block
  dsession, dasked, dproofs,   \* its engine
  rpc, rprev, nGenerate,       \* the RPC call: place, parent, blocks to go
  hashes, wanted,              \* hashes collected, nblocks
  rsession, rasked, rproofs    \* its engine

dengine == <<dsession, dasked, dproofs>>
rengine == <<rsession, rasked, rproofs>>
node    == <<m_interrupt, shut>>
daemon  == <<dpc, dprev, dlast, dengine>>
call    == <<rpc, rprev, nGenerate, hashes, wanted, rengine>>
vars    == <<height, node, daemon, call>>

D == INSTANCE MiningSession WITH Valid <- Proofs, session <- dsession,
                                 asked <- dasked, proofs <- dproofs
R == INSTANCE MiningSession WITH Valid <- Proofs, session <- rsession,
                                 asked <- rasked, proofs <- rproofs

Init ==
  /\ height = 0 /\ m_interrupt = FALSE /\ shut = "running"
  /\ dpc = "loop" /\ dprev = 0 /\ dlast = -1 /\ D!Init
  /\ rpc = "idle" /\ rprev = 0 /\ nGenerate = 0 /\ hashes = 0 /\ wanted = 0
  /\ R!Init

\* ProcessNewBlock() accepts a block on prev.
Connect(prev) ==
  /\ height < MaxHeight
  /\ height' = IF prev = height THEN height + 1 ELSE height

\* A block arrives from the network.
BlockArrives ==
  /\ height < MaxHeight
  /\ height' = height + 1
  /\ UNCHANGED <<node, daemon, call>>

-----------------------------------------------------------------------------
(* MiningThread() *)

\* Mutant: the interrupt is looked at only after a session.
DLoopBlind ==
  /\ dpc = "loop"
  /\ dpc' = "template"
  /\ UNCHANGED <<height, node, dprev, dlast, dengine, call>>

DLoop ==
  /\ dpc = "loop"
  /\ dpc' = IF m_interrupt THEN "done" ELSE "template"
  /\ UNCHANGED <<height, node, dprev, dlast, dengine, call>>

\* No mempool, no tip or no template: retry after a pause.
DRetry ==
  /\ dpc = "template"
  /\ dpc' = "loop"
  /\ UNCHANGED <<height, node, dprev, dlast, dengine, call>>

\* Mutant: the block template is kept when it has been mined.
DTemplateKept ==
  /\ dpc = "template"
  /\ dpc' = "mine"
  /\ UNCHANGED <<height, node, dprev, dlast, dengine, call>>

\* CreateNewBlock() on the tip, and a fresh engine.
DTemplate ==
  /\ dpc = "template"
  /\ dpc' = "mine" /\ dprev' = height
  /\ UNCHANGED <<height, node, dlast, dengine, call>>

DBegin ==
  /\ dpc = "mine"
  /\ dpc' = "mining"
  /\ D!Start
  /\ UNCHANGED <<height, node, dprev, dlast, call>>

DReport ==
  /\ dpc = "mining"
  /\ D!Report
  /\ UNCHANGED <<height, node, dpc, dprev, dlast, call>>

DEnd ==
  /\ dpc = "mining"
  /\ dpc' = "after"
  /\ D!End
  /\ UNCHANGED <<height, node, dprev, dlast, call>>

DAfter ==
  /\ dpc = "after"
  /\ dpc' = IF m_interrupt THEN "done"
            ELSE IF dproofs = {} THEN "loop" ELSE "submit"
  /\ UNCHANGED <<height, node, dprev, dlast, dengine, call>>

\* CheckProofOfWork() or ProcessNewBlock() rejects the block.
DReject ==
  /\ dpc = "submit"
  /\ dpc' = "loop"
  /\ UNCHANGED <<height, node, dprev, dlast, dengine, call>>

DAccept ==
  /\ dpc = "submit"
  /\ dpc' = "loop"
  /\ Connect(dprev) /\ dlast' = dprev
  /\ UNCHANGED <<node, dprev, dengine, call>>

-----------------------------------------------------------------------------
(* generateBlocks() and GenerateBlock() *)

RCall ==
  /\ rpc = "idle" /\ shut = "running"
  /\ \E n \in Requested : nGenerate' = n /\ wanted' = n
  /\ rpc' = "loop" /\ hashes' = 0
  /\ UNCHANGED <<height, node, daemon, rprev, rengine>>

RLoop ==
  /\ rpc = "loop"
  /\ rpc' = IF nGenerate > 0 /\ ~m_interrupt THEN "template" ELSE "return"
  /\ UNCHANGED <<height, node, daemon, rprev, nGenerate, hashes, wanted,
                 rengine>>

\* CHECK_NONFATAL(block_template) throws.
RNoTemplate ==
  /\ rpc = "template"
  /\ rpc' = "idle"
  /\ UNCHANGED <<height, node, daemon, rprev, nGenerate, hashes, wanted,
                 rengine>>

RTemplate ==
  /\ rpc = "template"
  /\ rpc' = "mine" /\ rprev' = height
  /\ UNCHANGED <<height, node, daemon, nGenerate, hashes, wanted,
                 rengine>>

RBegin ==
  /\ rpc = "mine"
  /\ rpc' = "mining"
  /\ R!Start
  /\ UNCHANGED <<height, node, daemon, rprev, nGenerate, hashes, wanted>>

RReport ==
  /\ rpc = "mining"
  /\ R!Report
  /\ UNCHANGED <<height, node, daemon, rpc, rprev, nGenerate, hashes, wanted>>

REnd ==
  /\ rpc = "mining"
  /\ rpc' = "after"
  /\ R!End
  /\ UNCHANGED <<height, node, daemon, rprev, nGenerate, hashes, wanted>>

\* Interrupted (stop() on the idle engine) or nothing found: GenerateBlock()
\* returns false and the loop breaks.
RAfter ==
  /\ rpc = "after"
  /\ rpc' = IF m_interrupt \/ rproofs = {} THEN "return" ELSE "submit"
  /\ IF m_interrupt THEN R!Forget ELSE UNCHANGED rengine
  /\ UNCHANGED <<height, node, daemon, rprev, nGenerate, hashes, wanted>>

\* CheckProofOfWork() fails: break; ProcessNewBlock() fails: throw.
RReject ==
  /\ rpc = "submit"
  /\ rpc' \in {"return", "idle"}
  /\ UNCHANGED <<height, node, daemon, rprev, nGenerate, hashes, wanted,
                 rengine>>

\* Mutant: the hash is collected, the countdown is not.
RAcceptNoCount ==
  /\ rpc = "submit" /\ hashes <= wanted
  /\ rpc' = "loop"
  /\ Connect(rprev) /\ hashes' = hashes + 1
  /\ UNCHANGED <<node, daemon, rprev, nGenerate, wanted, rengine>>

RAccept ==
  /\ rpc = "submit"
  /\ rpc' = "loop"
  /\ Connect(rprev)
  /\ nGenerate' = nGenerate - 1 /\ hashes' = hashes + 1
  /\ UNCHANGED <<node, daemon, rprev, wanted, rengine>>

RReturn ==
  /\ rpc = "return"
  /\ rpc' = "idle"
  /\ UNCHANGED <<height, node, daemon, rprev, nGenerate, hashes, wanted,
                 rengine>>

-----------------------------------------------------------------------------
(* Shutdown() *)

Signal ==
  /\ ~m_interrupt
  /\ m_interrupt' = TRUE
  /\ UNCHANGED <<height, shut, daemon, call>>

\* InterruptRPC() ... StopHTTPServer(): no new call, the running one finishes.
InterruptRPC ==
  /\ m_interrupt /\ shut = "running"
  /\ shut' = "interrupted"
  /\ UNCHANGED <<height, m_interrupt, daemon, call>>

StopHTTPServer ==
  /\ shut = "interrupted" /\ rpc = "idle"
  /\ shut' = "http_stopped"
  /\ UNCHANGED <<height, m_interrupt, daemon, call>>

\* Mutant: Shutdown() goes on without the join.
JoinMinerNot ==
  /\ shut = "http_stopped"
  /\ shut' = "reset"
  /\ UNCHANGED <<height, m_interrupt, daemon, call>>

\* mining_thread.join(), then the node's objects are destroyed.
JoinMiner ==
  /\ shut = "http_stopped" /\ dpc = "done"
  /\ shut' = "reset"
  /\ UNCHANGED <<height, m_interrupt, daemon, call>>

-----------------------------------------------------------------------------
DaemonStep ==
  \/ DLoop \/ DRetry \/ DTemplate \/ DBegin \/ DEnd \/ DAfter \/ DReject
  \/ DAccept

CallStep ==
  \/ RLoop \/ RNoTemplate \/ RTemplate \/ RBegin \/ REnd \/ RAfter \/ RReject
  \/ RAccept \/ RReturn

ShutdownStep == InterruptRPC \/ StopHTTPServer \/ JoinMiner

Next ==
  \/ DaemonStep \/ CallStep \/ ShutdownStep
  \/ DReport \/ RReport \/ RCall \/ BlockArrives \/ Signal

Spec == Init /\ [][Next]_vars

\* Every thread keeps running.  Nothing is assumed of the network, of callers
\* and of whether a proof is ever found.
FairSpec ==
  Spec /\ WF_vars(DaemonStep) /\ WF_vars(CallStep) /\ WF_vars(ShutdownStep)

-----------------------------------------------------------------------------
TypeOK ==
  /\ height \in 0 .. MaxHeight /\ m_interrupt \in BOOLEAN
  /\ shut \in {"running", "interrupted", "http_stopped", "reset"}
  /\ dpc \in {"loop", "template", "mine", "mining", "after", "submit", "done"}
  /\ dprev \in 0 .. MaxHeight /\ dlast \in -1 .. MaxHeight
  /\ dsession \in {"idle", "mining"} /\ dasked \in BOOLEAN
  /\ dproofs \subseteq Proofs
  /\ rpc \in {"idle", "loop", "template", "mine", "mining", "after", "submit",
              "return"}
  /\ rprev \in 0 .. MaxHeight
  /\ wanted \in Requested \cup {0} /\ nGenerate \in 0 .. wanted
  /\ hashes \in 0 .. wanted
  /\ rsession \in {"idle", "mining"} /\ rasked \in BOOLEAN
  /\ rproofs \subseteq Proofs

\* When Shutdown() destroys the node's objects no miner is left to use them.
StoppedBeforeReset == shut = "reset" => dpc = "done" /\ rpc = "idle"

\* The background thread never works on the parent of a block it already had
\* accepted, nor on an older one, also when its block came too late for the
\* tip: MiningThread() takes a new template after each block.
NewParent ==
  dpc \in {"mine", "mining", "after", "submit"} => dlast < dprev

\* The hashes a generate call has collected, each of an accepted block, and
\* the blocks it still owes add up to what the caller asked for.
GenerateExact == rpc # "idle" => hashes + nGenerate = wanted

\* If every session the miners begin finds a proof, or has none to find as it
\* is never begun, then an interrupt leads to the end of Shutdown().
ShutdownIfProofs ==
  /\ []<>(dpc # "mining" \/ dproofs # {})
  /\ []<>(rpc # "mining" \/ rproofs # {})
  => (m_interrupt ~> shut = "reset")
=============================================================================
