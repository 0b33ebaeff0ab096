---------------------------- MODULE MiningSession ----------------------------
(***************************************************************************)
(* What MiningEngine promises the loops that use it (GUI, daemon, RPC): a  *)
(* call of mine_parallel() hands valid proofs to the caller's processor    *)
(* and returns only because a proof was found or request_stop() was called *)
(* since the call began; and if one of the two happened it does return.    *)
(***************************************************************************)
CONSTANT Valid          \* the proofs PoW::valid() accepts

VARIABLES session,      \* "idle" or "mining"
          asked,        \* request_stop() was called since the session began
          proofs        \* proofs passed to the processor in this session

vars == <<session, asked, proofs>>

Init == session = "idle" /\ asked = FALSE /\ proofs = {}

\* mine_parallel(): stop_requested = false forgets an earlier request.
Start ==
  /\ session = "idle"
  /\ session' = "mining" /\ asked' = FALSE /\ proofs' = {}

\* processor->process(), called by a worker.
Report ==
  /\ session = "mining"
  /\ \E p \in Valid : proofs' = proofs \cup {p}
  /\ UNCHANGED <<session, asked>>

\* request_stop(), from any thread and at any time.
Ask == asked' = TRUE /\ UNCHANGED <<session, proofs>>

\* stop() on an idle engine resets the flag.
Forget == session = "idle" /\ asked' = FALSE /\ UNCHANGED <<session, proofs>>

End ==
  /\ session = "mining"
  /\ asked \/ proofs # {}
  /\ session' = "idle"
  /\ UNCHANGED <<asked, proofs>>

Next == Start \/ Report \/ Ask \/ Forget \/ End

Spec == Init /\ [][Next]_vars

FairSpec == Spec /\ WF_vars(End)
=============================================================================
