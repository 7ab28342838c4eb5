---------------------------- MODULE MCAgentLoop -----------------------------
(* The instance of AgentLoop TLC checks. *)
EXTENDS AgentLoop, TLC

MCDecision == <<"confirm", "allow", "confirm">>
CoroutineSymmetry == Permutations(Coroutine)
=============================================================================
