----------------------------- MODULE MCAgentRuns -----------------------------
(* Small instances of AgentRuns for TLC. *)
EXTENDS AgentRuns, TLC

WorkerSymmetry == Permutations(Workers)
RunSymmetry == Permutations(Workers) \cup Permutations(Runs)
=============================================================================
