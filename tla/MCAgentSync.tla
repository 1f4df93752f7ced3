---------------------------- MODULE MCAgentSync -----------------------------
(* Constants for checking AgentSync with TLC. *)
EXTENDS AgentSync, TLC

CONSTANTS a1, a2, x1, x2

\* Every agent is configured for the first account
OneAccount == [a \in Agents |-> x1]

WorkerSymmetry == Permutations(OperatorWorkers) \cup Permutations(AgentWorkers)

\* Agents of one account are alike
AgentSymmetry == WorkerSymmetry \cup Permutations(Agents)

=============================================================================
