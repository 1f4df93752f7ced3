-------------------------- MODULE MCAgentScenarios --------------------------
(* Two scenarios of AgentSync that one run explores side by side: "jobs"    *)
(* has agents at an empty provider, one operator at a time and a single job *)
(* and sync; "syncs" has no agent and local syncs of a provider that        *)
(* changes.                                                                 *)
EXTENDS MCAgentSync

VARIABLE scenario

JobsOnly ==
  /\ UNCHANGED cloud
  /\ now' <= 1
  /\ Cardinality(JobIds') <= 1
  /\ \A v, w \in OperatorWorkers : worker'[v] # Free /\ worker'[w] # Free => v = w

SyncsOnly == UNCHANGED <<agents, ag>>

ScenarioInit ==
  /\ Init
  /\ scenario \in {"jobs", "syncs"}
  /\ scenario = "jobs" => \A x \in Accounts : cloud[x] = {}

ScenarioNext ==
  /\ Next
  /\ UNCHANGED scenario
  /\ scenario = "jobs" => JobsOnly
  /\ scenario = "syncs" => SyncsOnly

ScenarioSpec == ScenarioInit /\ [][ScenarioNext]_<<vars, scenario>>

=============================================================================
