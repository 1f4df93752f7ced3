----------------------------- MODULE Discovery ------------------------------
(***************************************************************************)
(* The discovery server of CloudPAM: sync jobs, the agent registry and the *)
(* discovered resources (internal/api/discovery_handlers.go,               *)
(* internal/api/bootstrap_handlers.go, internal/discovery/collector.go,    *)
(* internal/storage/discovery_memory.go).                                  *)
(*                                                                         *)
(* A method of MemoryDiscoveryStore is one atomic step.  A handler runs in *)
(* a request goroutine w; between two store calls its locals are in        *)
(* worker[w] and other handlers run.  Accounts exist throughout.  A        *)
(* resource is known by its account and its provider id; its name, CIDR    *)
(* and metadata, and the counts kept in a job, are left out.               *)
(*                                                                         *)
(* Time is the number of syncs started: every sync reads a clock value     *)
(* later than all values read before, and a scan reads the current one.    *)
(* All hosts read the same clock.                                          *)
(*                                                                         *)
(* A definition marked "mutant" is a bug the next definition could have;   *)
(* nothing uses it.                                                        *)
(***************************************************************************)
EXTENDS Integers, FiniteSets

CONSTANTS Accounts,
          Names,         \* resource ids the provider may hand out
          Agents,        \* agent ids
          AgentAccount,  \* [Agents -> Accounts]: account_id of an agent's config
          OperatorWorkers,   \* bound: goroutines for operators' requests,
          AgentWorkers,      \* ... and agents' requests
          Decisions,     \* the reviews operators make of agents
          CloudChanges,  \* do the provider's resources change?
          StoreErrors,   \* may a store call return an error?
          MaxJobs,       \* bound: sync jobs created
          MaxTime,       \* bound: syncs started
          None

\* The goroutines that serve requests
Workers == OperatorWorkers \cup AgentWorkers

ASSUME DiscoveryAssumption ==
  /\ AgentAccount \in [Agents -> Accounts]
  /\ Decisions \subseteq {"approved", "rejected"}
  /\ CloudChanges \in BOOLEAN
  /\ StoreErrors \in BOOLEAN
  /\ MaxJobs \in Nat
  /\ MaxTime \in Nat
  /\ OperatorWorkers \cap AgentWorkers = {}
  /\ None \notin Accounts \cup Names \cup Agents \cup Workers \cup Nat
  /\ None \notin [status : {"active", "stale"}, seen : Nat]

VARIABLES cloud,      \* external: what exists at the provider, per account
          resources,  \* m.resources: account, id -> record or None
          jobs,       \* m.syncJobs, in order of creation
          agents,     \* m.agents: id -> record or None
          now,        \* the clock
          worker      \* locals of each request goroutine

server == <<cloud, resources, jobs, agents, now, worker>>

Times == 0 .. MaxTime
JobIds == DOMAIN jobs
JobNumbers == Nat \ {0}

Resource == [status : {"active", "stale"}, seen : Nat]

Job == [account : Accounts, agent : Agents \cup {None},
        status : {"pending", "running", "completed", "failed"}]

\* approval is "none" when a record is written without one
AgentRecord == [account : Accounts, healthy : BOOLEAN,
                approval : {"approved", "rejected", "none"}]

Free == [op |-> "free"]

\* triggerSync, between the choice of agents and CreateSyncJob
Queueing == [op : {"queue"}, todo : SUBSET (Agents \X Accounts)]

\* A sync, local or ingest, of one account: "discover" while the collector
\* runs, "process" inside ProcessResources, "finish" before UpdateSyncJob.
\* alone is history: no other sync of the account has run since it started.
Syncing == [op : {"discover", "process", "finish"}, source : {"local", "agent"},
            account : Accounts, agent : Agents \cup {None}, job : JobNumbers,
            sync : Nat, seen : Nat, found : SUBSET Names, todo : SUBSET Names,
            failed : BOOLEAN, alone : BOOLEAN]

\* handleAgentHeartbeat, between UpsertAgent and ClaimPendingAgentSync
Beating == [op : {"beat"}, agent : Agents]

\* approve and reject, between GetAgent and UpsertAgent
Reviewing == [op : {"review"}, agent : Agents, record : AgentRecord,
              decision : {"approved", "rejected"}]

IsSync(w) == worker[w].op \in {"discover", "process", "finish"}

Become(w, r) == worker' = [worker EXCEPT ![w] = r]

-----------------------------------------------------------------------------
(* Sync jobs. *)

\* CreateSyncJob
CreateJob(account, agent, status) ==
  /\ Cardinality(JobIds) < MaxJobs
  /\ jobs' = [j \in 1 .. Cardinality(JobIds) + 1 |->
                IF j \in JobIds THEN jobs[j]
                ELSE [account |-> account, agent |-> agent, status |-> status]]

NewJob == Cardinality(JobIds) + 1

CreateFails == StoreErrors \/ Cardinality(JobIds) = MaxJobs

\* createAgentSyncJob, once per chosen agent; an error ends the request
QueueJob(w) ==
  /\ worker[w].op = "queue"
  /\ \/ \E t \in worker[w].todo :
          /\ CreateJob(t[2], t[1], "pending")
          /\ Become(w, IF worker[w].todo = {t} THEN Free
                       ELSE [worker[w] EXCEPT !.todo = @ \ {t}])
     \/ CreateFails /\ Become(w, Free) /\ UNCHANGED jobs
  /\ UNCHANGED <<cloud, resources, agents, now>>

Healthy(a) == agents[a] # None /\ agents[a].healthy

\* POST /discovery/sync with agent_id and perhaps account_id
TriggerAgent(w, a, account) ==
  /\ worker[w] = Free
  /\ Healthy(a)
  /\ LET target == IF account = None THEN agents[a].account ELSE account
     IN Become(w, [op |-> "queue", todo |-> {<<a, target>>}])
  /\ UNCHANGED <<cloud, resources, jobs, agents, now>>

\* POST /discovery/sync with all_agents
TriggerAll(w) ==
  /\ worker[w] = Free
  /\ \E a \in Agents : Healthy(a)
  /\ Become(w, [op |-> "queue",
                todo |-> {<<a, agents[a].account>> : a \in {b \in Agents : Healthy(b)}}])
  /\ UNCHANGED <<cloud, resources, jobs, agents, now>>

\* selectConnectedAgent: a healthy agent of the account, else any healthy one
ConnectedAgents(account) ==
  LET own == {a \in Agents : Healthy(a) /\ agents[a].account = account}
  IN IF own # {} THEN own ELSE {a \in Agents : Healthy(a)}

\* POST /discovery/sync with account_id while some agent is connected
TriggerAccount(w, account) ==
  /\ worker[w] = Free
  /\ \E a \in ConnectedAgents(account) :
       Become(w, [op |-> "queue", todo |-> {<<a, account>>}])
  /\ UNCHANGED <<cloud, resources, jobs, agents, now>>

\* A sync of the account starts in w; syncs under way are no longer alone
StartSync(w, r) ==
  worker' =
    [x \in Workers |->
       IF x = w
       THEN [r EXCEPT !.alone = \A y \in Workers \ {w} :
                                  ~ (IsSync(y) /\ worker[y].account = r.account)]
       ELSE IF IsSync(x) /\ worker[x].account = r.account
            THEN [worker[x] EXCEPT !.alone = FALSE]
            ELSE worker[x]]

SyncRecord(op, source, account, agent, job, seen, found) ==
  [op |-> op, source |-> source, account |-> account, agent |-> agent,
   job |-> job, sync |-> now + 1, seen |-> seen, found |-> found,
   todo |-> found, failed |-> FALSE, alone |-> TRUE]

\* ... and while none is: SyncService.Sync up to the collector
LocalStart(w, account) ==
  /\ worker[w] = Free
  /\ ConnectedAgents(account) = {}
  /\ now < MaxTime
  /\ now' = now + 1
  /\ CreateJob(account, None, "running")
  /\ StartSync(w, SyncRecord("discover", "local", account, None, NewJob, 0, {}))
  /\ UNCHANGED <<cloud, resources, agents>>

SetJob(j, agent, status) ==
  jobs' = [jobs EXCEPT ![j].agent = agent, ![j].status = status]

\* collector.Discover returns the account's resources, stamped now ...
LocalDiscover(w) ==
  /\ worker[w].op = "discover"
  /\ Become(w, [worker[w] EXCEPT !.op = "process", !.seen = now,
                                 !.found = cloud[worker[w].account],
                                 !.todo = cloud[worker[w].account]])
  /\ UNCHANGED <<cloud, resources, jobs, agents, now>>

\* ... or an error, and the job is failed
LocalDiscoverFails(w) ==
  /\ worker[w].op = "discover"
  /\ SetJob(worker[w].job, None, "failed")
  /\ Become(w, Free)
  /\ UNCHANGED <<cloud, resources, agents, now>>

-----------------------------------------------------------------------------
(* ProcessResources, shared by local syncs and ingest. *)

\* The lookup that counts creations may fail, and UpsertDiscoveredResource, where
\* the record of the scan replaces the stored one; either error fails the sync
\* at its end
Upsert(w) ==
  /\ worker[w].op = "process"
  /\ \E n \in worker[w].todo :
       \/ /\ resources' = [resources EXCEPT ![worker[w].account][n] =
                             [status |-> "active", seen |-> worker[w].seen]]
          /\ \E lookupFails \in {FALSE, StoreErrors} :
               Become(w, [worker[w] EXCEPT !.todo = @ \ {n}, !.failed = @ \/ lookupFails])
       \/ /\ StoreErrors
          /\ Become(w, [worker[w] EXCEPT !.todo = @ \ {n}, !.failed = TRUE])
          /\ UNCHANGED resources
  /\ UNCHANGED <<cloud, jobs, agents, now>>

\* MarkStaleResources: active, and last seen before the sync's time
MarkStaleAtOrBefore(w) ==               \* mutant: seen at the sync's time counts
  /\ worker[w].op = "process"
  /\ worker[w].todo = {}
  /\ resources' =
       [resources EXCEPT ![worker[w].account] =
          [n \in Names |->
             IF @[n] # None /\ @[n].status = "active" /\ @[n].seen <= worker[w].sync
             THEN [@[n] EXCEPT !.status = "stale"]
             ELSE @[n]]]
  /\ Become(w, [worker[w] EXCEPT !.op = "finish"])
  /\ UNCHANGED <<cloud, jobs, agents, now>>

MarkStale(w) ==
  /\ worker[w].op = "process"
  /\ worker[w].todo = {}
  /\ \/ /\ resources' =
             [resources EXCEPT ![worker[w].account] =
                [n \in Names |->
                   IF /\ @[n] # None
                      /\ @[n].status = "active"
                      /\ @[n].seen < worker[w].sync
                   THEN [@[n] EXCEPT !.status = "stale"]
                   ELSE @[n]]]
        /\ Become(w, [worker[w] EXCEPT !.op = "finish"])
     \/ /\ StoreErrors
        /\ Become(w, [worker[w] EXCEPT !.op = "finish", !.failed = TRUE])
        /\ UNCHANGED resources
  /\ UNCHANGED <<cloud, jobs, agents, now>>

Outcome(w) == IF worker[w].failed THEN "failed" ELSE "completed"

\* UpdateSyncJob writes the whole record, the agent of the request included;
\* its error is dropped.  Then the response.
Finish(w) ==
  /\ worker[w].op = "finish"
  /\ \/ SetJob(worker[w].job, worker[w].agent, Outcome(w))
     \/ StoreErrors /\ UNCHANGED jobs
  /\ Become(w, Free)
  /\ UNCHANGED <<cloud, resources, agents, now>>

-----------------------------------------------------------------------------
(* Requests of an agent. *)

IngestQueues(w, a, job, found, seen) ==    \* mutant: the new job is left pending
  /\ worker[w] = Free
  /\ now < MaxTime
  /\ now' = now + 1
  /\ IF job = None
       THEN CreateJob(AgentAccount[a], a, "pending")
       ELSE UNCHANGED jobs
  /\ StartSync(w, SyncRecord("process", "agent", AgentAccount[a], a,
                             IF job = None THEN NewJob ELSE job, seen, found))
  /\ UNCHANGED <<cloud, resources, agents>>

\* handleIngest up to ProcessResources: continue the given job or create one
Ingest(w, a, job, found, seen) ==
  /\ worker[w] = Free
  /\ now < MaxTime
  /\ now' = now + 1
  /\ IF job = None
       THEN CreateJob(AgentAccount[a], a, "running")
       ELSE UNCHANGED jobs
  /\ StartSync(w, SyncRecord("process", "agent", AgentAccount[a], a,
                             IF job = None THEN NewJob ELSE job, seen, found))
  /\ UNCHANGED <<cloud, resources, agents>>

PutAgent(a, healthy, approval) ==
  agents' = [agents EXCEPT ![a] = [account |-> AgentAccount[a],
                                   healthy |-> healthy, approval |-> approval]]

\* handleAgentRegister
Register(a) ==
  /\ PutAgent(a, TRUE, "approved")
  /\ UNCHANGED <<cloud, resources, jobs, now, worker>>

\* handleAgentHeartbeat: UpsertAgent of a record built from the request ...
Heartbeat(w, a) ==
  /\ worker[w] = Free
  /\ PutAgent(a, TRUE, "none")
  /\ Become(w, [op |-> "beat", agent |-> a])
  /\ UNCHANGED <<cloud, resources, jobs, now>>

\* ... then ClaimPendingAgentSync: the oldest pending job of the agent (its
\* CreatedAt is read just before CreateSyncJob)
Pending(a) == {j \in JobIds : jobs[j].status = "pending" /\ jobs[j].agent = a}

ClaimableAgain(a) ==                    \* mutant: the status is not looked at
  LET own == {j \in JobIds : jobs[j].agent = a}
  IN {j \in own : \A k \in own : j <= k}

ClaimableIdle(a) ==                     \* mutant: one running job at a time
  IF \E k \in JobIds : jobs[k].agent = a /\ jobs[k].status = "running"
  THEN {} ELSE {j \in Pending(a) : \A k \in Pending(a) : j <= k}

Claimable(a) == {j \in Pending(a) : \A k \in Pending(a) : j <= k}

Claim(w, j) ==
  /\ worker[w].op = "beat"
  /\ j \in Claimable(worker[w].agent)
  /\ jobs' = [jobs EXCEPT ![j].status = "running"]
  /\ Become(w, Free)
  /\ UNCHANGED <<cloud, resources, agents, now>>

ClaimNothing(w) ==
  /\ worker[w].op = "beat"
  /\ StoreErrors \/ Claimable(worker[w].agent) = {}
  /\ Become(w, Free)
  /\ UNCHANGED <<cloud, resources, jobs, agents, now>>

-----------------------------------------------------------------------------
(* Operators. *)

\* handleApproveAgent and handleRejectAgent: GetAgent ...
ReviewRead(w, a, decision) ==
  /\ worker[w] = Free
  /\ agents[a] # None
  /\ agents[a].approval # decision
  /\ Become(w, [op |-> "review", agent |-> a, record |-> agents[a],
                decision |-> decision])
  /\ UNCHANGED <<cloud, resources, jobs, agents, now>>

\* ... and UpsertAgent of the record read, its LastSeenAt of then included
ReviewWrite(w) ==
  /\ worker[w].op = "review"
  /\ \E healthy \in {FALSE, worker[w].record.healthy} :
       PutAgent(worker[w].agent, healthy, worker[w].decision)
  /\ Become(w, Free)
  /\ UNCHANGED <<cloud, resources, jobs, now>>

\* DeleteAgent: the agent's jobs lose their agent
DeleteAgent(a) ==
  /\ agents[a] # None
  /\ agents' = [agents EXCEPT ![a] = None]
  /\ jobs' = [j \in JobIds |->
                IF jobs[j].agent = a THEN [jobs[j] EXCEPT !.agent = None] ELSE jobs[j]]
  /\ UNCHANGED <<cloud, resources, now, worker>>

\* Five minutes without a heartbeat: computeAgentStatus
Expire(a) ==
  /\ Healthy(a)
  /\ agents' = [agents EXCEPT ![a].healthy = FALSE]
  /\ UNCHANGED <<cloud, resources, jobs, now, worker>>

\* External: the account's resources change at the provider
CloudChange(account) ==
  /\ CloudChanges
  /\ \E S \in SUBSET Names : cloud' = [cloud EXCEPT ![account] = S]
  /\ UNCHANGED <<resources, jobs, agents, now, worker>>

-----------------------------------------------------------------------------
ServerInit ==
  /\ cloud \in [Accounts -> SUBSET Names]
  /\ resources = [a \in Accounts |-> [n \in Names |-> None]]
  /\ jobs = [j \in {} |-> None]
  /\ agents = [a \in Agents |-> None]
  /\ now = 0
  /\ worker = [w \in Workers |-> Free]

\* Requests of operators
Operate(w) ==
  \/ \E a \in Agents, account \in Accounts \cup {None} : TriggerAgent(w, a, account)
  \/ TriggerAll(w)
  \/ \E account \in Accounts : TriggerAccount(w, account) \/ LocalStart(w, account)
  \/ \E a \in Agents, decision \in Decisions : ReviewRead(w, a, decision)

\* Handler steps that answer no agent
Handle(w) ==
  \/ QueueJob(w)
  \/ LocalDiscover(w)
  \/ LocalDiscoverFails(w)
  \/ Upsert(w)
  \/ MarkStale(w)
  \/ ReviewWrite(w)

ServerTypeOK ==
  /\ cloud \in [Accounts -> SUBSET Names]
  /\ resources \in [Accounts -> [Names -> Resource \cup {None}]]
  /\ Cardinality(JobIds) \in 0 .. MaxJobs
  /\ jobs \in [1 .. Cardinality(JobIds) -> Job]
  /\ agents \in [Agents -> AgentRecord \cup {None}]
  /\ now \in Times
  /\ worker \in [Workers -> {Free} \cup Queueing \cup Syncing \cup Beating \cup Reviewing]

=============================================================================
