--------------------------- MODULE DiscoveryProofs ---------------------------
(***************************************************************************)
(* Theorems about AgentSync, and with it about the server of Discovery, for*)
(* every set of agents and goroutines and every bound.                     *)
(***************************************************************************)
EXTENDS AgentSync, FiniteSetTheorems, TLAPS

(* Type correctness. *)

\* What op says of a goroutine's locals
LEMMA WorkerKinds ==
  ASSUME ServerTypeOK, NEW w \in Workers
  PROVE  /\ worker[w].op = "queue" => worker[w] \in Queueing
         /\ IsSync(w) => worker[w] \in Syncing
         /\ worker[w].op = "beat" => worker[w] \in Beating
         /\ worker[w].op = "review" => worker[w] \in Reviewing
BY DEF ServerTypeOK, IsSync, Free, Queueing, Syncing, Beating, Reviewing

LEMMA BecomeType ==
  ASSUME ServerTypeOK, NEW w \in Workers,
         NEW r \in {Free} \cup Queueing \cup Syncing \cup Beating \cup Reviewing,
         Become(w, r)
  PROVE  worker' \in [Workers -> {Free} \cup Queueing \cup Syncing \cup Beating \cup Reviewing]
BY DEF ServerTypeOK, Become

LEMMA JobIdsInterval ==
  ASSUME ServerTypeOK
  PROVE  /\ Cardinality(JobIds) \in Nat
         /\ JobIds = 1 .. Cardinality(JobIds)
         /\ JobIds \subseteq JobNumbers
         /\ NewJob \in JobNumbers \ JobIds
BY DiscoveryAssumption DEF ServerTypeOK, JobIds, JobNumbers, NewJob

\* A created job is numbered next and leaves the others as they are
LEMMA CreateJobType ==
  ASSUME ServerTypeOK, NEW account \in Accounts, NEW agent \in Agents \cup {None},
         NEW status \in {"pending", "running", "completed", "failed"},
         CreateJob(account, agent, status)
  PROVE  /\ (Cardinality(JobIds) \in 0 .. MaxJobs)'
         /\ (jobs \in [1 .. Cardinality(JobIds) -> Job])'
         /\ JobIds' = JobIds \cup {NewJob}
         /\ \A j \in JobIds : jobs'[j] = jobs[j]
         /\ jobs'[NewJob] = [account |-> account, agent |-> agent, status |-> status]
<1> DEFINE n == Cardinality(JobIds)
<1>1. n \in Nat /\ n < MaxJobs /\ n + 1 \in 0 .. MaxJobs
  BY JobIdsInterval, DiscoveryAssumption DEF CreateJob
<1>2. JobIds = 1 .. n /\ JobIds' = 1 .. n + 1
  BY JobIdsInterval DEF CreateJob, JobIds
<1>3. Cardinality(1 .. n + 1) = n + 1
  BY <1>1, FS_Interval
<1>4. [account |-> account, agent |-> agent, status |-> status] \in Job
  BY DEF Job
<1>5. \A j \in JobIds : jobs[j] \in Job
  BY DEF ServerTypeOK, JobIds
<1>6. jobs' = [j \in 1 .. n + 1 |->
                 IF j \in JobIds THEN jobs[j]
                 ELSE [account |-> account, agent |-> agent, status |-> status]]
  BY DEF CreateJob
<1>7. jobs' \in [1 .. n + 1 -> Job]
  BY <1>4, <1>5, <1>6
<1>8. n + 1 \in 1 .. n + 1 /\ n + 1 \notin JobIds /\ JobIds' = JobIds \cup {n + 1}
  BY <1>1, <1>2
<1> HIDE DEF n
<1>9. Cardinality(JobIds)' = n + 1
  BY <1>2, <1>3
<1> QED
  BY <1>1, <1>2, <1>6, <1>7, <1>8, <1>9 DEF NewJob, n

LEMMA SetJobType ==
  ASSUME ServerTypeOK, NEW j, NEW agent \in Agents \cup {None},
         NEW status \in {"pending", "running", "completed", "failed"},
         SetJob(j, agent, status)
  PROVE  /\ JobIds' = JobIds
         /\ (Cardinality(JobIds) \in 0 .. MaxJobs)'
         /\ (jobs \in [1 .. Cardinality(JobIds) -> Job])'
         /\ \A k \in JobIds : /\ k # j => jobs'[k] = jobs[k]
                              /\ k = j => jobs'[k].agent = agent /\ jobs'[k].status = status
<1>1. JobIds' = JobIds
  BY DEF SetJob, JobIds
<1>2. \A k \in JobIds : jobs[k] \in Job
  BY DEF ServerTypeOK, JobIds
<1>3. \A k \in JobIds : jobs'[k] = IF k = j
                                     THEN [jobs[k] EXCEPT !.agent = agent, !.status = status]
                                     ELSE jobs[k]
  BY DEF SetJob, JobIds
<1>4. \A k \in JobIds : jobs'[k] \in Job
  BY <1>2, <1>3 DEF Job
<1>5. jobs' \in [JobIds -> Job]
  BY <1>4 DEF SetJob, JobIds
<1>6. \A k \in JobIds : k = j => jobs'[k].agent = agent /\ jobs'[k].status = status
  BY <1>2, <1>3 DEF Job
<1> QED
  BY <1>1, <1>3, <1>5, <1>6, JobIdsInterval DEF ServerTypeOK

LEMMA PutAgentType ==
  ASSUME ServerTypeOK, NEW a \in Agents, NEW healthy \in BOOLEAN,
         NEW approval \in {"approved", "rejected", "none"},
         PutAgent(a, healthy, approval)
  PROVE  agents' \in [Agents -> AgentRecord \cup {None}]
BY DiscoveryAssumption DEF ServerTypeOK, PutAgent, AgentRecord

\* Every Syncing record of which only these fields change is still one
LEMMA SyncingFields ==
  ASSUME NEW r \in Syncing, NEW op \in {"discover", "process", "finish"}, NEW seen \in Nat,
         NEW found \in SUBSET Names, NEW todo \in SUBSET Names, NEW failed \in BOOLEAN,
         NEW alone \in BOOLEAN
  PROVE  [r EXCEPT !.op = op, !.seen = seen, !.found = found, !.todo = todo,
                   !.failed = failed, !.alone = alone] \in Syncing
BY DEF Syncing

LEMMA StartSyncType ==
  ASSUME ServerTypeOK, NEW w \in Workers, NEW r \in Syncing, StartSync(w, r)
  PROVE  /\ worker' \in [Workers -> {Free} \cup Queueing \cup Syncing \cup Beating \cup Reviewing]
         /\ \E alone \in BOOLEAN : worker'[w] = [r EXCEPT !.alone = alone]
         /\ \A x \in Workers \ {w} :
              \/ worker'[x] = worker[x]
              \/ IsSync(x) /\ worker'[x] = [worker[x] EXCEPT !.alone = FALSE]
<1> DEFINE alone == \A y \in Workers \ {w} : ~ (IsSync(y) /\ worker[y].account = r.account)
<1>1. alone \in BOOLEAN
  OBVIOUS
<1>2. [r EXCEPT !.alone = alone] \in Syncing
  <2> HIDE DEF alone
  <2> QED
    BY <1>1 DEF Syncing
<1>3. \A x \in Workers : worker[x] \in {Free} \cup Queueing \cup Syncing \cup Beating \cup Reviewing
  BY DEF ServerTypeOK
<1>4. \A x \in Workers : IsSync(x) => [worker[x] EXCEPT !.alone = FALSE] \in Syncing
  BY WorkerKinds DEF Syncing
<1>5. worker' = [x \in Workers |->
                   IF x = w THEN [r EXCEPT !.alone = alone]
                   ELSE IF IsSync(x) /\ worker[x].account = r.account
                        THEN [worker[x] EXCEPT !.alone = FALSE]
                        ELSE worker[x]]
  BY DEF StartSync
<1> HIDE DEF alone
<1> QED
  BY <1>1, <1>2, <1>3, <1>4, <1>5

LEMMA SyncRecordType ==
  ASSUME ServerTypeOK, NEW op \in {"discover", "process", "finish"},
         NEW source \in {"local", "agent"}, NEW account \in Accounts,
         NEW agent \in Agents \cup {None}, NEW job \in JobNumbers, NEW seen \in Nat,
         NEW found \in SUBSET Names
  PROVE  SyncRecord(op, source, account, agent, job, seen, found) \in Syncing
BY DiscoveryAssumption DEF ServerTypeOK, SyncRecord, Syncing, Times

\* An upsert leaves the rest of its request as it is
LEMMA UpsertRequest ==
  ASSUME ServerTypeOK, NEW w \in Workers, Upsert(w)
  PROVE  \E r \in Syncing : /\ Become(w, r)
                            /\ r.op = "process"
                            /\ r.agent = worker[w].agent
                            /\ r.job = worker[w].job
<1>1. worker[w] \in Syncing /\ worker[w].op = "process"
  BY WorkerKinds DEF Upsert, IsSync
<1> DEFINE Like(r) == /\ r \in Syncing
                      /\ r.op = "process"
                      /\ r.agent = worker[w].agent
                      /\ r.job = worker[w].job
<1>2. ASSUME NEW n \in worker[w].todo, NEW failed \in BOOLEAN
      PROVE  Like([worker[w] EXCEPT !.todo = @ \ {n}, !.failed = failed])
  BY <1>1 DEF Syncing
<1>3. ASSUME NEW n \in worker[w].todo, NEW lookupFails
      PROVE  Like([worker[w] EXCEPT !.todo = @ \ {n}, !.failed = @ \/ lookupFails])
  <2> DEFINE failed == worker[w].failed \/ lookupFails
  <2>1. failed \in BOOLEAN
    OBVIOUS
  <2>2. Like([worker[w] EXCEPT !.todo = @ \ {n}, !.failed = failed])
    <3> HIDE DEF failed, Like
    <3> QED
      BY <1>2, <2>1
  <2> QED
    BY <2>2
<1> HIDE DEF Like
<1>4. PICK n \in worker[w].todo :
        \/ \E lookupFails \in {FALSE, StoreErrors} :
             Become(w, [worker[w] EXCEPT !.todo = @ \ {n}, !.failed = @ \/ lookupFails])
        \/ Become(w, [worker[w] EXCEPT !.todo = @ \ {n}, !.failed = TRUE])
  BY Zenon DEF Upsert
<1>5. \E r : Become(w, r) /\ Like(r)
  BY <1>2, <1>3, <1>4, Zenon
<1> QED
  BY <1>5 DEF Like

\* Steps of a sync or a review between two answers
LEMMA HandleType ==
  ASSUME ServerTypeOK, NEW w \in Workers, Handle(w)
  PROVE  ServerTypeOK'
<1>1. CASE QueueJob(w)
  <2> USE <1>1 DEF QueueJob
  <2>1. worker[w] \in Queueing
    BY WorkerKinds
  <2>2. ASSUME NEW t \in worker[w].todo, CreateJob(t[2], t[1], "pending"),
               Become(w, IF worker[w].todo = {t} THEN Free ELSE [worker[w] EXCEPT !.todo = @ \ {t}])
        PROVE  ServerTypeOK'
    <3>1. t[2] \in Accounts /\ t[1] \in Agents
      BY <2>1 DEF Queueing
    <3>2. [worker[w] EXCEPT !.todo = @ \ {t}] \in Queueing
      BY <2>1 DEF Queueing
    <3>3. worker' \in [Workers -> {Free} \cup Queueing \cup Syncing \cup Beating \cup Reviewing]
      BY <2>2, <3>2 DEF Become, ServerTypeOK
    <3>4. /\ (Cardinality(JobIds) \in 0 .. MaxJobs)'
          /\ (jobs \in [1 .. Cardinality(JobIds) -> Job])'
      BY <2>2, <3>1, CreateJobType
    <3> QED
      BY <3>3, <3>4 DEF ServerTypeOK, Times
  <2>3. ASSUME Become(w, Free), UNCHANGED jobs
        PROVE  ServerTypeOK'
    BY <2>3 DEF Become, ServerTypeOK, JobIds, Times
  <2> QED
    BY <2>2, <2>3
<1>2. CASE LocalDiscover(w)
  <2>1. worker[w] \in Syncing
    BY <1>2, WorkerKinds DEF LocalDiscover, IsSync
  <2>2. now \in Nat /\ cloud[worker[w].account] \in SUBSET Names
    BY <2>1, DiscoveryAssumption DEF ServerTypeOK, Times, Syncing
  <2>3. worker'[w] \in Syncing
    BY <1>2, <2>1, <2>2 DEF LocalDiscover, Become, Syncing, ServerTypeOK
  <2> QED
    BY <1>2, <2>3 DEF LocalDiscover, Become, ServerTypeOK, JobIds, Times
<1>3. CASE LocalDiscoverFails(w)
  <2>1. /\ (Cardinality(JobIds) \in 0 .. MaxJobs)'
        /\ (jobs \in [1 .. Cardinality(JobIds) -> Job])'
    BY <1>3, SetJobType DEF LocalDiscoverFails
  <2> QED
    BY <1>3, <2>1 DEF LocalDiscoverFails, Become, ServerTypeOK, Times
<1>4. CASE Upsert(w)
  <2>1. worker[w] \in Syncing
    BY <1>4, WorkerKinds DEF Upsert, IsSync
  <2>4. [status |-> "active", seen |-> worker[w].seen] \in Resource
    BY <2>1 DEF Syncing, Resource
  <2>5. PICK r \in Syncing : Become(w, r)
    BY <1>4, UpsertRequest
  <2>6. resources' \in [Accounts -> [Names -> Resource \cup {None}]]
    <3>1. \/ UNCHANGED resources
          \/ \E n \in worker[w].todo :
               resources' = [resources EXCEPT ![worker[w].account][n] =
                               [status |-> "active", seen |-> worker[w].seen]]
      BY <1>4, Zenon DEF Upsert
    <3>2. worker[w].account \in Accounts /\ worker[w].todo \subseteq Names
      BY <2>1 DEF Syncing
    <3>3. ASSUME NEW n \in Names,
                 resources' = [resources EXCEPT ![worker[w].account][n] =
                                 [status |-> "active", seen |-> worker[w].seen]]
          PROVE  resources' \in [Accounts -> [Names -> Resource \cup {None}]]
      BY <2>4, <3>2, <3>3 DEF ServerTypeOK
    <3> QED
      BY <3>1, <3>2, <3>3 DEF ServerTypeOK
  <2>7. UNCHANGED <<cloud, jobs, agents, now>>
    BY <1>4, Zenon DEF Upsert
  <2> QED
    BY <2>5, <2>6, <2>7 DEF Become, ServerTypeOK, JobIds, Times
<1>5. CASE MarkStale(w)
  <2>1. worker[w] \in Syncing
    BY <1>5, WorkerKinds DEF MarkStale, IsSync
  <2>2. /\ [worker[w] EXCEPT !.op = "finish"] \in Syncing
        /\ [worker[w] EXCEPT !.op = "finish", !.failed = TRUE] \in Syncing
    BY <2>1 DEF Syncing
  <2>3. worker' \in [Workers -> {Free} \cup Queueing \cup Syncing \cup Beating \cup Reviewing]
    BY <1>5, <2>2 DEF MarkStale, Become, ServerTypeOK
  <2>4. resources' \in [Accounts -> [Names -> Resource \cup {None}]]
    <3>1. \A r \in Resource : [r EXCEPT !.status = "stale"] \in Resource
      BY DEF Resource
    <3>2. worker[w].account \in Accounts
      BY <2>1 DEF Syncing
    <3>3. CASE UNCHANGED resources
      BY <3>3 DEF ServerTypeOK
    <3>4. CASE ~ UNCHANGED resources
      <4>1. resources' =
              [resources EXCEPT ![worker[w].account] =
                 [n \in Names |->
                    IF /\ @[n] # None
                       /\ @[n].status = "active"
                       /\ @[n].seen < worker[w].sync
                    THEN [@[n] EXCEPT !.status = "stale"]
                    ELSE @[n]]]
        BY <1>5, <3>4, Zenon DEF MarkStale
      <4>2. \A n \in Names : resources[worker[w].account][n] \in Resource \cup {None}
        BY <3>2 DEF ServerTypeOK
      <4>3. resources'[worker[w].account] \in [Names -> Resource \cup {None}]
        BY <3>1, <3>2, <4>1, <4>2 DEF ServerTypeOK
      <4> QED
        BY <3>2, <4>1, <4>3 DEF ServerTypeOK
    <3> QED
      BY <3>3, <3>4
  <2> QED
    BY <1>5, <2>3, <2>4 DEF MarkStale, ServerTypeOK, JobIds, Times
<1>6. CASE ReviewWrite(w)
  <2>1. worker[w] \in Reviewing
    BY <1>6, WorkerKinds DEF ReviewWrite
  <2>2. PICK healthy \in {FALSE, worker[w].record.healthy} :
          PutAgent(worker[w].agent, healthy, worker[w].decision)
    BY <1>6 DEF ReviewWrite
  <2>3. healthy \in BOOLEAN /\ worker[w].agent \in Agents
        /\ worker[w].decision \in {"approved", "rejected", "none"}
    BY <2>1 DEF Reviewing, AgentRecord
  <2>4. agents' \in [Agents -> AgentRecord \cup {None}]
    BY <2>2, <2>3, PutAgentType
  <2> QED
    BY <1>6, <2>4 DEF ReviewWrite, Become, ServerTypeOK, JobIds, Times
<1> QED
  BY <1>1, <1>2, <1>3, <1>4, <1>5, <1>6 DEF Handle

LEMMA FinishType ==
  ASSUME ServerTypeOK, NEW w \in Workers, Finish(w)
  PROVE  ServerTypeOK'
<1>1. worker[w] \in Syncing
  BY WorkerKinds DEF Finish, IsSync
<1>2. Outcome(w) \in {"completed", "failed"}
  BY DEF Outcome
<1>3. worker[w].agent \in Agents \cup {None}
  BY <1>1 DEF Syncing
<1>4. /\ (Cardinality(JobIds) \in 0 .. MaxJobs)'
      /\ (jobs \in [1 .. Cardinality(JobIds) -> Job])'
  <2>1. CASE UNCHANGED jobs
    BY <2>1 DEF ServerTypeOK, JobIds
  <2>2. CASE SetJob(worker[w].job, worker[w].agent, Outcome(w))
    BY <1>2, <1>3, <2>2, SetJobType
  <2> QED
    BY <2>1, <2>2 DEF Finish
<1> QED
  BY <1>4 DEF Finish, Become, ServerTypeOK, Times

LEMMA IngestType ==
  ASSUME ServerTypeOK, NEW w \in Workers, NEW a \in Agents, NEW job \in JobNumbers \cup {None},
         NEW found \in SUBSET Names, NEW seen \in Nat, Ingest(w, a, job, found, seen)
  PROVE  ServerTypeOK'
<1>1. AgentAccount[a] \in Accounts
  BY DiscoveryAssumption
<1>2. /\ (Cardinality(JobIds) \in 0 .. MaxJobs)'
      /\ (jobs \in [1 .. Cardinality(JobIds) -> Job])'
  <2>1. CASE job = None
    BY <1>1, <2>1, CreateJobType DEF Ingest
  <2>2. CASE job # None
    BY <2>2 DEF Ingest, ServerTypeOK, JobIds
  <2> QED
    BY <2>1, <2>2
<1> DEFINE j == IF job = None THEN NewJob ELSE job
           r == SyncRecord("process", "agent", AgentAccount[a], a, j, seen, found)
<1>3. r \in Syncing
  <2>1. j \in JobNumbers
    BY JobIdsInterval
  <2> HIDE DEF j
  <2> QED
    BY <1>1, <2>1, SyncRecordType
<1>4. worker' \in [Workers -> {Free} \cup Queueing \cup Syncing \cup Beating \cup Reviewing]
  <2>1. StartSync(w, r)
    BY DEF Ingest
  <2> HIDE DEF r
  <2> QED
    BY <1>3, <2>1, StartSyncType
<1>5. now' \in Times
  BY DiscoveryAssumption DEF Ingest, ServerTypeOK, Times
<1> QED
  BY <1>2, <1>4, <1>5 DEF Ingest, ServerTypeOK, Times

LEMMA HeartbeatType ==
  ASSUME ServerTypeOK, NEW w \in Workers, NEW a \in Agents, Heartbeat(w, a)
  PROVE  ServerTypeOK'
<1>1. [op |-> "beat", agent |-> a] \in Beating
  BY DEF Beating
<1>2. worker' \in [Workers -> {Free} \cup Queueing \cup Syncing \cup Beating \cup Reviewing]
  BY <1>1, BecomeType DEF Heartbeat
<1>3. agents' \in [Agents -> AgentRecord \cup {None}]
  BY PutAgentType DEF Heartbeat
<1> QED
  BY <1>2, <1>3 DEF Heartbeat, ServerTypeOK, JobIds, Times

LEMMA ClaimType ==
  ASSUME ServerTypeOK, NEW w \in Workers, NEW j \in JobIds, Claim(w, j)
  PROVE  /\ ServerTypeOK'
         /\ JobIds' = JobIds
         /\ jobs'[j].status = "running" /\ jobs'[j].agent = jobs[j].agent
         /\ \A k \in JobIds \ {j} : jobs'[k] = jobs[k]
<1>1. \A k \in JobIds : jobs[k] \in Job
  BY DEF ServerTypeOK, JobIds
<1>2. JobIds' = JobIds
  BY DEF Claim, JobIds
<1>3. [jobs[j] EXCEPT !.status = "running"] \in Job
  BY <1>1 DEF Job
<1>4. jobs' = [k \in JobIds |-> IF k = j THEN [jobs[j] EXCEPT !.status = "running"] ELSE jobs[k]]
  BY DEF Claim, JobIds
<1>5. jobs' \in [JobIds -> Job]
  BY <1>1, <1>3, <1>4
<1>6. (jobs \in [1 .. Cardinality(JobIds) -> Job])'
  BY <1>2, <1>5, JobIdsInterval
<1>7. jobs'[j].status = "running" /\ jobs'[j].agent = jobs[j].agent
  BY <1>1, <1>4 DEF Job
<1> QED
  BY <1>2, <1>4, <1>6, <1>7 DEF Claim, Become, ServerTypeOK, Times

LEMMA DeleteAgentType ==
  ASSUME ServerTypeOK, NEW a \in Agents, DeleteAgent(a)
  PROVE  /\ ServerTypeOK'
         /\ JobIds' = JobIds
         /\ \A j \in JobIds : /\ jobs'[j].status = jobs[j].status
                              /\ jobs'[j].agent \in {jobs[j].agent, None}
<1>1. \A j \in JobIds : jobs[j] \in Job
  BY DEF ServerTypeOK, JobIds
<1>2. JobIds' = JobIds
  BY DEF DeleteAgent, JobIds
<1>3. \A j \in JobIds : jobs'[j] = IF jobs[j].agent = a THEN [jobs[j] EXCEPT !.agent = None]
                                   ELSE jobs[j]
  BY DEF DeleteAgent
<1>4. \A j \in JobIds : /\ jobs'[j] \in Job
                        /\ jobs'[j].status = jobs[j].status
                        /\ jobs'[j].agent \in {jobs[j].agent, None}
  BY <1>1, <1>3 DEF Job
<1>5. (jobs \in [1 .. Cardinality(JobIds) -> Job])'
  <2>1. jobs' \in [JobIds -> Job]
    BY <1>4 DEF DeleteAgent
  <2> QED
    BY <1>2, <2>1, JobIdsInterval
<1> QED
  BY <1>2, <1>4, <1>5 DEF DeleteAgent, ServerTypeOK, Times

LEMMA OperateType ==
  ASSUME ServerTypeOK, NEW w \in Workers, Operate(w)
  PROVE  ServerTypeOK'
<1>1. ASSUME NEW a \in Agents, NEW account \in Accounts \cup {None}, TriggerAgent(w, a, account)
      PROVE  ServerTypeOK'
  <2>1. agents[a].account \in Accounts
    BY <1>1 DEF TriggerAgent, Healthy, ServerTypeOK, AgentRecord
  <2> DEFINE target == IF account = None THEN agents[a].account ELSE account
             r == [op |-> "queue", todo |-> {<<a, target>>}]
  <2>2. r \in Queueing
    BY <2>1 DEF Queueing
  <2>3. Become(w, r)
    BY <1>1 DEF TriggerAgent
  <2> HIDE DEF r
  <2> QED
    BY <1>1, <2>2, <2>3, BecomeType DEF TriggerAgent, ServerTypeOK, JobIds, Times
<1>2. CASE TriggerAll(w)
  <2> DEFINE r == [op |-> "queue",
                   todo |-> {<<a, agents[a].account>> : a \in {b \in Agents : Healthy(b)}}]
  <2>1. \A a \in Agents : Healthy(a) => agents[a].account \in Accounts
    BY DEF Healthy, ServerTypeOK, AgentRecord
  <2>2. r \in Queueing
    BY <2>1 DEF Queueing
  <2>3. Become(w, r)
    BY <1>2 DEF TriggerAll
  <2> HIDE DEF r
  <2> QED
    BY <1>2, <2>2, <2>3, BecomeType DEF TriggerAll, ServerTypeOK, JobIds, Times
<1>3. ASSUME NEW account \in Accounts, TriggerAccount(w, account)
      PROVE  ServerTypeOK'
  <2>1. PICK a \in Agents : Become(w, [op |-> "queue", todo |-> {<<a, account>>}])
    BY <1>3 DEF TriggerAccount, ConnectedAgents
  <2>2. [op |-> "queue", todo |-> {<<a, account>>}] \in Queueing
    BY DEF Queueing
  <2> QED
    BY <1>3, <2>1, <2>2, BecomeType DEF TriggerAccount, ServerTypeOK, JobIds, Times
<1>4. ASSUME NEW account \in Accounts, LocalStart(w, account)
      PROVE  ServerTypeOK'
  <2> DEFINE r == SyncRecord("discover", "local", account, None, NewJob, 0, {})
  <2>1. r \in Syncing
    BY SyncRecordType, JobIdsInterval
  <2>2. StartSync(w, r)
    BY <1>4 DEF LocalStart
  <2>3. worker' \in [Workers -> {Free} \cup Queueing \cup Syncing \cup Beating \cup Reviewing]
    <3> HIDE DEF r
    <3> QED
      BY <2>1, <2>2, StartSyncType
  <2>4. /\ (Cardinality(JobIds) \in 0 .. MaxJobs)'
        /\ (jobs \in [1 .. Cardinality(JobIds) -> Job])'
    BY <1>4, CreateJobType DEF LocalStart
  <2>5. now' \in Times
    BY <1>4, DiscoveryAssumption DEF LocalStart, ServerTypeOK, Times
  <2> QED
    BY <1>4, <2>3, <2>4, <2>5 DEF LocalStart, ServerTypeOK, Times
<1>5. ASSUME NEW a \in Agents, NEW decision \in Decisions, ReviewRead(w, a, decision)
      PROVE  ServerTypeOK'
  <2> DEFINE r == [op |-> "review", agent |-> a, record |-> agents[a], decision |-> decision]
  <2>1. r \in Reviewing
    BY <1>5, DiscoveryAssumption DEF Reviewing, ReviewRead, ServerTypeOK
  <2>2. Become(w, r)
    BY <1>5 DEF ReviewRead
  <2> HIDE DEF r
  <2> QED
    BY <1>5, <2>1, <2>2, BecomeType DEF ReviewRead, ServerTypeOK, JobIds, Times
<1> QED
  BY <1>1, <1>2, <1>3, <1>4, <1>5 DEF Operate

(* The agents' side of the type. *)

LEMMA AgentStates ==
  ASSUME TypeOK, NEW a \in Agents, NEW first \in BOOLEAN, NEW job \in JobNumbers \cup {None}
  PROVE  /\ ag[a] \in AgentState
         /\ Down \in AgentState /\ Looping \in AgentState
         /\ Scanning(job, first) \in AgentState
         /\ AfterSync(a) \in AgentState
         /\ Retry(a) \in AgentState
         /\ AfterBeat(a, job) \in AgentState
<1>1. ag[a] \in AgentState
  BY DEF TypeOK
<1>2. Down \in AgentState
  BY AgentAssumption DEF Down, AgentState
<1>3. Looping \in AgentState /\ [Down EXCEPT !.pc = "beat", !.first = TRUE] \in AgentState
  BY <1>2 DEF Looping, AgentState
<1>4. \A f \in BOOLEAN : [Down EXCEPT !.pc = "scan", !.job = job, !.first = f] \in AgentState
  BY <1>2 DEF AgentState
<1>5. AfterSync(a) \in AgentState
  BY <1>3 DEF AfterSync
<1>6. Retry(a) \in AgentState
  <2>1. CASE ag[a].tries < MaxRetries
    <3>1. ag[a].tries + 1 \in 0 .. MaxRetries
      BY <1>1, <2>1, AgentAssumption DEF AgentState
    <3> QED
      BY <1>1, <2>1, <3>1 DEF Retry, AgentState
  <2>2. CASE ~ (ag[a].tries < MaxRetries)
    BY <1>5, <2>2 DEF Retry
  <2> QED
    BY <2>1, <2>2
<1> QED
  BY <1>1, <1>2, <1>3, <1>4, <1>5, <1>6 DEF Scanning, AfterBeat

LEMMA GoType ==
  ASSUME TypeOK, NEW a \in Agents, NEW r \in AgentState, Go(a, r)
  PROVE  ag' \in [Agents -> AgentState]
BY DEF TypeOK, Go

\* The request of a push, the job included, is of the right kind
LEMMA PushType ==
  ASSUME TypeOK, NEW a \in Agents, NEW w \in AgentWorkers, Push(a, w)
  PROVE  TypeOK'
<1>1. ag[a] \in AgentState /\ w \in Workers
  BY DEF TypeOK, Workers
<1>2. ServerTypeOK'
  <2>1. Ingest(w, a, ag[a].job, ag[a].found, ag[a].seen)
    BY DEF Push
  <2>2. /\ ag[a].job \in JobNumbers \cup {None}
        /\ ag[a].found \in SUBSET Names
        /\ ag[a].seen \in Nat
    BY <1>1 DEF AgentState
  <2> QED
    BY <1>1, <2>1, <2>2, IngestType DEF TypeOK
<1>3. [ag[a] EXCEPT !.pc = "pushing", !.worker = w] \in AgentState
  BY <1>1 DEF AgentState
<1> QED
  BY <1>2, <1>3, GoType DEF Push, TypeOK

\* The moves of an agent alone
LEMMA AgentAloneType ==
  ASSUME TypeOK, NEW a \in Agents, UNCHANGED server,
         Scan(a) \/ PushRefused(a) \/ Timeout(a) \/ SyncTick(a) \/ BeatTick(a) \/ Crash(a)
  PROVE  TypeOK'
<1>1. ServerTypeOK'
  BY DEF TypeOK, ServerTypeOK, server, JobIds, Times
<1>2. ag' \in [Agents -> AgentState]
  <2>1. CASE Scan(a)
    <3>1. ag[a] \in AgentState /\ AfterSync(a) \in AgentState
      BY AgentStates
    <3>2. now \in Nat /\ cloud[AgentAccount[a]] \in SUBSET Names
      BY DiscoveryAssumption DEF TypeOK, ServerTypeOK, Times
    <3>3. [ag[a] EXCEPT !.pc = "push", !.found = cloud[AgentAccount[a]],
                        !.seen = now, !.tries = 0] \in AgentState
      <4>1. ASSUME NEW found \in SUBSET Names, NEW seen \in Nat, NEW tries \in 0 .. MaxRetries
            PROVE  [ag[a] EXCEPT !.pc = "push", !.found = found,
                                 !.seen = seen, !.tries = tries] \in AgentState
        BY <3>1 DEF AgentState
      <4>2. 0 \in 0 .. MaxRetries
        BY AgentAssumption
      <4> QED
        BY <3>2, <4>1, <4>2
    <3> QED
      BY <2>1, <3>1, <3>3, GoType DEF Scan
  <2>2. CASE PushRefused(a)
    BY <2>2, AgentStates, GoType DEF PushRefused
  <2>3. CASE Timeout(a)
    BY <2>3, AgentStates, GoType DEF Timeout
  <2>4. CASE SyncTick(a)
    BY <2>4, AgentStates, GoType DEF SyncTick
  <2>5. CASE BeatTick(a)
    <3>1. [Down EXCEPT !.pc = "beat"] \in AgentState
      BY AgentStates DEF AgentState
    <3> QED
      BY <2>5, <3>1, GoType DEF BeatTick
  <2>6. CASE Crash(a)
    BY <2>6, AgentStates, GoType DEF Crash
  <2> QED
    BY <2>1, <2>2, <2>3, <2>4, <2>5, <2>6
<1> QED
  BY <1>1, <1>2 DEF TypeOK

LEMMA RegisterType ==
  ASSUME ServerTypeOK, NEW a \in Agents, Register(a)
  PROVE  ServerTypeOK'
BY PutAgentType DEF Register, ServerTypeOK, JobIds, Times

LEMMA BootType ==
  ASSUME TypeOK, NEW a \in Agents, Boot(a)
  PROVE  TypeOK'
<1>1. ServerTypeOK'
  <2>1. CASE Register(a)
    BY <2>1, RegisterType DEF TypeOK
  <2>2. CASE UNCHANGED server
    BY <2>2 DEF TypeOK, ServerTypeOK, server, JobIds, Times
  <2> QED
    BY <2>1, <2>2 DEF Boot
<1>2. ag' \in [Agents -> AgentState]
  BY AgentStates, GoType DEF Boot
<1> QED
  BY <1>1, <1>2 DEF TypeOK

LEMMA FinishBeatType ==
  ASSUME TypeOK, NEW w \in Workers, FinishBeat(w)
  PROVE  TypeOK'
<1>1. ASSUME NEW j \in JobIds, Claim(w, j), Answer(w, LAMBDA a : AfterBeat(a, j))
      PROVE  TypeOK'
  <2>1. j \in JobNumbers
    BY JobIdsInterval DEF TypeOK
  <2>2. ag' \in [Agents -> AgentState]
    BY <1>1, <2>1, AgentStates DEF Answer
  <2> QED
    BY <1>1, <2>2, ClaimType DEF TypeOK
<1>2. ASSUME ClaimNothing(w), Answer(w, LAMBDA a : Looping)
      PROVE  TypeOK'
  <2>1. ag' \in [Agents -> AgentState]
    BY <1>2, AgentStates DEF Answer
  <2> QED
    BY <1>2, <2>1 DEF TypeOK, ClaimNothing, Become, ServerTypeOK, JobIds, Times
<1> QED
  BY <1>1, <1>2 DEF FinishBeat

LEMMA FinishSyncType ==
  ASSUME TypeOK, NEW w \in Workers, FinishSync(w)
  PROVE  TypeOK'
<1>1. ag' \in [Agents -> AgentState]
  BY AgentStates DEF FinishSync, Answer
<1> QED
  BY <1>1, FinishType DEF FinishSync, TypeOK

LEMMA TypeStep ==
  TypeOK /\ [Next]_vars => TypeOK'
<1> SUFFICES ASSUME TypeOK, [Next]_vars PROVE TypeOK'
  OBVIOUS
<1>1. ASSUME NEW w \in Workers, Serve(w)
      PROVE  TypeOK'
  BY <1>1, HandleType, FinishSyncType, FinishBeatType DEF Serve, TypeOK
<1>2. ASSUME NEW a \in Agents, Proceed(a)
      PROVE  TypeOK'
  <2>1. CASE Boot(a)
    BY <2>1, BootType
  <2>2. CASE Scan(a) \/ PushRefused(a)
    BY <2>2, AgentAloneType DEF Scan, PushRefused
  <2>3. CASE \E w \in AgentWorkers : Push(a, w)
    BY <2>3, PushType
  <2> QED
    BY <1>2, <2>1, <2>2, <2>3 DEF Proceed
<1>3. ASSUME NEW a \in Agents, NEW w \in AgentWorkers, SendBeat(a, w)
      PROVE  TypeOK'
  <2>1. [ag[a] EXCEPT !.pc = "beating", !.worker = w] \in AgentState
    BY DEF TypeOK, AgentState, Workers
  <2> QED
    BY <1>3, <2>1, GoType, HeartbeatType DEF SendBeat, TypeOK, Workers
<1>4. ASSUME NEW w \in OperatorWorkers, Operate(w), UNCHANGED ag
      PROVE  TypeOK'
  BY <1>4, OperateType DEF TypeOK, Workers
<1>5. ASSUME NEW a \in Agents, DeleteAgent(a) \/ Expire(a), UNCHANGED ag
      PROVE  TypeOK'
  <2>1. CASE DeleteAgent(a)
    BY <1>5, <2>1, DeleteAgentType DEF TypeOK
  <2>2. CASE Expire(a)
    <3>1. [agents[a] EXCEPT !.healthy = FALSE] \in AgentRecord
      BY <2>2 DEF Expire, Healthy, TypeOK, ServerTypeOK, AgentRecord
    <3> QED
      BY <1>5, <2>2, <3>1 DEF Expire, TypeOK, ServerTypeOK, JobIds, Times
  <2> QED
    BY <1>5, <2>1, <2>2
<1>6. ASSUME NEW account \in Accounts, CloudChange(account), UNCHANGED ag
      PROVE  TypeOK'
  BY <1>6 DEF CloudChange, TypeOK, ServerTypeOK, JobIds, Times
<1>7. ASSUME NEW a \in Agents, RegisterLost(a)
      PROVE  TypeOK'
  BY <1>7, RegisterType DEF RegisterLost, TypeOK
<1>8. ASSUME NEW a \in Agents, Timeout(a) \/ SyncTick(a) \/ BeatTick(a) \/ Crash(a)
      PROVE  TypeOK'
  BY <1>8, AgentAloneType DEF Timeout, SyncTick, BeatTick, Crash
<1>9. CASE UNCHANGED vars
  BY <1>9 DEF vars, TypeOK, ServerTypeOK, JobIds, Times
<1> QED
  BY <1>1, <1>2, <1>3, <1>4, <1>5, <1>6, <1>7, <1>8, <1>9 DEF Next, Beat, Environment

LEMMA InitType ==
  Init => TypeOK
<1> SUFFICES ASSUME Init PROVE TypeOK
  OBVIOUS
<1>1. JobIds = {} /\ Cardinality(JobIds) = 0
  BY FS_EmptySet DEF Init, ServerInit, JobIds
<1>2. 0 \in 0 .. MaxJobs /\ 0 \in Times /\ 1 .. 0 = {}
  BY DiscoveryAssumption DEF Times
<1>3. jobs \in [1 .. Cardinality(JobIds) -> Job]
  BY <1>1, <1>2 DEF Init, ServerInit
<1>4. ag \in [Agents -> AgentState]
  BY AgentAssumption DEF Init, Down, AgentState
<1> QED
  BY <1>1, <1>2, <1>3, <1>4 DEF Init, ServerInit, TypeOK, ServerTypeOK

\* The stores, the request goroutines and the agents hold what their types say
\* (discovery_memory.go, runScheduler), for every number of jobs and syncs.
THEOREM TypeCorrect == Spec => []TypeOK
BY InitType, TypeStep, PTL DEF Spec

(* Who holds a job. *)

Owned == TypeOK /\ HeldJobs /\ RequestsOwned

InRequest(w) == worker[w].op \in {"process", "finish", "beat"}

\* A step of the server that no agent sees: requests keep their agent and job, a
\* sync may start with a new job, and jobs move only from running to an outcome
LEMMA QuietStep ==
  ASSUME Owned, ServerTypeOK', UNCHANGED ag,
         JobIds \subseteq JobIds',
         \A j \in JobIds :
           /\ jobs'[j].agent \in {jobs[j].agent, None}
           /\ \/ jobs'[j].status = jobs[j].status
              \/ jobs[j].status # "pending" /\ jobs'[j].status \in {"completed", "failed"},
         \A w \in Workers : InRequest(w) => InRequest(w)' /\ worker'[w].agent = worker[w].agent,
         \A w \in Workers :
           IsSync(w)' =>
             \/ /\ worker'[w].job \in JobIds' \ JobIds
                /\ jobs'[worker'[w].job].status # "pending"
             \/ /\ IsSync(w)
                /\ worker'[w].job = worker[w].job
                /\ worker'[w].agent = worker[w].agent
  PROVE  HeldJobs' /\ RequestsOwned' /\ JobOrder
<1>1. HeldJobs'
  BY DEF Owned, HeldJobs
<1>2. JobOrder
  <2>1. \A j \in JobIds : jobs[j].status \in {"pending", "running", "completed", "failed"}
    BY DEF Owned, TypeOK, ServerTypeOK, JobIds, Job
  <2> QED
    BY <2>1 DEF JobOrder
<1>3. ASSUME NEW a \in Agents, (ag[a].pc \in {"pushing", "beating"})'
      PROVE  (/\ ag[a].worker \in Workers
              /\ worker[ag[a].worker].op \in {"process", "finish", "beat"}
              /\ worker[ag[a].worker].agent = a)'
  BY <1>3 DEF Owned, RequestsOwned, InRequest
<1>4. ASSUME NEW w \in Workers, IsSync(w)'
      PROVE  (/\ worker[w].job \in JobIds
              /\ jobs[worker[w].job].status # "pending"
              /\ \A a \in Agents : ag[a].job = worker[w].job => worker[w].agent = a)'
  <2>1. CASE /\ worker'[w].job \in JobIds' \ JobIds
             /\ jobs'[worker'[w].job].status # "pending"
    <3>1. None \notin JobIds'
      <4>1. JobIds' \subseteq Nat
        BY DEF ServerTypeOK, JobIds
      <4> QED
        BY <4>1, DiscoveryAssumption
    <3> QED
      BY <2>1, <3>1 DEF Owned, HeldJobs
  <2>2. CASE /\ IsSync(w)
             /\ worker'[w].job = worker[w].job
             /\ worker'[w].agent = worker[w].agent
    BY <2>2 DEF Owned, RequestsOwned
  <2> QED
    BY <1>4, <2>1, <2>2
<1> QED
  BY <1>1, <1>2, <1>3, <1>4 DEF RequestsOwned

LEMMA HandleOwned ==
  ASSUME Owned, ServerTypeOK', UNCHANGED ag, NEW w \in Workers, Handle(w)
  PROVE  HeldJobs' /\ RequestsOwned' /\ JobOrder
<1> USE DEF Owned, TypeOK
<1>0. worker \in [Workers -> {Free} \cup Queueing \cup Syncing \cup Beating \cup Reviewing]
  BY DEF ServerTypeOK
<1>1. CASE QueueJob(w)
  <2>1. ~ InRequest(w) /\ ~ IsSync(w)
    BY <1>1 DEF QueueJob, InRequest, IsSync
  <2>2. PICK r \in {Free} \cup Queueing : Become(w, r)
    <3>1. worker[w] \in Queueing
      BY <1>1, WorkerKinds DEF QueueJob
    <3>2. \A t : [worker[w] EXCEPT !.todo = @ \ {t}] \in Queueing
      BY <3>1 DEF Queueing
    <3> QED
      BY <1>1, <3>2 DEF QueueJob
  <2>3. r.op \in {"free", "queue"}
    BY DEF Free, Queueing
  <2>4. /\ ~ InRequest(w)' /\ ~ IsSync(w)'
        /\ \A x \in Workers \ {w} : worker'[x] = worker[x]
    BY <1>0, <2>2, <2>3 DEF Become, InRequest, IsSync
  <2>5. /\ JobIds \subseteq JobIds'
        /\ \A j \in JobIds : jobs'[j] = jobs[j]
    <3>1. CASE UNCHANGED jobs
      BY <3>1 DEF JobIds
    <3>2. CASE \E t \in worker[w].todo : CreateJob(t[2], t[1], "pending")
      <4>1. PICK t \in worker[w].todo : CreateJob(t[2], t[1], "pending")
        BY <3>2
      <4>2. t[2] \in Accounts /\ t[1] \in Agents
        BY <1>1, WorkerKinds DEF QueueJob, Queueing
      <4> QED
        BY <4>1, <4>2, CreateJobType
    <3> QED
      BY <1>1, <3>1, <3>2, Zenon DEF QueueJob
  <2> QED
    BY <2>1, <2>4, <2>5, QuietStep DEF InRequest, IsSync
<1>2. CASE LocalDiscover(w)
  <2>1. worker[w] \in Syncing
    BY <1>2, WorkerKinds DEF LocalDiscover, IsSync
  <2>2. /\ IsSync(w) /\ ~ InRequest(w)
        /\ worker'[w].agent = worker[w].agent
        /\ worker'[w].job = worker[w].job
        /\ \A x \in Workers \ {w} : worker'[x] = worker[x]
    BY <1>0, <1>2, <2>1 DEF LocalDiscover, Become, IsSync, InRequest, Syncing
  <2>3. UNCHANGED jobs /\ UNCHANGED JobIds
    BY <1>2 DEF LocalDiscover, JobIds
  <2> QED
    BY <2>2, <2>3, QuietStep DEF InRequest, IsSync
<1>3. CASE LocalDiscoverFails(w)
  <2>1. IsSync(w) /\ ~ InRequest(w)
    BY <1>3 DEF LocalDiscoverFails, IsSync, InRequest
  <2>2. /\ ~ InRequest(w)' /\ ~ IsSync(w)'
        /\ \A x \in Workers \ {w} : worker'[x] = worker[x]
    BY <1>0, <1>3 DEF LocalDiscoverFails, Become, Free, IsSync, InRequest
  <2>3. worker[w].job \in JobIds /\ jobs[worker[w].job].status # "pending"
    BY <2>1 DEF RequestsOwned
  <2>4. /\ JobIds' = JobIds
        /\ \A k \in JobIds :
             /\ k # worker[w].job => jobs'[k] = jobs[k]
             /\ k = worker[w].job => jobs'[k].agent = None /\ jobs'[k].status = "failed"
    BY <1>3, SetJobType DEF LocalDiscoverFails
  <2> QED
    BY <2>1, <2>2, <2>3, <2>4, QuietStep DEF InRequest, IsSync
<1>4. CASE Upsert(w) \/ MarkStale(w)
  <2>1. worker[w] \in Syncing /\ IsSync(w) /\ worker[w].op = "process"
    BY <1>4, WorkerKinds DEF Upsert, MarkStale, IsSync
  <2>2. PICK r \in Syncing :
          /\ Become(w, r)
          /\ r.op \in {"process", "finish"}
          /\ r.agent = worker[w].agent
          /\ r.job = worker[w].job
    <3>1. CASE Upsert(w)
      BY <3>1, UpsertRequest
    <3>2. CASE MarkStale(w)
      <4>1. \A r \in {[worker[w] EXCEPT !.op = "finish"],
                      [worker[w] EXCEPT !.op = "finish", !.failed = TRUE]} :
              /\ r \in Syncing
              /\ r.op = "finish"
              /\ r.agent = worker[w].agent
              /\ r.job = worker[w].job
        BY <2>1 DEF Syncing
      <4>2. \/ Become(w, [worker[w] EXCEPT !.op = "finish"])
            \/ Become(w, [worker[w] EXCEPT !.op = "finish", !.failed = TRUE])
        BY <3>2, Zenon DEF MarkStale
      <4> QED
        BY <4>1, <4>2
    <3> QED
      BY <1>4, <3>1, <3>2
  <2>3. /\ InRequest(w)' /\ IsSync(w)'
        /\ worker'[w].agent = worker[w].agent
        /\ worker'[w].job = worker[w].job
        /\ \A x \in Workers \ {w} : worker'[x] = worker[x]
    BY <1>0, <2>2 DEF Become, IsSync, InRequest
  <2>4. UNCHANGED jobs /\ UNCHANGED JobIds
    BY <1>4 DEF Upsert, MarkStale, JobIds
  <2> QED
    BY <2>1, <2>3, <2>4, QuietStep DEF InRequest, IsSync
<1>5. CASE ReviewWrite(w)
  <2>1. ~ InRequest(w) /\ ~ IsSync(w)
    BY <1>5 DEF ReviewWrite, InRequest, IsSync
  <2>2. /\ ~ InRequest(w)' /\ ~ IsSync(w)'
        /\ \A x \in Workers \ {w} : worker'[x] = worker[x]
    BY <1>0, <1>5 DEF ReviewWrite, Become, Free, IsSync, InRequest
  <2>3. UNCHANGED jobs /\ UNCHANGED JobIds
    BY <1>5 DEF ReviewWrite, JobIds
  <2> QED
    BY <2>1, <2>2, <2>3, QuietStep DEF InRequest, IsSync
<1> QED
  BY <1>1, <1>2, <1>3, <1>4, <1>5 DEF Handle

\* A sync started in w: the requests already under way are as before
LEMMA StartSyncOthers ==
  ASSUME ServerTypeOK, NEW w \in Workers, NEW r \in Syncing, StartSync(w, r)
  PROVE  /\ worker'[w].op = r.op /\ worker'[w].agent = r.agent /\ worker'[w].job = r.job
         /\ \A x \in Workers \ {w} : /\ worker'[x].op = worker[x].op
                                     /\ InRequest(x) => worker'[x].agent = worker[x].agent
                                     /\ IsSync(x) => /\ worker'[x].agent = worker[x].agent
                                                     /\ worker'[x].job = worker[x].job
<1>1. \A alone \in BOOLEAN : /\ [r EXCEPT !.alone = alone].op = r.op
                             /\ [r EXCEPT !.alone = alone].agent = r.agent
                             /\ [r EXCEPT !.alone = alone].job = r.job
  BY DEF Syncing
<1>2. \A x \in Workers : IsSync(x) =>
        /\ [worker[x] EXCEPT !.alone = FALSE].op = worker[x].op
        /\ [worker[x] EXCEPT !.alone = FALSE].agent = worker[x].agent
        /\ [worker[x] EXCEPT !.alone = FALSE].job = worker[x].job
  BY WorkerKinds DEF Syncing
<1> QED
  <2>1. PICK alone \in BOOLEAN : worker'[w] = [r EXCEPT !.alone = alone]
    BY StartSyncType
  <2>2. worker'[w].op = r.op /\ worker'[w].agent = r.agent /\ worker'[w].job = r.job
    BY <1>1, <2>1
  <2>3. ASSUME NEW x \in Workers \ {w}
        PROVE  /\ worker'[x].op = worker[x].op
               /\ InRequest(x) => worker'[x].agent = worker[x].agent
               /\ IsSync(x) => /\ worker'[x].agent = worker[x].agent
                               /\ worker'[x].job = worker[x].job
    BY <1>2, <2>3, StartSyncType
  <2> QED
    BY <2>2, <2>3

LEMMA OperateOwned ==
  ASSUME Owned, ServerTypeOK', UNCHANGED ag, NEW w \in Workers, Operate(w)
  PROVE  HeldJobs' /\ RequestsOwned' /\ JobOrder
<1> USE DEF Owned, TypeOK
<1>0. worker \in [Workers -> {Free} \cup Queueing \cup Syncing \cup Beating \cup Reviewing]
  BY DEF ServerTypeOK
<1>1. ~ InRequest(w) /\ ~ IsSync(w)
  <2>1. worker[w] = Free
    BY DEF Operate, TriggerAgent, TriggerAll, TriggerAccount, LocalStart, ReviewRead
  <2> QED
    BY <2>1 DEF Free, InRequest, IsSync
<1>2. CASE \E account \in Accounts : LocalStart(w, account)
  <2>1. PICK account \in Accounts : LocalStart(w, account)
    BY <1>2
  <2> DEFINE r == SyncRecord("discover", "local", account, None, NewJob, 0, {})
  <2>2. r \in Syncing /\ r.op = "discover" /\ r.job = NewJob
    BY SyncRecordType, JobIdsInterval DEF SyncRecord
  <2>3. StartSync(w, r)
    BY <2>1 DEF LocalStart
  <2>4. /\ worker'[w].op = "discover" /\ worker'[w].job = NewJob
        /\ \A x \in Workers \ {w} : /\ worker'[x].op = worker[x].op
                                    /\ InRequest(x) => worker'[x].agent = worker[x].agent
                                    /\ IsSync(x) => /\ worker'[x].agent = worker[x].agent
                                                    /\ worker'[x].job = worker[x].job
    <3> HIDE DEF r
    <3> QED
      BY <2>2, <2>3, StartSyncOthers
  <2>5. /\ JobIds' = JobIds \cup {NewJob}
        /\ NewJob \notin JobIds
        /\ \A j \in JobIds : jobs'[j] = jobs[j]
        /\ jobs'[NewJob].status # "pending"
    <3>1. CreateJob(account, None, "running")
      BY <2>1 DEF LocalStart
    <3>2. /\ JobIds' = JobIds \cup {NewJob}
          /\ \A j \in JobIds : jobs'[j] = jobs[j]
          /\ jobs'[NewJob] = [account |-> account, agent |-> None, status |-> "running"]
      BY <3>1, CreateJobType
    <3>3. NewJob \notin JobIds
      BY JobIdsInterval
    <3> QED
      BY <3>2, <3>3
  <2> QED
    BY <1>1, <2>4, <2>5, QuietStep DEF InRequest, IsSync
<1>3. CASE ~ \E account \in Accounts : LocalStart(w, account)
  <2>1. PICK r : Become(w, r) /\ r.op \in {"queue", "review"}
    <3>1. ASSUME NEW a, NEW account, TriggerAgent(w, a, account)
          PROVE  \E r : Become(w, r) /\ r.op \in {"queue", "review"}
      BY <3>1 DEF TriggerAgent
    <3>2. ASSUME TriggerAll(w)
          PROVE  \E r : Become(w, r) /\ r.op \in {"queue", "review"}
      BY <3>2 DEF TriggerAll
    <3>3. ASSUME NEW account, TriggerAccount(w, account)
          PROVE  \E r : Become(w, r) /\ r.op \in {"queue", "review"}
      BY <3>3 DEF TriggerAccount
    <3>4. ASSUME NEW a, NEW decision, ReviewRead(w, a, decision)
          PROVE  \E r : Become(w, r) /\ r.op \in {"queue", "review"}
      BY <3>4 DEF ReviewRead
    <3> QED
      BY <1>3, <3>1, <3>2, <3>3, <3>4, Zenon DEF Operate
  <2>2. /\ ~ InRequest(w)' /\ ~ IsSync(w)'
        /\ \A x \in Workers \ {w} : worker'[x] = worker[x]
    BY <1>0, <2>1 DEF Become, InRequest, IsSync
  <2>3. UNCHANGED jobs /\ UNCHANGED JobIds
    BY <1>3 DEF Operate, TriggerAgent, TriggerAll, TriggerAccount, ReviewRead, JobIds
  <2> QED
    BY <1>1, <2>2, <2>3, QuietStep DEF InRequest, IsSync
<1> QED
  BY <1>2, <1>3

\* A step of agents' records, of the cloud or of nothing
LEMMA RecordsOwned ==
  ASSUME Owned, ServerTypeOK', UNCHANGED <<jobs, worker, ag>>
  PROVE  HeldJobs' /\ RequestsOwned' /\ JobOrder
<1>1. UNCHANGED JobIds
  BY DEF JobIds
<1> QED
  BY <1>1, QuietStep DEF InRequest, IsSync

LEMMA DeleteAgentOwned ==
  ASSUME Owned, ServerTypeOK', UNCHANGED ag, NEW a \in Agents, DeleteAgent(a)
  PROVE  HeldJobs' /\ RequestsOwned' /\ JobOrder
<1>1. UNCHANGED worker
  BY DEF DeleteAgent
<1>2. /\ JobIds' = JobIds
      /\ \A j \in JobIds : /\ jobs'[j].status = jobs[j].status
                           /\ jobs'[j].agent \in {jobs[j].agent, None}
  BY DeleteAgentType DEF Owned, TypeOK
<1> QED
  BY <1>1, <1>2, QuietStep DEF InRequest, IsSync

\* An agent that drops its job, or keeps it, and waits for no answer
LEMMA AloneOwned ==
  ASSUME Owned, UNCHANGED <<jobs, worker>>, NEW a \in Agents, NEW r \in AgentState,
         Go(a, r), r.job \in {ag[a].job, None}, r.pc \notin {"pushing", "beating"}
  PROVE  HeldJobs' /\ RequestsOwned' /\ JobOrder
<1>1. UNCHANGED JobIds
  BY DEF JobIds
<1>2. /\ ag'[a] = r
      /\ \A b \in Agents \ {a} : ag'[b] = ag[b]
  BY DEF Go, Owned, TypeOK
<1>3. HeldJobs'
  BY <1>1, <1>2 DEF Owned, HeldJobs
<1>4. RequestsOwned'
  <2>1. None \notin JobIds
    BY DiscoveryAssumption DEF Owned, TypeOK, ServerTypeOK, JobIds
  <2> QED
    BY <1>1, <1>2, <2>1 DEF Owned, RequestsOwned, IsSync
<1>5. JobOrder
  BY DEF JobOrder
<1> QED
  BY <1>3, <1>4, <1>5

LEMMA NoneHeld ==
  ASSUME ServerTypeOK
  PROVE  None \notin JobIds
BY DiscoveryAssumption DEF ServerTypeOK, JobIds

LEMMA PushOwned ==
  ASSUME Owned, ServerTypeOK', NEW a \in Agents, NEW w \in AgentWorkers, Push(a, w)
  PROVE  HeldJobs' /\ RequestsOwned' /\ JobOrder
<1> DEFINE job == ag[a].job
           j == IF job = None THEN NewJob ELSE job
           r == SyncRecord("process", "agent", AgentAccount[a], a, j, ag[a].seen, ag[a].found)
<1>0. ServerTypeOK /\ w \in Workers /\ ag \in [Agents -> AgentState] /\ AgentAccount[a] \in Accounts
  BY DiscoveryAssumption DEF Owned, TypeOK, Workers
<1>1. worker[w] = Free /\ StartSync(w, r)
  BY DEF Push, Ingest
<1>2. ~ InRequest(w) /\ ~ IsSync(w)
  BY <1>1 DEF Free, InRequest, IsSync
<1>3. /\ JobIds \subseteq JobIds'
      /\ \A k \in JobIds : jobs'[k] = jobs[k]
      /\ j \in JobIds' /\ jobs'[j].status # "pending"
      /\ \A b \in Agents : ag[b].job = j => b = a
  <2>1. CASE job = None
    <3>1. CreateJob(AgentAccount[a], a, "running")
      BY <2>1 DEF Push, Ingest
    <3>2. /\ JobIds' = JobIds \cup {NewJob}
          /\ \A k \in JobIds : jobs'[k] = jobs[k]
          /\ jobs'[NewJob] = [account |-> AgentAccount[a], agent |-> a, status |-> "running"]
      BY <1>0, <3>1, CreateJobType
    <3>3. NewJob \notin JobIds /\ NewJob # None
      BY <1>0, JobIdsInterval, DiscoveryAssumption DEF JobNumbers
    <3> QED
      BY <2>1, <3>2, <3>3 DEF Owned, HeldJobs
  <2>2. CASE job # None
    BY <2>2 DEF Push, Ingest, Owned, HeldJobs, JobIds
  <2> QED
    BY <2>1, <2>2
<1>4. r \in Syncing /\ r.op = "process" /\ r.agent = a /\ r.job = j
  <2>1. j \in JobNumbers /\ ag[a].seen \in Nat /\ ag[a].found \in SUBSET Names
    BY <1>0, JobIdsInterval DEF AgentState
  <2> HIDE DEF j
  <2>2. r \in Syncing
    BY <1>0, <2>1, SyncRecordType
  <2> QED
    BY <2>2 DEF SyncRecord
<1>5. /\ worker'[w].op = "process" /\ worker'[w].agent = a /\ worker'[w].job = j
      /\ \A x \in Workers \ {w} : /\ worker'[x].op = worker[x].op
                                  /\ InRequest(x) => worker'[x].agent = worker[x].agent
                                  /\ IsSync(x) => /\ worker'[x].agent = worker[x].agent
                                                  /\ worker'[x].job = worker[x].job
  <2> HIDE DEF r
  <2> QED
    BY <1>0, <1>1, <1>4, StartSyncOthers
<1> HIDE DEF r, j
<1>6. /\ ag'[a].pc = "pushing" /\ ag'[a].worker = w /\ ag'[a].job = ag[a].job
      /\ \A b \in Agents \ {a} : ag'[b] = ag[b]
  <2>1. ag' = [ag EXCEPT ![a] = [ag[a] EXCEPT !.pc = "pushing", !.worker = w]]
    BY DEF Push, Go
  <2> QED
    BY <1>0, <2>1 DEF AgentState
<1>7. HeldJobs'
  BY <1>3, <1>6 DEF Owned, HeldJobs
<1>8. ASSUME NEW b \in Agents, (ag[b].pc \in {"pushing", "beating"})'
      PROVE  (/\ ag[b].worker \in Workers
              /\ worker[ag[b].worker].op \in {"process", "finish", "beat"}
              /\ worker[ag[b].worker].agent = b)'
  <2>1. CASE b = a
    BY <1>0, <1>5, <1>6, <2>1
  <2>2. CASE b # a
    BY <1>2, <1>5, <1>6, <1>8, <2>2 DEF Owned, RequestsOwned, InRequest
  <2> QED
    BY <2>1, <2>2
<1>9. ASSUME NEW x \in Workers, IsSync(x)'
      PROVE  (/\ worker[x].job \in JobIds
              /\ jobs[worker[x].job].status # "pending"
              /\ \A b \in Agents : ag[b].job = worker[x].job => worker[x].agent = b)'
  <2>1. CASE x = w
    BY <1>3, <1>5, <1>6, <2>1
  <2>2. CASE x # w
    BY <1>3, <1>5, <1>6, <1>9, <2>2 DEF Owned, RequestsOwned, IsSync
  <2> QED
    BY <2>1, <2>2
<1>10. JobOrder
  BY <1>3 DEF JobOrder
<1> QED
  BY <1>7, <1>8, <1>9, <1>10 DEF RequestsOwned

LEMMA SendBeatOwned ==
  ASSUME Owned, NEW a \in Agents, NEW w \in AgentWorkers, SendBeat(a, w)
  PROVE  HeldJobs' /\ RequestsOwned' /\ JobOrder
<1>0. ServerTypeOK /\ w \in Workers /\ ag \in [Agents -> AgentState]
  BY DEF Owned, TypeOK, Workers
<1>1. ~ InRequest(w) /\ ~ IsSync(w)
  BY DEF SendBeat, Heartbeat, Free, InRequest, IsSync
<1>2. /\ worker'[w].op = "beat" /\ worker'[w].agent = a
      /\ \A x \in Workers \ {w} : worker'[x] = worker[x]
  BY <1>0 DEF SendBeat, Heartbeat, Become, ServerTypeOK
<1>3. /\ ag'[a].pc = "beating" /\ ag'[a].worker = w /\ ag'[a].job = ag[a].job
      /\ \A b \in Agents \ {a} : ag'[b] = ag[b]
  <2>1. ag' = [ag EXCEPT ![a] = [ag[a] EXCEPT !.pc = "beating", !.worker = w]]
    BY DEF SendBeat, Go
  <2> QED
    BY <1>0, <2>1 DEF AgentState
<1>4. UNCHANGED jobs /\ UNCHANGED JobIds
  BY DEF SendBeat, Heartbeat, JobIds
<1>5. HeldJobs' /\ JobOrder
  BY <1>3, <1>4 DEF Owned, HeldJobs, JobOrder
<1>6. RequestsOwned'
  BY <1>0, <1>1, <1>2, <1>3, <1>4 DEF Owned, RequestsOwned, InRequest, IsSync
<1> QED
  BY <1>5, <1>6

\* After an answer an agent waits no longer, and after one to a push it keeps its
\* job or drops it
LEMMA AnsweredAgent ==
  ASSUME TypeOK, NEW a \in Agents, NEW job \in JobNumbers
  PROVE  /\ \A r \in {Retry(a), AfterSync(a)} : /\ r.pc \notin {"pushing", "beating"}
                                                /\ r.job \in {ag[a].job, None}
         /\ Looping.pc = "loop" /\ Looping.job = None
         /\ AfterBeat(a, job).pc \notin {"pushing", "beating"}
         /\ AfterBeat(a, job).job \in {job, None}
<1>1. ag[a] \in AgentState
  BY DEF TypeOK
<1>2. Down.pc = "down" /\ Down.job = None
  BY DEF Down
<1>3. AfterSync(a).pc \in {"beat", "loop"} /\ AfterSync(a).job = None
  BY DEF AfterSync, Looping, Down
<1>4. Looping.pc = "loop" /\ Looping.job = None
  BY DEF Looping, Down
<1>5. AfterBeat(a, job).pc \in {"scan", "loop"} /\ AfterBeat(a, job).job \in {job, None}
  BY DEF AfterBeat, Looping, Scanning, Down
<1>6. /\ [ag[a] EXCEPT !.pc = "push", !.worker = None, !.tries = @ + 1].pc = "push"
      /\ [ag[a] EXCEPT !.pc = "push", !.worker = None, !.tries = @ + 1].job = ag[a].job
  BY <1>1 DEF AgentState
<1> QED
  BY <1>3, <1>4, <1>5, <1>6 DEF Retry

LEMMA FinishSyncOwned ==
  ASSUME Owned, NEW w \in Workers, FinishSync(w)
  PROVE  HeldJobs' /\ RequestsOwned' /\ JobOrder
<1>0. TypeOK /\ ServerTypeOK /\ IsSync(w) /\ worker[w] \in Syncing
  BY WorkerKinds DEF Owned, TypeOK, FinishSync, Finish, IsSync
<1>1. /\ worker'[w] = Free
      /\ \A x \in Workers \ {w} : worker'[x] = worker[x]
  BY <1>0 DEF FinishSync, Finish, Become, ServerTypeOK
<1>2. /\ JobIds' = JobIds
      /\ \A j \in JobIds :
           \/ jobs'[j] = jobs[j]
           \/ /\ j = worker[w].job
              /\ jobs'[j].agent = worker[w].agent
              /\ jobs'[j].status \in {"completed", "failed"}
  <2>1. CASE UNCHANGED jobs
    BY <2>1 DEF JobIds
  <2>2. CASE SetJob(worker[w].job, worker[w].agent, Outcome(w))
    <3>1. Outcome(w) \in {"completed", "failed"} /\ worker[w].agent \in Agents \cup {None}
      BY <1>0 DEF Outcome, Syncing
    <3> QED
      BY <1>0, <2>2, <3>1, SetJobType
  <2> QED
    BY <2>1, <2>2 DEF FinishSync, Finish
<1>3. /\ jobs[worker[w].job].status # "pending"
      /\ \A a \in Agents : ag[a].job = worker[w].job => worker[w].agent = a
  BY <1>0 DEF Owned, RequestsOwned
<1>4. ASSUME NEW a \in Agents
      PROVE  \/ /\ ag'[a] = ag[a]
                /\ ~ (ag[a].worker = w /\ ag[a].pc \in {"pushing", "beating"})
             \/ /\ ag'[a].pc \notin {"pushing", "beating"}
                /\ ag'[a].job \in {ag[a].job, None}
  <2>1. ag'[a] = IF ag[a].worker = w /\ ag[a].pc \in {"pushing", "beating"}
                 THEN IF worker[w].failed THEN Retry(a) ELSE AfterSync(a)
                 ELSE ag[a]
    BY DEF FinishSync, Answer
  <2>2. \A r \in {Retry(a), AfterSync(a)} : /\ r.pc \notin {"pushing", "beating"}
                                            /\ r.job \in {ag[a].job, None}
    BY <1>0, AnsweredAgent DEF JobNumbers
  <2> QED
    BY <2>1, <2>2
<1>5. HeldJobs'
  BY <1>2, <1>3, <1>4 DEF Owned, HeldJobs
<1>6. RequestsOwned'
  <2>1. ASSUME NEW a \in Agents, (ag[a].pc \in {"pushing", "beating"})'
        PROVE  (/\ ag[a].worker \in Workers
                /\ worker[ag[a].worker].op \in {"process", "finish", "beat"}
                /\ worker[ag[a].worker].agent = a)'
    BY <1>1, <1>4, <2>1 DEF Owned, RequestsOwned
  <2>2. ASSUME NEW x \in Workers, IsSync(x)'
        PROVE  (/\ worker[x].job \in JobIds
                /\ jobs[worker[x].job].status # "pending"
                /\ \A a \in Agents : ag[a].job = worker[x].job => worker[x].agent = a)'
    <3>1. x # w /\ IsSync(x) /\ worker'[x] = worker[x]
      BY <1>1, <2>2 DEF IsSync, Free
    <3>2. worker[x].job \in JobIds /\ worker[x].job # None
      BY <1>0, <3>1, NoneHeld DEF Owned, RequestsOwned
    <3> QED
      BY <1>2, <1>4, <3>1, <3>2 DEF Owned, RequestsOwned
  <2> QED
    BY <2>1, <2>2 DEF RequestsOwned
<1>7. JobOrder
  <2>1. \A j \in JobIds : jobs[j].status \in {"pending", "running", "completed", "failed"}
    BY <1>0 DEF ServerTypeOK, JobIds, Job
  <2> QED
    BY <1>2, <1>3, <2>1 DEF JobOrder
<1> QED
  BY <1>5, <1>6, <1>7

LEMMA FinishBeatOwned ==
  ASSUME Owned, NEW w \in Workers, FinishBeat(w)
  PROVE  HeldJobs' /\ RequestsOwned' /\ JobOrder
<1>0. TypeOK /\ ServerTypeOK /\ worker[w].op = "beat" /\ ~ IsSync(w)
  BY DEF Owned, TypeOK, FinishBeat, Claim, ClaimNothing, IsSync
<1>1. /\ worker'[w] = Free
      /\ \A x \in Workers \ {w} : worker'[x] = worker[x]
  BY <1>0 DEF FinishBeat, Claim, ClaimNothing, Become, ServerTypeOK
<1>2. \A a \in Agents :
        ag[a].worker = w /\ ag[a].pc \in {"pushing", "beating"} => a = worker[w].agent
  BY DEF Owned, RequestsOwned
\* What both answers have in common: claimed is the set of jobs handed out
<1>3. ASSUME NEW claimed \in SUBSET JobIds, JobIds' = JobIds,
             \A j \in claimed : /\ jobs[j].status = "pending"
                                /\ jobs[j].agent = worker[w].agent
                                /\ jobs'[j].status = "running"
                                /\ jobs'[j].agent = jobs[j].agent,
             \A j \in JobIds \ claimed : jobs'[j] = jobs[j],
             \A a \in Agents :
               \/ /\ ag'[a] = ag[a]
                  /\ ~ (ag[a].worker = w /\ ag[a].pc \in {"pushing", "beating"})
               \/ /\ a = worker[w].agent
                  /\ ag'[a].pc \notin {"pushing", "beating"}
                  /\ ag'[a].job \in claimed \cup {None}
      PROVE  HeldJobs' /\ RequestsOwned' /\ JobOrder
  <2>1. HeldJobs'
    BY <1>3 DEF Owned, HeldJobs
  <2>2. ASSUME NEW a \in Agents, (ag[a].pc \in {"pushing", "beating"})'
        PROVE  (/\ ag[a].worker \in Workers
                /\ worker[ag[a].worker].op \in {"process", "finish", "beat"}
                /\ worker[ag[a].worker].agent = a)'
    BY <1>1, <1>3, <2>2 DEF Owned, RequestsOwned
  <2>3. ASSUME NEW x \in Workers, IsSync(x)'
        PROVE  (/\ worker[x].job \in JobIds
                /\ jobs[worker[x].job].status # "pending"
                /\ \A a \in Agents : ag[a].job = worker[x].job => worker[x].agent = a)'
    <3>1. x # w /\ IsSync(x) /\ worker'[x] = worker[x]
      BY <1>1, <2>3 DEF IsSync, Free
    <3>2. /\ worker[x].job \in JobIds \ claimed
          /\ worker[x].job # None
      BY <1>0, <1>3, <3>1, NoneHeld DEF Owned, RequestsOwned
    <3> QED
      BY <1>3, <3>1, <3>2 DEF Owned, RequestsOwned
  <2>4. JobOrder
    <3>1. \A j \in JobIds : jobs[j].status \in {"pending", "running", "completed", "failed"}
      BY <1>0 DEF ServerTypeOK, JobIds, Job
    <3> QED
      BY <1>3, <3>1 DEF JobOrder
  <2> QED
    BY <2>1, <2>2, <2>3, <2>4 DEF RequestsOwned
<1>4. ASSUME NEW j \in JobIds, Claim(w, j), Answer(w, LAMBDA a : AfterBeat(a, j))
      PROVE  HeldJobs' /\ RequestsOwned' /\ JobOrder
  <2>1. /\ JobIds' = JobIds
        /\ jobs'[j].status = "running" /\ jobs'[j].agent = jobs[j].agent
        /\ \A k \in JobIds \ {j} : jobs'[k] = jobs[k]
    BY <1>0, <1>4, ClaimType
  <2>2. jobs[j].status = "pending" /\ jobs[j].agent = worker[w].agent
    BY <1>4 DEF Claim, Claimable, Pending
  <2>3. j \in JobNumbers
    BY <1>0, JobIdsInterval
  <2>4. \A a \in Agents : ag'[a] = IF ag[a].worker = w /\ ag[a].pc \in {"pushing", "beating"}
                                   THEN AfterBeat(a, j) ELSE ag[a]
    BY <1>4 DEF Answer
  <2>5. \A a \in Agents : /\ AfterBeat(a, j).pc \notin {"pushing", "beating"}
                          /\ AfterBeat(a, j).job \in {j, None}
    BY <1>0, <2>3, AnsweredAgent
  <2> DEFINE claimed == {j}
  <2>6. /\ claimed \in SUBSET JobIds
        /\ \A k \in claimed : /\ jobs[k].status = "pending"
                              /\ jobs[k].agent = worker[w].agent
                              /\ jobs'[k].status = "running"
                              /\ jobs'[k].agent = jobs[k].agent
        /\ \A k \in JobIds \ claimed : jobs'[k] = jobs[k]
    BY <2>1, <2>2
  <2>7. \A a \in Agents :
          \/ /\ ag'[a] = ag[a]
             /\ ~ (ag[a].worker = w /\ ag[a].pc \in {"pushing", "beating"})
          \/ /\ a = worker[w].agent
             /\ ag'[a].pc \notin {"pushing", "beating"}
             /\ ag'[a].job \in claimed \cup {None}
    BY <1>2, <2>4, <2>5
  <2> HIDE DEF claimed
  <2> QED
    BY <1>3, <2>1, <2>6, <2>7
<1>5. ASSUME ClaimNothing(w), Answer(w, LAMBDA a : Looping)
      PROVE  HeldJobs' /\ RequestsOwned' /\ JobOrder
  <2>1. UNCHANGED jobs /\ JobIds' = JobIds
    BY <1>5 DEF ClaimNothing, JobIds
  <2>2. \A a \in Agents : ag'[a] = IF ag[a].worker = w /\ ag[a].pc \in {"pushing", "beating"}
                                   THEN Looping ELSE ag[a]
    BY <1>5 DEF Answer
  <2>3. Looping.pc = "loop" /\ Looping.job = None
    BY DEF Looping, Down
  <2>4. \A a \in Agents :
          \/ /\ ag'[a] = ag[a]
             /\ ~ (ag[a].worker = w /\ ag[a].pc \in {"pushing", "beating"})
          \/ /\ a = worker[w].agent
             /\ ag'[a].pc \notin {"pushing", "beating"}
             /\ ag'[a].job \in {} \cup {None}
    BY <1>2, <2>2, <2>3
  <2>5. {} \in SUBSET JobIds
    OBVIOUS
  <2> QED
    BY <1>3, <2>1, <2>4, <2>5
<1> QED
  BY <1>4, <1>5 DEF FinishBeat

LEMMA AgentAloneOwned ==
  ASSUME Owned, UNCHANGED <<jobs, worker>>, NEW a \in Agents,
         \/ Boot(a)
         \/ Scan(a) \/ PushRefused(a)
         \/ Timeout(a) \/ SyncTick(a) \/ BeatTick(a) \/ Crash(a)
  PROVE  HeldJobs' /\ RequestsOwned' /\ JobOrder
<1>1. TypeOK /\ ag[a] \in AgentState
  BY DEF Owned, TypeOK
<1>2. PICK r : /\ r \in AgentState /\ Go(a, r)
               /\ r.job \in {ag[a].job, None} /\ r.pc \notin {"pushing", "beating"}
  <2>1. \A r \in {Retry(a), AfterSync(a), Looping} :
          r.pc \notin {"pushing", "beating"} /\ r.job \in {ag[a].job, None}
    BY <1>1, AnsweredAgent DEF JobNumbers
  <2>2. /\ Down.pc = "down" /\ Down.job = None
        /\ \A first : /\ Scanning(None, first).pc = "scan" /\ Scanning(None, first).job = None
        /\ [Down EXCEPT !.pc = "beat"].pc = "beat" /\ [Down EXCEPT !.pc = "beat"].job = None
    BY DEF Down, Scanning
  <2>3. CASE Scan(a)
    <3>1. CASE Go(a, AfterSync(a))
      BY <1>1, <2>1, <3>1, AgentStates
    <3>2. CASE Go(a, [ag[a] EXCEPT !.pc = "push", !.found = cloud[AgentAccount[a]],
                                   !.seen = now, !.tries = 0])
      <4>1. ASSUME NEW found \in SUBSET Names, NEW seen \in Nat, NEW tries \in 0 .. MaxRetries
            PROVE  LET r == [ag[a] EXCEPT !.pc = "push", !.found = found,
                                          !.seen = seen, !.tries = tries]
                   IN r \in AgentState /\ r.pc = "push" /\ r.job = ag[a].job
        BY <1>1 DEF AgentState
      <4>2. /\ cloud[AgentAccount[a]] \in SUBSET Names /\ now \in Nat
            /\ 0 \in 0 .. MaxRetries
        BY <1>1, DiscoveryAssumption, AgentAssumption DEF TypeOK, ServerTypeOK, Times
      <4> QED
        BY <3>2, <4>1, <4>2
    <3> QED
      BY <2>3, <3>1, <3>2 DEF Scan
  <2>4. CASE PushRefused(a) \/ Timeout(a)
    <3>1. Go(a, Retry(a)) \/ Go(a, AfterSync(a)) \/ Go(a, Looping)
      BY <2>4 DEF PushRefused, Timeout
    <3>2. Retry(a) \in AgentState /\ AfterSync(a) \in AgentState /\ Looping \in AgentState
      BY <1>1, AgentStates
    <3> QED
      BY <2>1, <3>1, <3>2
  <2>5. CASE Boot(a) \/ SyncTick(a) \/ Crash(a)
    <3>1. Go(a, Scanning(None, TRUE)) \/ Go(a, Scanning(None, FALSE)) \/ Go(a, Down)
      BY <2>5 DEF Boot, SyncTick, Crash
    <3>2. /\ Scanning(None, TRUE) \in AgentState /\ Scanning(None, FALSE) \in AgentState
          /\ Down \in AgentState
      BY <1>1, AgentStates
    <3> QED
      BY <2>2, <3>1, <3>2
  <2>6. CASE BeatTick(a)
    <3>1. [Down EXCEPT !.pc = "beat"] \in AgentState
      BY <1>1, AgentStates DEF AgentState
    <3> QED
      BY <2>2, <2>6, <3>1 DEF BeatTick
  <2> QED
    BY <2>3, <2>4, <2>5, <2>6
<1> QED
  BY <1>2, AloneOwned

LEMMA OwnedStep ==
  Owned /\ [Next]_vars => Owned' /\ JobOrder
<1> SUFFICES ASSUME Owned, [Next]_vars PROVE HeldJobs' /\ RequestsOwned' /\ JobOrder
  BY TypeStep DEF Owned
<1>0. TypeOK' /\ ServerTypeOK'
  BY TypeStep DEF Owned, TypeOK
<1>1. ASSUME NEW w \in Workers, Serve(w)
      PROVE  HeldJobs' /\ RequestsOwned' /\ JobOrder
  BY <1>0, <1>1, HandleOwned, FinishSyncOwned, FinishBeatOwned DEF Serve
<1>2. ASSUME NEW a \in Agents, Proceed(a)
      PROVE  HeldJobs' /\ RequestsOwned' /\ JobOrder
  <2>1. CASE Boot(a) \/ Scan(a) \/ PushRefused(a)
    <3>1. UNCHANGED <<jobs, worker>>
      BY <2>1 DEF Boot, Register, Scan, PushRefused, server
    <3> QED
      BY <2>1, <3>1, AgentAloneOwned
  <2>2. CASE \E w \in AgentWorkers : Push(a, w)
    BY <1>0, <2>2, PushOwned
  <2> QED
    BY <1>2, <2>1, <2>2 DEF Proceed
<1>3. ASSUME NEW a \in Agents, Beat(a)
      PROVE  HeldJobs' /\ RequestsOwned' /\ JobOrder
  BY <1>3, SendBeatOwned DEF Beat
<1>4. ASSUME NEW w \in OperatorWorkers, Operate(w), UNCHANGED ag
      PROVE  HeldJobs' /\ RequestsOwned' /\ JobOrder
  BY <1>0, <1>4, OperateOwned DEF Workers
<1>5. ASSUME NEW a \in Agents, DeleteAgent(a), UNCHANGED ag
      PROVE  HeldJobs' /\ RequestsOwned' /\ JobOrder
  BY <1>0, <1>5, DeleteAgentOwned
<1>6. ASSUME NEW a \in Agents, (Expire(a) /\ UNCHANGED ag) \/ RegisterLost(a)
      PROVE  HeldJobs' /\ RequestsOwned' /\ JobOrder
  <2>1. UNCHANGED <<jobs, worker, ag>>
    BY <1>6 DEF Expire, RegisterLost, Register
  <2> QED
    BY <1>0, <2>1, RecordsOwned
<1>7. ASSUME NEW account \in Accounts, CloudChange(account), UNCHANGED ag
      PROVE  HeldJobs' /\ RequestsOwned' /\ JobOrder
  BY <1>0, <1>7, RecordsOwned DEF CloudChange
<1>8. ASSUME NEW a \in Agents, Timeout(a) \/ SyncTick(a) \/ BeatTick(a) \/ Crash(a)
      PROVE  HeldJobs' /\ RequestsOwned' /\ JobOrder
  <2>1. UNCHANGED <<jobs, worker>>
    BY <1>8 DEF Timeout, SyncTick, BeatTick, Crash, server
  <2> QED
    BY <1>8, <2>1, AgentAloneOwned
<1>9. CASE UNCHANGED vars
  BY <1>0, <1>9, RecordsOwned DEF vars
<1> QED
  BY <1>1, <1>2, <1>3, <1>4, <1>5, <1>6, <1>7, <1>8, <1>9 DEF Next, Environment

LEMMA InitOwned ==
  Init => Owned
<1> SUFFICES ASSUME Init PROVE HeldJobs /\ RequestsOwned
  BY InitType DEF Owned
<1>1. \A a \in Agents : ag[a].job = None /\ ag[a].pc = "down"
  BY DEF Init, Down
<1>2. \A w \in Workers : ~ IsSync(w)
  BY DEF Init, ServerInit, IsSync, Free
<1> QED
  BY <1>1, <1>2 DEF HeldJobs, RequestsOwned

LEMMA OwnedAlways ==
  Spec => []Owned
BY InitOwned, OwnedStep, PTL DEF Spec

\* The job in an agent's hands has been claimed, for it unless its record was
\* deleted, and by nobody else, and every request under way is for the job of
\* the agent that sent it, through every timeout, retry and crash
\* (handleAgentHeartbeat, ClaimPendingAgentSync, PushResources, handleIngest).
THEOREM WorkOwnedTheorem == Spec => []WorkOwned
<1>1. Owned => WorkOwned
  BY DEF Owned, WorkOwned
<1> QED
  BY <1>1, OwnedAlways, PTL

\* No job is reopened, and none done that nobody claimed: UpdateSyncJob never meets
\* a pending job, since an ingest only gets jobs that were claimed.
THEOREM JobLifecycleTheorem == Spec => JobLifecycle
<1>1. Owned /\ [Next]_vars => [JobOrder]_vars
  BY OwnedStep
<1> QED
  BY <1>1, OwnedAlways, PTL DEF Spec, JobLifecycle

(* What a server-side sync leaves. *)

Dates ==
  /\ \A account \in Accounts, n \in Names :
       resources[account][n] # None => resources[account][n].seen <= now
  /\ \A a \in Agents : ag[a].seen <= now
  /\ \A w \in Workers : IsSync(w) => worker[w].seen <= now /\ worker[w].sync <= now

\* A sync that is alone has no other of its account beside it
Lone(w) ==
  \A y \in Workers \ {w} : IsSync(y) => worker[y].account # worker[w].account

ActiveIn(held) == {n \in Names : held[n] # None /\ held[n].status = "active"}

\* What a local sync r that is alone knows of its account's resources: until it
\* marks, all but those it has written are older than it
SoundLocal(r, held) ==
  LET older(n) == held[n] = None \/ held[n].seen < r.sync
  IN /\ r.op = "discover" => \A n \in Names : older(n)
     /\ r.op = "process" =>
          /\ r.sync <= r.seen /\ r.todo \subseteq r.found
          /\ \A n \in Names \ r.found : older(n)
          /\ ~ r.failed =>
               \A n \in r.found \ r.todo : held[n] = [status |-> "active", seen |-> r.seen]
     /\ r.op = "finish" /\ ~ r.failed => ActiveIn(held) = r.found

LocalInv ==
  /\ TypeOK
  /\ Dates
  /\ \A w \in Workers :
       IsSync(w) /\ worker[w].alone =>
         /\ Lone(w)
         /\ worker[w].source = "local" => SoundLocal(worker[w], resources[worker[w].account])

\* No sync moves, and the account's rows and the time stay
LEMMA NoSyncStep ==
  ASSUME LocalInv, TypeOK', UNCHANGED <<resources, now>>,
         \A a \in Agents : ag'[a].seen <= now,
         \A w \in Workers : IsSync(w)' => IsSync(w) /\ worker'[w] = worker[w]
  PROVE  LocalInv'
<1>1. resources' = resources /\ now' = now
  OBVIOUS
<1>2. Dates'
  BY <1>1 DEF LocalInv, Dates
<1>3. ASSUME NEW w \in Workers, IsSync(w)', worker'[w].alone
      PROVE  /\ Lone(w)'
             /\ worker'[w].source = "local" => SoundLocal(worker'[w], resources[worker'[w].account])
  <2>1. IsSync(w) /\ worker'[w] = worker[w]
    BY <1>3
  <2> QED
    BY <1>3, <2>1 DEF LocalInv, Lone
<1> QED
  BY <1>1, <1>2, <1>3 DEF LocalInv

\* The dates of an agent's scans
LEMMA AgentDates ==
  ASSUME TypeOK, Dates, NEW a \in Agents
  PROVE  /\ Down.seen = 0 /\ Looping.seen = 0 /\ AfterSync(a).seen = 0
         /\ \A job, first : Scanning(job, first).seen = 0 /\ AfterBeat(a, job).seen = 0
         /\ Retry(a).seen \in {0, ag[a].seen}
         /\ 0 <= now /\ now \in Nat
<1>1. PICK r : r = ag[a] /\ r \in AgentState
  BY DEF TypeOK
<1>2. Down.seen = 0 /\ Looping.seen = 0 /\ AfterSync(a).seen = 0
  BY DEF Down, Looping, AfterSync
<1>3. \A job, first : Scanning(job, first).seen = 0 /\ AfterBeat(a, job).seen = 0
  BY <1>2 DEF Down, Scanning, AfterBeat
<1>4. [r EXCEPT !.pc = "push", !.worker = None, !.tries = @ + 1].seen = r.seen
  BY <1>1 DEF AgentState
<1> QED
  BY <1>1, <1>2, <1>3, <1>4, DiscoveryAssumption DEF Retry, TypeOK, ServerTypeOK, Times

\* A sync begins: what is stored is older
LEMMA StartExact ==
  ASSUME LocalInv, TypeOK', UNCHANGED resources, now' = now + 1,
         \A a \in Agents : ag'[a].seen <= now,
         NEW w \in Workers, NEW r \in Syncing, StartSync(w, r),
         r.seen <= now, r.sync = now + 1, r.source = "local" => r.op = "discover"
  PROVE  LocalInv'
<1>1. resources' = resources /\ now \in Nat /\ now <= now'
  BY DiscoveryAssumption DEF LocalInv, TypeOK, ServerTypeOK, Times
<1> DEFINE alone == \A y \in Workers \ {w} : ~ (IsSync(y) /\ worker[y].account = r.account)
<1>2. PICK lone : lone = alone
  OBVIOUS
<1>3. PICK s : s = [r EXCEPT !.alone = lone]
  OBVIOUS
<1>4. s.op = r.op /\ s.source = r.source /\ s.account = r.account /\ s.seen = r.seen
      /\ s.sync = r.sync /\ s.alone = lone /\ s.failed = r.failed
  BY <1>3 DEF Syncing
<1>5. worker'[w] = s
  BY <1>2, <1>3 DEF StartSync
<1>6. ASSUME NEW x \in Workers \ {w}
      PROVE  \/ worker'[x] = worker[x] /\ ~ (IsSync(x) /\ worker[x].account = r.account)
             \/ /\ IsSync(x) /\ worker[x] \in Syncing /\ worker[x].account = r.account
                /\ worker'[x] = [worker[x] EXCEPT !.alone = FALSE]
  BY WorkerKinds DEF StartSync, LocalInv, TypeOK
<1>7. ASSUME NEW x \in Workers \ {w}, IsSync(x)'
      PROVE  /\ IsSync(x) /\ worker'[x].account = worker[x].account
             /\ worker'[x].seen = worker[x].seen /\ worker'[x].sync = worker[x].sync
             /\ worker'[x].alone => worker'[x] = worker[x] /\ worker[x].account # r.account
  BY <1>6, <1>7 DEF IsSync, Syncing
<1>8. Dates'
  <2>1. \A account \in Accounts, n \in Names :
          resources'[account][n] # None => resources'[account][n].seen <= now'
    <3>1. \A account \in Accounts, n \in Names :
            resources[account][n] # None => resources[account][n].seen \in Nat
      BY DEF LocalInv, TypeOK, ServerTypeOK, Resource
    <3> QED
      BY <1>1, <3>1 DEF LocalInv, Dates
  <2>2. \A a \in Agents : ag'[a].seen <= now'
    <3>1. \A a \in Agents : ag'[a].seen \in Nat
      BY DEF TypeOK, AgentState
    <3> QED
      BY <1>1, <3>1
  <2>3. ASSUME NEW x \in Workers, IsSync(x)'
        PROVE  worker'[x].seen <= now' /\ worker'[x].sync <= now'
    <3>1. CASE x = w
      BY <1>1, <1>4, <1>5, <3>1 DEF Syncing
    <3>2. CASE x # w
      <4>1. /\ IsSync(x) /\ worker[x].seen \in Nat /\ worker'[x].seen = worker[x].seen
            /\ worker[x].sync \in Nat /\ worker'[x].sync = worker[x].sync
        BY <1>7, <2>3, <3>2, WorkerKinds DEF LocalInv, TypeOK, Syncing
      <4> QED
        BY <1>1, <4>1 DEF LocalInv, Dates
    <3> QED
      BY <3>1, <3>2
  <2> QED
    BY <2>1, <2>2, <2>3 DEF Dates
<1>9. ASSUME NEW x \in Workers, IsSync(x)', worker'[x].alone
      PROVE  /\ Lone(x)'
             /\ worker'[x].source = "local" => SoundLocal(worker'[x], resources[worker'[x].account])
  <2>1. CASE x = w
    <3>1. lone
      BY <1>4, <1>5, <1>9, <2>1
    <3>2. Lone(x)'
      BY <1>2, <1>4, <1>5, <1>7, <2>1, <3>1 DEF Lone
    <3>3. ASSUME s.source = "local" PROVE SoundLocal(s, resources[s.account])
      <4>1. s.op = "discover" /\ s.sync = now + 1 /\ s.account \in Accounts
        BY <1>4, <3>3 DEF Syncing
      <4>2. ASSUME NEW n \in Names, resources[s.account][n] # None
            PROVE  resources[s.account][n].seen < s.sync
        <5>1. resources[s.account][n].seen \in Nat /\ resources[s.account][n].seen <= now
          BY <4>1, <4>2 DEF LocalInv, Dates, TypeOK, ServerTypeOK, Resource
        <5> QED
          BY <1>1, <4>1, <5>1
      <4> QED
        BY <4>1, <4>2 DEF SoundLocal
    <3> QED
      BY <1>5, <2>1, <3>2, <3>3
  <2>2. CASE x # w
    <3>1. IsSync(x) /\ worker'[x] = worker[x] /\ worker[x].account # r.account
      BY <1>7, <1>9, <2>2
    <3>2. Lone(x) /\ (worker[x].source = "local" => SoundLocal(worker[x], resources[worker[x].account]))
      BY <1>9, <3>1 DEF LocalInv
    <3>3. Lone(x)'
      BY <1>4, <1>5, <1>7, <3>1, <3>2 DEF Lone
    <3> QED
      BY <3>1, <3>2, <3>3
  <2> QED
    BY <2>1, <2>2
<1> QED
  BY <1>1, <1>8, <1>9 DEF LocalInv

\* One sync moves on; it writes, if at all, to its own account, and what it
\* writes is no later than now
LEMMA OneSyncStep ==
  ASSUME LocalInv, TypeOK', UNCHANGED <<now, ag>>, NEW w \in Workers, IsSync(w),
         NEW s, worker' = [worker EXCEPT ![w] = s],
         s.account = worker[w].account, s.alone = worker[w].alone, s.source = worker[w].source,
         s.seen <= now, s.sync = worker[w].sync,
         \A account \in Accounts : account # worker[w].account => resources'[account] = resources[account],
         \A n \in Names : LET held == resources'[worker[w].account]
                          IN held[n] # None => held[n].seen <= now,
         s.alone /\ s.source = "local" => SoundLocal(s, resources'[worker[w].account])
  PROVE  LocalInv'
<1>1. now' = now /\ ag' = ag /\ worker[w] \in Syncing
  BY WorkerKinds DEF LocalInv, TypeOK
<1>2. worker'[w] = s /\ \A x \in Workers \ {w} : worker'[x] = worker[x]
  BY DEF LocalInv, TypeOK, ServerTypeOK
<1>3. Dates'
  <2>1. ASSUME NEW account \in Accounts, NEW n \in Names, resources'[account][n] # None
        PROVE  resources'[account][n].seen <= now
    BY <2>1 DEF LocalInv, Dates
  <2>2. \A x \in Workers : IsSync(x)' => worker'[x].seen <= now /\ worker'[x].sync <= now
    BY <1>2 DEF LocalInv, Dates, IsSync
  <2> QED
    BY <1>1, <2>1, <2>2 DEF LocalInv, Dates
<1>4. ASSUME NEW x \in Workers, IsSync(x)', worker'[x].alone
      PROVE  /\ Lone(x)'
             /\ worker'[x].source = "local" => SoundLocal(worker'[x], resources'[worker'[x].account])
  <2>1. \A y \in Workers : IsSync(y)' => IsSync(y) /\ worker'[y].account = worker[y].account
    BY <1>2 DEF IsSync
  <2>2. IsSync(x) /\ worker[x].alone /\ worker'[x].account = worker[x].account
    BY <1>2, <1>4, <2>1
  <2>3. Lone(x)
    BY <2>2 DEF LocalInv
  <2>4. Lone(x)'
    BY <2>1, <2>2, <2>3 DEF Lone
  <2>5. CASE x = w
    BY <1>2, <1>4, <2>4, <2>5
  <2>6. CASE x # w
    <3>1. worker[x].account # worker[w].account /\ worker[x].account \in Accounts
      BY <2>2, <2>3, <2>6, WorkerKinds DEF Lone, LocalInv, TypeOK, Syncing
    <3>2. worker[x].source = "local" => SoundLocal(worker[x], resources[worker[x].account])
      BY <2>2 DEF LocalInv
    <3> QED
      BY <1>2, <2>4, <2>6, <3>1, <3>2
  <2> QED
    BY <2>5, <2>6
<1> QED
  BY <1>3, <1>4 DEF LocalInv

LEMMA DiscoverExact ==
  ASSUME LocalInv, TypeOK', NEW w \in Workers, LocalDiscover(w), UNCHANGED ag
  PROVE  LocalInv'
<1>1. PICK r, held, seen, found :
        /\ r = worker[w] /\ held = resources[r.account] /\ seen = now /\ found = cloud[r.account]
  OBVIOUS
<1>2. IsSync(w) /\ r \in Syncing /\ r.op = "discover"
  BY <1>1, WorkerKinds DEF LocalInv, TypeOK, LocalDiscover, IsSync
<1>3. PICK s : s = [r EXCEPT !.op = "process", !.seen = seen, !.found = found, !.todo = found]
  OBVIOUS
<1>4. /\ s.op = "process" /\ s.seen = seen /\ s.found = found /\ s.todo = found
      /\ s.account = r.account /\ s.alone = r.alone /\ s.source = r.source /\ s.sync = r.sync
  BY <1>2, <1>3 DEF Syncing
<1>5. worker' = [worker EXCEPT ![w] = s] /\ UNCHANGED <<now, resources>>
  BY <1>1, <1>3 DEF LocalDiscover, Become
<1>6. now \in Nat /\ r.sync <= now /\ r.account \in Accounts
  BY <1>1, <1>2, DiscoveryAssumption DEF LocalInv, Dates, TypeOK, ServerTypeOK, Times, Syncing
<1>7. ASSUME s.alone, s.source = "local" PROVE SoundLocal(s, held)
  <2>1. SoundLocal(r, held)
    BY <1>1, <1>2, <1>4, <1>7 DEF LocalInv
  <2> QED
    BY <1>1, <1>2, <1>4, <1>6, <2>1 DEF SoundLocal
<1>8. \A n \in Names : held[n] # None => held[n].seen <= now
  BY <1>1, <1>6 DEF LocalInv, Dates
<1>9. /\ s.account = worker[w].account /\ s.alone = worker[w].alone /\ s.source = worker[w].source
      /\ s.sync = worker[w].sync /\ s.seen <= now /\ resources'[worker[w].account] = held
  BY <1>1, <1>4, <1>5, <1>6
<1> QED
  BY <1>2, <1>5, <1>7, <1>8, <1>9, OneSyncStep

LEMMA UpsertExact ==
  ASSUME LocalInv, TypeOK', NEW w \in Workers, Upsert(w), UNCHANGED ag
  PROVE  LocalInv'
<1>1. PICK r, held : r = worker[w] /\ held = resources[r.account]
  OBVIOUS
<1>2. /\ IsSync(w) /\ r \in Syncing /\ r.op = "process" /\ r.account \in Accounts
      /\ r.todo \subseteq Names /\ r.seen <= now /\ UNCHANGED now
  BY <1>1, WorkerKinds DEF LocalInv, Dates, TypeOK, Upsert, IsSync, Syncing
<1>3. PICK n, failed, row :
        /\ n \in r.todo /\ failed \in BOOLEAN
        /\ row = [status |-> "active", seen |-> r.seen]
        /\ worker' = [worker EXCEPT ![w] = [r EXCEPT !.todo = @ \ {n}, !.failed = failed]]
        /\ r.failed => failed
        /\ \/ resources' = [resources EXCEPT ![r.account][n] = row]
           \/ resources' = resources /\ failed
  <2>1. PICK n \in r.todo :
          \/ /\ resources' = [resources EXCEPT ![r.account][n] = [status |-> "active", seen |-> r.seen]]
             /\ \E lookupFails \in {FALSE, StoreErrors} :
                  Become(w, [r EXCEPT !.todo = @ \ {n}, !.failed = @ \/ lookupFails])
          \/ /\ resources' = resources
             /\ Become(w, [r EXCEPT !.todo = @ \ {n}, !.failed = TRUE])
    BY <1>1, Zenon DEF Upsert
  <2>2. PICK row : row = [status |-> "active", seen |-> r.seen]
    OBVIOUS
  <2>3. CASE /\ resources' = resources
             /\ Become(w, [r EXCEPT !.todo = @ \ {n}, !.failed = TRUE])
    <3>1. PICK failed \in BOOLEAN : failed = TRUE
      OBVIOUS
    <3>2. worker' = [worker EXCEPT ![w] = [r EXCEPT !.todo = @ \ {n}, !.failed = failed]]
      BY <2>3, <3>1 DEF Become
    <3> QED
      BY <2>2, <2>3, <3>1, <3>2
  <2>4. ASSUME resources' = [resources EXCEPT ![r.account][n] = [status |-> "active", seen |-> r.seen]],
               NEW lookupFails \in {FALSE, StoreErrors},
               Become(w, [r EXCEPT !.todo = @ \ {n}, !.failed = @ \/ lookupFails])
        PROVE  \E failed \in BOOLEAN :
                 /\ worker' = [worker EXCEPT ![w] = [r EXCEPT !.todo = @ \ {n}, !.failed = failed]]
                 /\ r.failed => failed
    <3>1. PICK failed \in BOOLEAN : failed = (r.failed \/ lookupFails)
      OBVIOUS
    <3>2. worker' = [worker EXCEPT ![w] = [r EXCEPT !.todo = @ \ {n}, !.failed = failed]]
      BY <2>4, <3>1, Zenon DEF Become
    <3>3. r.failed => failed
      BY <3>1
    <3> QED
      BY <3>2, <3>3
  <2> QED
    BY <2>1, <2>2, <2>3, <2>4
<1>4. PICK s, held2 : /\ s = [r EXCEPT !.todo = r.todo \ {n}, !.failed = failed]
                      /\ held2 = resources'[r.account]
  OBVIOUS
<1>5. /\ s.op = "process" /\ s.seen = r.seen /\ s.found = r.found /\ s.todo = r.todo \ {n}
      /\ s.account = r.account /\ s.alone = r.alone /\ s.source = r.source /\ s.sync = r.sync
      /\ s.failed = failed
  BY <1>2, <1>4 DEF Syncing
<1>6. /\ \A m \in Names \ {n} : held2[m] = held[m]
      /\ n \in Names /\ (held2[n] = row \/ (held2[n] = held[n] /\ failed))
      /\ \A account \in Accounts : account # r.account => resources'[account] = resources[account]
  BY <1>1, <1>2, <1>3, <1>4 DEF LocalInv, TypeOK, ServerTypeOK
<1>7. \A m \in Names : held2[m] # None => held2[m].seen <= now
  <2>1. \A m \in Names : held[m] # None => held[m].seen <= now
    BY <1>1, <1>2 DEF LocalInv, Dates
  <2>2. row.seen <= now
    BY <1>2, <1>3
  <2>3. ASSUME NEW m \in Names, held2[m] # None PROVE held2[m].seen <= now
    BY <1>6, <2>1, <2>2, <2>3
  <2> QED
    BY <1>2, <2>3
<1>8. ASSUME s.alone, s.source = "local" PROVE SoundLocal(s, held2)
  <2>1. SoundLocal(r, held)
    BY <1>1, <1>2, <1>5, <1>8 DEF LocalInv
  <2>2. /\ r.sync <= r.seen /\ r.todo \subseteq r.found
        /\ \A m \in Names \ r.found : held[m] = None \/ held[m].seen < r.sync
        /\ ~ r.failed => \A m \in r.found \ r.todo : held[m] = row
    BY <1>2, <1>3, <2>1 DEF SoundLocal
  <2>3. \A m \in Names \ r.found : held2[m] = None \/ held2[m].seen < r.sync
    BY <1>3, <1>6, <2>2
  <2>4. ASSUME ~ failed, NEW m \in r.found \ (r.todo \ {n}) PROVE held2[m] = row
    <3>1. r.found \subseteq Names
      BY <1>2 DEF Syncing
    <3> QED
      BY <1>3, <1>6, <2>2, <2>4, <3>1
  <2> QED
    BY <1>3, <1>5, <2>2, <2>3, <2>4 DEF SoundLocal
<1>9. /\ s.account = worker[w].account /\ s.alone = worker[w].alone /\ s.source = worker[w].source
      /\ s.sync = worker[w].sync /\ s.seen <= now /\ resources'[worker[w].account] = held2
      /\ worker' = [worker EXCEPT ![w] = s]
  BY <1>1, <1>2, <1>3, <1>4, <1>5
<1> QED
  BY <1>1, <1>2, <1>6, <1>7, <1>8, <1>9, OneSyncStep

LEMMA MarkExact ==
  ASSUME LocalInv, TypeOK', NEW w \in Workers, MarkStale(w), UNCHANGED ag
  PROVE  LocalInv'
<1>1. PICK r, held, held2 : r = worker[w] /\ held = resources[r.account] /\ held2 = resources'[r.account]
  OBVIOUS
<1>2. /\ IsSync(w) /\ r \in Syncing /\ r.op = "process" /\ r.todo = {} /\ r.account \in Accounts
      /\ r.seen <= now /\ UNCHANGED now
  BY <1>1, WorkerKinds DEF LocalInv, Dates, TypeOK, MarkStale, IsSync, Syncing
<1>3. PICK failed \in BOOLEAN :
        /\ worker' = [worker EXCEPT ![w] = [r EXCEPT !.op = "finish", !.failed = failed]]
        /\ \/ /\ failed = r.failed
              /\ \A n \in Names : held2[n] = IF /\ held[n] # None
                                                /\ held[n].status = "active"
                                                /\ held[n].seen < r.sync
                                             THEN [held[n] EXCEPT !.status = "stale"]
                                             ELSE held[n]
           \/ failed /\ held2 = held
        /\ \A account \in Accounts : account # r.account => resources'[account] = resources[account]
  <2>1. CASE /\ resources' =
                  [resources EXCEPT ![worker[w].account] =
                     [n \in Names |->
                        IF /\ @[n] # None
                           /\ @[n].status = "active"
                           /\ @[n].seen < worker[w].sync
                        THEN [@[n] EXCEPT !.status = "stale"]
                        ELSE @[n]]]
             /\ Become(w, [worker[w] EXCEPT !.op = "finish"])
    <3>1. [r EXCEPT !.op = "finish"] = [r EXCEPT !.op = "finish", !.failed = r.failed]
      BY <1>2 DEF Syncing
    <3>2. worker' = [worker EXCEPT ![w] = [r EXCEPT !.op = "finish", !.failed = r.failed]]
      BY <1>1, <2>1, <3>1 DEF Become
    <3>3. r.failed \in BOOLEAN
      BY <1>2 DEF Syncing
    <3>4. \A n \in Names : held2[n] = IF /\ held[n] # None
                                         /\ held[n].status = "active"
                                         /\ held[n].seen < r.sync
                                      THEN [held[n] EXCEPT !.status = "stale"]
                                      ELSE held[n]
      BY <1>1, <1>2, <2>1 DEF LocalInv, TypeOK, ServerTypeOK
    <3>5. \A account \in Accounts : account # r.account => resources'[account] = resources[account]
      BY <1>1, <1>2, <2>1 DEF LocalInv, TypeOK, ServerTypeOK
    <3> QED
      BY <3>2, <3>3, <3>4, <3>5
  <2>2. CASE resources' = resources /\ Become(w, [worker[w] EXCEPT !.op = "finish", !.failed = TRUE])
    <3>1. PICK failed \in BOOLEAN : failed = TRUE
      OBVIOUS
    <3>2. worker' = [worker EXCEPT ![w] = [r EXCEPT !.op = "finish", !.failed = failed]]
      BY <1>1, <2>2, <3>1 DEF Become
    <3> QED
      BY <1>1, <2>2, <3>1, <3>2
  <2> QED
    BY <2>1, <2>2 DEF MarkStale
<1>4. PICK s : s = [r EXCEPT !.op = "finish", !.failed = failed]
  OBVIOUS
<1>5. /\ s.op = "finish" /\ s.seen = r.seen /\ s.found = r.found
      /\ s.account = r.account /\ s.alone = r.alone /\ s.source = r.source /\ s.sync = r.sync
      /\ s.failed = failed
  BY <1>2, <1>4 DEF Syncing
<1>6. ASSUME NEW n \in Names
      PROVE  \/ /\ held2[n] = held[n]
                /\ failed \/ held[n] = None \/ held[n].status # "active" \/ ~ (held[n].seen < r.sync)
             \/ /\ held[n] # None /\ held[n].seen < r.sync
                /\ held2[n].status = "stale" /\ held2[n].seen = held[n].seen
  <2>1. PICK a : a = held[n] /\ a \in Resource \cup {None}
    BY <1>1, <1>2 DEF LocalInv, TypeOK, ServerTypeOK
  <2>2. PICK stale : stale = "stale"
    OBVIOUS
  <2>3. PICK b : b = [a EXCEPT !.status = stale]
    OBVIOUS
  <2>4. a # None => b \in Resource /\ b.status = stale /\ b.seen = a.seen
    BY <2>1, <2>2, <2>3 DEF Resource
  <2> QED
    BY <1>3, <2>1, <2>2, <2>3, <2>4
<1>7. \A n \in Names : held2[n] # None => held2[n].seen <= now
  <2>1. \A n \in Names : held[n] # None => held[n].seen <= now
    BY <1>1, <1>2 DEF LocalInv, Dates
  <2> QED
    BY <1>6, <2>1
<1>8. ASSUME s.alone, s.source = "local" PROVE SoundLocal(s, held2)
  <2>1. SoundLocal(r, held)
    BY <1>1, <1>2, <1>5, <1>8 DEF LocalInv
  <2>2. ASSUME ~ failed PROVE ActiveIn(held2) = r.found
    <3>1. PICK row : row = [status |-> "active", seen |-> r.seen]
      OBVIOUS
    <3>2. /\ r.sync <= r.seen /\ r.found \subseteq Names
          /\ \A n \in Names \ r.found : held[n] = None \/ held[n].seen < r.sync
          /\ \A n \in r.found : held[n] = row
      BY <1>2, <1>3, <2>1, <2>2, <3>1 DEF SoundLocal, Syncing
    <3>3. r.sync \in Nat /\ r.seen \in Nat /\ row.seen = r.seen /\ row.status = "active"
      BY <1>2, <3>1 DEF Syncing
    <3>4. ASSUME NEW n \in r.found PROVE held2[n] = row
      BY <1>6, <3>2, <3>3
    <3>5. ASSUME NEW n \in Names \ r.found, held2[n] # None PROVE held2[n].status # "active"
      BY <1>3, <1>6, <2>2, <3>2, <3>5
    <3>6. row # None
      <4>1. PICK a : a \in Resource /\ a = row
        BY <1>2, <3>1 DEF Resource, Syncing
      <4> QED
        BY <4>1, DiscoveryAssumption DEF Resource
    <3> QED
      BY <3>2, <3>3, <3>4, <3>5, <3>6 DEF ActiveIn
  <2> QED
    BY <1>5, <2>2 DEF SoundLocal
<1>9. /\ s.account = worker[w].account /\ s.alone = worker[w].alone /\ s.source = worker[w].source
      /\ s.sync = worker[w].sync /\ s.seen <= now /\ resources'[worker[w].account] = held2
      /\ worker' = [worker EXCEPT ![w] = s]
  BY <1>1, <1>2, <1>3, <1>4, <1>5
<1> QED
  BY <1>1, <1>2, <1>3, <1>7, <1>8, <1>9, OneSyncStep

\* An agent moves by itself: what it has scanned, it has scanned by now
LEMMA AgentAloneExact ==
  ASSUME LocalInv, TypeOK', NEW a \in Agents, UNCHANGED <<resources, now, worker>>,
         Boot(a) \/ Scan(a) \/ PushRefused(a) \/ Timeout(a) \/ SyncTick(a) \/ BeatTick(a) \/ Crash(a)
  PROVE  LocalInv'
<1>1. PICK s : ag' = [ag EXCEPT ![a] = s] /\ s.seen <= now
  <2>1. PICK r : r = ag[a] /\ r \in AgentState /\ r.seen <= now
    BY DEF LocalInv, Dates, TypeOK
  <2>2. /\ now \in Nat /\ Down.seen <= now /\ Looping.seen <= now /\ AfterSync(a).seen <= now
        /\ Retry(a).seen <= now /\ \A job, first : Scanning(job, first).seen <= now
    BY <2>1, AgentDates DEF LocalInv
  <2>3. CASE Boot(a) \/ SyncTick(a) \/ Crash(a)
    BY <2>2, <2>3 DEF Boot, SyncTick, Crash, Go
  <2>4. CASE PushRefused(a)
    BY <2>2, <2>4 DEF PushRefused, Go
  <2>5. CASE Timeout(a)
    BY <2>2, <2>5 DEF Timeout, Go
  <2>6. CASE BeatTick(a)
    <3>1. PICK s : s = [Down EXCEPT !.pc = "beat"]
      OBVIOUS
    <3>2. s.seen = Down.seen
      BY <3>1 DEF Down
    <3> QED
      BY <2>2, <2>6, <3>1, <3>2 DEF BeatTick, Go
  <2>7. CASE Scan(a)
    <3>1. PICK found, seen, zero : found = cloud[AgentAccount[a]] /\ seen = now /\ zero = 0
      OBVIOUS
    <3>2. PICK s : s = [r EXCEPT !.pc = "push", !.found = found, !.seen = seen, !.tries = zero]
      OBVIOUS
    <3>3. s.seen = seen
      BY <2>1, <3>2 DEF AgentState
    <3>4. Go(a, s) \/ Go(a, AfterSync(a))
      BY <2>1, <2>7, <3>1, <3>2 DEF Scan
    <3> QED
      BY <2>2, <3>1, <3>3, <3>4 DEF Go
  <2> QED
    BY <2>3, <2>4, <2>5, <2>6, <2>7
<1>2. \A b \in Agents : ag'[b].seen <= now
  BY <1>1 DEF LocalInv, Dates, TypeOK
<1> QED
  BY <1>2, NoSyncStep DEF IsSync

\* A goroutine that does not sync goes on, or one that does ends
LEMMA OtherExact ==
  ASSUME LocalInv, TypeOK', NEW w \in Workers, NEW s, s.op \notin {"discover", "process", "finish"},
         worker' = [worker EXCEPT ![w] = s], UNCHANGED <<resources, now>>,
         \A a \in Agents : ag'[a].seen <= now
  PROVE  LocalInv'
<1>1. \A x \in Workers : IsSync(x)' => IsSync(x) /\ worker'[x] = worker[x]
  BY DEF LocalInv, TypeOK, ServerTypeOK, IsSync
<1> QED
  BY <1>1, NoSyncStep

LEMMA LocalStep ==
  LocalInv /\ [Next]_vars => LocalInv'
<1> SUFFICES ASSUME LocalInv, [Next]_vars PROVE LocalInv'
  OBVIOUS
<1>1. TypeOK' /\ now \in Nat /\ \A a \in Agents : ag[a].seen <= now
  BY TypeStep, DiscoveryAssumption DEF LocalInv, Dates, TypeOK, ServerTypeOK, Times
<1>2. Free.op \notin {"discover", "process", "finish"}
  BY DEF Free
<1>3. ASSUME NEW w \in Workers, Handle(w), UNCHANGED ag PROVE LocalInv'
  <2>1. \A a \in Agents : ag'[a].seen <= now
    BY <1>1, <1>3
  <2>2. CASE LocalDiscoverFails(w) \/ ReviewWrite(w)
    BY <1>1, <1>2, <2>1, <2>2, OtherExact DEF LocalDiscoverFails, ReviewWrite, Become
  <2>3. CASE QueueJob(w)
    <3>1. PICK s : worker' = [worker EXCEPT ![w] = s] /\ s.op \notin {"discover", "process", "finish"}
      <4>1. PICK r : r = worker[w] /\ r \in Queueing
        BY <2>3, WorkerKinds DEF LocalInv, TypeOK, QueueJob
      <4>2. \A todo : [r EXCEPT !.todo = todo].op = "queue"
        BY <4>1 DEF Queueing
      <4>3. \/ worker' = [worker EXCEPT ![w] = Free]
            \/ \E t \in r.todo : worker' = [worker EXCEPT ![w] = [r EXCEPT !.todo = r.todo \ {t}]]
        BY <2>3, <4>1 DEF QueueJob, Become
      <4> QED
        BY <1>2, <4>2, <4>3
    <3> QED
      BY <1>1, <2>1, <2>3, <3>1, OtherExact DEF QueueJob
  <2> QED
    BY <1>1, <1>3, <2>2, <2>3, DiscoverExact, UpsertExact, MarkExact DEF Handle
<1>4. ASSUME NEW w \in Workers, FinishSync(w) \/ FinishBeat(w) PROVE LocalInv'
  <2>1. worker' = [worker EXCEPT ![w] = Free] /\ UNCHANGED <<resources, now>>
    BY <1>4 DEF FinishSync, FinishBeat, Finish, Claim, ClaimNothing, Become
  <2>2. ASSUME NEW a \in Agents PROVE ag'[a].seen <= now
    <3>1. /\ Looping.seen <= now /\ AfterSync(a).seen <= now /\ Retry(a).seen <= now
          /\ \A job : AfterBeat(a, job).seen <= now
      BY <1>1, AgentDates DEF LocalInv
    <3>2. ag'[a] = ag[a] \/ ag'[a] = Looping \/ ag'[a] = AfterSync(a) \/ ag'[a] = Retry(a)
          \/ \E job : ag'[a] = AfterBeat(a, job)
      BY <1>4 DEF FinishSync, FinishBeat, Answer
    <3> QED
      BY <1>1, <3>1, <3>2
  <2> QED
    BY <1>1, <1>2, <2>1, <2>2, OtherExact
<1>5. ASSUME NEW a \in Agents, NEW w \in AgentWorkers, Push(a, w) PROVE LocalInv'
  <2>1. w \in Workers /\ ag[a] \in AgentState /\ AgentAccount[a] \in Accounts
    BY DiscoveryAssumption DEF Workers, LocalInv, TypeOK
  <2>2. PICK job, found, seen : job = ag[a].job /\ found = ag[a].found /\ seen = ag[a].seen
                                /\ job \in JobNumbers \cup {None} /\ found \in SUBSET Names
                                /\ seen \in Nat /\ seen <= now
    BY <1>1, <2>1 DEF AgentState
  <2>3. Ingest(w, a, job, found, seen)
    BY <1>5, <2>2 DEF Push
  <2>4. PICK number \in JobNumbers : number = IF job = None THEN NewJob ELSE job
    BY <2>2, JobIdsInterval DEF LocalInv, TypeOK
  <2>5. PICK r : r = SyncRecord("process", "agent", AgentAccount[a], a, number, seen, found)
    OBVIOUS
  <2>6. r \in Syncing
    BY <2>1, <2>2, <2>5, SyncRecordType DEF LocalInv, TypeOK
  <2>7. StartSync(w, r) /\ now' = now + 1 /\ UNCHANGED resources
    BY <2>3, <2>4, <2>5 DEF Ingest
  <2>8. r.seen <= now /\ r.sync = now + 1 /\ r.source # "local"
    BY <2>2, <2>5 DEF SyncRecord
  <2>9. \A b \in Agents : ag'[b].seen <= now
    <3>1. PICK s, g : g = ag[a] /\ s = [g EXCEPT !.pc = "pushing", !.worker = w] /\ Go(a, s)
      BY <1>5 DEF Push
    <3>2. s.seen = g.seen
      BY <2>1, <3>1 DEF AgentState
    <3> QED
      BY <1>1, <3>1, <3>2 DEF Go, LocalInv, TypeOK
  <2> QED
    BY <1>1, <2>1, <2>6, <2>7, <2>8, <2>9, StartExact
<1>6. ASSUME NEW a \in Agents, NEW w \in AgentWorkers, SendBeat(a, w) PROVE LocalInv'
  <2>1. PICK s, g : g = ag[a] /\ s = [g EXCEPT !.pc = "beating", !.worker = w] /\ Go(a, s)
    BY <1>6 DEF SendBeat
  <2>2. s.seen = g.seen
    BY <2>1 DEF LocalInv, TypeOK, AgentState
  <2>3. \A b \in Agents : ag'[b].seen <= now
    BY <1>1, <2>1, <2>2 DEF Go, LocalInv, TypeOK
  <2>4. PICK r : r = [op |-> "beat", agent |-> a] /\ worker' = [worker EXCEPT ![w] = r]
    BY <1>6 DEF SendBeat, Heartbeat, Become
  <2>5. r.op \notin {"discover", "process", "finish"} /\ UNCHANGED <<resources, now>> /\ w \in Workers
    BY <1>6, <2>4 DEF SendBeat, Heartbeat, Workers
  <2> QED
    BY <1>1, <2>3, <2>4, <2>5, OtherExact
<1>7. ASSUME NEW w \in OperatorWorkers, Operate(w), UNCHANGED ag PROVE LocalInv'
  <2>1. w \in Workers /\ \A a \in Agents : ag'[a].seen <= now
    BY <1>1, <1>7 DEF Workers
  <2>2. ASSUME NEW account \in Accounts, LocalStart(w, account) PROVE LocalInv'
    <3>1. PICK r : r = SyncRecord("discover", "local", account, None, NewJob, 0, {})
      OBVIOUS
    <3>2. r \in Syncing
      BY <3>1, SyncRecordType, JobIdsInterval DEF LocalInv, TypeOK
    <3>3. r.seen = 0 /\ r.sync = now + 1 /\ r.op = "discover"
      BY <3>1 DEF SyncRecord
    <3>4. StartSync(w, r) /\ now' = now + 1 /\ UNCHANGED resources
      BY <2>2, <3>1 DEF LocalStart
    <3> QED
      BY <1>1, <2>1, <3>2, <3>3, <3>4, StartExact
  <2>3. ASSUME ~ \E account \in Accounts : LocalStart(w, account) PROVE LocalInv'
    <3>1. \/ \E a \in Agents, account \in Accounts \cup {None} : TriggerAgent(w, a, account)
          \/ TriggerAll(w) \/ \E account \in Accounts : TriggerAccount(w, account)
          \/ \E a \in Agents, decision \in Decisions : ReviewRead(w, a, decision)
      BY <1>7, <2>3 DEF Operate
    <3>2. UNCHANGED <<resources, now>>
      BY <3>1 DEF TriggerAgent, TriggerAll, TriggerAccount, ReviewRead
    <3>3. \/ \E todo : Become(w, [op |-> "queue", todo |-> todo])
          \/ \E a, record, decision :
               Become(w, [op |-> "review", agent |-> a, record |-> record, decision |-> decision])
      BY <3>1 DEF TriggerAgent, TriggerAll, TriggerAccount, ReviewRead
    <3>4. /\ \A todo : [op |-> "queue", todo |-> todo].op = "queue"
          /\ \A a, record, decision :
               [op |-> "review", agent |-> a, record |-> record, decision |-> decision].op = "review"
      OBVIOUS
    <3>5. PICK s : Become(w, s) /\ s.op \notin {"discover", "process", "finish"}
      BY <3>3, <3>4
    <3> QED
      BY <1>1, <2>1, <3>2, <3>5, OtherExact DEF Become
  <2> QED
    BY <2>2, <2>3
<1>8. ASSUME NEW a \in Agents, Boot(a) \/ Scan(a) \/ PushRefused(a) \/ Timeout(a) \/ SyncTick(a)
                               \/ BeatTick(a) \/ Crash(a)
      PROVE  LocalInv'
  <2>1. UNCHANGED <<resources, now, worker>>
    BY <1>8 DEF Boot, Scan, PushRefused, Timeout, SyncTick, BeatTick, Crash, Register, server
  <2> QED
    BY <1>1, <1>8, <2>1, AgentAloneExact
<1>9. ASSUME \/ UNCHANGED vars
             \/ \E a \in Agents : RegisterLost(a) \/ ((DeleteAgent(a) \/ Expire(a)) /\ UNCHANGED ag)
             \/ \E account \in Accounts : CloudChange(account) /\ UNCHANGED ag
      PROVE  LocalInv'
  <2>1. UNCHANGED <<resources, now, worker, ag>>
    BY <1>9 DEF vars, RegisterLost, Register, DeleteAgent, Expire, CloudChange
  <2> QED
    BY <1>1, <2>1, NoSyncStep DEF IsSync
<1>10. ASSUME NEW w \in Workers, Serve(w) PROVE LocalInv'
  BY <1>3, <1>4, <1>10 DEF Serve
<1>11. ASSUME NEW a \in Agents, Proceed(a) \/ Beat(a) PROVE LocalInv'
  BY <1>5, <1>6, <1>8, <1>11 DEF Proceed, Beat
<1>12. ASSUME Environment PROVE LocalInv'
  BY <1>7, <1>8, <1>9, <1>12 DEF Environment
<1>13. CASE UNCHANGED vars
  BY <1>9, <1>13
<1> QED
  BY <1>10, <1>11, <1>12, <1>13 DEF Next

LEMMA LocalInit == Init => LocalInv
<1> SUFFICES ASSUME Init PROVE LocalInv
  OBVIOUS
<1>1. \A w \in Workers : ~ IsSync(w)
  BY DEF Init, ServerInit, IsSync, Free
<1>2. \A a \in Agents : ag[a].seen <= now
  BY DEF Init, ServerInit, Down
<1>3. \A account \in Accounts, n \in Names : resources[account][n] = None
  BY DEF Init, ServerInit
<1> QED
  BY <1>1, <1>2, <1>3, InitType DEF LocalInv, Dates

\* The body of LocalSyncExact
LoneSyncExact ==
  \A w \in Workers :
    /\ worker[w].op = "finish" /\ worker'[w] = Free
    /\ worker[w].source = "local"
    /\ worker[w].alone
    /\ ~ worker[w].failed
    => LET held == resources[worker[w].account]
       IN {n \in Names : held[n] # None /\ held[n].status = "active"} = worker[w].found

\* A local sync that runs alone, whatever syncs, ingests and failures came before
\* it, leaves active what its collector found and nothing else (Sync,
\* ProcessResources, MarkStaleResources): a sync that wrote a later time, or began
\* before this one's mark, would not have left it alone.
THEOREM LocalSyncTheorem == Spec => LocalSyncExact
<1>1. LocalInv => LoneSyncExact
  BY DEF LocalInv, SoundLocal, ActiveIn, LoneSyncExact, IsSync
<1>2. LocalInv /\ [Next]_vars => [LoneSyncExact]_vars
  BY <1>1
<1> QED
  BY <1>2, LocalInit, LocalStep, PTL DEF Spec, LocalSyncExact, LoneSyncExact

==============================================================================
