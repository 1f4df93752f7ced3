----------------------------- MODULE AgentSync ------------------------------
(***************************************************************************)
(* The discovery agent (cmd/cloudpam-agent/main.go, pusher.go) composed    *)
(* with the server of Discovery.                                           *)
(*                                                                         *)
(* An agent is one goroutine: a scan and its push with retries, or a       *)
(* heartbeat, at a time.  A request is taken up by a server goroutine      *)
(* worker; when the agent stops waiting (timeout, broken connection,       *)
(* crash) the goroutine goes on and its answer is lost.                    *)
(***************************************************************************)
EXTENDS Discovery

CONSTANTS Bootstrapped, \* agents configured by a bootstrap token
          MaxRetries,   \* max_retries of the agent's config
          Faults        \* subset of {"timeout", "crash", "scan"}: what may go wrong

ASSUME AgentAssumption ==
  /\ Bootstrapped \subseteq Agents
  /\ MaxRetries \in Nat
  /\ Faults \subseteq {"timeout", "crash", "scan"}

VARIABLE ag     \* locals of each agent process

vars == <<cloud, resources, jobs, agents, now, worker, ag>>

(* pc: "down", not running; "scan", in runSync before the collector; "push"*)
(* and "beat", about to send an ingest or a heartbeat; "pushing" and       *)
(* "beating", waiting for goroutine worker; "loop", in the select of       *)
(* runScheduler.  job is the requested job of the scan, or None; first     *)
(* says that the scan and the heartbeat are those made before the loop.    *)

AgentState ==
  [pc : {"down", "scan", "push", "pushing", "beat", "beating", "loop"},
   job : JobNumbers \cup {None}, found : SUBSET Names, seen : Nat,
   tries : 0 .. MaxRetries, worker : Workers \cup {None}, first : BOOLEAN]

Down == [pc |-> "down", job |-> None, found |-> {}, seen |-> 0, tries |-> 0,
         worker |-> None, first |-> FALSE]

Go(a, r) == ag' = [ag EXCEPT ![a] = r]

Scanning(job, first) == [Down EXCEPT !.pc = "scan", !.job = job, !.first = first]

Looping == [Down EXCEPT !.pc = "loop"]

\* What follows runSync: the first heartbeat, or the loop
AfterSync(a) ==
  IF ag[a].first THEN [Down EXCEPT !.pc = "beat", !.first = TRUE] ELSE Looping

\* main: an agent with a bootstrap token registers first ...
Boot(a) ==
  /\ ag[a].pc = "down"
  /\ IF a \in Bootstrapped THEN Register(a) ELSE UNCHANGED server
  /\ Go(a, Scanning(None, TRUE))

\* ... and exits when the answer is lost
RegisterLost(a) ==
  /\ "timeout" \in Faults
  /\ a \in Bootstrapped
  /\ ag[a].pc = "down"
  /\ Register(a)
  /\ UNCHANGED ag

\* runSync: a failed scan is logged, and the server not told
Scan(a) ==
  /\ ag[a].pc = "scan"
  /\ \/ Go(a, [ag[a] EXCEPT !.pc = "push", !.found = cloud[AgentAccount[a]],
                            !.seen = now, !.tries = 0])
     \/ "scan" \in Faults /\ Go(a, AfterSync(a))
  /\ UNCHANGED server

\* PushResources: a goroutine of the server takes the request up
Push(a, w) ==
  /\ ag[a].pc = "push"
  /\ Ingest(w, a, ag[a].job, ag[a].found, ag[a].seen)
  /\ Go(a, [ag[a] EXCEPT !.pc = "pushing", !.worker = w])

RetryOneMore(a) ==              \* mutant: one attempt too many
  IF ag[a].tries <= MaxRetries
  THEN [ag[a] EXCEPT !.pc = "push", !.worker = None, !.tries = @ + 1]
  ELSE AfterSync(a)

\* A 5xx answer or a transport error: the next attempt, or give up
Retry(a) ==
  IF ag[a].tries < MaxRetries
  THEN [ag[a] EXCEPT !.pc = "push", !.worker = None, !.tries = @ + 1]
  ELSE AfterSync(a)

\* handleIngest failed: 500 when CreateSyncJob did, and the push is retried; 400
\* when GetSyncJob did, and it is not
PushRefused(a) ==
  /\ ag[a].pc = "push"
  /\ \/ (CreateFails \/ now = MaxTime) /\ Go(a, Retry(a))
     \/ StoreErrors /\ ag[a].job # None /\ Go(a, AfterSync(a))
  /\ UNCHANGED server

\* The goroutine that served the agent's request finishes it
Answer(w, r(_)) ==
  ag' = [a \in Agents |->
           IF ag[a].worker = w /\ ag[a].pc \in {"pushing", "beating"} THEN r(a) ELSE ag[a]]

FinishSync(w) ==
  /\ Finish(w)
  /\ Answer(w, LAMBDA a : IF worker[w].failed THEN Retry(a) ELSE AfterSync(a))

SendBeat(a, w) ==
  /\ ag[a].pc = "beat"
  /\ Heartbeat(w, a)
  /\ Go(a, [ag[a] EXCEPT !.pc = "beating", !.worker = w])

\* The job of a heartbeat's answer is scanned for, that of the first discarded
AfterBeat(a, job) == IF ag[a].first THEN Looping ELSE Scanning(job, FALSE)

FinishBeat(w) ==
  \/ \E j \in JobIds : Claim(w, j) /\ Answer(w, LAMBDA a : AfterBeat(a, j))
  \/ ClaimNothing(w) /\ Answer(w, LAMBDA a : Looping)

\* The request is lost, the answer is lost, or the agent stops waiting; a
\* heartbeat refused by the server ends the same way
Timeout(a) ==
  /\ "timeout" \in Faults
  /\ \/ ag[a].pc \in {"push", "pushing"} /\ Go(a, Retry(a))
     \/ ag[a].pc \in {"beat", "beating"} /\ Go(a, Looping)
  /\ UNCHANGED server

SyncTick(a) ==
  /\ ag[a].pc = "loop"
  /\ Go(a, Scanning(None, FALSE))
  /\ UNCHANGED server

BeatTick(a) ==
  /\ ag[a].pc = "loop"
  /\ Go(a, [Down EXCEPT !.pc = "beat"])
  /\ UNCHANGED server

Crash(a) ==
  /\ "crash" \in Faults
  /\ ag[a].pc # "down"
  /\ Go(a, Down)
  /\ UNCHANGED server

-----------------------------------------------------------------------------
Init == ServerInit /\ ag = [a \in Agents |-> Down]

\* The server goes on with a request it has taken up
Serve(w) ==
  \/ Handle(w) /\ UNCHANGED ag
  \/ FinishSync(w)
  \/ FinishBeat(w)

\* The agent goes on by itself
Proceed(a) == Boot(a) \/ Scan(a) \/ PushRefused(a) \/ \E w \in AgentWorkers : Push(a, w)

Beat(a) == \E w \in AgentWorkers : SendBeat(a, w)

Environment ==
  \/ \E w \in OperatorWorkers : Operate(w) /\ UNCHANGED ag
  \/ \E a \in Agents : (DeleteAgent(a) \/ Expire(a)) /\ UNCHANGED ag
  \/ \E account \in Accounts : CloudChange(account) /\ UNCHANGED ag
  \/ \E a \in Agents : RegisterLost(a) \/ Timeout(a) \/ SyncTick(a) \/ BeatTick(a) \/ Crash(a)

Next ==
  \/ \E w \in Workers : Serve(w)
  \/ \E a \in Agents : Proceed(a) \/ Beat(a)
  \/ Environment

Spec == Init /\ [][Next]_vars

(* Goroutines are scheduled; a started agent goes on, its request served   *)
(* by a goroutine of its own (AgentWorkers only bounds them); the heartbeat*)
(* ticker wins the select again and again, and of the heartbeats sent      *)
(* again and again some reach the server. No process is killed forever.    *)
Fairness ==
  /\ \A w \in Workers : WF_vars(Serve(w))
  /\ \A a \in Agents : <>[][~ Crash(a)]_vars
  /\ \A a \in Agents : SF_vars(Proceed(a)) /\ SF_vars(BeatTick(a)) /\ SF_vars(Beat(a))

FairSpec == Spec /\ Fairness

-----------------------------------------------------------------------------
(* Properties. *)

\* Type invariant of the server's stores, its request goroutines and the
\* agents' locals (discovery_memory.go, runScheduler).
TypeOK == ServerTypeOK /\ ag \in [Agents -> AgentState]

\* A scan requested by the server belongs to the agent that makes it: the job
\* in an agent's hands has been claimed, for this agent unless the agent's
\* record was deleted since, and no other agent works on it, through timeouts,
\* retries, crashes and deletions.
HeldJobs ==
  \A a \in Agents :
    ag[a].job # None =>
      /\ ag[a].job \in JobIds
      /\ jobs[ag[a].job].status # "pending"
      /\ jobs[ag[a].job].agent \in {a, None}
      /\ \A b \in Agents \ {a} : ag[b].job # ag[a].job

\* A request under way is about its agent's job: the goroutine an agent waits
\* for works for that agent, and a sync works on a claimed job that no other
\* agent holds, although agents stop waiting and goroutines are taken again.
RequestsOwned ==
  /\ \A a \in Agents :
       ag[a].pc \in {"pushing", "beating"} =>
         /\ ag[a].worker \in Workers
         /\ worker[ag[a].worker].op \in {"process", "finish", "beat"}
         /\ worker[ag[a].worker].agent = a
  /\ \A w \in Workers :
       IsSync(w) =>
         /\ worker[w].job \in JobIds
         /\ jobs[worker[w].job].status # "pending"
         /\ \A a \in Agents : ag[a].job = worker[w].job => worker[w].agent = a

\* Both: a claimed job, and every request about it, belongs to one agent
\* (handleAgentHeartbeat, ClaimPendingAgentSync, handleIngest).
WorkOwned == HeldJobs /\ RequestsOwned

JobOrder ==
  \A j \in JobIds :
    /\ jobs[j].status = "pending" => jobs'[j].status \in {"pending", "running"}
    /\ jobs[j].status = "running" => jobs'[j].status # "pending"
    /\ jobs[j].status \in {"completed", "failed"} =>
         jobs'[j].status \in {"completed", "failed"}

\* A job goes from pending to running to its outcome and is never reopened: a
\* late or repeated ingest can at most replace one outcome by another, and no
\* job is reported as done that no agent had claimed.
JobLifecycle == [][JobOrder]_vars

\* A server-side sync that runs alone leaves the account's active resources
\* equal to what its collector found: nothing gone stays active, nothing seen
\* becomes stale, whatever earlier syncs and failures left behind.
LocalSyncExact ==
  [][\A w \in Workers :
       /\ worker[w].op = "finish" /\ worker'[w] = Free
       /\ worker[w].source = "local"
       /\ worker[w].alone
       /\ ~ worker[w].failed
       => LET held == resources[worker[w].account]
          IN {n \in Names : held[n] # None /\ held[n].status = "active"} = worker[w].found]_vars

\* A job queued for an agent is claimed by one of its heartbeats, unless the
\* agent is deleted first: no loss, retry or restart lets it wait forever.
PendingIsClaimed ==
  \A a \in Agents, j \in 1 .. MaxJobs :
    (j \in JobIds /\ jobs[j].status = "pending" /\ jobs[j].agent = a)
      ~> (j \in JobIds /\ (jobs[j].status # "pending" \/ jobs[j].agent # a))

\* "agent scans are queued, surfaced in Sync History, and polled until the agent
\* completes ingest" (docs/CHANGELOG.md): a claimed job gets its outcome.
RunningEnds ==
  \A j \in 1 .. MaxJobs :
    (j \in JobIds /\ jobs[j].status = "running")
      ~> (j \in JobIds /\ jobs[j].status \in {"completed", "failed"})

\* "active: Resource exists in the cloud (seen on last sync)"
\* (docs/DISCOVERY.md): while no sync runs, a stored resource that exists at the
\* provider is active.  For runs in which the provider's side never changes.
SeenIsActive ==
  (\A w \in Workers : ~ IsSync(w)) =>
    \A a \in Accounts : \A n \in cloud[a] :
      resources[a][n] # None => resources[a][n].status = "active"

\* "AgentApprovalStatus represents the approval state of a discovery agent"
\* (internal/domain/discovery.go), one of pending, approved and rejected: an
\* agent once registered or reviewed keeps such a state as long as its record.
ApprovalStands ==
  [][\A a \in Agents :
       agents[a] # None /\ agents'[a] # None /\ agents[a].approval # "none"
         => agents'[a].approval # "none"]_vars

=============================================================================
