------------------------------ MODULE OrgSync ------------------------------
(***************************************************************************)
(* Discovery of whole cloud accounts: the paged listings of the collectors *)
(* (internal/discovery/aws, gcp), the local sync (collector.go, Sync), the *)
(* agent's organization mode (runOrgSync, PushOrgResources) and the        *)
(* server's organization ingest (handleOrgIngest), on each backend of the  *)
(* discovery store.                                                        *)
(*                                                                         *)
(* The providers are external: a listing gives its assets by id, a page at *)
(* a time, each page what there is when it is asked for, and no endpoint   *)
(* repeats a page token before its last page.  Agent and server clocks     *)
(* agree.                                                                  *)
(***************************************************************************)
EXTENDS Naturals, FiniteSets, Sequences

CONSTANTS
  Assets,          \* cloud resources, 1 .. n
  AssetData,       \* [Assets -> [account, kind, region, external]]
  AccountProvider, \* provider of each cloud account
  OrgMembers,      \* what the organization lists: active accounts, in order
  OrgExcluded,     \* exclude_accounts of the agent's config
  ScanRegions,     \* the regions configured, in order
  PageSize,
  OrgRetries,      \* max_retries of the agent's config
  Servers,         \* request goroutines of the server
  InitialRows,     \* account rows the server starts on
  MaxRuns, MaxUpsets,    \* bounds
  NoScan

ASSUME OrgAssumption ==
  /\ \A r \in Assets : r \in Nat \ {0} /\ AssetData[r].kind \in {"vpc", "subnet", "eip"}
  /\ ScanRegions \in Seq({ScanRegions[i] : i \in DOMAIN ScanRegions})
  /\ PageSize \in Nat \ {0}
  /\ "agent" \notin Servers
  /\ {OrgRetries, MaxRuns, MaxUpsets} \subseteq Nat

VARIABLES
  orgBackend,      \* the discovery store: "memory", "sqlite" or "postgres"
  cloudNow,        \* assets there are
  cloudFresh,      \* assets that never were
  orgRows,         \* account rows: [account, live]
  stored,          \* discovered_resources: <<row, asset>> -> [status, seen]
  requested,       \* status of the sync job asked of the agent
  scans,           \* locals of Discover, of the agent and of each goroutine
  orgAgent,        \* locals of the agent
  ingests,         \* locals of each goroutine
  seconds,
  orgRuns,         \* runs started
  upsets           \* failures, cloud changes and seconds so far

scanVars == <<cloudNow, cloudFresh, scans>>
agentVars == <<orgAgent, requested>>
serverVars == <<orgRows, stored, ingests>>
orgVars == <<orgBackend, scanVars, agentVars, serverVars, seconds, orgRuns, upsets>>

Scanners == Servers \cup {"agent"}

Upset == upsets < MaxUpsets /\ upsets' = upsets + 1
NoUpset == UNCHANGED upsets

-----------------------------------------------------------------------------
(* Collector.Discover.  kept and ever are history: the account's assets     *)
(* there were all along, and at some time, of the scan.                     *)

Kinds == <<"vpc", "subnet", "eip">>
Aws(a) == AccountProvider[a] = "aws"

OfAccount(a) == {r \in cloudNow : AssetData[r].account = a}

NewScan(a) ==
  [account |-> a, region |-> 1, kind |-> 1, after |-> 0, batch |-> {}, found |-> {},
   errs |-> FALSE, seen |-> seconds, kept |-> OfAccount(a), ever |-> OfAccount(a)]

ScanOver(s) == s.region > IF Aws(s.account) THEN Len(ScanRegions) ELSE 1

\* AWS is asked region by region, GCP once for all of them
Unlisted(s) ==
  {r \in OfAccount(s.account) :
     /\ r > s.after
     /\ AssetData[r].kind = Kinds[s.kind]
     /\ Aws(s.account) => AssetData[r].region = ScanRegions[s.region]}

\* DescribeAddresses is a single call
Page(s) ==
  {r \in Unlisted(s) :
     \/ Aws(s.account) /\ Kinds[s.kind] = "eip"
     \/ Cardinality({q \in Unlisted(s) : q < r}) < PageSize}

Configured(r) == AssetData[r].region \in {ScanRegions[i] : i \in DOMAIN ScanRegions}

\* The GCP collector leaves out the subnetworks and addresses of regions not
\* configured, and internal addresses
WantedSubnetwork(r) == AssetData[r].kind = "subnet" => Configured(r)
WantedAddress(r) == AssetData[r].kind = "eip" => Configured(r) /\ AssetData[r].external

InScope(a, r) == IF Aws(a) THEN Configured(r) ELSE WantedSubnetwork(r) /\ WantedAddress(r)

NextRegion(s) == [s EXCEPT !.region = @ + 1, !.kind = 1, !.after = 0, !.batch = {}]

NextListing(s) ==
  IF s.kind = 3 THEN NextRegion(s)
  ELSE [s EXCEPT !.kind = @ + 1, !.after = 0, !.batch = {}]

AfterPage(s) ==
  LET batch == s.batch \cup {r \in Page(s) : InScope(s.account, r)}
  IN IF Page(s) = Unlisted(s)
     THEN [NextListing(s) EXCEPT !.found = @ \cup batch]
     ELSE [s EXCEPT !.batch = batch,
                    !.after = CHOOSE r \in Page(s) : \A q \in Page(s) : q <= r]

AfterErrorUnnoted(s) ==                       \* mutant: the listing's error is lost
  IF Aws(s.account) THEN NextRegion(s) ELSE NextListing(s)

\* AWS goes on with the next region, GCP with the next listing; both report
\* the whole scan as failed
AfterError(s) ==
  [IF Aws(s.account) THEN NextRegion(s) ELSE NextListing(s) EXCEPT !.errs = TRUE]

Scanning(p) == scans[p] # NoScan /\ ~ ScanOver(scans[p])

ScanStep(p, s) ==
  /\ scans' = [scans EXCEPT ![p] = s]
  /\ UNCHANGED <<orgBackend, cloudNow, cloudFresh, agentVars, serverVars, seconds, orgRuns>>

ScanPage(p) == Scanning(p) /\ ScanStep(p, AfterPage(scans[p])) /\ NoUpset

\* A call of the provider fails, or its configuration cannot be loaded
ScanError(p) == Scanning(p) /\ ScanStep(p, AfterError(scans[p])) /\ Upset

\* The cloud changes under the scans
Observe(change(_)) ==
  scans' = [p \in Scanners |-> IF Scanning(p) THEN change(scans[p]) ELSE scans[p]]

CloudStep ==
  /\ Upset
  /\ UNCHANGED <<orgBackend, agentVars, serverVars, seconds, orgRuns>>

AssetAppears(r) ==
  /\ r \in cloudFresh
  /\ cloudNow' = cloudNow \cup {r} /\ cloudFresh' = cloudFresh \ {r}
  /\ LET Seen(s) == [s EXCEPT !.ever = @ \cup {r}] IN Observe(Seen)
  /\ CloudStep

AssetGoes(r) ==
  /\ r \in cloudNow
  /\ cloudNow' = cloudNow \ {r} /\ UNCHANGED cloudFresh
  /\ LET Missed(s) == [s EXCEPT !.kept = @ \ {r}] IN Observe(Missed)
  /\ CloudStep

-----------------------------------------------------------------------------
(* runOrgSync and PushOrgResources.  pc: "idle", in the scheduler's select; *)
(* "member", before the next account; "scan", in Discover; "push", about to *)
(* send; "wait", for the answer of goroutine on.                            *)

IdleAgent == [pc |-> "idle", todo |-> <<>>, report |-> <<>>, tries |-> 0, job |-> FALSE, on |-> NoScan]

AgentStep(r) ==
  /\ orgAgent' = r
  /\ UNCHANGED <<orgBackend, cloudNow, cloudFresh, orgRows, stored, seconds>>

\* ListOrgAccounts and the exclude set; a heartbeat may have claimed a job
ListMembers(asked) ==
  /\ orgAgent.pc = "idle" /\ orgRuns < MaxRuns
  /\ asked => requested = "pending"
  /\ requested' = IF asked THEN "running" ELSE requested
  /\ orgRuns' = orgRuns + 1
  /\ UNCHANGED <<scans, ingests>>
  /\ LET Included(a) == a \notin OrgExcluded
     IN \/ /\ AgentStep([IdleAgent EXCEPT !.pc = "member", !.job = asked,
                                          !.todo = SelectSeq(OrgMembers, Included)])
           /\ NoUpset
        \/ AgentStep(IdleAgent) /\ Upset

\* The next member's scan, or the push of what was found
NextMember ==
  /\ orgAgent.pc = "member"
  /\ IF orgAgent.todo # <<>>
     THEN /\ AgentStep([orgAgent EXCEPT !.pc = "scan"])
          /\ scans' = [scans EXCEPT !["agent"] = NewScan(Head(orgAgent.todo))]
     ELSE /\ AgentStep(IF orgAgent.report = <<>> THEN IdleAgent
                       ELSE [orgAgent EXCEPT !.pc = "push"])
          /\ UNCHANGED scans
  /\ UNCHANGED <<requested, ingests, orgRuns>> /\ NoUpset

AccountReport(s) == [account |-> s.account, found |-> s.found, seen |-> s.seen]

\* A member whose scan failed is skipped
MemberScanned ==
  /\ orgAgent.pc = "scan" /\ ScanOver(scans["agent"])
  /\ LET s == scans["agent"]
     IN AgentStep([orgAgent EXCEPT !.pc = "member", !.todo = Tail(@),
                     !.report = IF s.errs THEN @ ELSE Append(@, AccountReport(s))])
  /\ scans' = [scans EXCEPT !["agent"] = NoScan]
  /\ UNCHANGED <<requested, ingests, orgRuns>> /\ NoUpset

FreeServer == [op |-> "free", todo |-> <<>>, time |-> 0, left |-> {}, row |-> 0, wrote |-> {},
               failed |-> FALSE, job |-> FALSE, local |-> FALSE]

\* The request reaches handleOrgIngest, which reads syncTime and the job
PushReport(w) ==
  /\ orgAgent.pc = "push" /\ ingests[w].op = "free"
  /\ AgentStep([orgAgent EXCEPT !.pc = "wait", !.on = w])
  /\ ingests' = [ingests EXCEPT ![w] = [FreeServer EXCEPT !.op = "lookup", !.todo = orgAgent.report,
                                                         !.time = seconds, !.job = orgAgent.job]]
  /\ UNCHANGED <<requested, scans, orgRuns>> /\ NoUpset

OneTryFewer ==
  IF orgAgent.tries < OrgRetries
  THEN [orgAgent EXCEPT !.pc = "push", !.tries = @ + 1, !.on = NoScan] ELSE IdleAgent

\* No connection, or a 5xx: the agent's row could not be refreshed
PushFails ==
  /\ orgAgent.pc = "push"
  /\ AgentStep(OneTryFewer) /\ Upset
  /\ UNCHANGED <<requested, scans, ingests, orgRuns>>

\* A 400: the job could not be read; not retried
PushRejected ==
  /\ orgAgent.pc = "push" /\ orgAgent.job
  /\ AgentStep(IdleAgent) /\ Upset
  /\ UNCHANGED <<requested, scans, ingests, orgRuns>>

\* The agent stops waiting; the goroutine goes on
PushTimesOut ==
  /\ orgAgent.pc = "wait"
  /\ AgentStep(OneTryFewer) /\ Upset
  /\ UNCHANGED <<requested, scans, ingests, orgRuns>>

Answered(w) ==
  /\ ingests[w].op = "answer"
  /\ AgentStep(IF orgAgent.pc = "wait" /\ orgAgent.on = w THEN IdleAgent ELSE orgAgent)
  /\ ingests' = [ingests EXCEPT ![w] = FreeServer]
  /\ UNCHANGED <<requested, scans, orgRuns>> /\ NoUpset

-----------------------------------------------------------------------------
(* handleOrgIngest and Sync.  op: "lookup", "create" the account's row;     *)
(* "upsert", "mark" in ProcessResources; "scan", a local sync's Discover.   *)

IngestStep(w, r) ==
  /\ ingests' = [ingests EXCEPT ![w] = r]
  /\ UNCHANGED <<orgBackend, cloudNow, cloudFresh, orgAgent, seconds>>

Member(w) == Head(ingests[w].todo)

Skip(w) == [ingests[w] EXCEPT !.op = "lookup", !.todo = Tail(@), !.failed = TRUE]

LiveRows(a) == {i \in DOMAIN orgRows : orgRows[i].live /\ orgRows[i].account = a}

Process(w, row) == [ingests[w] EXCEPT !.op = "upsert", !.row = row, !.left = Member(w).found]

LookupAccount(w) ==
  /\ ingests[w].op = "lookup" /\ ingests[w].todo # <<>>
  /\ \/ /\ \E i \in LiveRows(Member(w).account) : IngestStep(w, Process(w, i))
        /\ NoUpset
     \/ /\ LiveRows(Member(w).account) = {}
        /\ IngestStep(w, [ingests[w] EXCEPT !.op = "create"])
        /\ NoUpset
     \/ IngestStep(w, Skip(w)) /\ Upset
  /\ UNCHANGED <<orgRows, stored, requested, scans, orgRuns>>

\* The unique index on keys: SQLite's has deleted rows too, memory has none
KeyTaken(a) ==
  \/ orgBackend = "postgres" /\ LiveRows(a) # {}
  \/ orgBackend = "sqlite" /\ \E i \in DOMAIN orgRows : orgRows[i].account = a

CreateOrgAccount(w) ==
  /\ ingests[w].op = "create"
  /\ \/ /\ ~ KeyTaken(Member(w).account)
        /\ orgRows' = Append(orgRows, [account |-> Member(w).account, live |-> TRUE])
        /\ IngestStep(w, Process(w, Len(orgRows) + 1))
        /\ NoUpset
     \/ /\ KeyTaken(Member(w).account)
        /\ IngestStep(w, Skip(w)) /\ UNCHANGED orgRows /\ NoUpset
     \/ IngestStep(w, Skip(w)) /\ UNCHANGED orgRows /\ Upset
  /\ UNCHANGED <<stored, requested, scans, orgRuns>>

\* SQLite stamps last_seen_at with the time of the write, the other stores
\* keep the collector's
SqliteRow == [status |-> "active", seen |-> seconds]
CollectedRow(seen) == [status |-> "active", seen |-> seen]
Upserted(seen) == IF orgBackend = "sqlite" THEN SqliteRow ELSE CollectedRow(seen)

\* wrote is history: what this run was the last to write
UpsertAsset(w) ==
  /\ ingests[w].op = "upsert" /\ ingests[w].left # {}
  /\ LET r == CHOOSE r \in ingests[w].left : \A q \in ingests[w].left : r <= q
         key == <<ingests[w].row, r>>
         after == [ingests[w] EXCEPT !.left = @ \ {r}]
     IN \/ /\ stored' = [k \in DOMAIN stored \cup {key} |->
                          IF k = key THEN Upserted(Member(w).seen) ELSE stored[k]]
           /\ ingests' = [v \in Servers |->
                           IF v = w THEN [after EXCEPT !.wrote = @ \cup {key}]
                           ELSE [ingests[v] EXCEPT !.wrote = @ \ {key}]]
           /\ NoUpset
        \/ /\ ingests' = [ingests EXCEPT ![w] = [after EXCEPT !.failed = TRUE]]
           /\ UNCHANGED stored /\ Upset
  /\ UNCHANGED <<orgBackend, scanVars, agentVars, orgRows, seconds, orgRuns>>

NotSeen(w, k) ==
  k[1] = ingests[w].row /\ stored[k].status = "active" /\ stored[k].seen < ingests[w].time

Staled(w) ==
  [k \in DOMAIN stored |->
     IF NotSeen(w, k) THEN [stored[k] EXCEPT !.status = "stale"] ELSE stored[k]]

Marked(w) == [ingests[w] EXCEPT !.op = "lookup", !.todo = Tail(@), !.wrote = {}]

MarkStaleAssets(w) ==
  /\ ingests[w].op = "upsert" /\ ingests[w].left = {}
  /\ \/ stored' = Staled(w) /\ IngestStep(w, Marked(w)) /\ NoUpset
     \/ UNCHANGED stored /\ IngestStep(w, [Marked(w) EXCEPT !.failed = TRUE]) /\ Upset
  /\ UNCHANGED <<orgRows, requested, scans, orgRuns>>

\* The requested job ends with the ingest; its update may fail, unnoticed
FinishIngest(w) ==
  /\ ingests[w].op = "lookup" /\ ingests[w].todo = <<>>
  /\ IF ingests[w].local THEN IngestStep(w, FreeServer) /\ UNCHANGED requested /\ NoUpset
     ELSE /\ IngestStep(w, [FreeServer EXCEPT !.op = "answer"])
          /\ \/ /\ requested' = IF ~ ingests[w].job THEN requested
                                ELSE IF ingests[w].failed THEN "failed" ELSE "completed"
                /\ NoUpset
             \/ ingests[w].job /\ UNCHANGED requested /\ Upset
  /\ UNCHANGED <<orgRows, stored, scans, orgRuns>>

\* Sync reads the time, stores its job and asks the collector
LocalSync(w, i) ==
  /\ ingests[w].op = "free" /\ orgRuns < MaxRuns
  /\ i \in DOMAIN orgRows /\ orgRows[i].live
  /\ IngestStep(w, [FreeServer EXCEPT !.op = "scan", !.time = seconds, !.row = i, !.local = TRUE])
  /\ scans' = [scans EXCEPT ![w] = NewScan(orgRows[i].account)]
  /\ orgRuns' = orgRuns + 1
  /\ UNCHANGED <<orgRows, stored, requested>> /\ NoUpset

Found(w) == [ingests[w] EXCEPT !.op = "upsert", !.todo = <<AccountReport(scans[w])>>, !.left = scans[w].found]

LocalScannedLate(w) ==                        \* mutant: the time is read after the scan
  /\ ingests[w].op = "scan" /\ ScanOver(scans[w])
  /\ IngestStep(w, IF scans[w].errs THEN FreeServer ELSE [Found(w) EXCEPT !.time = seconds])
  /\ scans' = [scans EXCEPT ![w] = NoScan]
  /\ UNCHANGED <<orgRows, stored, requested, orgRuns>> /\ NoUpset

\* Nothing is processed after a scan that failed
LocalScanned(w) ==
  /\ ingests[w].op = "scan" /\ ScanOver(scans[w])
  /\ IngestStep(w, IF scans[w].errs THEN FreeServer ELSE Found(w))
  /\ scans' = [scans EXCEPT ![w] = NoScan]
  /\ UNCHANGED <<orgRows, stored, requested, orgRuns>> /\ NoUpset

SecondPasses ==
  /\ Upset
  /\ seconds' = seconds + 1
  /\ UNCHANGED <<orgBackend, scanVars, agentVars, serverVars, orgRuns>>

-----------------------------------------------------------------------------
OrgInit ==
  /\ orgBackend \in {"memory", "sqlite", "postgres"}
  /\ cloudFresh \in SUBSET Assets /\ Cardinality(cloudFresh) <= 1
  /\ cloudNow = Assets \ cloudFresh
  /\ orgRows = InitialRows /\ stored = <<>>
  /\ requested = "pending"
  /\ scans = [p \in Scanners |-> NoScan]
  /\ orgAgent = IdleAgent
  /\ ingests = [w \in Servers |-> FreeServer]
  /\ seconds = 0 /\ orgRuns = 0 /\ upsets = 0

OrgNext ==
  \/ \E p \in Scanners : ScanPage(p) \/ ScanError(p)
  \/ \E r \in Assets : AssetAppears(r) \/ AssetGoes(r)
  \/ \E asked \in BOOLEAN : ListMembers(asked)
  \/ NextMember
  \/ MemberScanned
  \/ PushFails
  \/ PushRejected
  \/ PushTimesOut
  \/ \E w \in Servers :
       \/ PushReport(w)
       \/ Answered(w)
       \/ LookupAccount(w)
       \/ CreateOrgAccount(w)
       \/ UpsertAsset(w)
       \/ MarkStaleAssets(w)
       \/ FinishIngest(w)
       \/ LocalScanned(w)
       \/ \E i \in DOMAIN orgRows : LocalSync(w, i)
  \/ SecondPasses

OrgSpec == OrgInit /\ [][OrgNext]_orgVars

-----------------------------------------------------------------------------
(* Properties. *)

\* However the cloud changes while its pages are read, a scan that reports no
\* error has every asset that was there all along, and nothing that was not
\* there at some time of it: no page, listing or region is lost in silence
\* (Discover of both collectors, nextPageToken, the errs of incomplete scans).
ScanExact ==
  \A p \in Scanners :
    LET s == scans[p]
    IN s # NoScan /\ ScanOver(s) /\ ~ s.errs =>
         {r \in s.kept : InScope(s.account, r)} \subseteq s.found /\ s.found \subseteq s.ever

\* The stale mark that ends a run spares what the run has just written: always
\* on SQLite, which stamps the write, and elsewhere for the assets of a local
\* sync that no overlapping run wrote after it with an older observation
\* (ProcessResources, UpsertDiscoveredResource, MarkStaleResources).
ReportKept ==
  [][\A w \in Servers :
       ingests[w].op = "upsert" /\ ingests'[w].op = "lookup" =>
         \A k \in ingests[w].wrote :
           /\ stored[k].status = "active"
           /\ orgBackend = "sqlite" \/ ingests[w].local
           => stored'[k].status = "active"
    ]_<<stored, ingests>>
=============================================================================
