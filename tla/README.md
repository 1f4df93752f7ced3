# A TLA+ model of CloudPAM

CloudPAM is an IP address manager: a Go server keeps pools (address blocks in a
tree), cloud accounts and the resources that collectors and remote agents find
at cloud providers; around that core are users, sessions and keys, a planner,
an upgrade of its own host and a Terraform provider.  These modules model what
its handlers, stores and agents do to that state, TLC checks them on small
instances, and TLAPS proves most of their safety properties for instances of
every size.

Run a check with `tlc -config <run>.cfg <module>` and a proof with
`tlapm <module>.tla`; `PROJECT.json` lists the runs, the source lines each
definition stands for, the mutants that show every property can fail, the
hazards, the findings and the theorems.

## 1. The system

| Part | State | Operations | What is hard | What makes it correct |
|---|---|---|---|---|
| Pool and account store (`internal/storage/store.go`) | pools, accounts, id counters | create, update, soft delete, cascade, account cascade | each method is atomic under one lock, but a handler makes several calls | ids never reused, tombstones stay, a delete strands no live child |
| Pool, account, schema handlers (`internal/api`) | locals of requests in flight | POST/PATCH/DELETE of pools and accounts, schema apply | check in one store call, write in another; partly failed applies | nesting, no overlap among siblings, refs resolve to the pool they name |
| SQL stores (`internal/storage/sqlite`, `postgres`) | the same as tables | the same as several statements | statements interleave, nested result sets hold connections, cascades without a transaction | no twins, a successful cascade is complete, every call returns |
| Address arithmetic (`internal/api/cidr.go`, `internal/planning/gaps.go`, `internal/validation`) | none | overlap, containment, free ranges, subnet windows | 32-bit edges | equal to set arithmetic on addresses |
| Recommendations (`internal/planning/recommendations.go`) | items with a status | generate, apply, dismiss | regenerated while acted upon, applied when stale | a clash needs a later insert; a decision is not lost |
| Bulk creation (`export_handlers.go`, applied plans of `ai_handlers.go`) | rows of a file, id maps | export, import accounts and pools, apply a plan | rows in any order, some fail, others write | the nesting of the file is the nesting in the store |
| Discovery server (`discovery_handlers.go`, `bootstrap_handlers.go`, `internal/discovery/collector.go`) | sync jobs, agents, discovered resources | trigger a sync, ingest, heartbeat, register, review, delete | overlapping syncs, clocks of two hosts, late ingests, lost answers | a job has one life cycle and one owner; the active set is what was last seen |
| Discovery agent (`cmd/cloudpam-agent`) | one goroutine's locals | scan, push with retries, heartbeat, organization mode | timeouts racing late answers, crash with a claimed job | a claimed job has one owner, a queued job is claimed |
| Collectors (`internal/discovery/aws`, `gcp`) | a listing in progress | paged listings of several kinds and regions | a page or region fails, the cloud changes between pages | complete, or an error |
| Import and links (`discovery_handlers.go`) | pool id of a resource | link, unlink, preview, apply, account import | create, then link, then clean up; the target deleted meanwhile | every pool an import made is accounted for |
| Drift (`internal/discovery/drift.go`) | drift items and decisions | detect, resolve, ignore | detection deletes and re-creates beside decisions | the open items are the differences; a decision survives |
| Network view (`network_handlers.go`) | conflicts (computed), their records | view, link, import, placeholder, decide | actions on conflicts computed from older state, roll-back of several calls | an action is all or nothing |
| Network objects and relationships (same file, `network_memory.go`, `*/network.go`) | objects, relationships | POST, PATCH, resolve; written by views and actions | read-modify-write of whole rows, views that write | what was asked stands |
| Sessions, users, roles (`internal/auth`, `user_handlers.go`, `middleware.go`) | users, sessions, attempts, roles, a cache of active users | login with lockout, logout, password, deactivation, role edits | whole records written back from copies, a stale cache, evictions that fail | no more sessions than allowed when no call failed, a disabled user out in time |
| OIDC (`oidc_handlers.go`) | provider, client cache, identities | login, callback with provisioning, edits | cache filled from an older read; two first logins | one user per identity but for a race, the cache follows the store |
| API keys and audit (`auth_handlers.go`, `internal/audit`) | keys, policy, audit log | create, use, revoke, remind | the note of a use after the revocation, a bounded log | revoked stays revoked, reminded once |
| Self update (`update_handlers.go`, `scripts/cloudpam-upgrade.sh`, systemd units) | request and status files | trigger, acknowledge, every step of the script | handshake over files, crashes of script, server, host | an upgrade ends; a request is lost only by a race |
| AI planning (`planning/ai_service.go`, `llm/openai.go`) | conversation, two channels | chat | a reader that leaves, bounded channels | goroutines end, the answer is stored (not when the handler leaves before it reads) |
| Start (`cmd/cloudpam/main.go`, migrators, `system_handlers.go`) | migration table, users | migrate, bootstrap admin, first-boot setup | replicas of different releases start together | each migration once, setup closed when there are users |
| Terraform provider (`terraform-provider-cloudpam`) | Terraform's state | create, read, update, delete, import | lost answers, half-failed applies, other users | a successful apply leaves what is declared |
| Observability, web interface | - | - | - | not modelled |

The handlers call the stores directly; there are no transactions across calls.
Requests run in goroutines of their own, so any two handlers interleave between
store calls.  The agent and the provider speak HTTP to the server, and both can
give up on a call that the server still carries out.  Discovery resources refer
to accounts and pools by id; the network view reads all of it and its actions
write pools, links, drift records and relationships.

## 2. What the modules model

A module starts with what it leaves out.  A definition marked "mutant" is a bug
the definition it resembles could have; no other definition uses it.  Variables
called history (`seen`, `checked`, `alone`, `stale`, ...) exist only for properties.

### The pool core

`Cidr` - IPv4 prefixes in an address space of `AddrBits` bits and the comparisons
the handlers make on them.  A prefix is a base and a length; parsing and
formatting are left out.

`Pools` - `MemoryStore` and the handlers that change pools and accounts.  `pools`
and `accounts` are its two maps, `req[c]` the locals of one client's request.  One
store method is one atomic step, a handler as many steps as it makes calls:
`CreatePoolStart/Check/Insert` (`createPool`), `PatchRead`, `PatchWrite`,
`PatchWithAccount` (`updatePool`), the deletes and account operations (one call
each; `WithDescendants` is the cascade's fixpoint loop as the least closed set),
`SchemaStart`, `SchemaStep` (`handleSchemaApply`, with its ref-to-id map, skipped
children of failed parents, and entries that name themselves).

`PoolRegistry` - what the API promises a client alone: allocate, plan, release
as single steps.  `PoolsSerial` maps `Pools` with one request at a time to it.

`SqlStore` - pools and accounts of both SQL stores, a statement a step.  `Busy`
counts the connections result sets hold; SQLite and PostgreSQL differ in their
unique indexes (SQLite's include soft-deleted rows), in cascading row by row or
in one statement, and in what they look up first.

`AddressSpace` - what is free in a pool, computed as the two places of the code
do: `GapAnalysis` (`findFreeRanges` with `MergeInterval` and `WalkParent`, and
`rangeToCIDRs`) and `BlocksPage`, `BlockTaken` (the block listing).  Loops are folds
and a recursive function; sums wrap at `2^AddrBits`.  The reference is sets of
addresses.

`Recommendations` - `Generate`, `Apply`, `Dismiss` as their store calls, beside
`PoolWrite`, which stands for every other handler by what it writes.

`Transfer` - the CSV export and imports, and plans applied by the planner, row by
row, with the id maps, retries of rows and the fallback for orphans, beside
other writes.

`Terraform` - the provider's resources and client: `Read`, `Plan`, the calls an
apply sends (`Send`), what the server does with them (`Serve`, also after the
client gave up: `ServeLate`), refusals, `ImportState`.  Terraform itself - refresh,
plan, walk - is external, its order constrained only by references.

### Discovery and the network view

`Discovery` - sync jobs, agents and resources and the handlers over them;
`worker[w]` holds a request goroutine's locals.  Time is the number of syncs
started, which is all that `LastSeenAt.Before(syncTime)` can tell.

`AgentSync` - agents of one account composed with `Discovery`: scan, push, retry,
heartbeat, `select`.  When an agent stops waiting (`Timeout`, `Crash`) the server's
goroutine goes on and its answer is dropped.

`OrgSync` - the paged listings of the collectors over a cloud that changes, local
sync, the agent's organization mode, and the organization ingest with its
lookup-or-create of account rows, on each backend (they differ in the account
row's key check and in who stamps `last_seen_at`).

`Imports` - links, preview, apply with the clean-up, and import of an account,
over `Pools`.  `Drift` - detection and decisions, over `Imports`.  `Network` -
conflicts and their actions with roll-backs, over `Drift`.  So an import, a
detection, a conflict action and a pool delete interleave over one store.

`NetworkObjects` - objects and relationships on each backend: PATCHes that read
and write back a row, and the relationships every view upserts.  Which
conflicts there are is its environment here.

### People, keys and the process

`Sessions` - users, sessions, lockout, eviction under a limit that admins change,
sweeps, the middleware's cache.  A login reads the limit first.  Any store call
that writes, and the listing of a login, may fail, and the handlers then do what
the code does: some end, and the listing, the evictions and the sweeps are ignored.
`Identity` - OIDC logins, the client cache, users and roles that admins edit.
`ApiKeys` - keys under the policy, use, revocation, reminders and the audit log.
`SelfUpdate` - the handlers, the path unit and the script, file by file.
`Chat` - question, reader goroutine, relaying goroutine, handler, and the two
channels between them; the first flush and the storing of the answer may fail.
`Startup` - migrations, admin, setup on replicas.

### Modules for TLC and proofs

`MCPools`, `MCPoolsSerial`, `MCSqlStore`, `MCAgentSync` give constants their values.
`MCAgentScenarios` restricts `AgentSync` to two scenarios.  `MCInventory`,
`MCRecommendations`, `MCNetwork`, `MCAccess`, `MCStreams` put parts that share no state
into one run: the variable `focus` is chosen at the start and never changes, a
behaviour is about one part, and the other parts stay in one initial state.
That is a union of separate state graphs, not a product.

The theorems are in `PoolsProofs` (over `PoolsSerial`), `NetworkProofs` (over `Network`
and so over `Imports` and `Drift`), `InventoryProofs` (over `NetworkObjects` and `Terraform`),
`DiscoveryProofs` (over `AgentSync`), `OrgSyncProofs`, `AccessProofs` (over `Sessions`,
`Identity` and `ApiKeys`), `StreamsProofs` (over `SqlStore`, `Startup` and `SelfUpdate`) and
`RecommendationsProofs` (over `Recommendations` and `Transfer`).

## 3. What is checked

| Run | Parts | Properties |
|---|---|---|
| `pools_concurrent` (`MCInventory`) | two requests interleaved over pools, accounts, schema applies; Terraform; network objects | `TypeOK`, `TreeIntact`, `OverlapOnlyByRace`, `RequestsSound`, `DeletesClean`, `Tombstones`; `AppliedExact`, `UntrackedOnlyByLoss`; `AskedStands` |
| `access` (`MCAccess`) | one pool request at a time (refinement); sessions; identity; keys | `ImplementsRegistry`; `SessionsTrimmed`, `DisabledWithin`; `CacheFollowsStore`, `TwinsOnlyByRace`, `RolesInUseStay`; `RevokedStays`, `RemindedByRaceOnly` |
| `recommendations` (`MCRecommendations`) | two calls of the service beside pool writes; files and plans | `FreeSpaceExact`, `AllocationsSound`, `SettledStays`; `TreeCopied` |
| `network` (`MCNetwork`) | imports, drift and conflict actions of two workers; organization scans and reports | `ImportsSound`, `DriftSound`, `ActionAllOrNothing`; `ScanExact`, `ReportKept` |
| `streams` (`MCStreams`) | SQL statements; upgrade; chat; start | `NoTwins`, `SqlDeletesClean`, `CallsReturn`; `UpgradeEnds`, `RequestLostOnlyByRace`; `ChatEnds`; `MigratedOnce`, `SetupByRaceOnly`, `StartedServes` |
| `agent_sync` (`MCAgentScenarios`) | two agents, timeouts, repeated pushes, crashes, deletions; overlapping local syncs | `TypeOK`, `WorkOwned`, `JobLifecycle`, `LocalSyncExact` |
| `agent_liveness` (`MCAgentSync`) | one agent, timeouts, crashes, lost heartbeats | `PendingIsClaimed` |
| `pools_overlap` | violated | `NoSiblingOverlap` |
| `sqlite_returns` | violated | `CallsReturn` with one connection |
| `agent_running_ends` | violated | `RunningEnds` |
| `agent_seen_active` | violated | `SeenIsActive` |
| `agent_approval` | violated | `ApprovalStands` |

What they show.

* The tree of pools stays a tree under every interleaving; two overlapping
  siblings can only come from an insert whose request listed the siblings
  before the other existed, and that window is real (`pools_overlap`).  No delete
  strands a child in memory; on SQL a child inserted beside a delete is, and
  nothing else (`SqlDeletesClean`).  One request at a time, the handlers implement
  an atomic registry (`ImplementsRegistry`).
* With connections to spare every SQL call returns, also those that query while
  they iterate; with SQLite's default of one, some wait for themselves.
* Free space is reported exactly, also for children that overlap each other, and
  the block listing agrees at every block size.  A pool made by `Apply` clashes
  only with one inserted after the gaps were read, and what is settled stays.
* Files and plans keep their nesting whatever the order and the failures.
* Terraform: an apply that succeeds undisturbed leaves the server as declared,
  whatever failed before; the only rows it loses track of are those whose
  create was not answered.
* A job is claimed once, held by one agent and never reopened; a queued job is
  claimed.  A sync that runs alone leaves the active set equal to what it found.
  A scan is complete or an error, and the stale mark spares what its own run
  wrote.
* An undisturbed import accounts for every pool it made, takes no link away but
  its own from a resource that the request names twice, and a conflict action is
  all or nothing even when its roll-back is what remains;
  detections are exact and decisions survive them.  A view, however old the
  conflicts it computed, leaves the state of a relationship alone, and a PATCH
  changes only what it names unless two PATCHes cross on SQL.
* Where no login is between making its session and its last eviction, a user has
  no more sessions from logins than the last login to list was allowed, save those
  that a failed listing or a failed delete left - the login goes on untrimmed then
  - and these only until the next listing.  OIDC logins do not trim: their sessions
  come on top until the next login by password.  So does a lower limit wait for it.
* A disabled user is let in for at most `ActiveTTL` + `MaxLag`: the entry's time
  starts when the answer is stored, not when the record was read, so the 30 seconds
  that `middleware.go:33` promises are exceeded by the time a lookup is under way.
  Both count from the last moment at which the stored record was active: a handler
  that read the user before the deactivation and writes the copy back activates
  him again, which no property forbids.
* In one server process, no client of an old OIDC configuration stays cached but by a
  login under way or inside an edit; other replicas, which nothing tells of an
  edit, keep theirs.  Two users of one identity need two first logins at a time; a
  role that its deletion has seen in use is
  not deleted; a revoked key stays revoked although uses are noted late.
* An announced upgrade ends whatever stops the script, the server or the host; an
  accepted trigger is lost only where its handler asked for the status before a
  run said "running", or where a run started while it was handled.
* A chat whose handler reads, also one whose client is gone, ends its goroutines,
  and its answer is stored unless the conversation is gone or the store refused it.
  Two streams do not end: one whose handler left before it read, with
  more pieces come off the wire than the channel holds (`Unread`), and one whose
  provider sends a whole channel of events after the piece that finishes the
  answer, since nobody reads these (`Overrun`).
* Replicas apply each migration once and come to serve; setup adds to existing
  users only where its own second look came before them, or failed.

Five runs end in a violation, each of a sentence in the repository's
documentation or comments:

1. `pools_overlap`: two POST /pools at once leave overlapping siblings (list, then
   insert, no lock).
2. `agent_seen_active`: `handleIngest` takes the sync time after the agent has
   stamped its resources, so `MarkStaleResources` marks them stale at once.  Two
   overlapping local syncs of an account can do the same.
3. `agent_running_ends`: the agent throws away the answer of its first heartbeat;
   the job claimed by it runs forever.  No fault is needed.
4. `agent_approval`: a heartbeat overwrites the agent's record without its
   approval; PostgreSQL then stores `approved`, also for a rejected agent.
5. `sqlite_returns`: `UpdateAccount` and `countDescendants` ask for a second
   connection while they hold the only one.

### Met while modelling, without a run

* `MemoryStore` accepts a second sibling with an equal CIDR, which `createPool`
  leaves to a constraint that only the SQL stores have; memory's `CreateAccount`
  checks no key.  SQLite's unique indexes include soft-deleted rows, so a deleted
  pool cannot be made again there; PostgreSQL's do not.
* Repeated ids in an import's `resource_ids` are not dropped: a resource named
  twice is importable twice, gets two pools and keeps the second (`MadeFor`).
* A PATCH of a pool without `account_id` undoes an account that another PATCH
  assigned since it read the pool.  An agent scans the account of its
  configuration whatever account its job is for.
* `findFreeRanges` compares with `last.end+1`, which wraps: under a child that
  reaches past its pool to 255.255.255.255 (a CSV import stores any CIDR) it
  reports covered addresses as free; `ReachesTop` names the case.  The block
  listing computes its offset from `page_size` as asked, while the window is capped
  at `MaxSubnetExpansion`, so larger pages skip blocks.  The recommendation for
  OVERLAP-001 is never made: `checkOverlap` looks for siblings among the one pool
  it is given.
* SQLite's `scanNetworkObject` scans a NULL `source_discovered_id` into a string:
  creating a network object without a source - every placeholder parent is one -
  stores the row but answers an error, and from then on every listing of
  objects fails, and with it every network view, conflict list and conflict
  action (`Readable`, `AllReadable`).  On PostgreSQL a PATCH of any field of an object
  is refused with 404 once its pool was soft-deleted.  A view computed earlier may
  rewrite the type and reason of a relationship that an action made.
* SQLite never stores an agent's approval.  PostgreSQL's
  `DeleteAccountCascade` answers "not found" when its lookup failed.  SQLite's
  cascades have no transaction, and its PRAGMAs reach only the first connection.
* OIDC logins do not trim a user's sessions.  SQLite's listing of sessions compares an
  RFC 3339 text with `datetime('now')`, so a session that expired the same day is
  still listed, and a live one may be evicted in its stead.
* The OIDC callback does not look whether the provider is still enabled.  There is no
  unique index on an identity, and setup and the first admin check before they
  create, so replicas can both pass.
* Keys of provisioned agents never expire, whatever the policy.  `keyStore.Delete`
  has no caller.
* An export writes `account_id` but no key, and joins regions with `|` where the
  import splits at `;`.  Rows whose parent is not found fall back to the
  destination's pool with the same number.  Pool rows are not validated.
* `handleChat` returns when its first flush fails, without reading the stream that
  `Chat` asks its caller to read until close (`ai_service.go:80`); when more pieces
  have come off the wire than the channel holds, the goroutine that would store
  them waits for ever and the answer is lost; with twice as many the reader waits too.
* The chat handler sends "done" before the answer is stored, and SQLite orders
  messages by a time in seconds.  PostgreSQL's `schema_version` goes back when an
  older release starts, and `min_supported_schema` is never read.
* A GCP subnetwork names its network, while the network's own resource id is
  numeric, so GCP parents never match.  Listings of discovered resources are paged
  by `discovered_at`, with ties, so pages may repeat or skip.
* The Terraform provider over the memory store: a PATCH of a deleted pool
  succeeds there, so with `force_destroy` an apply can succeed on a dead pool.  The
  SQL stores answer 404, and only they are modelled.  Replacing an account that
  pools use is refused (409) without `force_destroy`.

### Bounds

Every bound is a CONSTANT and a guard of the action it limits; where the code
could fail at that point, reaching the bound looks like a failed store call.

* Pools: two ids and two clients for every race (each property is about one
  request and one other step); one request at a time is checked with three ids,
  which a cascade of two levels and a parent with two overlapping children need.
  Two prefixes, one inside the other, give containment, overlap and equality;
  the theorems cover the rest.  The schemas plan a child wider than its parent
  and an entry that names itself.
* SQL: a chain of three pools and an account to start with, four rows, two calls
  started, one failing statement: two calls are each other's interference.
  SQLite has five connections, which two counts three result sets deep need.
* Recommendations: the pool 0 .. 3 of 8 addresses, alone with two ids left, and
  with a child as wide as itself and one inside that; two recommendations, so
  that a generation can be cut short and an id settled while the next is
  generated; two calls in flight.  Transfer: a chain of three rows in any order,
  two requests, one write of others, two installations that use the same
  numbers differently; a plan with two roots and a child.
* Terraform: an account, a pool and one below it, three configurations that move, clear,
  replace and re-key, two applies, one write of others, one lost answer.
* Network objects: two handlers, two requests of several steps, one of a single step,
  one object there and one to create, one conflict.
* Discovery: two agents contend for one owner, two attempts of a push
  (`MaxRetries` = 1) are the first repeated, one job and one sync suffice in
  "jobs"; three syncs and no agent in "syncs" (a job does not read the resources,
  stale marking reads no job).  The liveness run has one account, one agent, two
  jobs, an approval, timeouts and crashes.
* `network`: a VPC, its subnet of the same size and a subnet of another account
  with that CIDR and id whose VPC is unknown, over two pools to start from; two
  workers, two requests, two detections.  `invalid_nesting` does not arise in this
  data.  One selection names the VPC twice, one the VPC and the subnet.  Organization: three assets in two accounts and
  regions, pages of one, one retry, two server goroutines, two runs, two upsets -
  failures, cloud changes and ticks of the clock count together - and an asset
  that appears on a page already read.
* `access`: sessions of one user with two requests at a time, one admin's request and
  one failing call; "trim" has two sessions, limits of one and two and no time, so two
  racing logins exceed a limit and either may fail; "pass" has times of one tick and
  two sessions and failures together: a session survives a deactivation by a
  login beside it or a sweep that fails.  Two browsers, one admin, one subject, two
  sign-ins and two edits; two key requests at a time, three in all, three days, a
  log of one event.  (`GetByResource` on SQL reads the newest 1000 events of one
  key; the model's log has no such cap, which the few events of a key - made,
  revoked, announced - do not reach.)
* `streams`: two admins, two triggers, one crash; channels of two (64 in the code)
  and three pieces, enough to fill them before the handler reads and after the end of
  the answer; two replicas, two releases, one crash or error.

Symmetry is declared for goroutines, clients, agents and browsers that are
interchangeable, never in a run with a liveness property.  Deadlock checking is off
in every run but `pools_overlap`, because bounded requests run out and nothing
remains to be done; that what must go on does is checked as liveness instead
(`CallsReturn`, `ChatEnds`, `UpgradeEnds`, `StartedServes`, `PendingIsClaimed`).

### Fairness

* `AgentSync!Fairness`: weak fairness of `Serve(w)` (a goroutine is scheduled), strong
  fairness of `Proceed(a)` (the agent's request gets a goroutine: net/http starts
  one per request, the model has `AgentWorkers`), of `BeatTick(a)` (Go's `select`
  chooses at random among ready cases) and of `Beat(a)` (of heartbeats sent again
  and again some arrive).  Agents crash finitely often.  Nothing forces operators.
* `SqlFairness`: strong fairness of a call's next statement: database/sql hands
  a free connection to the first waiter, and so does the pool of pgx.
* `UpdateFairness`: weak fairness of the path unit and of the script's next step; its
  commands have time limits, and systemd's start limit is assumed not to be hit.
  Crashes are bounded.
* `ChatFairness`: weak fairness of each goroutine.  The provider's stream goes on or
  breaks, and any number of pieces may follow a finish reason.
* Start: weak fairness of a replica's steps; start-up code is sequential and a
  Deployment restarts a container that exits.  Troubles are bounded.

## 4. What is proved

For every value of the constants that meets the modules' named assumptions.  Most are
types and ranges.  Those that say more: one client (`PoolsSerial`); the stores the
server, a file or Terraform starts on are ones it could have made, parents older
than children (`NetworkAssumption`, `TransferAssumption`, `ObjectsAssumption`); a
configuration declares what it refers to, and an address keeps its type
(`TerraformAssumption`: Terraform refuses others); resources are numbered as imports
sort them, and an account has one of a provider id (`ImportsAssumption`: the sort, and
the key of the resource table); markers like `None` and `Missing` are no ids.

`PoolsProofs`:

* `TypeCorrect` - `TypeOK`.
* `IntegrityInvariant` - the inductive invariant `Integrity`: `TypeOK`, `ParentOlder`,
  `NestedInParent`, `OverlapOnlyByRace` and `RequestsSound` together.  None of the
  middle three is inductive alone: that an inserted pool is nested or does not
  overlap rests on what its request read some steps earlier, which is what
  `RequestsSound` says of requests in flight; that this survives other steps
  rests on CIDR and parent of a stored pool never changing; and the ids in the
  ref map of a schema apply are older than the pool inserted next.
  `TreeTheorem` (`TreeIntact`: older parents and nesting), `OverlapTheorem` and
  `RequestsTheorem` are its parts.
* `DeletesCleanTheorem` - no delete strands a child, from `Integrity` and three lemmas
  about `WithDescendants` (it contains its roots, is closed, adds only live
  pools), a least fixpoint so that no recursion is needed; and an account goes
  only with its pools, from `TypeOK`.
* `TombstonesTheorem` - an action property from `TypeOK`.
* `SerialInvariant` - with one client, `Integrity` and: no orphan, a listed
  store is still the stored one, checked parents and mapped ids are live.
  `RegistryIntegrityTheorem` follows: two checked siblings that overlap need an
  insert that did not list the other, and there is none.
* `RegistryTheorem` - `Spec => Registry!Spec` under the mapping `blocksBar`: an
  insert is `Allocate` or `Plan`, a delete is `Release`, everything else
  stutters.

`NetworkProofs`.  Properties of a request that is `alone` are proved by what such a request
knows at each of its steps; they all rest on two facts:

* `TypeTheorem` - `NetTyped`: the types of the stores and of the locals of every kind of
  request, and parents older than their pools.  It carries the facts about locals
  that no later step checks again: what is left of an import is among the items of
  its preview, a preview names only listed pools, a forced import is of one account,
  a conflict action's import is of the resources the action was asked for.
* `AloneStep` - the frame: when a request is alone after a step, either it took that
  step itself, or the step wrote nothing the request depends on.

On them stand three invariants of the form "whoever is alone has...":

* `DriftTheorem` - `DriftSound`.  Exactness is `DetectInv`: accounts done are exact, and of
  the account at work the open items are the differences without those of the
  resources and pools still to be looked at (`ScanFound`), each once.  Since links are read with
  the resources and the pools at the start, this needs that both are still what
  they were.  That decisions survive is a fact about single steps, of
  disturbed requests too.
* `ImportTheorem` - `ImportsSound`, by `ImportInv`: the live pools made since the import
  began are those it calls created (`Accounted`), each is linked by an item done or is the
  current item's (`Owned`, `Fresh`), and what it may still act on was not linked when it
  began, or was linked by itself.  The last is why a forced import takes no link
  away.  TLC and then the proof showed the case of a resource named
  twice, for which the properties make an exception.
* `ActionTheorem` - `ActionAllOrNothing`, by `ActionInv` beside `ImportInv`: how links and pools
  differ from when the conflict was found, at each step of the action, of the import it
  calls, and of the roll-back (`Untouched`, `LinkDone`, `ImportDone`, `Undone`).  While the
  import runs, its caller's copy of the links differs only where the import
  linked, and those resources had none; so unlinking them restores it.  The order of
  the roll-back is right because the last pool made has no live child: children
  are younger.

`DiscoveryProofs`, about `AgentSync` and through it `Discovery`:

* `TypeCorrect` - `TypeOK`; job ids stay an interval, since a job is never removed.
* `WorkOwnedTheorem` - `WorkOwned`, that is `HeldJobs` and `RequestsOwned`, from the inductive
  invariant `Owned` (both, with `TypeOK`).  `HeldJobs` alone is not inductive: the
  last step of a sync writes the agent of its request into the job, and that
  this is the agent that holds the job, or nobody else does, is what
  `RequestsOwned` keeps while the agent times out, crashes and sends again.
  Conversely `RequestsOwned` survives a new push because no two agents hold one
  job.
* `JobLifecycleTheorem` - an action property from the same invariant.
* `LocalSyncTheorem` - `LocalSyncExact`, from `LocalInv`: no resource was seen after `now`;
  a sync that is `alone` still has the account to itself; and until it
  marks, all of the account that it did not write is older than its time
  (`SoundLocal`).  The second and third need each other: another sync's
  write would break the third, and the only syncs that could write are those
  whose start has ended the second.

`OrgSyncProofs`, by `OrgInv`:

* `ScanExactTheorem` - `ScanExact`.  The invariant says of a scan without an error, at
  every page, what it must have by then (`SoundScan`): each asset that was there
  all along and that its position has passed (`Beyond`).  That a page leaves out
  only what comes after it (`PageCut`) is where the cut's definition is used; the
  greatest asset of a page exists by well-foundedness of the numbers.
* `ReportKeptTheorem` - `ReportKept`.  A run marks by a time that nothing it was
  the last to write is older than (`Dated`): the server's clock on SQLite, the
  report's own time of a local sync elsewhere.  Pushes of agents are left out
  there: the violated `SeenIsActive` is about them.

`AccessProofs`:

* `DisabledTheorem` - `DisabledWithin`, from `SoundAnswer` and `SoundLookup`: a cached "active", or
  a row on its way into the cache, is wrong for no longer than it is old.
  The bound alone says nothing of an answer computed before the user was
  disabled and stored after.
* `TrimmedTheorem` - `SessionsTrimmed`, from `SoundTrim`: where more sessions are live than
  the last listing allowed, without those that failed calls left, some login has not
  listed yet, or what it still has to evict is enough.  Of several logins the one that
  listed last is that one.  A login that could not list leaves its own session
  behind as one that no listing has seen since (`ListFailStep`), a delete that
  failed the one it was to evict.
* `CacheTheorem`, `TwinsTheorem`, `RolesTheorem` - `CacheFollowsStore`, `TwinsOnlyByRace`,
  `RolesInUseStay`, from `IdentityInvariant`: a sign-in about to create a user
  has seen a table without the subject, so that whoever has it now came later
  (`SoundLogin`), and a deletion of a role rests on a listing without active users
  of it (`SoundRequest`).  Both need that users keep their identity in every
  write-back of a row read earlier.
* `RevokedTheorem` - `RevokedStays`, though `UpdateLastUsed` writes to keys whose revocation
  it has not seen.
* `RemindedTheorem` - `RemindedByRaceOnly`: what a listing is about to log was not in the log
  when it looked (`LooksSound`), and the log does not move events.

`StreamsProofs`, about the SQL stores by `SqlInvariant`:

* `NoTwinsTheorem` - `NoTwins`, on either backend: the inductive form is the backend's unique
  index (`UniqueIn`), which is checked in one statement with the write.
* `SqlDeletesCleanTheorem` - `SqlDeletesClean`.  Between the statements of a cascade, what its first
  statement found below the pool is deleted or still on its list (`Walks`); rows
  keep their parents and are never revived, so this survives all other calls.
  A plain delete remembers that its first statement found no child.

about the start:

* `MigratedTheorem` - `MigratedOnce`, with what a replica has read or run being recorded
  (`SeenApplied`), which a crash between two replicas' statements does not undo.
* `SetupTheorem` - `SetupByRaceOnly`: a request that is about to create saw an empty table
  or could not read it (`ChecksSound`), whatever the replica's own flag says.

and about the upgrade:

* `RequestTheorem` - `RequestLostOnlyByRace`, by `UpdateInv`: whoever triggers while the script
  runs is at risk (`TriggersRisky`), and a request that the script has not read was
  written by one of those (`UnreadRisky`).

`InventoryProofs`:

* `AskedTheorem` - `AskedStands`, by `ObjectsInv`: a PATCH on SQL that is not marked stale has
  read the row as it still is, so that its write changes what was asked and no more.
* `AppliedTheorem`, `UntrackedTheorem` - `AppliedExact`, `UntrackedOnlyByLoss`, by `TerraformInv`:
  two addresses never track one row; a request under way is the one that would be
  sent now, as what it refers to is settled before it is sent (`Calling`); and, while nobody
  else writes and nothing failed, rows stand where they are declared from
  the plan on (`Placed`) and have all that is declared once their address is done
  (`Settled`).  A delete, also a forced one, spares what is settled because that
  refers only to rows that stay.

`RecommendationsProofs`:

* `SettledTheorem` - `SettledStays`, from the shapes of records and calls alone: the
  gap analysis is left uninterpreted, so its contents cannot matter.
* `TreeTheorem` - `TreeCopied`, by `TransferInv`: the rows of a pools import are in
  order of their parents' numbers, so a row comes after its parent's; parents and owners of
  stored pools, and keys of accounts, never change; the account a key stands for has that
  key (`KeysHeld`).  That sorting by counting predecessors yields every row once, in
  order, is a lemma of its own (`Ordered`), by the pigeonhole principle.

### Only model-checked

* Liveness (`CallsReturn`, `ChatEnds`, `UpgradeEnds`, `StartedServes`, `PendingIsClaimed`): beyond the
  prover, as ENABLED is.
* `FreeSpaceExact`: what the folds and recursive functions of `AddressSpace` compute
  needs induction over data.  `AllocationsSound` rests on it: a block
  is free because the gaps are exact.

Every other invariant and action property of the passing runs is the subject of a
theorem.

## 5. What is not modelled

* Provider SDKs, parsing, formatting, logging, metrics, tracing, routing, the web
  interface, the OpenAPI document, the forwarding of audit events.
* Reads without an effect on later steps: listings, statistics, fragmentation
  scores, the release cache, status replies, Terraform's data sources.
* Permissions and roles' contents, the rate limiter, CSRF, password rules and token
  checks: they only admit or refuse requests, and the models let every
  interesting one in.
* `UpdatePoolMeta` (a name); the types, reasons and evidence of relationships; the
  "global" hierarchy scope of the network schema; prompts and the parsing of
  plans; an import into Terraform of a row another address already tracks.
* A crash of the server beside requests on the memory store, which has nothing
  left after it.

What could follow: `SqlStore` shown to implement `Pools` where the unique indexes agree;
`AllocationsSound` from an assumed `FreeSpaceExact`; the rate limiter's buckets.
