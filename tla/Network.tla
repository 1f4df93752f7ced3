------------------------------ MODULE Network ------------------------------
(***************************************************************************)
(* The merged network view's conflicts and the actions on them             *)
(* (internal/api/network_handlers.go): link, import, placeholder parent    *)
(* and the decisions skip, ignore and defer, composed with imports, drift  *)
(* detection and the pool store.                                           *)
(*                                                                         *)
(* A conflict is known by its type, its resource and its pool, as in the   *)
(* id the code builds; a duplicate stands under the first resource with    *)
(* its key.  A request computes the view in one step: its lists are reads  *)
(* whose answers the actions check again.  Relationships, which only       *)
(* annotate the view, are left out.                                        *)
(***************************************************************************)
EXTENDS Drift

CONSTANTS HierarchyScope, DuplicateScope,   \* the stored schema policy
          InitialPools, InitialAccounts,    \* stores the server may start on
          MaxObjects,                       \* bound: network objects created
          MaxTurns                          \* bound: requests, and writes of others

VARIABLES objects,   \* placeholder network objects, in order of creation
          turns      \* requests and writes of others so far

networkVars == <<store, req, res, job, driftStore, objects, turns>>

ASSUME NetworkAssumption ==
  /\ HierarchyScope \in {"account", "region", "manual"}
  /\ DuplicateScope \in {"account", "region", "global", "manual"}
  /\ \A stored \in InitialPools :
       /\ stored \in Seq(Pool)
       /\ \A i \in DOMAIN stored :
            stored[i].parent # None => stored[i].parent \in 1 .. i - 1
  /\ InitialAccounts \in Seq(Account)
  /\ MaxObjects \in Nat
  /\ MaxTurns \in Nat

-----------------------------------------------------------------------------
(* computeNetworkConflicts. *)

Visible(r) == LiveAccount(Data[r].account)

\* The parent by the policy's key: account and id, and the region if asked
ParentByPolicy(r) ==
  {s \in ParentOf(r) : HierarchyScope = "region" => Data[s].region = Data[r].region}

Nested(r) == Data[r].type = "subnet" /\ Data[r].up # None /\ HierarchyScope # "manual"

missingParent(r) == Nested(r) /\ ParentByPolicy(r) = {}

invalidNesting(r) ==
  /\ Nested(r)
  /\ Data[r].cidr # NoCIDR
  /\ \E s \in ParentByPolicy(r) :
       Data[s].cidr # NoCIDR /\ ~ cidrContains(Data[s].cidr, Data[r].cidr)

\* A link to a live pool with another CIDR; the type tells how far apart
mismatchType(r) ==
  LET p == pools[res[r].pool].cidr
  IN IF cidrContains(p, Data[r].cidr) \/ cidrContains(Data[r].cidr, p)
     THEN "linked_pool_mismatch" ELSE "outside_pool"

linkedPoolMismatch(r) ==
  /\ ~ Unlinked(r) /\ Live(res[r].pool)
  /\ Data[r].cidr # NoCIDR
  /\ ~ cidrEqual(pools[res[r].pool].cidr, Data[r].cidr)

exactPool(r, i) ==
  /\ Live(i) /\ res[r].pool # i
  /\ Data[r].cidr # NoCIDR
  /\ cidrEqual(Data[r].cidr, pools[i].cidr)

\* duplicatePolicyKey
SameDuplicateKey(r, s) ==
  /\ DuplicateScope # "manual"
  /\ Data[r].cidr # NoCIDR /\ Data[r].cidr = Data[s].cidr
  /\ DuplicateScope # "global" => Data[r].account = Data[s].account
  /\ DuplicateScope = "region" => Data[r].region = Data[s].region

Duplicates(r) == {s \in Resources : Visible(s) /\ SameDuplicateKey(r, s)}

\* Overlaps short of containment do not exist between prefixes: the code's
\* managed_overlap never arises
Conflict(type, r, p) == [type |-> type, r |-> r, pool |-> p]

computeNetworkConflicts ==
  LET R == {r \in Resources : Visible(r)}
      reps == {r \in Resources : \A s \in Resources : SameDuplicateKey(r, s) => r <= s}
  IN {Conflict("missing_parent", r, None) : r \in {s \in R : missingParent(s)}}
     \cup {Conflict("invalid_nesting", r, None) : r \in {s \in R : invalidNesting(s)}}
     \cup {Conflict(mismatchType(r), r, None) : r \in {s \in R : linkedPoolMismatch(s)}}
     \cup (UNION {{Conflict(IF Unlinked(r) THEN "unlinked_exact_pool"
                            ELSE "alternate_exact_pool", r, i) :
                     i \in {k \in Ids : exactPool(r, k)}} : r \in R})
     \cup {Conflict("duplicate_cidr", r, None) :
             r \in {s \in reps : Cardinality(Duplicates(s)) > 1}}

DiscoveredIDs(c) ==
  CASE c.type = "duplicate_cidr" -> Duplicates(c.r)
    [] c.type = "invalid_nesting" -> {c.r} \cup ParentByPolicy(c.r)
    [] OTHER -> {c.r}

PoolIDs(c) ==
  CASE c.type \in {"unlinked_exact_pool", "alternate_exact_pool"} -> {c.pool}
    [] c.type \in {"linked_pool_mismatch", "outside_pool"} -> {res[c.r].pool}
    [] OTHER -> {}

\* The first account of the conflict; a duplicate's accounts are sorted
ConflictAccount(c) ==
  IF c.type = "duplicate_cidr" THEN FirstOf({Data[r].account : r \in Duplicates(c.r)})
  ELSE Data[c.r].account

-----------------------------------------------------------------------------
(* The record of a conflict's resolution. *)

RecordPut(c, account, status) ==
  /\ records' = [d \in DOMAIN records \cup {c} |->
                   IF d = c THEN [account |-> account, status |-> status] ELSE records[d]]
  /\ UNCHANGED <<drifts, detections>>

RecordStatus(c, status) == RecordPut(c, records[c].account, status)

networkDecisionStatus(decision) ==
  CASE decision = "ignore" -> "ignored"
    [] decision \in {"skip", "link", "import"} -> "resolved"
    [] decision = "defer" -> "open"

\* A request on conflict c.  before and base are history: the links and the
\* next pool id when it was found.
Work(op, c, kind, decision) ==
  [op |-> op, id |-> c, account |-> ConflictAccount(c), kind |-> kind,
   decision |-> decision, r |-> c.r, pool |-> None, ids |-> <<>>, selected |-> None,
   override |-> FALSE, linked |-> {}, created |-> {}, stuck |-> FALSE, before |-> [r \in Resources |-> res[r].pool], base |-> next,
   alone |-> TRUE]

\* handleResolveNetworkConflict: the view, then the decision is stored
ResolveRequest(w, c, decision) ==
  /\ job[w] = Idle
  /\ c \in computeNetworkConflicts
  /\ Goes(w, Work("resolve", c, "decision", decision))
  /\ UNCHANGED <<store, req, res, driftStore, objects>>

\* persistNetworkConflictActionResolution: update the record, ...
ResolveUpdate(w) ==
  LET j == job[w]
      known == j.id \in DOMAIN records
  IN /\ j.op = "resolve"
     /\ \/ /\ known
           /\ RecordStatus(j.id, networkDecisionStatus(j.decision))
           /\ Writes(w, [j EXCEPT !.op = "ok"])
        \/ /\ ~ known
           /\ Goes(w, [j EXCEPT !.op = "record"])
           /\ UNCHANGED driftStore
        \/ DriftFails /\ Goes(w, [j EXCEPT !.op = "rollback"])
     /\ UNCHANGED <<store, req, res, objects>>

\* ... or create it open ...
ResolveCreate(w) ==
  LET j == job[w]
  IN /\ j.op = "record"
     /\ \/ /\ RecordPut(j.id, j.account, "open")
           /\ Writes(w, [j EXCEPT !.op = "recorded"])
        \/ DriftFails /\ Goes(w, [j EXCEPT !.op = "rollback"])
     /\ UNCHANGED <<store, req, res, objects>>

\* ... and update it, unless a detection has just deleted it
ResolveAgain(w) ==
  LET j == job[w]
  IN /\ j.op = "recorded"
     /\ \/ /\ j.id \in DOMAIN records
           /\ RecordStatus(j.id, networkDecisionStatus(j.decision))
           /\ Writes(w, [j EXCEPT !.op = "ok"])
        \/ /\ StoreErrors \/ j.id \notin DOMAIN records
           /\ Goes(w, [j EXCEPT !.op = "rollback"])
           /\ UNCHANGED driftStore
     /\ UNCHANGED <<store, req, res, objects>>

\* ensureNetworkConflictResolutionRecord: the record exists and is open before
\* anything is changed; a record deleted meanwhile ends it like a store error
EnsureRecord(w) ==
  LET j == job[w]
      account == IF j.id \in DOMAIN records THEN records[j.id].account ELSE j.account
  IN /\ j.op = "ensure"
     /\ \/ /\ RecordPut(j.id, account, "open")
           /\ Writes(w, [j EXCEPT !.op = j.kind])
        \/ DriftFails /\ Goes(w, [j EXCEPT !.op = "failed"])
     /\ UNCHANGED <<store, req, res, objects>>

-----------------------------------------------------------------------------
(* Link action. *)

\* validateNetworkConflictLinkAction
LinkAllowed(r, p, override) ==
  /\ res[r].pool # p
  /\ res[r].active
  /\ ~ override =>
       /\ SameAccount(pools[p].account, r)
       /\ Data[r].cidr # NoCIDR
       /\ cidrContains(pools[p].cidr, Data[r].cidr)

LinkActionRequest(w, c, r, p, override) ==
  /\ job[w] = Idle
  /\ c \in computeNetworkConflicts
  /\ r \in DiscoveredIDs(c) /\ p \in PoolIDs(c) /\ Live(p)
  /\ LinkAllowed(r, p, override)
  /\ Goes(w, [Work("ensure", c, "link_action", "link") EXCEPT !.r = r, !.pool = p])
  /\ UNCHANGED <<store, req, res, driftStore, objects>>

LinkAction(w) ==
  LET j == job[w]
  IN /\ j.op = "link_action"
     /\ \/ LinkResource(j.r, j.pool) /\ Writes(w, [j EXCEPT !.op = "resolve"])
        \/ LinkFails /\ Goes(w, [j EXCEPT !.op = "failed"])
     /\ UNCHANGED <<store, req, driftStore, objects>>

RollbackToNone(r, previous) == LinkResource(r, None)    \* mutant: forgets the previous link

\* rollbackNetworkConflictLink
RollbackTo(r, previous) == LinkResource(r, previous)

RollbackLink(w) ==
  LET j == job[w]
  IN /\ j.op = "rollback" /\ j.kind = "link_action"
     /\ \/ RollbackTo(j.r, j.before[j.r]) /\ Writes(w, [j EXCEPT !.op = "failed"])
        \/ LinkFails /\ Goes(w, [j EXCEPT !.op = "stuck"])
     /\ UNCHANGED <<store, req, driftStore, objects>>

-----------------------------------------------------------------------------
(* Import action. *)

\* All selected resources belong to the conflict and to one account; without
\* override the preview shows all of them importable
ImportActionRequest(w, c, ids, selected, override) ==
  LET chosen == {ids[k] : k \in DOMAIN ids}
      account == Data[Head(ids)].account
      allImportable ==
        \A r \in chosen : PreviewStatus(r, account, ids, selected, ListPools) = "importable"
  IN /\ job[w] = Idle
     /\ c \in computeNetworkConflicts
     /\ ids # <<>> /\ chosen \subseteq DiscoveredIDs(c)
     /\ \A r \in chosen : Data[r].account = account
     /\ override \/ (ImportReady(account, selected) /\ allImportable)
     /\ selected # None => Live(selected) /\ pools[selected].account \in {None, account}
     /\ Goes(w, [Work("ensure", c, "import_action", "import")
                   EXCEPT !.ids = ids, !.selected = selected, !.override = override])
     /\ UNCHANGED <<store, req, res, driftStore, objects>>

\* applyDiscoveryImport is the import of Imports, with this request as its
\* caller; without the account it does nothing
ImportAction(w) ==
  LET j == job[w]
      account == Data[Head(j.ids)].account
  IN /\ j.op = "import_action"
     /\ IF ImportReady(account, j.selected)
        THEN ImportBegin(w, account, j.ids, j.selected, j.override, j, j.alone)
        ELSE Goes(w, [j EXCEPT !.op = "failed"])
     /\ UNCHANGED <<store, req, res, driftStore, objects>>

\* Anything skipped, or nothing linked: the import is taken back
ImportOutcome(w) ==
  LET j == job[w]
      result == [j.conflict EXCEPT !.linked = j.linked, !.created = j.created,
                                   !.alone = j.alone]
  IN /\ j.op = "imported"
     /\ j.conflict # None
     /\ Goes(w, [result EXCEPT !.op = IF j.failed \/ j.linked = {} THEN "rollback"
                                      ELSE "resolve"])
     /\ UNCHANGED <<store, req, res, driftStore, objects>>

\* rollbackNetworkConflictImport: unlink, ...
RollbackUnlink(w) ==
  LET j == job[w]
      r == FirstOf(j.linked)
      then == [j EXCEPT !.linked = @ \ {r}]
  IN /\ j.op = "rollback" /\ j.kind = "import_action" /\ j.linked # {}
     /\ \/ LinkResource(r, None) /\ Writes(w, then)
        \/ LinkFails /\ Goes(w, [then EXCEPT !.stuck = TRUE])
     /\ UNCHANGED <<store, req, driftStore, objects>>

FirstCreated(S) == CHOOSE p \in S : \A q \in S : p <= q    \* mutant: parents first

\* ... then delete the pools, the last created first
LastCreated(S) == CHOOSE p \in S : \A q \in S : q <= p

RollbackPool(w) ==
  LET j == job[w]
      p == LastCreated(j.created)
      then == [j EXCEPT !.created = @ \ {p}]
  IN /\ j.op = "rollback" /\ j.kind = "import_action" /\ j.linked = {} /\ j.created # {}
     /\ \/ RemovePool(p) /\ Writes(w, then)
        \/ RemoveFails(p) /\ Goes(w, [then EXCEPT !.stuck = TRUE])
     /\ UNCHANGED <<req, res, driftStore, objects>>

RollbackEnd(w) ==
  LET j == job[w]
  IN /\ j.op = "rollback" /\ j.kind # "link_action" /\ j.linked = {} /\ j.created = {}
     /\ Goes(w, [j EXCEPT !.op = IF j.stuck THEN "stuck" ELSE "failed"])
     /\ UNCHANGED <<store, req, res, driftStore, objects>>

-----------------------------------------------------------------------------
(* Placeholder parent. *)

Placeholder(r) ==
  [account |-> Data[r].account, region |-> Data[r].region, name |-> Data[r].up]

\* ListNetworkObjects, and the object created when none is there
PlaceholderRequest(w, c) ==
  LET known == \E k \in DOMAIN objects : objects[k] = Placeholder(c.r)
  IN /\ job[w] = Idle
     /\ c \in computeNetworkConflicts
     /\ c.type = "missing_parent"
     /\ Goes(w, Work(IF known THEN "resolve" ELSE "placeholder", c, "decision", "defer"))
     /\ UNCHANGED <<store, req, res, driftStore, objects>>

PlaceholderCreate(w) ==
  LET j == job[w]
  IN /\ j.op = "placeholder"
     /\ \/ /\ Len(objects) < MaxObjects
           /\ objects' = Append(objects, Placeholder(j.r))
           /\ Writes(w, [j EXCEPT !.op = "resolve"])
        \/ /\ StoreErrors \/ Len(objects) = MaxObjects
           /\ Goes(w, [j EXCEPT !.op = "failed"])
           /\ UNCHANGED objects
     /\ UNCHANGED <<store, req, res, driftStore>>

-----------------------------------------------------------------------------
ActionReturn(w) ==
  /\ job[w].op \in {"ok", "failed", "stuck"}
  /\ Goes(w, Idle)
  /\ UNCHANGED <<store, req, res, driftStore, objects>>

ConflictStep(w) ==
  \/ ResolveUpdate(w) \/ ResolveCreate(w) \/ ResolveAgain(w)
  \/ EnsureRecord(w)
  \/ LinkAction(w) \/ RollbackLink(w)
  \/ ImportAction(w) \/ ImportOutcome(w)
  \/ RollbackUnlink(w) \/ RollbackPool(w) \/ RollbackEnd(w)
  \/ PlaceholderCreate(w)
  \/ ActionReturn(w)

ConflictRequest(w, c) ==
  \/ \E decision \in {"skip", "ignore", "defer"} : ResolveRequest(w, c, decision)
  \/ \E r \in Resources, p \in Ids, override \in BOOLEAN :
       LinkActionRequest(w, c, r, p, override)
  \/ \E ids \in Selections, selected \in {None} \cup Ids, override \in BOOLEAN :
       ImportActionRequest(w, c, ids, selected, override)
  \/ PlaceholderRequest(w, c)

-----------------------------------------------------------------------------

NetworkInit ==
  /\ pools \in InitialPools
  /\ next = Len(pools) + 1
  /\ accounts = InitialAccounts
  /\ nextAccount = Len(accounts) + 1
  /\ req = [c \in Clients |-> Idle]
  /\ res = [r \in Resources |-> [active |-> TRUE, pool |-> None]]
  /\ job = [w \in Workers |-> Idle]
  /\ drifts = {} /\ records = <<>> /\ detections = 0
  /\ objects = <<>>
  /\ turns = 0

NewRequest(w) ==
  \/ /\ \/ \E r \in Resources, p \in Ids : LinkRequest(w, r, p)
        \/ \E r \in Resources : ~ Unlinked(r) /\ Unlink(w, r)
        \/ \E a \in AccountIds, ids \in Selections, selected \in {None} \cup Ids :
             ImportRequest(w, a, ids, selected)
        \/ \E a \in AccountIds : SchemaImportRequest(w, a)
     /\ UNCHANGED <<driftStore, objects>>
  \/ DetectRequest(w, AccountIds) /\ UNCHANGED objects
  \/ \E a \in AccountIds : DetectRequest(w, {a}) /\ UNCHANGED objects
  \/ \E c \in computeNetworkConflicts : ConflictRequest(w, c)

\* Writes of others while requests are at work
OthersWrite ==
  /\ \/ (\E c \in Clients : Others(c)) /\ UNCHANGED driftStore
     \/ (\E r \in Resources : Rediscover(r)) /\ UNCHANGED <<store, req, driftStore>>
     \/ (\E status \in {"resolved", "ignored"} : Decide(status)) /\ UNCHANGED <<store, req, res>>
  /\ job' = Disturbed(job, None)
  /\ UNCHANGED objects

Arrives ==
  /\ turns < MaxTurns
  /\ turns' = turns + 1
  /\ (\E w \in Workers : NewRequest(w)) \/ OthersWrite

Serves(w) ==
  /\ \/ LinkWrite(w) /\ UNCHANGED <<driftStore, objects>>
     \/ ImportStep(w) /\ UNCHANGED <<driftStore, objects>>
     \/ SchemaImportStep(w) /\ UNCHANGED <<driftStore, objects>>
     \/ DetectStep(w) /\ UNCHANGED objects
     \/ ConflictStep(w)
  /\ UNCHANGED turns

NetworkNext == Arrives \/ \E w \in Workers : Serves(w)

NetworkSpec == NetworkInit /\ [][NetworkNext]_networkVars

-----------------------------------------------------------------------------
(* Properties. *)

Deletable(p) == Live(p) /\ \A i \in Ids : pools[i].parent = p => ~ Live(i)

\* A conflict action that nobody disturbed is all or nothing.  When it succeeds
\* the stored status is the decision's, a link action has ended its conflict,
\* an import has linked everything selected.  When it fails, however far it
\* came, links are what they were and no pool it made is left: its rollback
\* takes the pools in an order in which none is refused, so that only a failing
\* store write, which the operator is told, may leave something (the link and
\* import actions with their rollbacks, network_handlers.go).
ActionAllOrNothing ==
  \A w \in Workers :
    LET j == job[w]
    IN /\ j.op = "ok" /\ j.alone =>
            /\ records[j.id].status = networkDecisionStatus(j.decision)
            /\ j.kind = "link_action" =>
                 res[j.r].pool = j.pool /\ j.id \notin computeNetworkConflicts
            /\ j.kind = "import_action" => \A k \in DOMAIN j.ids : ~ Unlinked(j.ids[k])
       /\ j.op = "failed" /\ j.alone =>
            /\ \A r \in Resources : res[r].pool = j.before[r]
            /\ \A i \in Ids : i >= j.base => ~ Live(i)
       /\ /\ j.op = "rollback" /\ j.alone
          /\ ~ j.stuck /\ j.linked = {} /\ j.created # {}
          => Deletable(LastCreated(j.created))

\* A settled decision, on a drift or on a conflict, is never deleted, and only
\* an action on that very conflict reopens it: detections clear open items only
\* and report the same drift anew (DeleteOpenForAccount, Detect,
\* ensureNetworkConflictResolutionRecord).
DecisionsSurvive ==
  [][/\ \A c \in DOMAIN records : records[c].status # "open" =>
          /\ c \in DOMAIN records'
          /\ records'[c].status = "open" =>
               \E w \in Workers :
                 job[w].op \in {"ensure", "resolve", "record", "recorded"} /\ job[w].id = c
     /\ \A d \in drifts : d.status # "open" =>
          \E e \in drifts' :
            e.run = d.run /\ e.kind = d.kind /\ e.subject = d.subject /\ e.status # "open"
    ]_<<drifts, records, job>>

\* Detections are exact, and decisions survive them.
DriftSound == []DetectExact /\ DecisionsSurvive

=============================================================================
