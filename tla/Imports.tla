------------------------------ MODULE Imports ------------------------------
(***************************************************************************)
(* Turning discovered cloud resources into pools: links, the preview and   *)
(* apply of an import, and the import of a whole account                   *)
(* (internal/api/discovery_handlers.go), over the pool store of Pools.     *)
(*                                                                         *)
(* What the provider says of a resource is constant (Data); the server     *)
(* keeps its status and the pool it is linked to (res).  A handler runs in *)
(* worker w with its locals in job[w] and gives way at every store call    *)
(* whose answer another actor can change; reads in a row are one step.     *)
(* Resources are numbered in the order imports sort them: VPCs first, then *)
(* by provider id.                                                         *)
(*                                                                         *)
(* "alone" in a job is history: nobody else has written since it began.    *)
(***************************************************************************)
EXTENDS Pools

CONSTANTS Workers,      \* request goroutines of the handlers below
          Resources,    \* discovered resources, 1 .. n
          Data,         \* [Resources -> ResourceData]
          Names,        \* provider resource ids
          Selections    \* resource_ids of import requests: sorted, may repeat

VARIABLES res,          \* m.resources: status and pool link
          job           \* locals of each worker

store == <<pools, next, accounts, nextAccount>>

NoCIDR == None

ResourceData ==
  [account : PoolIds, type : {"vpc", "subnet", "elastic_ip"}, name : Names,
   cidr : CIDRs \cup {NoCIDR}, up : Names \cup {None}, region : STRING]

\* A pool's type, and its tag discovery_resource_id
PoolMeta == [type : {"vpc", "subnet"}, tag : Names \cup {None}]

ASSUME ImportsAssumption ==
  /\ IsFiniteSet(Resources) /\ Resources = 1 .. Cardinality(Resources)
  /\ Data \in [Resources -> ResourceData]
  /\ Metas = PoolMeta
  /\ None \notin Workers
  /\ Selections \subseteq Seq(Resources)
  /\ \A r, s \in Resources : r < s /\ Data[s].type = "vpc" => Data[r].type = "vpc"
  /\ \A r, s \in Resources :
       Data[r].account = Data[s].account /\ Data[r].name = Data[s].name => r = s

Unlinked(r) == res[r].pool = None

CanBePool(r) == Data[r].type \in {"vpc", "subnet"}

SameAccount(account, r) == account = None \/ account = Data[r].account

\* Another actor wrote: whoever is at work is not alone any more
Disturbed(jobs, except) ==
  [w \in Workers |-> IF w = except \/ jobs[w].op = "idle"
                     THEN jobs[w] ELSE [jobs[w] EXCEPT !.alone = FALSE]]

\* Worker w continues with r, after a step that wrote nothing ...
Goes(w, r) == job' = [job EXCEPT ![w] = r]

\* ... or wrote
Writes(w, r) == job' = [Disturbed(job, w) EXCEPT ![w] = r]

-----------------------------------------------------------------------------
(* The link of a resource. *)

\* LinkResourceToPool and UnlinkResource: whatever the pool
LinkResource(r, p) == res' = [res EXCEPT ![r].pool = p]

\* A discovery store write that returns an error
LinkFails == StoreErrors /\ UNCHANGED res

LinkRequest(w, r, p) ==
  /\ job[w] = Idle
  /\ Live(p)
  /\ SameAccount(pools[p].account, r)
  /\ res[r].active
  /\ Goes(w, [op |-> "linking", r |-> r, pool |-> p, alone |-> TRUE])
  /\ UNCHANGED <<store, req, res>>

LinkWrite(w) ==
  /\ job[w].op = "linking"
  /\ \/ LinkResource(job[w].r, job[w].pool) /\ Writes(w, Idle)
     \/ LinkFails /\ Goes(w, Idle)
  /\ UNCHANGED <<store, req>>

Unlink(w, r) ==
  /\ job[w] = Idle
  /\ LinkResource(r, None)
  /\ Writes(w, Idle)
  /\ UNCHANGED <<store, req>>

-----------------------------------------------------------------------------
(* Preview.  listed is what ListPools returned: id -> account then; CIDRs  *)
(* never change.                                                           *)

cidrEqual(a, b) == a.bits = b.bits /\ Masked(a) = Masked(b)

cidrContains(parent, child) ==
  parent.bits <= child.bits /\ Contains(parent, Masked(child))

ListPools == [i \in {j \in Ids : ~ pools[j].deleted} |-> pools[i].account]

Exact(listed, r) == {i \in DOMAIN listed : cidrEqual(pools[i].cidr, Data[r].cidr)}

\* Exact matches of this account, any of which may come last in map order
MatchingPools(listed, r) ==
  {i \in Exact(listed, r) : SameAccount(listed[i], r)}

\* Pools around the CIDR: the first one in map order becomes the parent
ContainingPools(listed, r) ==
  {i \in DOMAIN listed \ Exact(listed, r) :
     cidrContains(pools[i].cidr, Data[r].cidr) /\ SameAccount(listed[i], r)}

\* Pools inside the CIDR, whosever they are
OverlappedPools(listed, r) ==
  {i \in DOMAIN listed \ Exact(listed, r) : cidrContains(Data[r].cidr, pools[i].cidr)}

Choices(S) == IF S = {} THEN {None} ELSE S

\* The resource of the same account that r names as its parent
ParentOf(r) ==
  {s \in Resources : Data[s].account = Data[r].account /\ Data[s].name = Data[r].up}

\* The pool that the request or the provider's parent proposes
GivenParent(r, selected) ==
  LET linked == {res[s].pool : s \in ParentOf(r)} \ {None}
  IN IF Data[r].type = "subnet" /\ linked # {} THEN CHOOSE p \in linked : TRUE
     ELSE IF selected # None /\ cidrContains(pools[selected].cidr, Data[r].cidr)
          THEN selected ELSE None

duplicateCIDRs(r) ==
  \E s \in Resources :
    /\ Data[s].account # Data[r].account
    /\ LiveAccount(Data[s].account)
    /\ res[s].active
    /\ Data[s].cidr = Data[r].cidr

\* A subnet whose parent is neither linked nor selected
MissingParent(r, ids) ==
  /\ Data[r].type = "subnet"
  /\ Data[r].up # None
  /\ \A s \in ParentOf(r) : Unlinked(s) /\ \A k \in DOMAIN ids : ids[k] # s

OutsidePool(r, selected) ==
  selected # None /\ ~ cidrContains(pools[selected].cidr, Data[r].cidr)

PreviewStatus(r, account, ids, selected, listed) ==
  IF Data[r].account # account THEN "account_mismatch"
  ELSE IF ~ Unlinked(r) THEN "already_linked"
  ELSE IF ~ res[r].active THEN "stale"
  ELSE IF ~ CanBePool(r) THEN "linked_only"
  ELSE IF Data[r].cidr = NoCIDR THEN "invalid_cidr"
  ELSE IF \/ Exact(listed, r) # MatchingPools(listed, r)
          \/ OverlappedPools(listed, r) # {}
          \/ duplicateCIDRs(r)
    THEN "conflict"
  ELSE IF MissingParent(r, ids) \/ OutsidePool(r, selected) THEN "blocked"
  ELSE "importable"

PreviewItem == [status : STRING, pool : OptId, parent : OptId]

\* The item a preview may show for r, over the orders of the pool list
PreviewItems(r, account, ids, selected, listed) ==
  LET status == PreviewStatus(r, account, ids, selected, listed)
      given == GivenParent(r, selected)
  IN IF status \notin {"conflict", "blocked", "importable"}
     THEN {[status |-> status, pool |-> None, parent |-> None]}
     ELSE {[status |-> status, pool |-> p, parent |-> IF given = None THEN q ELSE given] :
             p \in Choices(MatchingPools(listed, r)),
             q \in Choices(ContainingPools(listed, r))}

canForceDiscoveryImportLinked(r, item, force) ==   \* mutant: linked resources too
  force /\ item.status \in {"conflict", "blocked", "account_mismatch", "already_linked"}

\* With override, everything but linked, stale and non-pool resources: an
\* item of another account too
canForceDiscoveryImport(r, item, force) ==
  /\ force
  /\ item.status \in {"conflict", "blocked", "account_mismatch"}
  /\ CanBePool(r) /\ Data[r].cidr # NoCIDR

-----------------------------------------------------------------------------
(* Apply.  conflict is None for POST /discovery/import/apply; otherwise the *)
(* conflict action that called it and goes on when op is "imported".       *)

\* GetAccount, and the check of the selected pool
ImportReady(account, selected) ==
  /\ LiveAccount(account)
  /\ selected # None => Live(selected) /\ pools[selected].account \in {None, account}

\* base is history: the next pool id when the import began
ImportBegin(w, account, ids, selected, force, conflict, alone) ==
  /\ ImportReady(account, selected)
  /\ Goes(w, [op |-> "preview", account |-> account, ids |-> ids,
              selected |-> selected, force |-> force, conflict |-> conflict,
              listed |-> ListPools, base |-> next, alone |-> alone])

ImportRequest(w, account, ids, selected) ==
  /\ job[w] = Idle
  /\ ids # <<>>
  /\ ImportBegin(w, account, ids, selected, FALSE, None, TRUE)
  /\ UNCHANGED <<store, req, res>>

\* One item per selected resource; all come from one pool list
Previews(w) ==
  LET j == job[w]
      chosen == {j.ids[k] : k \in DOMAIN j.ids}
      of(r) == PreviewItems(r, j.account, j.ids, j.selected, j.listed)
  IN {f \in [chosen -> UNION {of(r) : r \in chosen}] : \A r \in chosen : f[r] \in of(r)}

\* made: createdPoolByProviderID; created, linked, failed: the response, failed
\* when anything was skipped; parent and pool belong to the current item
ImportPreview(w) ==
  /\ job[w].op = "preview"
  /\ \E items \in Previews(w) :
       Goes(w, [op |-> "item",
                account |-> job[w].account, ids |-> job[w].ids, items |-> items,
                force |-> job[w].force, conflict |-> job[w].conflict,
                made |-> [r \in DOMAIN items |-> None], created |-> {},
                linked |-> {}, failed |-> FALSE, parent |-> None, pool |-> None,
                base |-> job[w].base, alone |-> job[w].alone])
  /\ UNCHANGED <<store, req, res>>

\* On to the next item
Rest(j) == [j EXCEPT !.ids = Tail(@), !.parent = None, !.pool = None,
                     !.op = IF Len(j.ids) = 1 THEN "imported" ELSE "item"]

Done(j, pool) ==
  LET r == Head(j.ids)
  IN Rest([j EXCEPT !.made[r] = pool, !.linked = @ \cup {r}])

Skipped(j) == Rest([j EXCEPT !.failed = TRUE])

Wanted(j) ==
  LET r == Head(j.ids)
  IN j.items[r].status = "importable" \/ canForceDiscoveryImport(r, j.items[r], j.force)

ApplySkip(w) ==
  /\ job[w].op = "item"
  /\ ~ Wanted(job[w])
  /\ Goes(w, Skipped(job[w]))
  /\ UNCHANGED <<store, req, res>>

\* An exact match: the resource is linked to it
ApplyLinkExisting(w) ==
  LET r == Head(job[w].ids)
      p == job[w].items[r].pool
  IN /\ job[w].op = "item"
     /\ Wanted(job[w])
     /\ p # None
     /\ \/ LinkResource(r, p) /\ Writes(w, Done(job[w], p))
        \/ LinkFails /\ Goes(w, Skipped(job[w]))
     /\ UNCHANGED <<store, req>>

\* The proposed parent, or the pool this import gave last to a resource with the
\* id of the provider's parent, of whichever account
ImportParent(j) ==
  LET r == Head(j.ids)
      named == {s \in DOMAIN j.made : Data[s].name = Data[r].up /\ j.made[s] # None}
  IN IF j.items[r].parent # None \/ named = {} THEN j.items[r].parent
     ELSE j.made[CHOOSE s \in named : \A t \in named : t <= s]

validateImportParentPool(account, p) ==
  Live(p) /\ pools[p].account \in {None, account}

ApplyParent(w) ==
  LET j == job[w]
      r == Head(j.ids)
      p == ImportParent(j)
      orphan == Data[r].type = "subnet" /\ Data[r].up # None /\ p = None
  IN /\ j.op = "item"
     /\ Wanted(j)
     /\ j.items[r].pool = None
     /\ Goes(w, IF orphan \/ (p # None /\ ~ validateImportParentPool(j.account, p))
                THEN Skipped(j)
                ELSE [j EXCEPT !.op = "create", !.parent = p])
     /\ UNCHANGED <<store, req, res>>

\* createDiscoveredPool: no look at the siblings, nor at the parent's CIDR
DiscoveredPool(r, account, parent) ==
  NewPool(Data[r].cidr, parent, account, [type |-> Data[r].type, tag |-> Data[r].name],
          FALSE, next)

ApplyCreate(w) ==
  LET j == job[w]
      r == Head(j.ids)
  IN /\ j.op = "create"
     /\ \/ /\ CreatePool(DiscoveredPool(r, j.account, j.parent))
           /\ Writes(w, [j EXCEPT !.op = "link", !.pool = next, !.created = @ \cup {next}])
        \/ StoreFails /\ Goes(w, Skipped(j))
     /\ UNCHANGED <<req, res>>

ApplyLink(w) ==
  LET j == job[w]
  IN /\ j.op = "link"
     /\ \/ LinkResource(Head(j.ids), j.pool) /\ Writes(w, Done(j, j.pool))
        \/ LinkFails /\ Goes(w, [j EXCEPT !.op = "cleanup"])
     /\ UNCHANGED <<store, req>>

\* store.DeletePool: refused for a pool that is gone or has live children
RemovePool(p) ==
  /\ Live(p)
  /\ \A i \in Ids : pools[i].parent = p => pools[i].deleted
  /\ pools' = SoftDelete({p})
  /\ UNCHANGED <<next, accounts, nextAccount>>

RemoveFails(p) ==
  /\ \/ StoreErrors
     \/ ~ Live(p)
     \/ \E i \in Ids : pools[i].parent = p /\ ~ pools[i].deleted
  /\ UNCHANGED store

ApplyCleanupForgets(w) ==    \* mutant: a pool that stays is not reported
  LET j == job[w]
      then == Skipped([j EXCEPT !.created = @ \ {j.pool}])
  IN /\ j.op = "cleanup"
     /\ \/ RemovePool(j.pool) /\ Writes(w, then)
        \/ RemoveFails(j.pool) /\ Goes(w, then)
     /\ UNCHANGED <<req, res>>

\* The link failed: the new pool goes again, and if it does not it stays among
\* the created ones
ApplyCleanup(w) ==
  LET j == job[w]
  IN /\ j.op = "cleanup"
     /\ \/ RemovePool(j.pool) /\ Writes(w, Skipped([j EXCEPT !.created = @ \ {j.pool}]))
        \/ RemoveFails(j.pool) /\ Goes(w, Skipped(j))
     /\ UNCHANGED <<req, res>>

ImportReturn(w) ==
  /\ job[w].op = "imported"
  /\ job[w].conflict = None
  /\ Goes(w, Idle)
  /\ UNCHANGED <<store, req, res>>

ImportStep(w) ==
  \/ ImportPreview(w)
  \/ ApplySkip(w)
  \/ ApplyLinkExisting(w)
  \/ ApplyParent(w)
  \/ ApplyCreate(w)
  \/ ApplyLink(w)
  \/ ApplyCleanup(w)
  \/ ImportReturn(w)

-----------------------------------------------------------------------------
(* POST /discovery/import: every active resource of an account, without a   *)
(* preview.                                                                 *)

\* ListDiscoveredResources; links is what it showed of each resource
SchemaImportRequest(w, account) ==
  LET shown == {r \in Resources : Data[r].account = account /\ res[r].active}
  IN /\ job[w] = Idle
     /\ LiveAccount(account)
     /\ shown # {}
     /\ Goes(w, [op |-> "schema_list", account |-> account,
                 links |-> [r \in shown |-> res[r].pool], alone |-> TRUE])
     /\ UNCHANGED <<store, req, res>>

\* here is resourceToPool; listed grows by the pools this import makes
SchemaImportList(w) ==
  LET j == job[w]
  IN /\ j.op = "schema_list"
     /\ Goes(w, [op |-> "schema", account |-> j.account, links |-> j.links,
                 todo |-> DOMAIN j.links, here |-> [r \in DOMAIN j.links |-> None],
                 listed |-> ListPools, parent |-> None, pool |-> None,
                 alone |-> j.alone])
     /\ UNCHANGED <<store, req, res>>

FirstOf(S) == CHOOSE r \in S : \A s \in S : r <= s

SchemaRest(j, r, p) ==
  LET left == j.todo \ {r}
  IN IF left = {} THEN Idle
     ELSE [j EXCEPT !.op = "schema", !.todo = left, !.here[r] = p,
                    !.parent = None, !.pool = None]

\* Nothing to do for a linked resource, for one that is no pool, or without CIDR
SchemaImportSkip(w) ==
  LET j == job[w]
      r == FirstOf(j.todo)
  IN /\ j.op = "schema"
     /\ j.links[r] # None \/ ~ CanBePool(r) \/ Data[r].cidr = NoCIDR
     /\ Goes(w, SchemaRest(j, r, j.links[r]))
     /\ UNCHANGED <<store, req, res>>

\* poolByDiscoveryID: the tag alone, whosever the pool is
Tagged(j, r) == {i \in DOMAIN j.listed : pools[i].meta.tag = Data[r].name}

\* poolByShape
Shaped(j, r, parent) ==
  {i \in DOMAIN j.listed :
     /\ j.listed[i] = j.account
     /\ pools[i].parent = parent
     /\ pools[i].meta.type = Data[r].type
     /\ pools[i].cidr = Data[r].cidr}

SchemaImportItem(w) ==
  LET j == job[w]
      r == FirstOf(j.todo)
      here == {j.here[s] : s \in ParentOf(r) \cap DOMAIN j.here} \ {None}
      parent == IF here = {} THEN None ELSE CHOOSE p \in here : TRUE
      known == IF Tagged(j, r) # {} THEN Tagged(j, r) ELSE Shaped(j, r, parent)
  IN /\ j.op = "schema"
     /\ j.links[r] = None /\ CanBePool(r) /\ Data[r].cidr # NoCIDR
     /\ IF known # {}
        THEN \/ \E p \in known :
                  LinkResource(r, p) /\ Writes(w, SchemaRest(j, r, p)) /\ UNCHANGED store
             \/ LinkFails /\ Goes(w, SchemaRest(j, r, None)) /\ UNCHANGED store
        ELSE /\ UNCHANGED res
             /\ \/ /\ CreatePool(DiscoveredPool(r, j.account, parent))
                   /\ Writes(w, [j EXCEPT !.op = "schema_link", !.pool = next])
                \/ StoreFails /\ Goes(w, SchemaRest(j, r, None))
     /\ UNCHANGED req

\* A new pool whose link fails is kept, and found by its tag the next time
SchemaImportLink(w) ==
  LET j == job[w]
      r == FirstOf(j.todo)
      listed == [i \in DOMAIN j.listed \cup {j.pool} |->
                   IF i = j.pool THEN j.account ELSE j.listed[i]]
      then == SchemaRest([j EXCEPT !.listed = listed], r, j.pool)
  IN /\ j.op = "schema_link"
     /\ \/ LinkResource(r, j.pool) /\ Writes(w, then)
        \/ LinkFails /\ Goes(w, then)
     /\ UNCHANGED <<store, req>>

SchemaImportStep(w) ==
  \/ SchemaImportList(w)
  \/ SchemaImportSkip(w)
  \/ SchemaImportItem(w)
  \/ SchemaImportLink(w)

-----------------------------------------------------------------------------
(* The other actors: operators at the pools, and discovery, which marks a   *)
(* resource stale or active and keeps its link.                             *)

Rediscover(r) == res' = [res EXCEPT ![r].active = ~ @]

Others(c) ==
  /\ \/ \E i \in Ids : DeletePool(c, i) \/ DeletePoolCascade(c, i)
     \/ \E i \in Ids, account \in {None} \cup AccountIds :
          PatchWithAccount(c, i, account, None)
     \/ \E a \in AccountIds : DeleteAccount(c, a) \/ DeleteAccountCascade(c, a)
  /\ UNCHANGED res

-----------------------------------------------------------------------------
\* The pool of a linked resource is r's, or was until the import, for which the
\* request named r once more, gave r another one
MadeFor(i, r, created) ==
  \/ res[r].pool = i
  \/ /\ pools[i].meta.tag = Data[r].name
     /\ res[r].pool \in created /\ res[r].pool > i

\* An import during which nobody else wrote accounts for every pool it made:
\* at its end each is either deleted again or among the created ones of the
\* response, and when nothing was skipped each is the pool of a resource, or of
\* one that the request named twice (applyDiscoveryImport, with the cleanup
\* after a failed link).
ImportAccounted ==
  \A w \in Workers :
    job[w].op = "imported" /\ job[w].alone =>
      \A i \in {k \in Ids : k >= job[w].base /\ Live(k)} :
        /\ i \in job[w].created
        /\ ~ job[w].failed => \E r \in job[w].linked : MadeFor(i, r, job[w].created)

\* No import takes a resource away from a pool it is linked to, unless the link
\* was made while the import ran, by another request or by the import itself:
\* already linked resources are never forced.
ImportKeepsLinks ==
  [][\A w \in Workers, r \in Resources :
       /\ job[w].op \in {"item", "link", "schema", "schema_link"}
       /\ job[w].op \in {"item", "link"} => r \notin job[w].linked
       /\ job[w].alone
       /\ job'[w] # job[w] /\ (job'[w] # Idle => job'[w].alone)
       /\ ~ Unlinked(r)
       => res'[r].pool = res[r].pool]_<<res, job>>

\* Imports account for what they make and keep the links there are.
ImportsSound == []ImportAccounted /\ ImportKeepsLinks

=============================================================================
