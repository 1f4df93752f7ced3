------------------------------- MODULE Pools --------------------------------
(***************************************************************************)
(* The IPAM core of CloudPAM: MemoryStore (internal/storage/store.go) and  *)
(* the HTTP handlers that change pools and accounts                        *)
(* (internal/api/pool_handlers.go, account_handlers.go,                    *)
(* schema_handlers.go).                                                    *)
(*                                                                         *)
(* Every method of MemoryStore holds the mutex from start to end, so it is *)
(* one atomic step here.  A handler that calls several methods holds       *)
(* nothing between them: its local variables live in req[c], one slot per  *)
(* request goroutine, and other requests run between its steps.            *)
(*                                                                         *)
(* Names, types, statuses, descriptions and tags are one opaque value      *)
(* "meta": a PATCH replaces it or leaves it alone.                         *)
(*                                                                         *)
(* A definition marked "mutant" is a bug the next definition could have;   *)
(* nothing uses it, and PROJECT.json names the property that catches it.   *)
(***************************************************************************)
EXTENDS Cidr, FiniteSets, Sequences

CONSTANTS Clients,      \* request goroutines
          CIDRs,        \* prefixes that requests name
          Keys,         \* account keys
          Metas,        \* values of the opaque metadata
          Schemas,      \* bodies of POST /schema/apply
          StoreErrors,  \* may a store write fail?  (SQL backends; never MemoryStore)
          MaxPools,     \* bound: pool ids issued
          MaxAccounts,  \* bound: account ids issued
          None          \* Go's nil

VARIABLES pools,        \* m.pools: id -> pool; soft-deleted pools stay
          next,         \* m.next
          accounts,     \* m.accounts
          nextAccount,  \* m.nextAccount
          req           \* local state of each request goroutine

vars == <<pools, next, accounts, nextAccount, req>>

-----------------------------------------------------------------------------
(* A schema body is a sequence of entries; refs are the positions, so they *)
(* are unique by construction, and parentRef 0 stands for no parent_ref.   *)

SchemaEntries == [cidr : CIDRs, parentRef : Nat]

ASSUME PoolsAssumption ==
  /\ CIDRs \subseteq Prefixes
  /\ Schemas \subseteq Seq(SchemaEntries)
  /\ StoreErrors \in BOOLEAN
  /\ MaxPools \in Nat
  /\ MaxAccounts \in Nat
  /\ None \notin Nat
  /\ None \notin Metas

(* "checked" and "seen" are history: checked says that createPool, and not *)
(* schema apply, made the pool; seen is the value of m.next when its       *)
(* request listed the siblings.                                            *)

PoolIds == Nat \ {0}
OptId == PoolIds \cup {None}

Pool == [cidr : CIDRs, parent : OptId, account : OptId, meta : Metas,
         deleted : BOOLEAN, checked : BOOLEAN, seen : Nat]

Account == [key : Keys, meta : Metas, deleted : BOOLEAN]

Idle == [op |-> "idle"]

CreateReq == [op : {"list", "insert"}, cidr : CIDRs, parent : OptId,
              account : OptId, meta : Metas, seen : Nat]

PatchReq == [op : {"patch"}, id : PoolIds, account : OptId,
             meta : Metas \cup {None}]

\* ids[k] is refToID of the k-th entry, None when the entry was skipped; a
\* request in flight has entries left
ApplyReq ==
  {r \in [op : {"apply"}, schema : Schemas, meta : Metas, ids : Seq(OptId)] :
     Len(r.ids) < Len(r.schema)}

Reqs == {Idle} \cup CreateReq \cup PatchReq \cup ApplyReq

Ids == 1 .. next - 1
AccountIds == 1 .. nextAccount - 1

-----------------------------------------------------------------------------
(* The store. *)

Live(i) == i \in Ids /\ ~ pools[i].deleted

LiveAccount(a) == a \in AccountIds /\ ~ accounts[a].deleted

\* The fixpoint of the delete cascades: roots, and every live pool whose
\* parent is already in the set
Closed(S) ==
  \A i \in Ids : ~ pools[i].deleted /\ pools[i].parent \in S => i \in S

WithDescendantsFlat(roots) ==        \* mutant: one level deep
  roots \cup {i \in Ids : ~ pools[i].deleted /\ pools[i].parent \in roots}

WithDescendants(roots) ==
  {i \in Ids : \A S \in SUBSET Ids : roots \subseteq S /\ Closed(S) => i \in S}

SoftDelete(S) ==
  [i \in Ids |-> IF i \in S THEN [pools[i] EXCEPT !.deleted = TRUE] ELSE pools[i]]

NewPool(cidr, parent, account, meta, checked, seen) ==
  [cidr |-> cidr, parent |-> parent, account |-> account, meta |-> meta,
   deleted |-> FALSE, checked |-> checked, seen |-> seen]

\* MemoryStore.CreatePool: the next id, whatever the parent or account
CreatePool(p) ==
  /\ next <= MaxPools
  /\ pools' = [i \in 1 .. next |-> IF i = next THEN p ELSE pools[i]]
  /\ next' = next + 1
  /\ UNCHANGED <<accounts, nextAccount>>

\* A store write that returns an error and changes nothing
StoreFails ==
  /\ StoreErrors \/ next > MaxPools
  /\ UNCHANGED <<pools, next, accounts, nextAccount>>

UpdatePoolRevives(id, account, meta) ==     \* mutant: writes the row as live
  /\ id \in Ids
  /\ pools' = [pools EXCEPT ![id].account = account, ![id].deleted = FALSE]
  /\ UNCHANGED <<next, accounts, nextAccount>>

\* MemoryStore.UpdatePool: account_id is always written, metadata only when
\* given, and a soft-deleted pool is updated like a live one
UpdatePool(id, account, meta) ==
  /\ id \in Ids
  /\ pools' = [pools EXCEPT ![id].account = account,
                            ![id].meta = IF meta = None THEN @ ELSE meta]
  /\ UNCHANGED <<next, accounts, nextAccount>>

-----------------------------------------------------------------------------
(* Handlers.  A request that fails validation returns without touching the *)
(* store; only the paths that continue are actions.                        *)

Begin(c, r) ==
  /\ req[c] = Idle
  /\ req' = [req EXCEPT ![c] = r]

Return(c) == req' = [req EXCEPT ![c] = Idle]

AccountInputs == {None} \cup 1 .. MaxAccounts

CreatePoolStartUnnested(c, cidr, parent, account, meta) ==   \* mutant: no containment
  /\ ValidateCIDR(cidr)
  /\ parent # None => Live(parent)
  /\ Begin(c, [op |-> "list", cidr |-> cidr, parent |-> parent,
               account |-> account, meta |-> meta, seen |-> 0])
  /\ UNCHANGED <<pools, next, accounts, nextAccount>>

\* createPool up to the ListPools call: the parent must be live and contain
\* the child
CreatePoolStart(c, cidr, parent, account, meta) ==
  /\ ValidateCIDR(cidr)
  /\ parent # None =>
       /\ Live(parent)
       /\ validateChildCIDR(pools[parent].cidr, cidr)
  /\ Begin(c, [op |-> "list", cidr |-> cidr, parent |-> parent,
               account |-> account, meta |-> meta, seen |-> 0])
  /\ UNCHANGED <<pools, next, accounts, nextAccount>>

ConflictsUnderParent(cidr, parent) ==   \* mutant: top-level pools are not scanned
  \E i \in Ids :
    /\ parent # None
    /\ ~ pools[i].deleted
    /\ pools[i].parent = parent
    /\ pools[i].cidr # cidr
    /\ prefixesOverlapIPv4(pools[i].cidr, cidr)

ConflictsOneSided(cidr, parent) ==      \* mutant: the new prefix inside an old one is missed
  \E i \in Ids :
    /\ ~ pools[i].deleted
    /\ pools[i].parent = parent
    /\ pools[i].cidr # cidr
    /\ Contains(cidr, pools[i].cidr.addr)

\* The sibling scan over ListPools: same parent, another CIDR, overlapping
Conflicts(cidr, parent) ==
  \E i \in Ids :
    /\ ~ pools[i].deleted
    /\ pools[i].parent = parent
    /\ pools[i].cidr # cidr
    /\ prefixesOverlapIPv4(pools[i].cidr, cidr)

CreatePoolCheck(c) ==
  /\ req[c].op = "list"
  /\ IF Conflicts(req[c].cidr, req[c].parent)
       THEN Return(c)
       ELSE req' = [req EXCEPT ![c].op = "insert", ![c].seen = next]
  /\ UNCHANGED <<pools, next, accounts, nextAccount>>

CreatePoolInsert(c) ==
  /\ req[c].op = "insert"
  /\ \/ CreatePool(NewPool(req[c].cidr, req[c].parent, req[c].account,
                           req[c].meta, TRUE, req[c].seen))
     \/ StoreFails
  /\ Return(c)

\* updatePool with account_id in the body: one store call
PatchWithAccount(c, id, account, meta) ==
  /\ req[c] = Idle
  /\ UpdatePool(id, account, meta)
  /\ UNCHANGED req

\* updatePool without account_id: the current account is read first ...
PatchRead(c, id, meta) ==
  /\ Live(id)
  /\ Begin(c, [op |-> "patch", id |-> id, account |-> pools[id].account,
               meta |-> meta])
  /\ UNCHANGED <<pools, next, accounts, nextAccount>>

\* ... and written back in a second store call
PatchWrite(c) ==
  /\ req[c].op = "patch"
  /\ UpdatePool(req[c].id, req[c].account, req[c].meta)
  /\ Return(c)

\* DELETE /pools/{id}: refused while a live child exists
DeletePool(c, id) ==
  /\ req[c] = Idle
  /\ Live(id)
  /\ ~ \E i \in Ids : pools[i].parent = id /\ ~ pools[i].deleted
  /\ pools' = SoftDelete({id})
  /\ UNCHANGED <<next, accounts, nextAccount, req>>

\* DELETE /pools/{id}?force=true
DeletePoolCascade(c, id) ==
  /\ req[c] = Idle
  /\ Live(id)
  /\ pools' = SoftDelete(WithDescendants({id}))
  /\ UNCHANGED <<next, accounts, nextAccount, req>>

CreateAccount(c, key, meta) ==
  /\ req[c] = Idle
  /\ nextAccount <= MaxAccounts
  /\ accounts' = [a \in 1 .. nextAccount |->
                    IF a = nextAccount
                    THEN [key |-> key, meta |-> meta, deleted |-> FALSE]
                    ELSE accounts[a]]
  /\ nextAccount' = nextAccount + 1
  /\ UNCHANGED <<pools, next, req>>

\* MemoryStore.UpdateAccount does not look at DeletedAt
UpdateAccount(c, a, meta) ==
  /\ req[c] = Idle
  /\ a \in AccountIds
  /\ accounts' = [accounts EXCEPT ![a].meta = meta]
  /\ UNCHANGED <<pools, next, nextAccount, req>>

PoolsOf(a) == {i \in Ids : ~ pools[i].deleted /\ pools[i].account = a}

DeleteAccountUnguarded(c, a) ==         \* mutant: its pools are not looked for
  /\ req[c] = Idle
  /\ LiveAccount(a)
  /\ accounts' = [accounts EXCEPT ![a].deleted = TRUE]
  /\ UNCHANGED <<pools, next, nextAccount, req>>

\* DELETE /accounts/{id}: refused while a live pool uses the account
DeleteAccount(c, a) ==
  /\ req[c] = Idle
  /\ LiveAccount(a)
  /\ PoolsOf(a) = {}
  /\ accounts' = [accounts EXCEPT ![a].deleted = TRUE]
  /\ UNCHANGED <<pools, next, nextAccount, req>>

DeleteAccountCascadeOwn(c, a) ==        \* mutant: pools below its own are not looked for
  /\ req[c] = Idle
  /\ LiveAccount(a)
  /\ pools' = SoftDelete(PoolsOf(a))
  /\ accounts' = [accounts EXCEPT ![a].deleted = TRUE]
  /\ UNCHANGED <<next, nextAccount, req>>

\* DELETE /accounts/{id}?force=true
DeleteAccountCascade(c, a) ==
  /\ req[c] = Idle
  /\ LiveAccount(a)
  /\ pools' = SoftDelete(WithDescendants(PoolsOf(a)))
  /\ accounts' = [accounts EXCEPT ![a].deleted = TRUE]
  /\ UNCHANGED <<next, nextAccount, req>>

-----------------------------------------------------------------------------
(* POST /schema/apply. *)

\* Validation of the body.  An entry may name itself as its parent: the
\* handler records the ref before it looks the parent up.
SchemaValid(schema) ==
  /\ schema # <<>>
  /\ \A k \in DOMAIN schema :
       ValidateCIDR(schema[k].cidr) /\ schema[k].parentRef <= k

\* Any live pool that overlaps any entry, equal CIDRs included
SchemaConflicts(schema) ==
  \E k \in DOMAIN schema, i \in Ids :
    ~ pools[i].deleted /\ prefixesOverlapIPv4(schema[k].cidr, pools[i].cidr)

SchemaStart(c, schema, skipConflicts, meta) ==
  /\ SchemaValid(schema)
  /\ ~ skipConflicts => ~ SchemaConflicts(schema)
  /\ Begin(c, [op |-> "apply", schema |-> schema, meta |-> meta, ids |-> <<>>])
  /\ UNCHANGED <<pools, next, accounts, nextAccount>>

SchemaAdvanceLate(c, id) ==             \* mutant: one entry too many
  LET r == req[c]
  IN req' = [req EXCEPT ![c] = IF Len(r.ids) = Len(r.schema)
                               THEN Idle
                               ELSE [r EXCEPT !.ids = Append(r.ids, id)]]

\* The next entry's pool was created with this id, or skipped (None); the
\* response is written after the last entry
SchemaAdvance(c, id) ==
  LET r == req[c]
  IN req' = [req EXCEPT ![c] = IF Len(r.ids) + 1 = Len(r.schema)
                               THEN Idle
                               ELSE [r EXCEPT !.ids = Append(r.ids, id)]]

\* refToID[parentRef]; a ref that is not in the map yet resolves to None
RefToID(r, ref) == IF ref \in DOMAIN r.ids THEN r.ids[ref] ELSE None

SchemaStep(c) ==
  /\ req[c].op = "apply"
  /\ LET r == req[c]
         e == r.schema[Len(r.ids) + 1]
         parent == RefToID(r, e.parentRef)
     IN IF e.parentRef # 0 /\ parent = None
        THEN /\ SchemaAdvance(c, None)
             /\ UNCHANGED <<pools, next, accounts, nextAccount>>
        ELSE \/ /\ CreatePool(NewPool(e.cidr, parent, None, r.meta, FALSE, next))
                /\ SchemaAdvance(c, next)
             \/ /\ StoreFails
                /\ SchemaAdvance(c, None)

-----------------------------------------------------------------------------
Init ==
  /\ pools = <<>>
  /\ next = 1
  /\ accounts = <<>>
  /\ nextAccount = 1
  /\ req = [c \in Clients |-> Idle]

\* What a free request slot may receive, and the next store call of a busy one
Request(c) ==
  \/ \E cidr \in CIDRs, parent \in {None} \cup Ids,
        account \in AccountInputs, meta \in Metas :
       CreatePoolStart(c, cidr, parent, account, meta)
  \/ \E id \in Ids, account \in AccountInputs, meta \in Metas \cup {None} :
       PatchWithAccount(c, id, account, meta)
  \/ \E id \in Ids, meta \in Metas \cup {None} : PatchRead(c, id, meta)
  \/ \E id \in Ids : DeletePool(c, id) \/ DeletePoolCascade(c, id)
  \/ \E key \in Keys, meta \in Metas : CreateAccount(c, key, meta)
  \/ \E a \in AccountIds, meta \in Metas : UpdateAccount(c, a, meta)
  \/ \E a \in AccountIds : DeleteAccount(c, a) \/ DeleteAccountCascade(c, a)
  \/ \E schema \in Schemas, skip \in BOOLEAN, meta \in Metas :
       SchemaStart(c, schema, skip, meta)

Continue(c) ==
  \/ CreatePoolCheck(c)
  \/ CreatePoolInsert(c)
  \/ PatchWrite(c)
  \/ SchemaStep(c)

Next == \E c \in Clients : Request(c) \/ Continue(c)

Spec == Init /\ [][Next]_vars

-----------------------------------------------------------------------------
(* Properties. *)

\* Type invariant of the store and of the request slots: ids are dense, pools
\* and accounts never leave the maps, request locals are well formed
\* (MemoryStore fields, store.go).
TypeOK ==
  /\ next \in PoolIds
  /\ pools \in [1 .. next - 1 -> Pool]
  /\ nextAccount \in PoolIds
  /\ accounts \in [1 .. nextAccount - 1 -> Account]
  /\ req \in [Clients -> Reqs]

\* The parent of a pool has a smaller id, so the parent relation has no
\* cycle: the recursions of GetPoolHierarchy (buildTree) and
\* calculatePoolStatsLocked (countDescendants) end on every reachable store,
\* also when requests interleave with schema apply.
ParentOlder ==
  \A i \in Ids : pools[i].parent # None => pools[i].parent \in 1 .. i - 1

\* A pool made by POST /pools lies strictly inside its parent's CIDR, although
\* the parent was read two store calls before the insert and may have been
\* patched or deleted since.
NestedInParent ==
  \A i \in Ids :
    pools[i].checked /\ pools[i].parent # None =>
      validateChildCIDR(pools[pools[i].parent].cidr, pools[i].cidr)

\* Both: the tree of pools, and the nesting of CIDRs along it, survive every
\* interleaving of createPool and schema apply with patches and deletes.
TreeIntact == ParentOlder /\ NestedInParent

\* Two live siblings made by POST /pools with different, overlapping CIDRs
\* exist only when the older was inserted after the younger's request had
\* listed the siblings: the scan itself misses nothing, the unlocked window
\* between ListPools and CreatePool is the only way in.
OverlapOnlyByRace ==
  \A i, j \in Ids :
    /\ i < j
    /\ pools[i].checked /\ pools[j].checked
    /\ ~ pools[i].deleted /\ ~ pools[j].deleted
    /\ pools[i].parent = pools[j].parent
    /\ pools[i].cidr # pools[j].cidr
    /\ prefixesOverlapIPv4(pools[i].cidr, pools[j].cidr)
    => i >= pools[j].seen

\* What a request in flight has established stays good until it uses it,
\* whatever other requests do in between: the parent it read still exists and
\* contains the child, the siblings it scanned do not conflict unless deleted,
\* the pool a PATCH read and the pools a schema apply has made still exist.
Sound(c) ==
  /\ req[c].op \in {"list", "insert"} /\ req[c].parent # None =>
       /\ req[c].parent \in Ids
       /\ validateChildCIDR(pools[req[c].parent].cidr, req[c].cidr)
  /\ req[c].op = "insert" =>
       /\ req[c].seen <= next
       /\ \A i \in 1 .. req[c].seen - 1 :
            /\ ~ pools[i].deleted
            /\ pools[i].parent = req[c].parent
            /\ pools[i].cidr # req[c].cidr
            => ~ prefixesOverlapIPv4(pools[i].cidr, req[c].cidr)
  /\ req[c].op = "patch" => req[c].id \in Ids
  /\ req[c].op = "apply" =>
       \A k \in DOMAIN req[c].ids : req[c].ids[k] # None => req[c].ids[k] \in Ids

RequestsSound == \A c \in Clients : Sound(c)

\* A live pool whose parent is deleted
Orphan(i) ==
  /\ ~ pools[i].deleted
  /\ pools[i].parent # None
  /\ pools[pools[i].parent].deleted

\* No delete, plain or cascading, of a pool or of an account, strands a live
\* child: an orphan can only appear as a pool inserted in that very step.
NoDeleteStrands ==
  [][\A i \in Ids : Orphan(i)' => Orphan(i)]_vars

\* An account disappears only together with every live pool that names it:
\* DeleteAccount refuses, DeleteAccountCascade takes them along.
AccountDeletionClean ==
  [][\A a \in AccountIds : LiveAccount(a) /\ ~ LiveAccount(a)' => PoolsOf(a)' = {}]_vars

\* Both kinds of delete leave nothing behind that names what they deleted
\* (handlePoolByID and handleAccountByID, with and without force).
DeletesClean == NoDeleteStrands /\ AccountDeletionClean

\* What later requests rely on when they use a pool read earlier: an issued id
\* keeps its CIDR and parent, and a soft-deleted pool or account never comes
\* back, whatever a stale PATCH writes.
Tombstones ==
  [][/\ \A i \in Ids :
          /\ i \in Ids'
          /\ pools'[i].cidr = pools[i].cidr
          /\ pools'[i].parent = pools[i].parent
          /\ pools[i].deleted => pools'[i].deleted
     /\ \A a \in AccountIds : accounts[a].deleted => accounts'[a].deleted]_vars

\* Live siblings never overlap: "Overlap protection: disallow any overlapping
\* CIDRs within the same parent scope" (pool_handlers.go), for pools made by
\* POST /pools and leaving out the exact duplicates the scan skips.
NoSiblingOverlap ==
  \A i, j \in Ids :
    /\ i # j
    /\ pools[i].checked /\ pools[j].checked
    /\ ~ pools[i].deleted /\ ~ pools[j].deleted
    /\ pools[i].parent = pools[j].parent
    /\ pools[i].cidr # pools[j].cidr
    => ~ prefixesOverlapIPv4(pools[i].cidr, pools[j].cidr)

\* No live pool has a deleted parent.
NoOrphan == \A i \in Ids : ~ Orphan(i)

=============================================================================
