-------------------------- MODULE Recommendations ---------------------------
(***************************************************************************)
(* The recommendation service of CloudPAM beside the pool handlers:        *)
(* RecommendationService (internal/planning/recommendations.go),           *)
(* MemoryRecommendationStore (internal/storage/recommendations_memory.go)  *)
(* and the handlers of internal/api/recommendation_handlers.go.            *)
(*                                                                         *)
(* Generate reads the free blocks of a pool and stores one recommendation  *)
(* for each; Apply, any time later, creates the pool a recommendation      *)
(* suggests without looking at the siblings again.  Pools are made and     *)
(* deleted meanwhile by the handlers of Pools.  Each call of a store       *)
(* method is one step; a call of the service keeps its locals in call[g].  *)
(*                                                                         *)
(* Scores, priorities and texts are left out; a recommendation is the CIDR *)
(* it suggests, or None for a compliance recommendation.                   *)
(***************************************************************************)
EXTENDS Pools, AddressSpace

CONSTANTS Planners,      \* request goroutines in the recommendation service
          Private,       \* the RFC 1918 prefixes
          Stored,        \* CIDRs in the database at the start: a pool, then its children
          Targets,       \* pools that requests name: to generate for, or as a parent
          ParentMetas,   \* metadata of a pool typed supernet, region, environment or vpc
          MaxRecs        \* bound: recommendations stored

ASSUME RecommendationsAssumption ==
  /\ Private \subseteq Prefixes
  /\ ParentMetas \subseteq Metas
  /\ Stored \subseteq Seq(Prefixes)
  /\ MaxRecs \in Nat

VARIABLES recs,          \* m.recs; ids (UUIDs) are numbered as issued
          nextRec,
          call           \* local state of each call of the service

recVars == <<recs, nextRec, call>>

storeVars == <<pools, next, accounts, nextAccount>>

allVars == <<vars, recVars>>

-----------------------------------------------------------------------------
(* Reads of the pool store. *)

ChildrenOf(i) == {j \in Ids : ~ pools[j].deleted /\ pools[j].parent = i}

ChildCIDRs(i) == {pools[j].cidr : j \in ChildrenOf(i)}

\* AnalyzeGaps of a live pool
Gaps(i) == GapAnalysis(pools[i].cidr, ChildCIDRs(i))

isRFC1918(p) == \E r \in Private : PrefixContains(r, p)

\* CheckCompliance([pool]): one None for each violation.  The only pool given
\* is its own and only possible sibling, so the overlap rule never fires; name
\* and description are taken to be set.
Violations(i) ==
  (IF isRFC1918(pools[i].cidr) THEN <<>> ELSE <<None>>)
    \o (IF pools[i].meta \in ParentMetas /\ ChildrenOf(i) = {} THEN <<None>> ELSE <<>>)

-----------------------------------------------------------------------------
(* Generate. *)

Answer(g) == call' = [call EXCEPT ![g] = Idle]

\* A write of the recommendation store that fails; the call returns
RecStoreFails(g) ==
  /\ StoreErrors \/ nextRec > MaxRecs
  /\ Answer(g)
  /\ UNCHANGED <<recs, nextRec>>

\* resolvePools: the pools asked for and, with include_children, all below
GenerateStart(g, id, includeChildren) ==
  /\ call[g] = Idle
  /\ Live(id)
  /\ LET below == IF includeChildren THEN WithDescendants({id}) \ {id} ELSE {}
     IN call' = [call EXCEPT ![g] =
                   [op |-> "clear", todo |-> <<id>> \o Seqs!SetToSeq(below)]]
  /\ UNCHANGED <<recs, nextRec>>

DeletePendingForPoolAll(i) ==        \* mutant: settled ones go too
  recs' = [r \in {q \in DOMAIN recs : recs[q].pool # i} |-> recs[r]]

\* MemoryRecommendationStore.DeletePendingForPool
DeletePendingForPool(i) ==
  recs' = [r \in {q \in DOMAIN recs :
                    recs[q].pool # i \/ recs[q].status # "pending"} |-> recs[r]]

GenerateClear(g) ==
  /\ call[g].op = "clear"
  /\ \/ /\ DeletePendingForPool(Head(call[g].todo))
        /\ call' = [call EXCEPT ![g].op = "analyze"]
        /\ UNCHANGED nextRec
     \/ RecStoreFails(g)

\* The pool is done: the next one, or the answer
NextPool(todo) ==
  IF Tail(todo) = <<>> THEN Idle ELSE [op |-> "clear", todo |-> Tail(todo)]

\* What follows once the items are stored
Recording(op, todo, items, seen) ==
  CASE items # <<>> -> [op |-> op, todo |-> todo, items |-> items, seen |-> seen]
    [] items = <<>> /\ op = "blocks" -> [op |-> "comply", todo |-> todo]
    [] items = <<>> /\ op = "rules" -> NextPool(todo)

GenerateAnalyzeLast(g) ==            \* mutant: the gaps of another pool of the request
  /\ call[g].op = "analyze"
  /\ LET i == call[g].todo[Len(call[g].todo)]
         items == IF Live(i) THEN Gaps(i).available ELSE <<>>
     IN call' = [call EXCEPT ![g] = Recording("blocks", call[g].todo, items, next)]
  /\ UNCHANGED <<recs, nextRec>>

\* AnalyzeGaps: an error, for a pool deleted meanwhile, is ignored
GenerateAnalyze(g) ==
  /\ call[g].op = "analyze"
  /\ LET i == Head(call[g].todo)
         items == IF Live(i) THEN Gaps(i).available ELSE <<>>
     IN call' = [call EXCEPT ![g] = Recording("blocks", call[g].todo, items, next)]
  /\ UNCHANGED <<recs, nextRec>>

\* CheckCompliance, after the blocks are stored
GenerateComply(g) ==
  /\ call[g].op = "comply"
  /\ LET i == Head(call[g].todo)
         items == IF Live(i) THEN Violations(i) ELSE <<>>
     IN call' = [call EXCEPT ![g] = Recording("rules", call[g].todo, items, 1)]
  /\ UNCHANGED <<recs, nextRec>>

\* "seen" is history: m.next when Generate read the children, 1 for a
\* compliance recommendation
NewRec(pool, cidr, seen) ==
  [pool |-> pool, cidr |-> cidr, seen |-> seen, status |-> "pending",
   appliedPool |-> None]

\* CreateRecommendation of the next item
GenerateStore(g) ==
  /\ call[g].op \in {"blocks", "rules"}
  /\ \/ /\ nextRec <= MaxRecs
        /\ LET c == call[g]
               rec == NewRec(Head(c.todo), Head(c.items), c.seen)
           IN /\ recs' = [r \in DOMAIN recs \cup {nextRec} |->
                            IF r = nextRec THEN rec ELSE recs[r]]
              /\ call' = [call EXCEPT ![g] =
                            Recording(c.op, c.todo, Tail(c.items), c.seen)]
        /\ nextRec' = nextRec + 1
     \/ RecStoreFails(g)

-----------------------------------------------------------------------------
(* Apply and Dismiss. *)

Pending(r) == r \in DOMAIN recs /\ recs[r].status = "pending"

Mark(r, status, pool) == [op |-> "mark", rec |-> r, status |-> status, pool |-> pool]

\* GetRecommendation, which returns a copy, and the status check; a
\* compliance recommendation creates nothing
ApplyStart(g, r) ==
  /\ call[g] = Idle
  /\ Pending(r)
  /\ call' = [call EXCEPT ![g] =
                IF recs[r].cidr = None
                THEN Mark(r, "applied", None)
                ELSE [op |-> "create", rec |-> r, pool |-> recs[r].pool,
                      cidr |-> recs[r].cidr, seen |-> recs[r].seen]]
  /\ UNCHANGED <<recs, nextRec>>

\* CreatePool with nothing checked, not even that the parent is still there
ApplyCreate(g, meta) ==
  /\ call[g].op = "create"
  /\ LET c == call[g]
     IN \/ /\ CreatePool(NewPool(c.cidr, c.pool, None, meta, FALSE, c.seen))
           /\ call' = [call EXCEPT ![g] = Mark(c.rec, "applied", next)]
        \/ /\ StoreFails
           /\ Answer(g)
  /\ UNCHANGED <<recs, nextRec>>

DismissStart(g, r) ==
  /\ call[g] = Idle
  /\ Pending(r)
  /\ call' = [call EXCEPT ![g] = Mark(r, "dismissed", None)]
  /\ UNCHANGED <<recs, nextRec>>

\* UpdateRecommendationStatus: whatever the status is by now; a recommendation
\* that a Generate has cleared meanwhile is ErrNotFound
MarkStatus(g) ==
  /\ call[g].op = "mark"
  /\ LET c == call[g]
     IN IF c.rec \in DOMAIN recs
        THEN \/ recs' = [recs EXCEPT ![c.rec].status = c.status,
                                    ![c.rec].appliedPool = c.pool]
             \/ StoreErrors /\ UNCHANGED recs
        ELSE UNCHANGED recs
  /\ Answer(g)
  /\ UNCHANGED nextRec

-----------------------------------------------------------------------------
\* The server starts on a database that holds a pool and its children
RecInit ==
  /\ \E table \in Stored, meta \in Metas :
       /\ pools = [i \in DOMAIN table |->
                    NewPool(table[i], IF i = 1 THEN None ELSE 1, None, meta, TRUE, 1)]
       /\ next = Len(table) + 1
  /\ accounts = <<>>
  /\ nextAccount = 1
  /\ req = [c \in Clients |-> Idle]
  /\ recs = <<>>
  /\ nextRec = 1
  /\ call = [g \in Planners |-> Idle]

\* Steps that read the pool store at most
Recommend(g) ==
  \/ \E id \in Targets, deep \in BOOLEAN : GenerateStart(g, id, deep)
  \/ GenerateClear(g)
  \/ GenerateAnalyze(g)
  \/ GenerateComply(g)
  \/ GenerateStore(g)
  \/ \E r \in DOMAIN recs : ApplyStart(g, r) \/ DismissStart(g, r)
  \/ MarkStatus(g)

\* Other handlers are seen through what they write: CreatePool with any CIDR
\* and parent (POST /pools, schema apply, CSV import, which checks nothing),
\* and the two deletes
PoolWrite(c) ==
  \/ \E cidr \in CIDRs, parent \in Targets, meta \in Metas :
       /\ CreatePool(NewPool(cidr, parent, None, meta, TRUE, next))
       /\ UNCHANGED req
  \/ \E id \in Ids : DeletePool(c, id) \/ DeletePoolCascade(c, id)

RecNext ==
  \/ \E g \in Planners : Recommend(g) /\ UNCHANGED vars
  \/ \E g \in Planners, meta \in Metas : ApplyCreate(g, meta) /\ UNCHANGED req
  \/ \E c \in Clients : PoolWrite(c) /\ UNCHANGED recVars

RecSpec == RecInit /\ [][RecNext]_allVars

-----------------------------------------------------------------------------
(* Properties. *)

\* What AnalyzeGaps reports of pool i is what the sets of addresses say
ExactGaps(i) ==
  LET gaps == Gaps(i)
      available == gaps.available
      taken == Covered(ChildCIDRs(i)) \cap AddressesOf(pools[i].cidr)
  IN /\ \A k \in DOMAIN available : available[k].addr = Masked(available[k])
     /\ \A k, l \in DOMAIN available :
          k # l => AddressesOf(available[k]) \cap AddressesOf(available[l]) = {}
     /\ Covered({available[k] : k \in DOMAIN available})
          = AddressesOf(pools[i].cidr) \ taken
     /\ gaps.used = Cardinality(taken)

\* The pages of pool i's block grid list every block once, and the free ones
\* are those whose addresses are all free in the gap analysis
GridMatchesGaps(i) ==
  LET cidr == pools[i].cidr
      children == ChildCIDRs(i)
      available == Gaps(i).available
      free == Covered({available[k] : k \in DOMAIN available})
  IN \A newLen \in cidr.bits .. AddrBits, pageSize \in 1 .. MaxSubnetExpansion :
       LET count == 2 ^ (newLen - cidr.bits)
           pages == [p \in 1 .. count |-> BlocksPage(cidr, newLen, pageSize, p)]
           blocks == Seqs!FlattenSeq(pages)
       IN /\ Len(blocks) = count
          /\ Covered({blocks[k] : k \in DOMAIN blocks}) = AddressesOf(cidr)
          /\ \A k \in DOMAIN blocks :
               ~ BlockTaken(blocks[k], children) <=> AddressesOf(blocks[k]) \subseteq free

\* The live pools that a Generate in flight reads next
Analysed ==
  {i \in Ids : Live(i) /\ \E g \in Planners :
                             call[g].op = "analyze" /\ Head(call[g].todo) = i}

\* A child that reaches past the pool to the top address: last.end + 1 wraps
\* in the merge, and the walk moves its cursor back.  Only the CSV import, which
\* checks neither nesting nor reserved ranges, can store one.
ReachesTop(i) ==
  /\ lastAddr(pools[i].cidr) < AddrSpace - 1
  /\ \E c \in ChildCIDRs(i) : lastAddr(c) = AddrSpace - 1

\* The two reports of free space are exact and agree, however the children came
\* to overlap, touch, repeat, fill or exceed the pool since the request was made.
\* The blocks AnalyzeGaps reports are aligned, pairwise disjoint, cover every
\* address of the pool outside the children and no other, and the used and free
\* counts add up.  Over all pages of GET /pools/{id}/blocks, whatever the block
\* and the page size, every block of the pool is listed once, and it is free
\* there exactly when every address of it is free in the gap analysis.
FreeSpaceExact ==
  \A i \in Analysed : ~ ReachesTop(i) => ExactGaps(i) /\ GridMatchesGaps(i)

\* A pool made by Apply lies inside its parent, and overlaps an older live
\* sibling only when that one was inserted after the gaps of the
\* recommendation were read: Apply does not look at the siblings, so a stale
\* recommendation, or one applied twice, is the only way to a clash while no
\* child ReachesTop (the instance stores none).
AllocationsSound ==
  \A j \in Ids :
    ~ pools[j].checked =>
      LET parent == pools[j].parent
      IN /\ PrefixContains(pools[parent].cidr, pools[j].cidr)
         /\ \A i \in 1 .. j - 1 :
              /\ Live(i) /\ Live(j)
              /\ pools[i].parent = parent
              /\ prefixesOverlapIPv4(pools[i].cidr, pools[j].cidr)
              => i >= pools[j].seen

\* What was applied or dismissed stays on record: a regeneration clears
\* pending recommendations only, also the ones that calls of Apply and Dismiss
\* settle while it runs, and nothing goes back to pending.
SettledStays ==
  [][\A r \in DOMAIN recs :
       recs[r].status # "pending" =>
         r \in DOMAIN recs' /\ recs'[r].status # "pending"]_allVars

=============================================================================
