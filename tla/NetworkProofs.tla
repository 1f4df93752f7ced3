--------------------------- MODULE NetworkProofs ---------------------------
(***************************************************************************)
(* Theorems about Network, and with it about Imports and Drift: for every  *)
(* set of workers and clients, any resources, policies and stores to start *)
(* on, and any number of requests and writes of others.                    *)
(***************************************************************************)
EXTENDS Network, SequenceTheorems, FiniteSetTheorems, WellFoundedInduction, TLAPS

-----------------------------------------------------------------------------
(* Types. *)
(* What is first or last of a set of numbers.                              *)

LEMMA LeastNumber ==
  ASSUME NEW S \in SUBSET Nat, S # {}
  PROVE  \E m \in S : \A q \in S : m <= q
<1> DEFINE less == {ss \in Nat \X Nat : ss[1] < ss[2]}
<1>1. IsWellFoundedOn(less, Nat)
  BY NatLessThanWellFounded DEF OpToRel
<1> HIDE DEF less
<1>2. PICK m \in S : \A q \in S : ~ (<<q, m>> \in less)
  BY <1>1, WFMin
<1>3. ASSUME NEW q \in S PROVE m <= q
  <2>1. m \in Nat /\ q \in Nat
    OBVIOUS
  <2>2. q < m => <<q, m>> \in less
    BY <2>1 DEF less
  <2> QED
    BY <1>2, <2>1, <2>2
<1> QED
  BY <1>3

LEMMA GreatestNumber ==
  ASSUME NEW S \in SUBSET Nat, S # {}, NEW u \in Nat, \A q \in S : q <= u
  PROVE  \E m \in S : \A q \in S : q <= m
<1> DEFINE T == {u - q : q \in S}
<1>0. \A q \in S : q \in Nat /\ u - q \in Nat
  <2> TAKE q \in S
  <2>1. q \in Nat /\ q <= u
    OBVIOUS
  <2> QED
    BY <2>1
<1>1. T \in SUBSET Nat /\ T # {}
  BY <1>0
<1>2. PICK n \in T : \A q \in T : n <= q
  <2> HIDE DEF T
  <2> QED
    BY <1>1, LeastNumber
<1>3. PICK m \in S : n = u - m
  OBVIOUS
<1>4. ASSUME NEW q \in S PROVE q <= m
  <2>1. u - m <= u - q
    BY <1>2, <1>3
  <2> QED
    BY <1>0, <2>1
<1> QED
  BY <1>4

LEMMA FirstOfType ==
  ASSUME NEW S \in SUBSET Nat, S # {}
  PROVE  FirstOf(S) \in S /\ \A s \in S : FirstOf(S) <= s
BY LeastNumber DEF FirstOf

LEMMA LastCreatedType ==
  ASSUME NEW n \in Nat, NEW S \in SUBSET (1 .. n), S # {}
  PROVE  LastCreated(S) \in S /\ \A s \in S : s <= LastCreated(S)
<1>1. S \in SUBSET Nat /\ \A q \in S : q <= n
  OBVIOUS
<1> QED
  BY <1>1, GreatestNumber DEF LastCreated

(* The shapes of what a request knows; n is the next pool id.              *)

Ref(n) == (1 .. n - 1) \cup {None}

Listings(n) == UNION {[D -> OptId] : D \in SUBSET (1 .. n - 1)}

Links(n) == UNION {[D -> Ref(n)] : D \in SUBSET Resources}

Statuses ==
  {"account_mismatch", "already_linked", "stale", "linked_only", "invalid_cidr",
   "conflict", "blocked", "importable"}

ItemType(n) == [status : Statuses, pool : Ref(n), parent : Ref(n)]

Items(n) == UNION {[D -> ItemType(n)] : D \in SUBSET Resources}

Poolable(r) == CanBePool(r) /\ Data[r].cidr # NoCIDR

SameOwner(ids, account) == \A k \in DOMAIN ids : Data[ids[k]].account = account

LinkingType(n) == [op : {"linking"}, r : Resources, pool : 1 .. n - 1, alone : BOOLEAN]

ConflictTypes ==
  {"missing_parent", "invalid_nesting", "linked_pool_mismatch", "outside_pool",
   "unlinked_exact_pool", "alternate_exact_pool", "duplicate_cidr"}

ConflictType(n) == [type : ConflictTypes, r : Resources, pool : Ref(n)]

ActionRecord(n) ==
  [op : {"resolve", "record", "recorded", "ensure", "link_action", "import_action",
         "rollback", "placeholder", "ok", "failed", "stuck"},
   id : ConflictType(n), account : PoolIds,
   kind : {"decision", "link_action", "import_action"},
   decision : {"skip", "ignore", "defer", "link", "import"},
   r : Resources, pool : Ref(n), ids : Seq(Resources), selected : Ref(n),
   override : BOOLEAN, linked : SUBSET Resources, created : SUBSET (1 .. n - 1),
   stuck : BOOLEAN, before : [Resources -> Ref(n)], base : PoolIds, alone : BOOLEAN]

\* What an action is about does not change
ActionFacts(j) ==
  /\ j.kind = "link_action" =>
       /\ j.id.type \in {"unlinked_exact_pool", "alternate_exact_pool"}
       /\ j.r = j.id.r /\ j.pool = j.id.pool /\ j.pool # None
  /\ j.kind = "import_action" =>
       j.ids # <<>> /\ SameOwner(j.ids, Data[Head(j.ids)].account)
  /\ j.kind # "import_action" => j.linked = {} /\ j.created = {}
  /\ j.op \in {"link_action", "import_action"} => j.kind = j.op
  /\ j.op = "ensure" => j.kind \in {"link_action", "import_action"}
  /\ j.op = "placeholder" => j.kind = "decision"

ActionType(n) == {j \in ActionRecord(n) : ActionFacts(j)}

\* The action an import works for
CallerType(n) == {j \in ActionType(n) : j.op = "import_action"} \cup {None}

PreviewRecord(n) ==
  [op : {"preview"}, account : PoolIds, ids : Seq(Resources), selected : Ref(n),
   force : BOOLEAN, conflict : CallerType(n), listed : Listings(n), base : PoolIds,
   alone : BOOLEAN]

PreviewFacts(j) ==
  /\ j.ids # <<>>
  /\ j.force => SameOwner(j.ids, j.account)
  /\ j.conflict # None => j.conflict.ids = j.ids

PreviewType(n) == {j \in PreviewRecord(n) : PreviewFacts(j)}

ImportRecord(n) ==
  [op : {"item", "create", "link", "cleanup", "imported"}, account : PoolIds,
   ids : Seq(Resources), items : Items(n), force : BOOLEAN, conflict : CallerType(n),
   made : Links(n), created : SUBSET (1 .. n - 1), linked : SUBSET Resources,
   failed : BOOLEAN, parent : Ref(n), pool : Ref(n), base : PoolIds, alone : BOOLEAN]

Remaining(j) == {j.ids[k] : k \in DOMAIN j.ids}

\* An item stands for what the preview found, and is forced only if it is of
\* the import's account; what is neither linked nor skipped is still to come
ImportCore(j) ==
  /\ DOMAIN j.made = DOMAIN j.items
  /\ Remaining(j) \subseteq DOMAIN j.items
  /\ \A r \in DOMAIN j.items :
       /\ j.items[r].status = "importable" => Poolable(r)
       /\ j.items[r].status = "account_mismatch" => Data[r].account # j.account
  /\ j.force => SameOwner(j.ids, j.account)
  /\ j.conflict # None /\ ~ j.failed =>
       \A k \in DOMAIN j.conflict.ids : j.conflict.ids[k] \in j.linked \cup Remaining(j)

ImportFacts(j) ==
  /\ ImportCore(j)
  /\ j.ids = <<>> <=> j.op = "imported"
  /\ j.op \in {"create", "link", "cleanup"} => Wanted(j)
  /\ j.op \in {"link", "cleanup"} => j.pool # None

ImportType(n) == {j \in ImportRecord(n) : ImportFacts(j)}

SchemaListRecord(n) ==
  [op : {"schema_list"}, account : PoolIds, links : Links(n), alone : BOOLEAN]

SchemaListType(n) == {j \in SchemaListRecord(n) : DOMAIN j.links # {}}

SchemaRecord(n) ==
  [op : {"schema", "schema_link"}, account : PoolIds, links : Links(n),
   todo : SUBSET Resources, here : Links(n), listed : Listings(n),
   parent : Ref(n), pool : Ref(n), alone : BOOLEAN]

SchemaFacts(j) ==
  /\ j.todo # {} /\ j.todo \subseteq DOMAIN j.links /\ DOMAIN j.here = DOMAIN j.links
  /\ j.op = "schema_link" => j.pool # None /\ j.links[FirstOf(j.todo)] = None

SchemaType(n) == {j \in SchemaRecord(n) : SchemaFacts(j)}

DetectType(n) ==
  [op : {"detect"}, run : PoolIds, accounts : SUBSET PoolIds, todo : SUBSET PoolIds,
   listed : Listings(n), alone : BOOLEAN]

DetectListType(n) ==
  [op : {"detect_list"}, run : PoolIds, accounts : SUBSET PoolIds,
   todo : SUBSET PoolIds, listed : Listings(n), account : PoolIds, alone : BOOLEAN]

DetectScanType(n) ==
  [op : {"detect_scan"}, run : PoolIds, accounts : SUBSET PoolIds,
   todo : SUBSET PoolIds, listed : Listings(n), account : PoolIds, links : Links(n),
   scan : SUBSET Resources, orphans : SUBSET (1 .. n - 1), alone : BOOLEAN]

DetectedType == [op : {"detected"}, accounts : SUBSET PoolIds, alone : BOOLEAN]

JobType(n) ==
  {Idle} \cup LinkingType(n) \cup ActionType(n) \cup PreviewType(n) \cup ImportType(n)
  \cup SchemaListType(n) \cup SchemaType(n) \cup DetectType(n) \cup DetectListType(n)
  \cup {j \in DetectScanType(n) : j.scan \subseteq DOMAIN j.links} \cup DetectedType

(* The op of a job tells its shape.                                        *)

Shapes(j, n) ==
  /\ j.op = "linking" => j \in LinkingType(n)
  /\ j.op \in {"resolve", "record", "recorded", "ensure", "link_action", "import_action",
               "rollback", "placeholder", "ok", "failed", "stuck"} => j \in ActionType(n)
  /\ j.op = "preview" => j \in PreviewType(n)
  /\ j.op \in {"item", "create", "link", "cleanup", "imported"} => j \in ImportType(n)
  /\ j.op = "schema_list" => j \in SchemaListType(n)
  /\ j.op \in {"schema", "schema_link"} => j \in SchemaType(n)
  /\ j.op = "detect" => j \in DetectType(n)
  /\ j.op = "detect_list" => j \in DetectListType(n)
  /\ j.op = "detect_scan" => j \in DetectScanType(n) /\ j.scan \subseteq DOMAIN j.links
  /\ j.op = "detected" => j \in DetectedType
  /\ j.op = "idle" => j = Idle

LEMMA ShapeOf ==
  ASSUME NEW n, NEW j \in JobType(n)
  PROVE  Shapes(j, n)
<1>0. CASE j = Idle
  BY <1>0 DEF Idle, Shapes
<1>1. CASE j \in LinkingType(n)
  BY <1>1 DEF LinkingType, Shapes
<1>2. CASE j \in ActionType(n)
  BY <1>2 DEF ActionType, ActionRecord, Shapes
<1>3. CASE j \in PreviewType(n)
  BY <1>3 DEF PreviewType, PreviewRecord, Shapes
<1>4. CASE j \in ImportType(n)
  BY <1>4 DEF ImportType, ImportRecord, Shapes
<1>5. CASE j \in SchemaListType(n)
  BY <1>5 DEF SchemaListType, SchemaListRecord, Shapes
<1>6. CASE j \in SchemaType(n)
  BY <1>6 DEF SchemaType, SchemaRecord, Shapes
<1>7. CASE j \in DetectType(n)
  BY <1>7 DEF DetectType, Shapes
<1>8. CASE j \in DetectListType(n)
  BY <1>8 DEF DetectListType, Shapes
<1>9. CASE j \in DetectScanType(n) /\ j.scan \subseteq DOMAIN j.links
  BY <1>9 DEF DetectScanType, Shapes
<1>10. CASE j \in DetectedType
  BY <1>10 DEF DetectedType, Shapes
<1> QED
  BY <1>0, <1>1, <1>2, <1>3, <1>4, <1>5, <1>6, <1>7, <1>8, <1>9, <1>10 DEF JobType

(* More pools may be issued, and somebody else may write, while a request  *)
(* is at work.                                                             *)

Busied(j) == [j EXCEPT !.alone = FALSE]

LEMMA RefGrows ==
  ASSUME NEW n \in PoolIds, NEW m \in PoolIds, n <= m
  PROVE  /\ 1 .. n - 1 \subseteq 1 .. m - 1
         /\ Ref(n) \subseteq Ref(m)
         /\ Listings(n) \subseteq Listings(m)
         /\ Links(n) \subseteq Links(m)
         /\ ItemType(n) \subseteq ItemType(m)
         /\ Items(n) \subseteq Items(m)
<1>1. 1 .. n - 1 \subseteq 1 .. m - 1
  BY DEF PoolIds
<1>2. Ref(n) \subseteq Ref(m)
  BY <1>1 DEF Ref
<1>3. Listings(n) \subseteq Listings(m)
  <2> SUFFICES ASSUME NEW f \in Listings(n) PROVE f \in Listings(m)
    OBVIOUS
  <2>1. PICK D \in SUBSET (1 .. n - 1) : f \in [D -> OptId]
    BY DEF Listings
  <2>2. D \in SUBSET (1 .. m - 1)
    BY <1>1
  <2> QED
    BY <2>1, <2>2 DEF Listings
<1>4. Links(n) \subseteq Links(m)
  <2> SUFFICES ASSUME NEW f \in Links(n) PROVE f \in Links(m)
    OBVIOUS
  <2>1. PICK D \in SUBSET Resources : f \in [D -> Ref(n)]
    BY DEF Links
  <2>2. f \in [D -> Ref(m)]
    BY <2>1, <1>2
  <2> QED
    BY <2>2 DEF Links
<1>5. ItemType(n) \subseteq ItemType(m)
  BY <1>2 DEF ItemType
<1>6. Items(n) \subseteq Items(m)
  <2> SUFFICES ASSUME NEW f \in Items(n) PROVE f \in Items(m)
    OBVIOUS
  <2>1. PICK D \in SUBSET Resources : f \in [D -> ItemType(n)]
    BY DEF Items
  <2>2. f \in [D -> ItemType(m)]
    BY <2>1, <1>5
  <2> QED
    BY <2>2 DEF Items
<1> QED
  BY <1>1, <1>2, <1>3, <1>4, <1>5, <1>6

LEMMA ActionGrows ==
  ASSUME NEW n \in PoolIds, NEW m \in PoolIds, n <= m
  PROVE  ActionType(n) \subseteq ActionType(m) /\ CallerType(n) \subseteq CallerType(m)
<1>1. ConflictType(n) \subseteq ConflictType(m)
  BY RefGrows DEF ConflictType
<1>2. [Resources -> Ref(n)] \subseteq [Resources -> Ref(m)]
  BY RefGrows
<1>3. ActionRecord(n) \subseteq ActionRecord(m)
  BY <1>1, <1>2, RefGrows DEF ActionRecord
<1> QED
  BY <1>3 DEF ActionType, CallerType

LEMMA JobGrows ==
  ASSUME NEW n \in PoolIds, NEW m \in PoolIds, n <= m
  PROVE  JobType(n) \subseteq JobType(m)
<1>1. LinkingType(n) \subseteq LinkingType(m)
  BY RefGrows DEF LinkingType
<1>2. PreviewRecord(n) \subseteq PreviewRecord(m)
  BY RefGrows, ActionGrows DEF PreviewRecord
<1>3. ImportRecord(n) \subseteq ImportRecord(m)
  BY RefGrows, ActionGrows DEF ImportRecord
<1>4. SchemaListType(n) \subseteq SchemaListType(m)
  BY RefGrows DEF SchemaListType, SchemaListRecord
<1>5. SchemaRecord(n) \subseteq SchemaRecord(m)
  BY RefGrows DEF SchemaRecord
<1>6. DetectType(n) \subseteq DetectType(m)
  BY RefGrows DEF DetectType
<1>7. DetectListType(n) \subseteq DetectListType(m)
  BY RefGrows DEF DetectListType
<1>8. DetectScanType(n) \subseteq DetectScanType(m)
  BY RefGrows DEF DetectScanType
<1>9. /\ PreviewType(n) \subseteq PreviewType(m)
      /\ ImportType(n) \subseteq ImportType(m)
      /\ SchemaType(n) \subseteq SchemaType(m)
  BY <1>2, <1>3, <1>5 DEF PreviewType, ImportType, SchemaType
<1> QED
  BY <1>1, <1>4, <1>6, <1>7, <1>8, <1>9, ActionGrows DEF JobType

LEMMA BusiedType ==
  ASSUME NEW n, NEW j \in JobType(n), j # Idle
  PROVE  /\ Busied(j) \in JobType(n)
         /\ Busied(j) # Idle /\ Busied(j).alone = FALSE /\ Busied(j).op = j.op
<1>1. CASE j \in LinkingType(n)
  <2>1. Busied(j) \in LinkingType(n)
    BY <1>1 DEF LinkingType, Busied
  <2> QED
    BY <1>1, <2>1 DEF LinkingType, Busied, JobType, Idle
<1>2. CASE j \in ActionType(n)
  <2>0. j \in ActionRecord(n) /\ ActionFacts(j)
    BY <1>2 DEF ActionType
  <2>1. Busied(j) \in ActionRecord(n)
    BY <2>0 DEF ActionRecord, Busied
  <2>2. ActionFacts(Busied(j))
    BY <2>0 DEF ActionFacts, ActionRecord, Busied
  <2>3. Busied(j).alone = FALSE /\ Busied(j).op = j.op
    BY <2>0 DEF ActionRecord, Busied
  <2> QED
    BY <2>0, <2>1, <2>2, <2>3 DEF ActionType, ActionRecord, JobType, Idle
<1>3. CASE j \in PreviewType(n)
  <2>0. j \in PreviewRecord(n) /\ PreviewFacts(j)
    BY <1>3 DEF PreviewType
  <2>1. Busied(j) \in PreviewRecord(n)
    BY <2>0 DEF PreviewRecord, Busied
  <2>2. PreviewFacts(Busied(j))
    BY <2>0 DEF PreviewFacts, PreviewRecord, Busied
  <2>3. Busied(j).alone = FALSE /\ Busied(j).op = j.op
    BY <2>0 DEF PreviewRecord, Busied
  <2> QED
    BY <2>0, <2>1, <2>2, <2>3 DEF PreviewType, PreviewRecord, JobType, Idle
<1>4. CASE j \in ImportType(n)
  <2>0. j \in ImportRecord(n) /\ ImportFacts(j)
    BY <1>4 DEF ImportType
  <2>1. Busied(j) \in ImportRecord(n)
    BY <2>0 DEF ImportRecord, Busied
  <2>2. /\ Busied(j).op = j.op /\ Busied(j).ids = j.ids /\ Busied(j).pool = j.pool
        /\ Busied(j).items = j.items /\ Busied(j).force = j.force
        /\ Busied(j).made = j.made /\ Busied(j).account = j.account
        /\ Busied(j).conflict = j.conflict /\ Busied(j).failed = j.failed
        /\ Busied(j).linked = j.linked /\ Busied(j).alone = FALSE
    BY <2>0 DEF ImportRecord, Busied
  <2>3. ImportCore(Busied(j))
    BY <2>0, <2>2 DEF ImportFacts, ImportCore, Remaining
  <2>4. Wanted(Busied(j)) <=> Wanted(j)
    BY <2>2 DEF Wanted
  <2>5. ImportFacts(Busied(j))
    BY <2>0, <2>2, <2>3, <2>4 DEF ImportFacts
  <2> QED
    BY <2>0, <2>1, <2>2, <2>5 DEF ImportType, ImportRecord, JobType, Idle
<1>5. CASE j \in SchemaListType(n)
  <2>1. Busied(j) \in SchemaListType(n)
    BY <1>5 DEF SchemaListType, SchemaListRecord, Busied
  <2> QED
    BY <1>5, <2>1 DEF SchemaListType, SchemaListRecord, Busied, JobType, Idle
<1>6. CASE j \in SchemaType(n)
  <2>0. j \in SchemaRecord(n) /\ SchemaFacts(j)
    BY <1>6 DEF SchemaType
  <2>1. Busied(j) \in SchemaRecord(n)
    BY <2>0 DEF SchemaRecord, Busied
  <2>2. SchemaFacts(Busied(j))
    BY <2>0 DEF SchemaFacts, SchemaRecord, Busied
  <2>3. Busied(j).alone = FALSE /\ Busied(j).op = j.op
    BY <2>0 DEF SchemaRecord, Busied
  <2> QED
    BY <2>0, <2>1, <2>2, <2>3 DEF SchemaType, SchemaRecord, JobType, Idle
<1>7. CASE j \in DetectType(n)
  <2>1. Busied(j) \in DetectType(n)
    BY <1>7 DEF DetectType, Busied
  <2> QED
    BY <1>7, <2>1 DEF DetectType, Busied, JobType, Idle
<1>8. CASE j \in DetectListType(n)
  <2>1. Busied(j) \in DetectListType(n)
    BY <1>8 DEF DetectListType, Busied
  <2> QED
    BY <1>8, <2>1 DEF DetectListType, Busied, JobType, Idle
<1>9. CASE j \in DetectScanType(n) /\ j.scan \subseteq DOMAIN j.links
  <2>1. Busied(j) \in DetectScanType(n)
    BY <1>9 DEF DetectScanType, Busied
  <2>2. Busied(j).scan = j.scan /\ Busied(j).links = j.links
    BY <1>9 DEF DetectScanType, Busied
  <2>3. Busied(j).alone = FALSE /\ Busied(j).op = j.op
    BY <1>9 DEF DetectScanType, Busied
  <2> QED
    BY <1>9, <2>1, <2>2, <2>3 DEF DetectScanType, JobType, Idle
<1>10. CASE j \in DetectedType
  <2>1. Busied(j) \in DetectedType
    BY <1>10 DEF DetectedType, Busied
  <2> QED
    BY <1>10, <2>1 DEF DetectedType, Busied, JobType, Idle
<1> QED
  BY <1>1, <1>2, <1>3, <1>4, <1>5, <1>6, <1>7, <1>8, <1>9, <1>10 DEF JobType

(* The types of the state. *)

StoreTyped ==
  /\ next \in PoolIds /\ nextAccount \in PoolIds
  /\ pools \in [1 .. next - 1 -> Pool]
  /\ \A i \in Ids : pools[i].parent # None => pools[i].parent \in 1 .. i - 1

ResTyped == res \in [Resources -> [active : BOOLEAN, pool : Ref(next)]]

Decisions == {"open", "resolved", "ignored"}

ItemOfDrift ==
  [run : PoolIds, kind : {"unmanaged", "cidr_mismatch", "orphaned_pool"}, subject : Nat,
   account : PoolIds, status : Decisions]

RecordOfConflict == [account : PoolIds, status : Decisions]

DriftsTyped ==
  /\ drifts \subseteq ItemOfDrift
  /\ records \in [DOMAIN records -> RecordOfConflict]
  /\ detections \in Nat

JobsTyped == job \in [Workers -> JobType(next)]

NetTyped == StoreTyped /\ ResTyped /\ DriftsTyped /\ JobsTyped

LEMMA Discovered ==
  /\ Resources \in SUBSET Nat
  /\ \A r \in Resources :
       /\ Data[r].account \in PoolIds /\ Data[r].name \in Names
       /\ Data[r].type \in {"vpc", "subnet", "elastic_ip"}
       /\ Data[r].cidr # NoCIDR => Data[r].cidr \in CIDRs
<1>1. Cardinality(Resources) \in Nat
  BY ImportsAssumption, FS_CardinalityType
<1> QED
  BY <1>1, ImportsAssumption DEF ResourceData, NoCIDR

(* Changes of the store. *)

LEMMA CreateTyped ==
  ASSUME StoreTyped, NEW r \in Resources, Poolable(r), NEW account \in PoolIds,
         NEW parent \in Ref(next), CreatePool(DiscoveredPool(r, account, parent))
  PROVE  StoreTyped' /\ next' = next + 1 /\ next' \in PoolIds /\ next <= next'
<1>1. next' = next + 1 /\ next \in PoolIds /\ next' \in PoolIds /\ next' - 1 = next
  BY DEF CreatePool, StoreTyped, PoolIds
<1>2. None \notin Nat /\ Metas = PoolMeta
  BY PoolsAssumption, ImportsAssumption
<1>3. [type |-> Data[r].type, tag |-> Data[r].name] \in PoolMeta
  BY Discovered DEF Poolable, CanBePool, PoolMeta
<1>4. parent \in OptId /\ Data[r].cidr \in CIDRs /\ next \in Nat
  BY <1>1, Discovered DEF Poolable, Ref, OptId, PoolIds
<1>5. DiscoveredPool(r, account, parent) \in Pool
  BY <1>2, <1>3, <1>4 DEF DiscoveredPool, NewPool, Pool, OptId
<1>6. pools' \in [1 .. next' - 1 -> Pool]
  BY <1>1, <1>5 DEF CreatePool, StoreTyped, PoolIds
<1>7. ASSUME NEW i \in 1 .. next, pools'[i].parent # None
      PROVE  pools'[i].parent \in 1 .. i - 1
  <2>1. CASE i = next
    <3>1. pools'[i] = DiscoveredPool(r, account, parent)
      BY <2>1, <1>1 DEF CreatePool
    <3>2. pools'[i].parent = parent
      BY <3>1 DEF DiscoveredPool, NewPool
    <3> QED
      BY <3>2, <2>1, <1>7 DEF Ref
  <2>2. CASE i # next
    <3>1. i \in Ids /\ pools'[i] = pools[i]
      BY <2>2, <1>1 DEF CreatePool, Ids, PoolIds
    <3> QED
      BY <3>1, <1>7 DEF StoreTyped
  <2> QED
    BY <2>1, <2>2
<1>8. nextAccount' \in PoolIds
  BY DEF CreatePool, StoreTyped
<1> QED
  BY <1>1, <1>6, <1>7, <1>8 DEF StoreTyped, Ids, PoolIds

LEMMA DeleteTyped ==
  ASSUME StoreTyped, NEW S, pools' = SoftDelete(S), next' = next, nextAccount' = nextAccount
  PROVE  StoreTyped'
<1>1. pools' \in [1 .. next' - 1 -> Pool]
  BY DEF SoftDelete, StoreTyped, Ids, Pool
<1>2. \A i \in Ids : pools'[i].parent = pools[i].parent
  BY DEF SoftDelete, StoreTyped, Ids, Pool
<1> QED
  BY <1>1, <1>2 DEF StoreTyped, Ids

LEMMA UpdateTyped ==
  ASSUME StoreTyped, NEW i, NEW account \in OptId, UpdatePool(i, account, None)
  PROVE  StoreTyped' /\ next' = next
<1>1. pools' \in [1 .. next' - 1 -> Pool]
  BY DEF UpdatePool, StoreTyped, Ids, Pool
<1>2. \A k \in Ids : pools'[k].parent = pools[k].parent
  BY DEF UpdatePool, StoreTyped, Ids, Pool
<1> QED
  BY <1>1, <1>2 DEF StoreTyped, Ids, UpdatePool

LEMMA StoreKept ==
  ASSUME StoreTyped, UNCHANGED store
  PROVE  StoreTyped'
BY DEF StoreTyped, store, Ids

LEMMA ResKept ==
  ASSUME StoreTyped, ResTyped, res' = res, next' \in PoolIds, next <= next'
  PROVE  ResTyped'
<1>1. Ref(next) \subseteq Ref(next')
  BY RefGrows DEF StoreTyped
<1> QED
  BY <1>1 DEF ResTyped

LEMMA LinkTyped ==
  ASSUME ResTyped, NEW r \in Resources, NEW p \in Ref(next), LinkResource(r, p), next' = next
  PROVE  ResTyped'
BY DEF ResTyped, LinkResource

(* What a step does to the jobs. *)

LEMMA GoesTyped ==
  ASSUME JobsTyped, NEW w \in Workers, next' = next,
         \E j \in JobType(next) : Goes(w, j)
  PROVE  JobsTyped'
BY DEF JobsTyped, Goes

LEMMA DisturbedTyped ==
  ASSUME JobsTyped, NEW w, NEW n \in PoolIds, next \in PoolIds, next <= n
  PROVE  /\ Disturbed(job, w) \in [Workers -> JobType(n)]
         /\ \A v \in Workers : v # w => Disturbed(job, w)[v] = Idle
                                        \/ Disturbed(job, w)[v].alone = FALSE
<1>1. JobType(next) \subseteq JobType(n)
  BY JobGrows
<1>2. ASSUME NEW v \in Workers
      PROVE  /\ Disturbed(job, w)[v] \in JobType(n)
             /\ v # w => Disturbed(job, w)[v] = Idle \/ Disturbed(job, w)[v].alone = FALSE
  <2>0. job[v] \in JobType(next)
    BY DEF JobsTyped
  <2>1. job[v].op = "idle" => job[v] = Idle
    BY <2>0, ShapeOf DEF Shapes
  <2>2. job[v] # Idle => Busied(job[v]) \in JobType(next) /\ Busied(job[v]).alone = FALSE
    BY <2>0, BusiedType
  <2>3. Disturbed(job, w)[v] = IF v = w \/ job[v].op = "idle" THEN job[v] ELSE Busied(job[v])
    BY DEF Disturbed, Busied
  <2>4. job[v] = Idle => job[v].op = "idle"
    BY DEF Idle
  <2> QED
    BY <1>1, <2>0, <2>1, <2>2, <2>3, <2>4
<1>3. Disturbed(job, w) = [v \in Workers |-> Disturbed(job, w)[v]]
  BY DEF Disturbed
<1> QED
  BY <1>2, <1>3

LEMMA WritesTyped ==
  ASSUME JobsTyped, NEW w \in Workers, next \in PoolIds, next' \in PoolIds, next <= next',
         \E j \in JobType(next') : Writes(w, j)
  PROVE  JobsTyped'
<1>1. Disturbed(job, w) \in [Workers -> JobType(next')]
  BY DisturbedTyped
<1> QED
  BY <1>1 DEF JobsTyped, Writes

LEMMA LinksShape ==
  ASSUME NEW n
  PROVE  /\ \A f \in Links(n) : DOMAIN f \in SUBSET Resources /\ f \in [DOMAIN f -> Ref(n)]
         /\ \A D \in SUBSET Resources : \A f \in [D -> Ref(n)] : f \in Links(n)
<1>1. ASSUME NEW f \in Links(n)
      PROVE  DOMAIN f \in SUBSET Resources /\ f \in [DOMAIN f -> Ref(n)]
  <2>1. PICK D \in SUBSET Resources : f \in [D -> Ref(n)]
    BY DEF Links
  <2> QED
    BY <2>1
<1> QED
  BY <1>1 DEF Links

LEMMA ItemsShape ==
  ASSUME NEW n
  PROVE  /\ \A f \in Items(n) : DOMAIN f \in SUBSET Resources /\ f \in [DOMAIN f -> ItemType(n)]
         /\ \A D \in SUBSET Resources : \A f \in [D -> ItemType(n)] : f \in Items(n)
<1>1. ASSUME NEW f \in Items(n)
      PROVE  DOMAIN f \in SUBSET Resources /\ f \in [DOMAIN f -> ItemType(n)]
  <2>1. PICK D \in SUBSET Resources : f \in [D -> ItemType(n)]
    BY DEF Items
  <2> QED
    BY <2>1
<1> QED
  BY <1>1 DEF Items

LEMMA ListingsShape ==
  ASSUME NEW n
  PROVE  /\ \A f \in Listings(n) :
              DOMAIN f \in SUBSET (1 .. n - 1) /\ f \in [DOMAIN f -> OptId]
         /\ \A D \in SUBSET (1 .. n - 1) : \A f \in [D -> OptId] : f \in Listings(n)
<1>1. ASSUME NEW f \in Listings(n)
      PROVE  DOMAIN f \in SUBSET (1 .. n - 1) /\ f \in [DOMAIN f -> OptId]
  <2>1. PICK D \in SUBSET (1 .. n - 1) : f \in [D -> OptId]
    BY DEF Listings
  <2> QED
    BY <2>1
<1> QED
  BY <1>1 DEF Listings

LEMMA ListPoolsTyped ==
  ASSUME StoreTyped
  PROVE  ListPools \in Listings(next)
<1>1. {i \in Ids : ~ pools[i].deleted} \in SUBSET (1 .. next - 1)
  BY DEF Ids
<1>2. \A i \in Ids : pools[i].account \in OptId
  BY DEF StoreTyped, Ids, Pool
<1>3. ListPools \in [{i \in Ids : ~ pools[i].deleted} -> OptId]
  BY <1>2 DEF ListPools
<1> QED
  BY <1>1, <1>3, ListingsShape

(* What a preview shows.  An item that may be acted on is of a resource no *)
(* pool is linked to, and an exact match is one of the pools listed.       *)

LEMMA PreviewItemShape ==
  ASSUME NetTyped, NEW r \in Resources, NEW account, NEW ids, NEW selected \in Ref(next),
         NEW listed \in Listings(next),
         NEW item \in PreviewItems(r, account, ids, selected, listed)
  PROVE  /\ item \in ItemType(next)
         /\ item.status = "importable" => Poolable(r)
         /\ item.status = "account_mismatch" <=> Data[r].account # account
         /\ item.status \in {"importable", "conflict", "blocked"} => Unlinked(r)
         /\ item.pool # None => item.pool \in DOMAIN listed
<1> DEFINE status == PreviewStatus(r, account, ids, selected, listed)
<1> DEFINE given == GivenParent(r, selected)
<1>1. DOMAIN listed \in SUBSET (1 .. next - 1)
  BY ListingsShape
<1>2. None \in Ref(next) /\ 1 .. next - 1 \subseteq Ref(next)
  BY DEF Ref
<1>3. \A s \in Resources : res[s].pool \in Ref(next)
  BY DEF NetTyped, ResTyped
<1>4. given \in Ref(next)
  <2>1. \A s \in ParentOf(r) : res[s].pool \in Ref(next)
    BY <1>3 DEF ParentOf
  <2> QED
    BY <2>1, <1>2 DEF GivenParent
<1>5. \A p \in Choices(MatchingPools(listed, r)) : p \in Ref(next) /\ (p # None => p \in DOMAIN listed)
  BY <1>1, <1>2 DEF Choices, MatchingPools, Exact
<1>6. \A p \in Choices(ContainingPools(listed, r)) : p \in Ref(next)
  BY <1>1, <1>2 DEF Choices, ContainingPools
<1>7. /\ status \in Statuses
      /\ status = "importable" => Poolable(r)
      /\ status = "account_mismatch" <=> Data[r].account # account
      /\ status \in {"importable", "conflict", "blocked"} => Unlinked(r)
  <2>1. status \in Statuses
    BY DEF PreviewStatus, Statuses
  <2>2. status = "importable" => Poolable(r)
    BY DEF PreviewStatus, Poolable
  <2>3. status = "account_mismatch" <=> Data[r].account # account
    BY DEF PreviewStatus
  <2>4. status \in {"importable", "conflict", "blocked"} => Unlinked(r)
    BY DEF PreviewStatus
  <2> QED
    BY <2>1, <2>2, <2>3, <2>4
<1> HIDE DEF status, given
<1>8. CASE item = [status |-> status, pool |-> None, parent |-> None]
  BY <1>2, <1>7, <1>8 DEF ItemType
<1>9. CASE \E p \in Choices(MatchingPools(listed, r)), q \in Choices(ContainingPools(listed, r)) :
             item = [status |-> status, pool |-> p, parent |-> IF given = None THEN q ELSE given]
  BY <1>2, <1>4, <1>5, <1>6, <1>7, <1>9 DEF ItemType
<1> QED
  BY <1>8, <1>9 DEF PreviewItems, status, given

(* On to the next item.                                                    *)

LEMMA RestTyped ==
  ASSUME NEW n, NEW k \in ImportRecord(n), ImportCore(k), k.ids # <<>>,
         k.failed \/ Head(k.ids) \in k.linked, None \in Ref(n)
  PROVE  Rest(k) \in ImportType(n)
<1> DEFINE t == Rest(k)
<1>1. k.ids \in Seq(Resources)
  BY DEF ImportRecord
<1>2. /\ Tail(k.ids) \in Seq(Resources) /\ Len(Tail(k.ids)) = Len(k.ids) - 1
      /\ Len(k.ids) \in Nat /\ DOMAIN k.ids = 1 .. Len(k.ids)
      /\ DOMAIN Tail(k.ids) = 1 .. Len(k.ids) - 1
      /\ \A m \in 1 .. Len(k.ids) - 1 : Tail(k.ids)[m] = k.ids[m + 1]
      /\ Head(k.ids) = k.ids[1]
  BY <1>1, HeadTailProperties
<1>3. Tail(k.ids) = <<>> <=> Len(k.ids) = 1
  <2>1. Tail(k.ids) = <<>> <=> Len(Tail(k.ids)) = 0
    BY <1>2, EmptySeq
  <2> QED
    BY <1>2, <2>1
<1>4. /\ t.ids = Tail(k.ids) /\ t.op = (IF Len(k.ids) = 1 THEN "imported" ELSE "item")
      /\ t.items = k.items /\ t.made = k.made /\ t.account = k.account
      /\ t.force = k.force /\ t.conflict = k.conflict /\ t.failed = k.failed
      /\ t.linked = k.linked
  BY DEF Rest, ImportRecord
<1>5. t \in ImportRecord(n)
  BY <1>2 DEF Rest, ImportRecord
<1>6. /\ Remaining(t) \subseteq Remaining(k)
      /\ Remaining(k) \subseteq Remaining(t) \cup {Head(k.ids)}
  <2>1. ASSUME NEW m \in 1 .. Len(k.ids) - 1 PROVE t.ids[m] \in Remaining(k)
    BY <1>2, <1>4 DEF Remaining
  <2>2. ASSUME NEW m \in 1 .. Len(k.ids) PROVE k.ids[m] \in Remaining(t) \cup {Head(k.ids)}
    <3>1. CASE m = 1
      BY <3>1, <1>2
    <3>2. CASE m # 1
      <4>1. m - 1 \in 1 .. Len(k.ids) - 1 /\ k.ids[m] = t.ids[m - 1]
        BY <3>2, <1>2, <1>4
      <4> QED
        BY <4>1, <1>2, <1>4 DEF Remaining
    <3> QED
      BY <3>1, <3>2
  <2> QED
    BY <2>1, <2>2, <1>2, <1>4 DEF Remaining
<1>7. t.force => SameOwner(t.ids, t.account)
  <2>1. \A m \in 1 .. Len(k.ids) - 1 : m + 1 \in 1 .. Len(k.ids)
    BY <1>2
  <2> QED
    BY <2>1, <1>2, <1>4 DEF SameOwner, ImportCore
<1> HIDE DEF t
<1>8. ImportCore(t)
  BY <1>4, <1>6, <1>7 DEF ImportCore
<1>9. t.ids = <<>> <=> t.op = "imported"
  BY <1>3, <1>4
<1>10. ImportFacts(t)
  BY <1>4, <1>8, <1>9 DEF ImportFacts
<1> QED
  BY <1>5, <1>10 DEF ImportType, t

LEMMA SkippedTyped ==
  ASSUME NEW n, NEW k \in ImportRecord(n), ImportCore(k), k.ids # <<>>, None \in Ref(n)
  PROVE  Skipped(k) \in ImportType(n)
<1> DEFINE t == [k EXCEPT !.failed = TRUE]
<1>1. t \in ImportRecord(n) /\ t.ids = k.ids /\ t.failed
  BY DEF ImportRecord
<1>2. ImportCore(t)
  BY DEF ImportCore, Remaining, ImportRecord
<1> HIDE DEF t
<1>3. Rest(t) \in ImportType(n)
  BY <1>1, <1>2, RestTyped
<1> QED
  BY <1>3 DEF Skipped, t

LEMMA DoneTyped ==
  ASSUME NEW n, NEW k \in ImportRecord(n), ImportCore(k), k.ids # <<>>, None \in Ref(n),
         NEW p \in Ref(n)
  PROVE  Done(k, p) \in ImportType(n)
<1> DEFINE r == Head(k.ids)
<1> DEFINE t == [k EXCEPT !.made[r] = p, !.linked = @ \cup {r}]
<1>0. k.ids \in Seq(Resources) /\ k.made \in Links(n) /\ r \in Resources
  BY HeadTailProperties DEF ImportRecord
<1>1. [k.made EXCEPT ![r] = p] \in Links(n) /\ DOMAIN [k.made EXCEPT ![r] = p] = DOMAIN k.made
  BY <1>0, LinksShape
<1> HIDE DEF r
<1>2. /\ t \in ImportRecord(n) /\ t.ids = k.ids /\ t.linked = k.linked \cup {r}
      /\ t.made = [k.made EXCEPT ![r] = p] /\ t.items = k.items /\ t.account = k.account
      /\ t.force = k.force /\ t.conflict = k.conflict /\ t.failed = k.failed
  BY <1>0, <1>1 DEF ImportRecord
<1> HIDE DEF t
<1>3. ImportCore(t)
  BY <1>1, <1>2 DEF ImportCore, Remaining
<1>4. Rest(t) \in ImportType(n)
  BY <1>2, <1>3, RestTyped DEF r
<1> QED
  BY <1>4 DEF Done, t, r

LEMMA HeadRemains ==
  ASSUME NEW n, NEW j \in ImportType(n), j.op # "imported"
  PROVE  /\ j \in ImportRecord(n) /\ ImportCore(j) /\ j.ids # <<>> /\ j.ids \in Seq(Resources)
         /\ Head(j.ids) \in Resources /\ Head(j.ids) \in DOMAIN j.items
         /\ Head(j.ids) \in Remaining(j) /\ DOMAIN j.made = DOMAIN j.items
         /\ j.items[Head(j.ids)] \in ItemType(n) /\ j.items[Head(j.ids)].pool \in Ref(n)
         /\ Wanted(j) => Poolable(Head(j.ids))
         /\ j.force => Data[Head(j.ids)].account = j.account
<1>1. j \in ImportRecord(n) /\ ImportFacts(j)
  BY DEF ImportType
<1>2. j.ids # <<>> /\ j.ids \in Seq(Resources) /\ ImportCore(j)
  BY <1>1 DEF ImportFacts, ImportRecord
<1>3. Head(j.ids) = j.ids[1] /\ 1 \in DOMAIN j.ids /\ Head(j.ids) \in Resources
  BY <1>2, HeadTailProperties
<1>4. Head(j.ids) \in Remaining(j)
  BY <1>3 DEF Remaining
<1>5. Head(j.ids) \in DOMAIN j.items /\ DOMAIN j.made = DOMAIN j.items
  BY <1>2, <1>4 DEF ImportCore
<1>6. j.items[Head(j.ids)] \in ItemType(n)
  <2>1. j.items \in Items(n)
    BY <1>1 DEF ImportRecord
  <2> QED
    BY <2>1, <1>5, ItemsShape
<1>7. Wanted(j) => Poolable(Head(j.ids))
  BY <1>2, <1>5 DEF Wanted, ImportCore, canForceDiscoveryImport, Poolable
<1>8. j.force => Data[Head(j.ids)].account = j.account
  BY <1>2, <1>3 DEF ImportCore, SameOwner
<1> QED
  BY <1>1, <1>2, <1>3, <1>4, <1>5, <1>6, <1>7, <1>8 DEF ItemType

(* A step reads, links a resource, changes the pools, or writes the drift  *)
(* store.                                                                  *)

LEMMA DriftsKept ==
  ASSUME DriftsTyped, UNCHANGED driftStore
  PROVE  DriftsTyped'
BY DEF DriftsTyped, driftStore

LEMMA NextTyped ==
  ASSUME NetTyped
  PROVE  next \in PoolIds /\ next <= next /\ None \in Ref(next) /\ Idle \in JobType(next)
         /\ \A p \in 1 .. next - 1 : p \in Ref(next)
BY DEF NetTyped, StoreTyped, PoolIds, Ref, JobType

LEMMA JobKinds ==
  ASSUME NEW n, NEW j
  PROVE  /\ j \in LinkingType(n) => j \in JobType(n)
         /\ j \in ActionRecord(n) /\ ActionFacts(j) => j \in JobType(n)
         /\ j \in PreviewRecord(n) /\ PreviewFacts(j) => j \in JobType(n)
         /\ j \in ImportType(n) => j \in JobType(n)
         /\ j \in ImportRecord(n) /\ ImportFacts(j) => j \in JobType(n)
         /\ j \in SchemaListType(n) => j \in JobType(n)
         /\ j \in SchemaRecord(n) /\ SchemaFacts(j) => j \in JobType(n)
         /\ j \in DetectType(n) => j \in JobType(n)
         /\ j \in DetectListType(n) => j \in JobType(n)
         /\ j \in DetectScanType(n) /\ j.scan \subseteq DOMAIN j.links => j \in JobType(n)
         /\ j \in DetectedType => j \in JobType(n)
BY DEF JobType, ActionType, PreviewType, ImportType, SchemaType

LEMMA ReadTyped ==
  ASSUME NetTyped, NEW w \in Workers, UNCHANGED <<store, res, driftStore>>,
         \E j \in JobType(next) : Goes(w, j)
  PROVE  NetTyped'
<1>1. next' = next /\ StoreTyped'
  BY StoreKept DEF NetTyped, store
<1>2. ResTyped'
  BY <1>1 DEF NetTyped, ResTyped
<1>3. JobsTyped'
  BY <1>1, GoesTyped DEF NetTyped
<1> QED
  BY <1>1, <1>2, <1>3, DriftsKept DEF NetTyped

LEMMA LinkedTyped ==
  ASSUME NetTyped, NEW w \in Workers, UNCHANGED <<store, driftStore>>,
         NEW r \in Resources, NEW p \in Ref(next), LinkResource(r, p),
         \E j \in JobType(next) : Writes(w, j)
  PROVE  NetTyped'
<1>1. next' = next /\ StoreTyped'
  BY StoreKept DEF NetTyped, store
<1>2. ResTyped'
  BY <1>1, LinkTyped DEF NetTyped
<1>3. JobsTyped'
  BY <1>1, NextTyped, WritesTyped DEF NetTyped
<1> QED
  BY <1>1, <1>2, <1>3, DriftsKept DEF NetTyped

LEMMA StoredTyped ==
  ASSUME NetTyped, NEW w \in Workers, UNCHANGED <<res, driftStore>>,
         StoreTyped', next <= next', \E j \in JobType(next') : Writes(w, j)
  PROVE  NetTyped'
<1>1. next' \in PoolIds /\ next \in PoolIds
  BY DEF StoreTyped, NetTyped
<1>2. ResTyped'
  BY <1>1, ResKept DEF NetTyped
<1>3. JobsTyped'
  BY <1>1, WritesTyped DEF NetTyped
<1> QED
  BY <1>2, <1>3, DriftsKept DEF NetTyped

LEMMA ReportedTyped ==
  ASSUME NetTyped, NEW w \in Workers, UNCHANGED <<store, res>>, DriftsTyped',
         \E j \in JobType(next) : Writes(w, j) \/ Goes(w, j)
  PROVE  NetTyped'
<1>1. next' = next /\ StoreTyped'
  BY StoreKept DEF NetTyped, store
<1>2. ResTyped'
  BY <1>1 DEF NetTyped, ResTyped
<1>3. JobsTyped'
  BY <1>1, NextTyped, WritesTyped, GoesTyped DEF NetTyped
<1> QED
  BY <1>1, <1>2, <1>3 DEF NetTyped

LEMMA JobShape ==
  ASSUME NetTyped, NEW w \in Workers
  PROVE  job[w] \in JobType(next) /\ Shapes(job[w], next)
BY ShapeOf DEF NetTyped, JobsTyped

(* Links.                                                                  *)

LEMMA LinkRequestTyped ==
  ASSUME NetTyped, NEW w \in Workers, NEW r \in Resources, NEW p \in Ids,
         LinkRequest(w, r, p), UNCHANGED driftStore
  PROVE  NetTyped'
<1> DEFINE j == [op |-> "linking", r |-> r, pool |-> p, alone |-> TRUE]
<1>1. j \in LinkingType(next)
  BY DEF LinkingType, Ids
<1>2. Goes(w, j)
  BY DEF LinkRequest
<1>3. UNCHANGED <<store, res, driftStore>>
  BY DEF LinkRequest
<1> HIDE DEF j
<1>4. j \in JobType(next)
  BY <1>1, JobKinds
<1> QED
  BY <1>2, <1>3, <1>4, ReadTyped

LEMMA LinkWriteTyped ==
  ASSUME NetTyped, NEW w \in Workers, LinkWrite(w), UNCHANGED driftStore
  PROVE  NetTyped'
<1>1. job[w] \in LinkingType(next)
  BY JobShape DEF LinkWrite, Shapes
<1>2. job[w].r \in Resources /\ job[w].pool \in Ref(next)
  BY <1>1 DEF LinkingType, Ref
<1>3. CASE LinkResource(job[w].r, job[w].pool) /\ Writes(w, Idle)
  BY <1>2, <1>3, NextTyped, LinkedTyped DEF LinkWrite
<1>4. CASE LinkFails /\ Goes(w, Idle)
  BY <1>4, NextTyped, ReadTyped DEF LinkWrite, LinkFails
<1> QED
  BY <1>3, <1>4 DEF LinkWrite

LEMMA UnlinkTyped ==
  ASSUME NetTyped, NEW w \in Workers, NEW r \in Resources, Unlink(w, r), UNCHANGED driftStore
  PROVE  NetTyped'
BY NextTyped, LinkedTyped DEF Unlink

(* Imports.                                                                *)

LEMMA ImportBeginTyped ==
  ASSUME NetTyped, NEW w \in Workers, NEW account \in PoolIds, NEW ids \in Seq(Resources),
         ids # <<>>, NEW selected \in Ref(next), NEW force \in BOOLEAN,
         NEW conflict \in CallerType(next), NEW alone \in BOOLEAN,
         force => SameOwner(ids, account), conflict # None => conflict.ids = ids,
         ImportBegin(w, account, ids, selected, force, conflict, alone),
         UNCHANGED <<store, res, driftStore>>
  PROVE  NetTyped'
<1> DEFINE j == [op |-> "preview", account |-> account, ids |-> ids,
                 selected |-> selected, force |-> force, conflict |-> conflict,
                 listed |-> ListPools, base |-> next, alone |-> alone]
<1>1. j \in PreviewRecord(next)
  BY NextTyped, ListPoolsTyped DEF NetTyped, PreviewRecord
<1>2. PreviewFacts(j)
  BY DEF PreviewFacts
<1>3. Goes(w, j)
  BY DEF ImportBegin
<1>4. j \in JobType(next)
  <2> HIDE DEF j
  <2> QED
    BY <1>1, <1>2, JobKinds
<1> HIDE DEF j
<1> QED
  BY <1>3, <1>4, ReadTyped

LEMMA ImportRequestTyped ==
  ASSUME NetTyped, NEW w \in Workers, NEW a \in AccountIds, NEW ids \in Selections,
         NEW selected \in {None} \cup Ids, ImportRequest(w, a, ids, selected),
         UNCHANGED driftStore
  PROVE  NetTyped'
<1>1. a \in PoolIds
  BY DEF AccountIds, NetTyped, StoreTyped, PoolIds
<1>2. ids \in Seq(Resources)
  BY ImportsAssumption
<1>3. selected \in Ref(next)
  BY DEF Ref, Ids
<1>4. None \in CallerType(next)
  BY DEF CallerType
<1> QED
  BY <1>1, <1>2, <1>3, <1>4, ImportBeginTyped DEF ImportRequest

LEMMA ImportPreviewTyped ==
  ASSUME NetTyped, NEW w \in Workers, ImportPreview(w), UNCHANGED driftStore
  PROVE  NetTyped'
<1> DEFINE j == job[w]
<1>1. j \in PreviewRecord(next) /\ PreviewFacts(j)
  BY JobShape DEF ImportPreview, Shapes, PreviewType
<1>2. j.ids \in Seq(Resources) /\ j.ids # <<>> /\ j.selected \in Ref(next)
      /\ j.listed \in Listings(next)
  BY <1>1 DEF PreviewRecord, PreviewFacts
<1>3. PICK items \in Previews(w) :
        Goes(w, [op |-> "item",
                 account |-> job[w].account, ids |-> job[w].ids, items |-> items,
                 force |-> job[w].force, conflict |-> job[w].conflict,
                 made |-> [r \in DOMAIN items |-> None], created |-> {},
                 linked |-> {}, failed |-> FALSE, parent |-> None, pool |-> None,
                 base |-> job[w].base, alone |-> job[w].alone])
  BY DEF ImportPreview
<1> DEFINE k == [op |-> "item",
                 account |-> job[w].account, ids |-> job[w].ids, items |-> items,
                 force |-> job[w].force, conflict |-> job[w].conflict,
                 made |-> [r \in DOMAIN items |-> None], created |-> {},
                 linked |-> {}, failed |-> FALSE, parent |-> None, pool |-> None,
                 base |-> job[w].base, alone |-> job[w].alone]
<1>4. Remaining(j) \in SUBSET Resources
  BY <1>2 DEF Remaining
<1>5. /\ DOMAIN items = Remaining(j)
      /\ \A r \in Remaining(j) :
           items[r] \in PreviewItems(r, j.account, j.ids, j.selected, j.listed)
  BY DEF Previews, Remaining
<1>6. \A r \in Remaining(j) :
        /\ items[r] \in ItemType(next)
        /\ items[r].status = "importable" => Poolable(r)
        /\ items[r].status = "account_mismatch" => Data[r].account # j.account
  BY <1>2, <1>4, <1>5, PreviewItemShape
<1>7. items \in Items(next)
  <2>1. items = [r \in Remaining(j) |-> items[r]]
    BY <1>5 DEF Previews
  <2>2. items \in [Remaining(j) -> ItemType(next)]
    BY <2>1, <1>6
  <2> QED
    BY <2>2, <1>4, ItemsShape
<1>8. [r \in DOMAIN items |-> None] \in Links(next)
  BY <1>4, <1>5, NextTyped, LinksShape
<1>9. k \in ImportRecord(next)
  BY <1>1, <1>7, <1>8, NextTyped DEF ImportRecord, PreviewRecord
<1>10. Remaining(k) = Remaining(j)
  BY DEF Remaining
<1>11. j.conflict # None => \A m \in DOMAIN j.conflict.ids : j.conflict.ids[m] \in Remaining(j)
  BY <1>1 DEF PreviewFacts, Remaining
<1>12. ImportCore(k)
  BY <1>1, <1>5, <1>6, <1>10, <1>11 DEF ImportCore, PreviewFacts
<1>13. ImportFacts(k)
  BY <1>2, <1>12 DEF ImportFacts
<1>14. k \in JobType(next)
  <2> HIDE DEF k
  <2> QED
    BY <1>9, <1>13, JobKinds
<1> QED
  BY <1>3, <1>14, ReadTyped DEF ImportPreview

LEMMA ImportingShape ==
  ASSUME NetTyped, NEW w \in Workers, job[w].op \in {"item", "create", "link", "cleanup"}
  PROVE  /\ job[w] \in ImportType(next) /\ job[w].op # "imported"
         /\ job[w] \in ImportRecord(next) /\ ImportCore(job[w]) /\ job[w].ids # <<>>
         /\ Head(job[w].ids) \in Resources /\ Head(job[w].ids) \in DOMAIN job[w].items
         /\ job[w].items[Head(job[w].ids)].pool \in Ref(next)
         /\ job[w].items[Head(job[w].ids)].parent \in Ref(next)
         /\ job[w].op \in {"create", "link", "cleanup"} => Wanted(job[w])
         /\ Wanted(job[w]) => Poolable(Head(job[w].ids))
         /\ job[w].op \in {"link", "cleanup"} => job[w].pool \in 1 .. next - 1
         /\ job[w].pool \in Ref(next) /\ job[w].parent \in Ref(next)
         /\ job[w].account \in PoolIds
         /\ Done(job[w], job[w].pool) \in JobType(next)
         /\ Skipped(job[w]) \in JobType(next)
<1>1. job[w] \in ImportType(next) /\ job[w].op # "imported"
  BY JobShape DEF Shapes
<1>2. /\ job[w] \in ImportRecord(next) /\ ImportCore(job[w]) /\ job[w].ids # <<>>
      /\ Head(job[w].ids) \in Resources /\ Head(job[w].ids) \in DOMAIN job[w].items
      /\ job[w].items[Head(job[w].ids)] \in ItemType(next)
      /\ Wanted(job[w]) => Poolable(Head(job[w].ids))
  BY <1>1, HeadRemains
<1>3. /\ job[w].pool \in Ref(next) /\ job[w].parent \in Ref(next)
      /\ job[w].account \in PoolIds
  BY <1>2 DEF ImportRecord
<1>4. /\ job[w].op \in {"create", "link", "cleanup"} => Wanted(job[w])
      /\ job[w].op \in {"link", "cleanup"} => job[w].pool # None
  BY <1>1 DEF ImportType, ImportFacts
<1>5. /\ job[w].items[Head(job[w].ids)].pool \in Ref(next)
      /\ job[w].items[Head(job[w].ids)].parent \in Ref(next)
  BY <1>2 DEF ItemType
<1>6. Done(job[w], job[w].pool) \in JobType(next) /\ Skipped(job[w]) \in JobType(next)
  BY <1>2, <1>3, NextTyped, DoneTyped, SkippedTyped, JobKinds
<1> QED
  BY <1>1, <1>2, <1>3, <1>4, <1>5, <1>6 DEF Ref

LEMMA ApplySkipTyped ==
  ASSUME NetTyped, NEW w \in Workers, ApplySkip(w), UNCHANGED driftStore
  PROVE  NetTyped'
BY ImportingShape, ReadTyped DEF ApplySkip

LEMMA ApplyLinkExistingTyped ==
  ASSUME NetTyped, NEW w \in Workers, ApplyLinkExisting(w), UNCHANGED driftStore
  PROVE  NetTyped'
<1> DEFINE r == Head(job[w].ids)
<1> DEFINE p == job[w].items[r].pool
<1>1. job[w].op = "item" /\ UNCHANGED store
  BY DEF ApplyLinkExisting
<1>2. /\ r \in Resources /\ p \in Ref(next) /\ Skipped(job[w]) \in JobType(next)
      /\ job[w] \in ImportRecord(next) /\ ImportCore(job[w]) /\ job[w].ids # <<>>
  BY <1>1, ImportingShape
<1>3. \/ LinkResource(r, p) /\ Writes(w, Done(job[w], p))
      \/ LinkFails /\ Goes(w, Skipped(job[w]))
  BY DEF ApplyLinkExisting
<1> HIDE DEF r, p
<1>4. Done(job[w], p) \in JobType(next)
  BY <1>2, NextTyped, DoneTyped, JobKinds
<1>5. CASE LinkResource(r, p) /\ Writes(w, Done(job[w], p))
  BY <1>1, <1>2, <1>4, <1>5, LinkedTyped
<1>6. CASE LinkFails /\ Goes(w, Skipped(job[w]))
  BY <1>1, <1>2, <1>6, ReadTyped DEF LinkFails
<1> QED
  BY <1>3, <1>5, <1>6

LEMMA ImportParentShape ==
  ASSUME NetTyped, NEW w \in Workers, job[w].op = "item"
  PROVE  ImportParent(job[w]) \in Ref(next)
<1> DEFINE j == job[w]
<1>1. /\ j \in ImportRecord(next) /\ j.items[Head(j.ids)].parent \in Ref(next)
  BY ImportingShape
<1>2. j.made \in [DOMAIN j.made -> Ref(next)]
  BY <1>1, LinksShape DEF ImportRecord
<1>3. \A s \in DOMAIN j.made : j.made[s] \in Ref(next)
  BY <1>2
<1> DEFINE named == {s \in DOMAIN j.made : Data[s].name = Data[Head(j.ids)].up /\ j.made[s] # None}
           last == CHOOSE s \in named : \A t \in named : t <= s
<1>4. CASE named # {}
  <2>1. named \subseteq Resources
    BY <1>1, LinksShape DEF ImportRecord
  <2>2. named \in SUBSET Nat /\ \E n \in Nat : \A t \in named : t <= n
    BY <2>1, ImportsAssumption, FS_CardinalityType
  <2>3. \E s \in named : \A t \in named : t <= s
    BY <1>4, <2>2, GreatestNumber
  <2>4. last \in named
    BY <2>3
  <2>5. j.made[last] \in Ref(next)
    BY <1>3, <2>4
  <2> HIDE DEF j, last
  <2> QED
    BY <1>1, <2>5 DEF ImportParent, j, last
<1>5. CASE named = {}
  BY <1>1, <1>5 DEF ImportParent
<1> QED
  BY <1>4, <1>5

LEMMA ApplyParentTyped ==
  ASSUME NetTyped, NEW w \in Workers, ApplyParent(w), UNCHANGED driftStore
  PROVE  NetTyped'
<1> DEFINE j == job[w]
<1> DEFINE k == [j EXCEPT !.op = "create", !.parent = ImportParent(j)]
<1>1. j.op = "item" /\ Wanted(j) /\ UNCHANGED <<store, res>>
  BY DEF ApplyParent
<1>2. j \in ImportRecord(next) /\ ImportCore(j) /\ j.ids # <<>> /\ Skipped(j) \in JobType(next)
  BY <1>1, ImportingShape
<1>3. Goes(w, Skipped(j)) \/ Goes(w, k)
  BY DEF ApplyParent
<1>4. ImportParent(j) \in Ref(next)
  BY <1>1, ImportParentShape
<1>5. /\ k \in ImportRecord(next) /\ k.op = "create" /\ k.ids = j.ids /\ k.items = j.items
      /\ k.force = j.force /\ k.made = j.made /\ k.account = j.account
      /\ k.conflict = j.conflict /\ k.failed = j.failed /\ k.linked = j.linked
  BY <1>2, <1>4 DEF ImportRecord
<1> HIDE DEF k
<1>6. ImportCore(k)
  BY <1>2, <1>5 DEF ImportCore, Remaining
<1>7. Wanted(k)
  BY <1>1, <1>5 DEF Wanted
<1>8. k \in JobType(next)
  BY <1>2, <1>5, <1>6, <1>7, JobKinds DEF ImportFacts
<1> QED
  BY <1>1, <1>2, <1>3, <1>8, ReadTyped

LEMMA ApplyCreateTyped ==
  ASSUME NetTyped, NEW w \in Workers, ApplyCreate(w), UNCHANGED driftStore
  PROVE  NetTyped'
<1> DEFINE j == job[w]
<1> DEFINE r == Head(j.ids)
<1> DEFINE k == [j EXCEPT !.op = "link", !.pool = next, !.created = @ \cup {next}]
<1>1. j.op = "create" /\ res' = res
  BY DEF ApplyCreate
<1>2. /\ j \in ImportRecord(next) /\ ImportCore(j) /\ j.ids # <<>> /\ Skipped(j) \in JobType(next)
      /\ Wanted(j) /\ Poolable(r) /\ r \in Resources /\ j.account \in PoolIds
      /\ j.parent \in Ref(next) /\ j \in ImportType(next)
  BY <1>1, ImportingShape
<1>3. \/ CreatePool(DiscoveredPool(r, j.account, j.parent)) /\ Writes(w, k)
      \/ StoreFails /\ Goes(w, Skipped(j))
  BY DEF ApplyCreate
<1>4. CASE CreatePool(DiscoveredPool(r, j.account, j.parent)) /\ Writes(w, k)
  <2> HIDE DEF r
  <2>1. StoreTyped' /\ next' = next + 1 /\ next' \in PoolIds /\ next <= next' /\ next \in PoolIds
    BY <1>2, <1>4, CreateTyped DEF NetTyped, StoreTyped
  <2>2. j \in JobType(next')
    BY <1>2, <2>1, JobGrows, JobKinds
  <2>3. j \in ImportRecord(next')
    BY <1>1, <2>2, ShapeOf DEF Shapes, ImportType
  <2>4. next \in 1 .. next' - 1 /\ next \in Ref(next') /\ next # None
    BY <2>1, PoolsAssumption DEF PoolIds, Ref
  <2>5. /\ k \in ImportRecord(next') /\ k.op = "link" /\ k.ids = j.ids /\ k.items = j.items
        /\ k.force = j.force /\ k.made = j.made /\ k.account = j.account /\ k.pool = next
        /\ k.conflict = j.conflict /\ k.failed = j.failed /\ k.linked = j.linked
    BY <2>3, <2>4 DEF ImportRecord
  <2> HIDE DEF k
  <2>6. ImportCore(k)
    BY <1>2, <2>5 DEF ImportCore, Remaining
  <2>7. Wanted(k)
    BY <1>2, <2>5 DEF Wanted
  <2>8. k \in JobType(next')
    BY <1>2, <2>4, <2>5, <2>6, <2>7, JobKinds DEF ImportFacts
  <2> QED
    BY <1>1, <1>4, <2>1, <2>8, StoredTyped
<1>5. CASE StoreFails /\ Goes(w, Skipped(j))
  BY <1>1, <1>2, <1>5, ReadTyped DEF StoreFails, store
<1> QED
  BY <1>3, <1>4, <1>5

LEMMA ApplyLinkTyped ==
  ASSUME NetTyped, NEW w \in Workers, ApplyLink(w), UNCHANGED driftStore
  PROVE  NetTyped'
<1> DEFINE j == job[w]
<1> DEFINE k == [j EXCEPT !.op = "cleanup"]
<1>1. j.op = "link" /\ UNCHANGED store
  BY DEF ApplyLink
<1>2. /\ j \in ImportRecord(next) /\ ImportCore(j) /\ j.ids # <<>> /\ Wanted(j)
      /\ Done(j, j.pool) \in JobType(next) /\ Head(j.ids) \in Resources
      /\ j.pool \in Ref(next) /\ j.pool \in 1 .. next - 1
  BY <1>1, ImportingShape
<1>3. CASE LinkResource(Head(j.ids), j.pool) /\ Writes(w, Done(j, j.pool))
  BY <1>1, <1>2, <1>3, LinkedTyped
<1>4. CASE LinkFails /\ Goes(w, k)
  <2>1. /\ k \in ImportRecord(next) /\ k.op = "cleanup" /\ k.ids = j.ids /\ k.items = j.items
        /\ k.force = j.force /\ k.made = j.made /\ k.account = j.account /\ k.pool = j.pool
        /\ k.conflict = j.conflict /\ k.failed = j.failed /\ k.linked = j.linked
    BY <1>2 DEF ImportRecord
  <2>2. j.pool # None
    BY <1>2, PoolsAssumption
  <2> HIDE DEF k
  <2>3. ImportCore(k)
    BY <1>2, <2>1 DEF ImportCore, Remaining
  <2>4. Wanted(k)
    BY <1>2, <2>1 DEF Wanted
  <2>5. k \in JobType(next)
    BY <1>2, <2>1, <2>2, <2>3, <2>4, JobKinds DEF ImportFacts
  <2> QED
    BY <1>1, <1>4, <2>5, ReadTyped DEF LinkFails
<1> QED
  BY <1>3, <1>4 DEF ApplyLink

LEMMA ApplyCleanupTyped ==
  ASSUME NetTyped, NEW w \in Workers, ApplyCleanup(w), UNCHANGED driftStore
  PROVE  NetTyped'
<1> DEFINE j == job[w]
<1> DEFINE k == [j EXCEPT !.created = @ \ {j.pool}]
<1>1. j.op = "cleanup" /\ res' = res
  BY DEF ApplyCleanup
<1>2. /\ j \in ImportRecord(next) /\ ImportCore(j) /\ j.ids # <<>>
      /\ Skipped(j) \in JobType(next)
  BY <1>1, ImportingShape
<1>3. CASE RemovePool(j.pool) /\ Writes(w, Skipped(k))
  <2>1. StoreTyped' /\ next' = next
    BY <1>3, DeleteTyped DEF RemovePool, NetTyped
  <2>2. /\ k \in ImportRecord(next) /\ k.ids = j.ids /\ k.items = j.items
        /\ k.force = j.force /\ k.made = j.made /\ k.account = j.account
        /\ k.conflict = j.conflict /\ k.failed = j.failed /\ k.linked = j.linked
    BY <1>2 DEF ImportRecord
  <2> HIDE DEF k
  <2>3. ImportCore(k)
    BY <1>2, <2>2 DEF ImportCore, Remaining
  <2>4. Skipped(k) \in JobType(next)
    BY <1>2, <2>2, <2>3, NextTyped, SkippedTyped, JobKinds
  <2> QED
    BY <1>1, <1>3, <2>1, <2>4, NextTyped, StoredTyped
<1>4. CASE RemoveFails(j.pool) /\ Goes(w, Skipped(j))
  BY <1>1, <1>2, <1>4, ReadTyped DEF RemoveFails
<1> QED
  BY <1>3, <1>4 DEF ApplyCleanup

LEMMA ImportReturnTyped ==
  ASSUME NetTyped, NEW w \in Workers, ImportReturn(w), UNCHANGED driftStore
  PROVE  NetTyped'
BY NextTyped, ReadTyped DEF ImportReturn

LEMMA ImportStepTyped ==
  ASSUME NetTyped, NEW w \in Workers, ImportStep(w), UNCHANGED driftStore
  PROVE  NetTyped'
BY ImportPreviewTyped, ApplySkipTyped, ApplyLinkExistingTyped, ApplyParentTyped,
   ApplyCreateTyped, ApplyLinkTyped, ApplyCleanupTyped, ImportReturnTyped DEF ImportStep

(* The import of a whole account.                                          *)

LEMMA SchemaRestTyped ==
  ASSUME NEW n, NEW j \in SchemaRecord(n), j.todo \subseteq DOMAIN j.links,
         DOMAIN j.here = DOMAIN j.links, NEW r \in j.todo, NEW p \in Ref(n), None \in Ref(n)
  PROVE  SchemaRest(j, r, p) \in JobType(n)
<1> DEFINE left == j.todo \ {r}
<1> DEFINE k == [j EXCEPT !.op = "schema", !.todo = left, !.here[r] = p,
                          !.parent = None, !.pool = None]
<1>1. CASE left = {}
  BY <1>1 DEF SchemaRest, JobType
<1>2. CASE left # {}
  <2>1. j.here \in Links(n)
    BY DEF SchemaRecord
  <2>2. [j.here EXCEPT ![r] = p] \in Links(n) /\ DOMAIN [j.here EXCEPT ![r] = p] = DOMAIN j.links
    BY <2>1, LinksShape
  <2>3. k \in SchemaRecord(n)
    BY <2>2 DEF SchemaRecord
  <2>4. SchemaFacts(k)
    BY <1>2, <2>2 DEF SchemaFacts, SchemaRecord
  <2>5. SchemaRest(j, r, p) = k
    BY <1>2 DEF SchemaRest
  <2> HIDE DEF k
  <2> QED
    BY <2>3, <2>4, <2>5, JobKinds
<1> QED
  BY <1>1, <1>2

LEMMA SchemaImportRequestTyped ==
  ASSUME NetTyped, NEW w \in Workers, NEW a \in AccountIds, SchemaImportRequest(w, a),
         UNCHANGED driftStore
  PROVE  NetTyped'
<1> DEFINE shown == {r \in Resources : Data[r].account = a /\ res[r].active}
<1> DEFINE j == [op |-> "schema_list", account |-> a,
                 links |-> [r \in shown |-> res[r].pool], alone |-> TRUE]
<1>1. shown # {} /\ Goes(w, j) /\ UNCHANGED <<store, res>>
  BY DEF SchemaImportRequest
<1>2. a \in PoolIds
  BY DEF AccountIds, NetTyped, StoreTyped, PoolIds
<1>3. [r \in shown |-> res[r].pool] \in Links(next)
  <2>1. [r \in shown |-> res[r].pool] \in [shown -> Ref(next)]
    BY DEF NetTyped, ResTyped
  <2> QED
    BY <2>1, LinksShape
<1>4. j \in SchemaListType(next)
  BY <1>1, <1>2, <1>3 DEF SchemaListType, SchemaListRecord
<1> HIDE DEF j
<1>5. j \in JobType(next)
  BY <1>4, JobKinds
<1> QED
  BY <1>1, <1>5, ReadTyped

LEMMA SchemaImportListTyped ==
  ASSUME NetTyped, NEW w \in Workers, SchemaImportList(w), UNCHANGED driftStore
  PROVE  NetTyped'
<1> DEFINE j == job[w]
<1> DEFINE k == [op |-> "schema", account |-> j.account, links |-> j.links,
                 todo |-> DOMAIN j.links, here |-> [r \in DOMAIN j.links |-> None],
                 listed |-> ListPools, parent |-> None, pool |-> None,
                 alone |-> j.alone]
<1>1. Goes(w, k) /\ UNCHANGED <<store, res>>
  BY DEF SchemaImportList
<1>2. j \in SchemaListRecord(next) /\ DOMAIN j.links # {}
  BY JobShape DEF SchemaImportList, Shapes, SchemaListType
<1>3. j.links \in Links(next) /\ DOMAIN j.links \in SUBSET Resources
  BY <1>2, LinksShape DEF SchemaListRecord
<1>4. [r \in DOMAIN j.links |-> None] \in Links(next)
  BY <1>3, NextTyped, LinksShape
<1>5. k \in SchemaRecord(next)
  BY <1>2, <1>3, <1>4, NextTyped, ListPoolsTyped DEF SchemaListRecord, SchemaRecord, NetTyped
<1>6. SchemaFacts(k)
  BY <1>2 DEF SchemaFacts
<1> HIDE DEF k
<1>7. k \in JobType(next)
  BY <1>5, <1>6, JobKinds
<1> QED
  BY <1>1, <1>7, ReadTyped

LEMMA SchemaShape ==
  ASSUME NetTyped, NEW w \in Workers, job[w].op \in {"schema", "schema_link"}
  PROVE  /\ job[w] \in SchemaRecord(next) /\ SchemaFacts(job[w])
         /\ FirstOf(job[w].todo) \in job[w].todo /\ FirstOf(job[w].todo) \in Resources
         /\ job[w].links[FirstOf(job[w].todo)] \in Ref(next)
         /\ job[w].account \in PoolIds
         /\ DOMAIN job[w].listed \subseteq 1 .. next - 1
         /\ \A p \in Ref(next) : SchemaRest(job[w], FirstOf(job[w].todo), p) \in JobType(next)
         /\ SchemaRest(job[w], FirstOf(job[w].todo), None) \in JobType(next)
<1> DEFINE j == job[w]
<1>1. j \in SchemaRecord(next) /\ SchemaFacts(j)
  BY JobShape DEF Shapes, SchemaType
<1>2. j.todo \in SUBSET Resources /\ j.todo # {} /\ j.links \in Links(next)
      /\ j.listed \in Listings(next) /\ j.account \in PoolIds
  BY <1>1 DEF SchemaRecord, SchemaFacts
<1>3. j.todo \in SUBSET Nat
  BY <1>2, Discovered
<1>4. FirstOf(j.todo) \in j.todo
  BY <1>2, <1>3, FirstOfType
<1>5. j.links[FirstOf(j.todo)] \in Ref(next)
  <2>1. FirstOf(j.todo) \in DOMAIN j.links
    BY <1>1, <1>4 DEF SchemaFacts
  <2>2. j.links \in [DOMAIN j.links -> Ref(next)]
    BY <1>2, LinksShape
  <2> QED
    BY <2>1, <2>2
<1>6. DOMAIN j.listed \subseteq 1 .. next - 1
  BY <1>2, ListingsShape
<1>7. \A p \in Ref(next) : SchemaRest(j, FirstOf(j.todo), p) \in JobType(next)
  BY <1>1, <1>4, NextTyped, SchemaRestTyped DEF SchemaFacts
<1> QED
  BY <1>1, <1>2, <1>4, <1>5, <1>6, <1>7, NextTyped

LEMMA SchemaImportSkipTyped ==
  ASSUME NetTyped, NEW w \in Workers, SchemaImportSkip(w), UNCHANGED driftStore
  PROVE  NetTyped'
BY SchemaShape, ReadTyped DEF SchemaImportSkip

\* The pool of the provider's parent, as far as this import made or found it
SchemaParent(j) ==
  LET here == {j.here[s] : s \in ParentOf(FirstOf(j.todo)) \cap DOMAIN j.here} \ {None}
  IN IF here = {} THEN None ELSE CHOOSE p \in here : TRUE

Known(j) ==
  LET r == FirstOf(j.todo)
  IN IF Tagged(j, r) # {} THEN Tagged(j, r) ELSE Shaped(j, r, SchemaParent(j))

LEMMA SchemaImportItemCases ==
  ASSUME NEW w \in Workers, SchemaImportItem(w)
  PROVE  LET j == job[w]
             r == FirstOf(job[w].todo)
         IN /\ j.op = "schema" /\ j.links[r] = None /\ Poolable(r) /\ UNCHANGED req
            /\ \/ \E p \in Known(j) : /\ LinkResource(r, p) /\ Writes(w, SchemaRest(j, r, p))
                                      /\ UNCHANGED store
               \/ LinkFails /\ Goes(w, SchemaRest(j, r, None)) /\ UNCHANGED store
               \/ /\ res' = res /\ CreatePool(DiscoveredPool(r, j.account, SchemaParent(j)))
                  /\ Writes(w, [j EXCEPT !.op = "schema_link", !.pool = next])
               \/ res' = res /\ StoreFails /\ Goes(w, SchemaRest(j, r, None))
BY DEF SchemaImportItem, SchemaParent, Known, Poolable

LEMMA SchemaImportItemTyped ==
  ASSUME NetTyped, NEW w \in Workers, SchemaImportItem(w), UNCHANGED driftStore
  PROVE  NetTyped'
<1> DEFINE j == job[w]
<1> DEFINE r == FirstOf(job[w].todo)
<1> DEFINE k == [j EXCEPT !.op = "schema_link", !.pool = next]
<1>1. j.op = "schema" /\ j.links[r] = None /\ Poolable(r)
  BY SchemaImportItemCases
<1>2. /\ j \in SchemaRecord(next) /\ SchemaFacts(j) /\ r \in j.todo /\ r \in Resources
      /\ j.account \in PoolIds /\ DOMAIN j.listed \subseteq 1 .. next - 1
      /\ \A p \in Ref(next) : SchemaRest(j, r, p) \in JobType(next)
      /\ SchemaRest(j, r, None) \in JobType(next)
  BY <1>1, SchemaShape
<1>3. SchemaParent(j) \in Ref(next)
  <2>1. j.here \in [DOMAIN j.here -> Ref(next)]
    BY <1>2, LinksShape DEF SchemaRecord
  <2>2. \A s \in DOMAIN j.here : j.here[s] \in Ref(next)
    BY <2>1
  <2> QED
    BY <2>2, NextTyped DEF SchemaParent
<1>4. \A p \in Known(j) : p \in Ref(next)
  BY <1>2, NextTyped DEF Known, Tagged, Shaped
<1>5. \/ \E p \in Known(j) : /\ LinkResource(r, p) /\ Writes(w, SchemaRest(j, r, p))
                             /\ UNCHANGED store
      \/ LinkFails /\ Goes(w, SchemaRest(j, r, None)) /\ UNCHANGED store
      \/ /\ res' = res /\ CreatePool(DiscoveredPool(r, j.account, SchemaParent(j)))
         /\ Writes(w, k)
      \/ res' = res /\ StoreFails /\ Goes(w, SchemaRest(j, r, None))
  BY SchemaImportItemCases
<1> HIDE DEF r
<1>6. CASE \E p \in Known(j) : /\ LinkResource(r, p) /\ Writes(w, SchemaRest(j, r, p))
                               /\ UNCHANGED store
  <2>1. PICK p \in Known(j) : /\ LinkResource(r, p) /\ Writes(w, SchemaRest(j, r, p))
                              /\ UNCHANGED store
    BY <1>6
  <2>2. p \in Ref(next)
    BY <1>4
  <2> QED
    BY <1>2, <2>1, <2>2, LinkedTyped
<1>7. CASE LinkFails /\ Goes(w, SchemaRest(j, r, None)) /\ UNCHANGED store
  BY <1>2, <1>7, ReadTyped DEF LinkFails
<1>8. CASE /\ res' = res /\ CreatePool(DiscoveredPool(r, j.account, SchemaParent(j)))
           /\ Writes(w, k)
  <2>1. StoreTyped' /\ next' = next + 1 /\ next' \in PoolIds /\ next <= next' /\ next \in PoolIds
    BY <1>1, <1>2, <1>3, <1>8, CreateTyped DEF NetTyped, StoreTyped
  <2>2. j \in JobType(next')
    BY <1>2, <2>1, JobGrows, JobKinds
  <2>3. j \in SchemaRecord(next')
    BY <1>1, <2>2, ShapeOf DEF Shapes, SchemaType
  <2>4. next \in Ref(next') /\ next # None
    BY <2>1, PoolsAssumption DEF PoolIds, Ref
  <2>5. k \in SchemaRecord(next')
    BY <2>3, <2>4 DEF SchemaRecord
  <2>6. SchemaFacts(k)
    BY <1>1, <1>2, <2>4 DEF SchemaFacts, SchemaRecord, r
  <2> HIDE DEF k
  <2>7. k \in JobType(next')
    BY <2>5, <2>6, JobKinds
  <2> QED
    BY <1>8, <2>1, <2>7, StoredTyped
<1>9. CASE res' = res /\ StoreFails /\ Goes(w, SchemaRest(j, r, None))
  BY <1>2, <1>9, ReadTyped DEF StoreFails, store
<1> QED
  BY <1>5, <1>6, <1>7, <1>8, <1>9

LEMMA SchemaImportLinkTyped ==
  ASSUME NetTyped, NEW w \in Workers, SchemaImportLink(w), UNCHANGED driftStore
  PROVE  NetTyped'
<1> DEFINE j == job[w]
<1> DEFINE r == FirstOf(job[w].todo)
<1> DEFINE listed == [i \in DOMAIN j.listed \cup {j.pool} |->
                        IF i = j.pool THEN j.account ELSE j.listed[i]]
<1> DEFINE k == [j EXCEPT !.listed = listed]
<1>1. j.op = "schema_link" /\ UNCHANGED store
  BY DEF SchemaImportLink
<1>2. /\ j \in SchemaRecord(next) /\ SchemaFacts(j) /\ r \in j.todo /\ r \in Resources
      /\ j.account \in PoolIds /\ DOMAIN j.listed \subseteq 1 .. next - 1
  BY <1>1, SchemaShape
<1>3. j.pool \in Ref(next) /\ j.pool \in 1 .. next - 1
  BY <1>1, <1>2 DEF SchemaRecord, SchemaFacts, Ref
<1>4. listed \in Listings(next)
  <2>1. j.listed \in [DOMAIN j.listed -> OptId]
    BY <1>2, ListingsShape DEF SchemaRecord
  <2>2. listed \in [DOMAIN j.listed \cup {j.pool} -> OptId]
    BY <1>2, <2>1 DEF OptId
  <2> QED
    BY <1>2, <1>3, <2>2, ListingsShape
<1> HIDE DEF listed
<1>5. /\ k \in SchemaRecord(next) /\ k.todo = j.todo /\ k.links = j.links /\ k.here = j.here
      /\ k.op = j.op /\ k.pool = j.pool
  BY <1>2, <1>4 DEF SchemaRecord
<1>6. \/ LinkResource(r, j.pool) /\ Writes(w, SchemaRest(k, r, j.pool))
      \/ LinkFails /\ Goes(w, SchemaRest(k, r, j.pool))
  BY DEF SchemaImportLink, listed
<1> HIDE DEF k, r
<1>7. SchemaRest(k, r, j.pool) \in JobType(next)
  BY <1>2, <1>3, <1>5, NextTyped, SchemaRestTyped DEF SchemaFacts
<1>8. CASE LinkResource(r, j.pool) /\ Writes(w, SchemaRest(k, r, j.pool))
  BY <1>1, <1>2, <1>3, <1>7, <1>8, LinkedTyped
<1>9. CASE LinkFails /\ Goes(w, SchemaRest(k, r, j.pool))
  BY <1>1, <1>7, <1>9, ReadTyped DEF LinkFails
<1> QED
  BY <1>6, <1>8, <1>9

LEMMA SchemaImportStepTyped ==
  ASSUME NetTyped, NEW w \in Workers, SchemaImportStep(w), UNCHANGED driftStore
  PROVE  NetTyped'
BY SchemaImportListTyped, SchemaImportSkipTyped, SchemaImportItemTyped,
   SchemaImportLinkTyped DEF SchemaImportStep

(* Detections.                                                             *)

LEMMA DetectRequestTyped ==
  ASSUME NetTyped, NEW w \in Workers, NEW requested, DetectRequest(w, requested)
  PROVE  NetTyped'
<1> DEFINE targets == {a \in AccountIds : LiveAccount(a) /\ a \in requested}
<1> DEFINE j == [op |-> "detect", run |-> detections + 1, accounts |-> targets,
                 todo |-> targets, listed |-> ListPools, alone |-> TRUE]
<1>1. /\ Goes(w, j) /\ UNCHANGED <<store, res>> /\ detections' = detections + 1
      /\ UNCHANGED <<drifts, records>>
  BY DEF DetectRequest
<1>2. targets \in SUBSET PoolIds
  BY DEF AccountIds, NetTyped, StoreTyped, PoolIds
<1>3. detections + 1 \in PoolIds
  BY DEF NetTyped, DriftsTyped, PoolIds
<1> HIDE DEF targets
<1>4. j \in DetectType(next)
  BY <1>2, <1>3, ListPoolsTyped DEF NetTyped, DetectType
<1> HIDE DEF j
<1>5. j \in JobType(next)
  BY <1>4, JobKinds
<1>6. DriftsTyped'
  BY <1>1, <1>3 DEF NetTyped, DriftsTyped, PoolIds
<1> QED
  BY <1>1, <1>5, <1>6, ReportedTyped

LEMMA DetectClearTyped ==
  ASSUME NetTyped, NEW w \in Workers, DetectClear(w)
  PROVE  NetTyped'
<1> DEFINE j == job[w]
<1>0. j \in DetectType(next) /\ UNCHANGED <<store, res>>
  BY JobShape DEF DetectClear, Shapes
<1>1. PICK a \in j.todo :
        \/ /\ DeleteOpenForAccount(a)
           /\ Writes(w, [op |-> "detect_list", run |-> j.run, accounts |-> j.accounts,
                         todo |-> j.todo, listed |-> j.listed, account |-> a,
                         alone |-> j.alone])
        \/ DriftFails /\ Goes(w, Idle)
  BY DEF DetectClear
<1> DEFINE k == [op |-> "detect_list", run |-> j.run, accounts |-> j.accounts,
                 todo |-> j.todo, listed |-> j.listed, account |-> a, alone |-> j.alone]
<1>2. k \in DetectListType(next)
  BY <1>0 DEF DetectType, DetectListType
<1>3. k \in JobType(next)
  <2> HIDE DEF k
  <2> QED
    BY <1>2, JobKinds
<1>4. CASE DeleteOpenForAccount(a) /\ Writes(w, k)
  <2>1. DriftsTyped'
    BY <1>4 DEF DeleteOpenForAccount, NetTyped, DriftsTyped
  <2> HIDE DEF k
  <2> QED
    BY <1>0, <1>3, <1>4, <2>1, ReportedTyped
<1>5. CASE DriftFails /\ Goes(w, Idle)
  BY <1>0, <1>5, NextTyped, ReadTyped DEF DriftFails
<1> QED
  BY <1>1, <1>4, <1>5

LEMMA DetectListTyped ==
  ASSUME NetTyped, NEW w \in Workers, DetectList(w)
  PROVE  NetTyped'
<1> DEFINE j == job[w]
<1> DEFINE shown == {r \in Resources : Data[r].account = j.account /\ res[r].active}
<1> DEFINE owned == {i \in DOMAIN j.listed : j.listed[i] = j.account /\ pools[i].meta.tag # None}
<1> DEFINE orphans == {i \in owned : \A r \in shown : res[r].pool # i}
<1> DEFINE scan == {r \in shown : Data[r].cidr # NoCIDR}
<1> DEFINE links == [r \in shown |-> res[r].pool]
<1> DEFINE k == [op |-> "detect_scan", run |-> j.run, accounts |-> j.accounts,
                 todo |-> j.todo, listed |-> j.listed, account |-> j.account,
                 links |-> links, scan |-> scan, orphans |-> orphans, alone |-> j.alone]
<1>0. j \in DetectListType(next) /\ UNCHANGED <<store, res, driftStore>> /\ Goes(w, k)
  BY JobShape DEF DetectList, Shapes
<1>1. links \in Links(next)
  <2>1. links \in [shown -> Ref(next)]
    BY DEF NetTyped, ResTyped
  <2> QED
    BY <2>1, LinksShape
<1>2. orphans \in SUBSET (1 .. next - 1)
  BY <1>0, ListingsShape DEF DetectListType
<1>3. scan \in SUBSET Resources /\ scan \subseteq DOMAIN links
  OBVIOUS
<1> HIDE DEF links, orphans, scan
<1>4. k \in DetectScanType(next) /\ k.scan \subseteq DOMAIN k.links
  BY <1>0, <1>1, <1>2, <1>3 DEF DetectListType, DetectScanType
<1> HIDE DEF k
<1>5. k \in JobType(next)
  BY <1>4, JobKinds
<1> QED
  BY <1>0, <1>5, ReadTyped

LEMMA ScanShape ==
  ASSUME NetTyped, NEW w \in Workers, job[w].op = "detect_scan"
  PROVE  /\ job[w] \in DetectScanType(next) /\ job[w].scan \subseteq DOMAIN job[w].links
         /\ job[w].scan # {} => FirstOf(job[w].scan) \in job[w].scan
                                /\ FirstOf(job[w].scan) \in Resources
         /\ job[w].orphans # {} => FirstOf(job[w].orphans) \in job[w].orphans
                                   /\ FirstOf(job[w].orphans) \in Nat
         /\ Resources \subseteq Nat
<1>1. job[w] \in DetectScanType(next) /\ job[w].scan \subseteq DOMAIN job[w].links
  BY JobShape DEF Shapes
<1>2. job[w].scan \in SUBSET Resources /\ job[w].orphans \in SUBSET (1 .. next - 1)
  BY <1>1 DEF DetectScanType
<1>3. job[w].scan \in SUBSET Nat /\ job[w].orphans \in SUBSET Nat
  <2>1. 1 .. next - 1 \subseteq Nat
    BY NextTyped DEF PoolIds
  <2> QED
    BY <1>2, <2>1, Discovered
<1> QED
  BY <1>1, <1>2, <1>3, FirstOfType, Discovered

LEMMA ReportTyped ==
  ASSUME NetTyped, NEW w \in Workers, job[w].op = "detect_scan",
         NEW kind \in {"unmanaged", "cidr_mismatch", "orphaned_pool"}, NEW subject \in Nat,
         NEW then \in JobType(next), Report(w, kind, subject, then), UNCHANGED <<store, res>>
  PROVE  NetTyped'
<1> DEFINE d == [run |-> job[w].run, kind |-> kind, subject |-> subject,
                 account |-> job[w].account, status |-> "open"]
<1>1. d \in ItemOfDrift
  BY ScanShape DEF DetectScanType, ItemOfDrift, Decisions
<1>2. CASE /\ drifts' = drifts \cup {d} /\ UNCHANGED <<records, detections>>
           /\ Writes(w, then)
  <2>1. DriftsTyped'
    BY <1>1, <1>2 DEF NetTyped, DriftsTyped
  <2> QED
    BY <1>2, <2>1, ReportedTyped
<1>3. CASE DriftFails /\ Goes(w, Idle)
  BY <1>3, NextTyped, ReadTyped DEF DriftFails
<1> QED
  BY <1>2, <1>3 DEF Report

LEMMA DetectResourceTyped ==
  ASSUME NetTyped, NEW w \in Workers, DetectResource(w)
  PROVE  NetTyped'
<1> DEFINE j == job[w]
<1> DEFINE r == FirstOf(j.scan)
<1> DEFINE then == [j EXCEPT !.scan = @ \ {r}]
<1>1. /\ j.op = "detect_scan" /\ j.scan # {} /\ UNCHANGED <<store, res>>
      /\ \/ Report(w, "unmanaged", r, then)
         \/ Report(w, "cidr_mismatch", r, then)
         \/ Goes(w, then) /\ UNCHANGED driftStore
  BY DEF DetectResource
<1>2. j \in DetectScanType(next) /\ j.scan \subseteq DOMAIN j.links /\ r \in Nat
  BY <1>1, ScanShape
<1> HIDE DEF r
<1>3. then \in DetectScanType(next) /\ then.scan \subseteq DOMAIN then.links
  BY <1>2 DEF DetectScanType
<1> HIDE DEF then
<1>4. then \in JobType(next)
  BY <1>3, JobKinds
<1> QED
  BY <1>1, <1>2, <1>4, ReportTyped, ReadTyped

LEMMA DetectPoolTyped ==
  ASSUME NetTyped, NEW w \in Workers, DetectPool(w)
  PROVE  NetTyped'
<1> DEFINE j == job[w]
<1> DEFINE i == FirstOf(j.orphans)
<1> DEFINE then == [j EXCEPT !.orphans = @ \ {i}]
<1>1. /\ j.op = "detect_scan" /\ j.orphans # {} /\ UNCHANGED <<store, res>>
      /\ Report(w, "orphaned_pool", i, then)
  BY DEF DetectPool
<1>2. j \in DetectScanType(next) /\ j.scan \subseteq DOMAIN j.links /\ i \in Nat
  BY <1>1, ScanShape
<1> HIDE DEF i
<1>3. then \in DetectScanType(next) /\ then.scan \subseteq DOMAIN then.links
  BY <1>2 DEF DetectScanType
<1> HIDE DEF then
<1>4. then \in JobType(next)
  BY <1>3, JobKinds
<1> QED
  BY <1>1, <1>2, <1>4, ReportTyped

LEMMA DetectNextTyped ==
  ASSUME NetTyped, NEW w \in Workers, DetectNext(w)
  PROVE  NetTyped'
<1> DEFINE j == job[w]
<1> DEFINE todo == j.todo \ {j.account}
<1> DEFINE k == [op |-> "detected", accounts |-> j.accounts, alone |-> j.alone]
<1> DEFINE l == [op |-> "detect", run |-> j.run, accounts |-> j.accounts,
                 todo |-> todo, listed |-> j.listed, alone |-> j.alone]
<1>1. j.op = "detect_scan" /\ UNCHANGED <<store, res, driftStore>> /\ (Goes(w, k) \/ Goes(w, l))
  BY DEF DetectNext
<1>2. j \in DetectScanType(next)
  BY <1>1, ScanShape
<1>3. k \in DetectedType /\ l \in DetectType(next)
  BY <1>2 DEF DetectScanType, DetectedType, DetectType
<1> HIDE DEF k, l
<1>4. k \in JobType(next) /\ l \in JobType(next)
  BY <1>3, JobKinds
<1> QED
  BY <1>1, <1>4, ReadTyped

LEMMA DetectStepTyped ==
  ASSUME NetTyped, NEW w \in Workers, DetectStep(w)
  PROVE  NetTyped'
<1>1. CASE DetectReturn(w)
  BY <1>1, NextTyped, ReadTyped DEF DetectReturn
<1> QED
  BY <1>1, DetectClearTyped, DetectListTyped, DetectResourceTyped, DetectPoolTyped,
     DetectNextTyped DEF DetectStep

LEMMA DecideTyped ==
  ASSUME DriftsTyped, NEW status \in {"resolved", "ignored"}, Decide(status)
  PROVE  DriftsTyped'
<1>1. ASSUME NEW d \in drifts, drifts' = (drifts \ {d}) \cup {[d EXCEPT !.status = status]},
             UNCHANGED records
      PROVE  DriftsTyped'
  <2>1. [d EXCEPT !.status = status] \in ItemOfDrift
    BY DEF DriftsTyped, ItemOfDrift, Decisions
  <2> QED
    BY <1>1, <2>1 DEF DriftsTyped, Decide
<1>2. ASSUME NEW c \in DOMAIN records, records' = [records EXCEPT ![c].status = status],
             UNCHANGED drifts
      PROVE  DriftsTyped'
  <2>1. [records[c] EXCEPT !.status = status] \in RecordOfConflict
    BY DEF DriftsTyped, RecordOfConflict, Decisions
  <2> QED
    BY <1>2, <2>1 DEF DriftsTyped, Decide
<1> QED
  BY <1>1, <1>2 DEF Decide

(* What a conflict names.                                                  *)

LEMMA ConflictForms ==
  ASSUME NEW c \in computeNetworkConflicts
  PROVE  \E r \in Resources :
           \/ c = Conflict("missing_parent", r, None)
           \/ c = Conflict("invalid_nesting", r, None)
           \/ c = Conflict("linked_pool_mismatch", r, None)
           \/ c = Conflict("outside_pool", r, None)
           \/ \E i \in Ids : /\ \/ c = Conflict("unlinked_exact_pool", r, i)
                                \/ c = Conflict("alternate_exact_pool", r, i)
                             /\ exactPool(r, i)
           \/ c = Conflict("duplicate_cidr", r, None) /\ Cardinality(Duplicates(r)) > 1
<1> DEFINE R == {r \in Resources : Visible(r)}
<1> DEFINE reps == {r \in Resources : \A s \in Resources : SameDuplicateKey(r, s) => r <= s}
<1> DEFINE A == {Conflict("missing_parent", r, None) : r \in {s \in R : missingParent(s)}}
<1> DEFINE B == {Conflict("invalid_nesting", r, None) : r \in {s \in R : invalidNesting(s)}}
<1> DEFINE C == {Conflict(mismatchType(r), r, None) : r \in {s \in R : linkedPoolMismatch(s)}}
<1> DEFINE D == UNION {{Conflict(IF Unlinked(r) THEN "unlinked_exact_pool"
                                 ELSE "alternate_exact_pool", r, i) :
                          i \in {k \in Ids : exactPool(r, k)}} : r \in R}
<1> DEFINE E == {Conflict("duplicate_cidr", r, None) :
                   r \in {s \in reps : Cardinality(Duplicates(s)) > 1}}
<1>1. computeNetworkConflicts = A \cup B \cup C \cup D \cup E
  BY DEF computeNetworkConflicts
<1>2. CASE c \in A
  BY <1>2
<1>3. CASE c \in B
  BY <1>3
<1>4. CASE c \in C
  BY <1>4 DEF mismatchType
<1>5. CASE c \in D
  <2>1. PICK r \in R : \E i \in {k \in Ids : exactPool(r, k)} :
          c = Conflict(IF Unlinked(r) THEN "unlinked_exact_pool"
                       ELSE "alternate_exact_pool", r, i)
    BY <1>5
  <2> QED
    BY <2>1
<1>6. CASE c \in E
  BY <1>6
<1> HIDE DEF A, B, C, D, E
<1> QED
  BY <1>1, <1>2, <1>3, <1>4, <1>5, <1>6

LEMMA ConflictShape ==
  ASSUME NetTyped, NEW c \in computeNetworkConflicts
  PROVE  /\ c \in ConflictType(next) /\ c.r \in Resources
         /\ ConflictAccount(c) \in PoolIds
         /\ \A r \in DiscoveredIDs(c), p \in PoolIDs(c) :
              res[r].pool # p =>
                /\ c.type \in {"unlinked_exact_pool", "alternate_exact_pool"}
                /\ r = c.r /\ p = c.pool
<1>1. PICK r \in Resources :
           \/ c = Conflict("missing_parent", r, None)
           \/ c = Conflict("invalid_nesting", r, None)
           \/ c = Conflict("linked_pool_mismatch", r, None)
           \/ c = Conflict("outside_pool", r, None)
           \/ \E i \in Ids : /\ \/ c = Conflict("unlinked_exact_pool", r, i)
                                \/ c = Conflict("alternate_exact_pool", r, i)
                             /\ exactPool(r, i)
           \/ c = Conflict("duplicate_cidr", r, None) /\ Cardinality(Duplicates(r)) > 1
  BY ConflictForms
<1>2. None \in Ref(next) /\ \A i \in Ids : i \in Ref(next)
  BY NextTyped DEF Ids
<1>3. c \in ConflictType(next) /\ c.r = r
  BY <1>1, <1>2 DEF Conflict, ConflictType, ConflictTypes
<1>4. ConflictAccount(c) \in PoolIds
  <2>1. CASE c.type = "duplicate_cidr"
    <3> DEFINE S == {Data[s].account : s \in Duplicates(r)}
    <3>1. Cardinality(Duplicates(r)) > 1
      BY <1>1, <2>1 DEF Conflict
    <3>2. Duplicates(r) # {}
      BY <3>1, FS_EmptySet
    <3>3. Duplicates(r) \subseteq Resources
      BY DEF Duplicates
    <3>4. S \in SUBSET PoolIds /\ S # {}
      BY <3>2, <3>3, Discovered
    <3> HIDE DEF S
    <3>5. FirstOf(S) \in S
      BY <3>4, FirstOfType DEF PoolIds
    <3> QED
      BY <1>3, <2>1, <3>4, <3>5 DEF ConflictAccount, S
  <2>2. CASE c.type # "duplicate_cidr"
    BY <1>3, <2>2, Discovered DEF ConflictAccount
  <2> QED
    BY <2>1, <2>2
<1>5. ASSUME NEW s \in DiscoveredIDs(c), NEW p \in PoolIDs(c), res[s].pool # p
      PROVE  /\ c.type \in {"unlinked_exact_pool", "alternate_exact_pool"}
             /\ s = c.r /\ p = c.pool
  <2>0. c.type \in ConflictTypes
    BY <1>3 DEF ConflictType
  <2>1. CASE c.type \in {"unlinked_exact_pool", "alternate_exact_pool"}
    BY <1>5, <2>1 DEF DiscoveredIDs, PoolIDs
  <2>2. CASE c.type \in {"linked_pool_mismatch", "outside_pool"}
    <3>1. s = c.r
      BY <2>2, <1>5 DEF DiscoveredIDs
    <3>2. p = res[c.r].pool
      BY <2>2, <1>5 DEF PoolIDs
    <3> QED
      BY <3>1, <3>2, <1>5
  <2>3. CASE c.type \in {"missing_parent", "invalid_nesting", "duplicate_cidr"}
    BY <2>3, <1>5 DEF PoolIDs
  <2> QED
    BY <2>0, <2>1, <2>2, <2>3 DEF ConflictTypes
<1> QED
  BY <1>3, <1>4, <1>5

LEMMA WorkShape ==
  ASSUME NetTyped, NEW c \in computeNetworkConflicts,
         NEW op \in {"resolve", "ensure", "placeholder"},
         NEW kind \in {"decision", "link_action", "import_action"},
         NEW decision \in {"skip", "ignore", "defer", "link", "import"}
  PROVE  Work(op, c, kind, decision) \in ActionRecord(next)
<1>1. [r \in Resources |-> res[r].pool] \in [Resources -> Ref(next)]
  BY DEF NetTyped, ResTyped
<1>2. <<>> \in Seq(Resources)
  BY EmptySeq
<1>3. c \in ConflictType(next) /\ c.r \in Resources /\ ConflictAccount(c) \in PoolIds
  BY ConflictShape
<1> QED
  BY <1>1, <1>2, <1>3, NextTyped DEF Work, ActionRecord

LEMMA ResolveRequestTyped ==
  ASSUME NetTyped, NEW w \in Workers, NEW c, NEW decision \in {"skip", "ignore", "defer"},
         ResolveRequest(w, c, decision)
  PROVE  NetTyped'
<1> DEFINE j == Work("resolve", c, "decision", decision)
<1>1. c \in computeNetworkConflicts /\ Goes(w, j) /\ UNCHANGED <<store, res, driftStore>>
  BY DEF ResolveRequest
<1>2. j \in ActionRecord(next)
  BY <1>1, WorkShape
<1>3. ActionFacts(j)
  BY DEF ActionFacts, Work
<1> HIDE DEF j
<1>4. j \in JobType(next)
  BY <1>2, <1>3, JobKinds
<1> QED
  BY <1>1, <1>4, ReadTyped

LEMMA LinkActionRequestTyped ==
  ASSUME NetTyped, NEW w \in Workers, NEW c, NEW r \in Resources, NEW p \in Ids,
         NEW override \in BOOLEAN, LinkActionRequest(w, c, r, p, override)
  PROVE  NetTyped'
<1> DEFINE k == Work("ensure", c, "link_action", "link")
<1> DEFINE j == [k EXCEPT !.r = r, !.pool = p]
<1>1. /\ c \in computeNetworkConflicts /\ Goes(w, j) /\ UNCHANGED <<store, res, driftStore>>
      /\ r \in DiscoveredIDs(c) /\ p \in PoolIDs(c) /\ res[r].pool # p
  BY DEF LinkActionRequest, LinkAllowed
<1>2. k \in ActionRecord(next)
  BY <1>1, WorkShape
<1>3. /\ k.op = "ensure" /\ k.kind = "link_action" /\ k.id = c /\ k.linked = {}
      /\ k.created = {}
  BY DEF Work
<1> HIDE DEF k
<1>4. p \in Ref(next) /\ p # None
  BY NextTyped, PoolsAssumption DEF Ids, PoolIds
<1>5. /\ j \in ActionRecord(next) /\ j.op = "ensure" /\ j.kind = "link_action" /\ j.id = c
      /\ j.linked = {} /\ j.created = {} /\ j.r = r /\ j.pool = p
  BY <1>2, <1>3, <1>4 DEF ActionRecord
<1> HIDE DEF j
<1>6. /\ c.type \in {"unlinked_exact_pool", "alternate_exact_pool"}
      /\ r = c.r /\ p = c.pool
  BY <1>1, ConflictShape
<1>7. ActionFacts(j)
  BY <1>4, <1>5, <1>6 DEF ActionFacts
<1>8. j \in JobType(next)
  BY <1>5, <1>7, JobKinds
<1> QED
  BY <1>1, <1>8, ReadTyped

LEMMA ImportActionRequestTyped ==
  ASSUME NetTyped, NEW w \in Workers, NEW c, NEW ids \in Selections,
         NEW selected \in {None} \cup Ids, NEW override \in BOOLEAN,
         ImportActionRequest(w, c, ids, selected, override)
  PROVE  NetTyped'
<1> DEFINE k == Work("ensure", c, "import_action", "import")
<1> DEFINE j == [k EXCEPT !.ids = ids, !.selected = selected, !.override = override]
<1>1. /\ c \in computeNetworkConflicts /\ Goes(w, j) /\ UNCHANGED <<store, res, driftStore>>
      /\ ids # <<>>
      /\ \A r \in {ids[m] : m \in DOMAIN ids} : Data[r].account = Data[Head(ids)].account
  BY DEF ImportActionRequest
<1>2. k \in ActionRecord(next)
  BY <1>1, WorkShape
<1>3. k.op = "ensure" /\ k.kind = "import_action"
  BY DEF Work
<1> HIDE DEF k
<1>4. ids \in Seq(Resources) /\ selected \in Ref(next)
  BY ImportsAssumption DEF Ids, Ref
<1>5. /\ j \in ActionRecord(next) /\ j.op = "ensure" /\ j.kind = "import_action"
      /\ j.ids = ids
  BY <1>2, <1>3, <1>4 DEF ActionRecord
<1> HIDE DEF j
<1>6. SameOwner(ids, Data[Head(ids)].account)
  BY <1>1 DEF SameOwner
<1>7. ActionFacts(j)
  BY <1>1, <1>5, <1>6 DEF ActionFacts
<1>8. j \in JobType(next)
  BY <1>5, <1>7, JobKinds
<1> QED
  BY <1>1, <1>8, ReadTyped

LEMMA PlaceholderRequestTyped ==
  ASSUME NetTyped, NEW w \in Workers, NEW c, PlaceholderRequest(w, c)
  PROVE  NetTyped'
<1>1. PICK op \in {"resolve", "placeholder"} :
        /\ c \in computeNetworkConflicts /\ Goes(w, Work(op, c, "decision", "defer"))
        /\ UNCHANGED <<store, res, driftStore>>
  BY DEF PlaceholderRequest
<1> DEFINE j == Work(op, c, "decision", "defer")
<1>2. j \in ActionRecord(next)
  BY <1>1, WorkShape
<1>3. ActionFacts(j)
  BY DEF ActionFacts, Work
<1> HIDE DEF j
<1>4. j \in JobType(next)
  BY <1>2, <1>3, JobKinds
<1> QED
  BY <1>1, <1>4, ReadTyped DEF j

LEMMA ConflictRequestTyped ==
  ASSUME NetTyped, NEW w \in Workers, NEW c, ConflictRequest(w, c)
  PROVE  NetTyped'
BY ResolveRequestTyped, LinkActionRequestTyped, ImportActionRequestTyped,
   PlaceholderRequestTyped DEF ConflictRequest

LEMMA NewRequestTyped ==
  ASSUME NetTyped, NEW w \in Workers, NewRequest(w)
  PROVE  NetTyped'
<1>1. ASSUME NEW r \in Resources, Unlink(w, r), UNCHANGED driftStore PROVE NetTyped'
  BY <1>1, UnlinkTyped
<1> QED
  BY <1>1, LinkRequestTyped, ImportRequestTyped, SchemaImportRequestTyped,
     DetectRequestTyped, ConflictRequestTyped DEF NewRequest

(* The steps of a conflict action.                                         *)

LEMMA ActionShape ==
  ASSUME NetTyped, NEW w \in Workers,
         job[w].op \in {"resolve", "record", "recorded", "ensure", "link_action",
                        "import_action", "rollback", "placeholder", "ok", "failed", "stuck"}
  PROVE  job[w] \in ActionType(next) /\ job[w] \in ActionRecord(next) /\ ActionFacts(job[w])
<1>1. job[w] \in ActionType(next)
  BY JobShape DEF Shapes
<1> QED
  BY <1>1 DEF ActionType

LEMMA ActionMoves ==
  ASSUME NEW n, NEW j \in ActionRecord(n), ActionFacts(j),
         NEW op \in {"resolve", "record", "recorded", "rollback", "ok", "failed", "stuck"}
  PROVE  [j EXCEPT !.op = op] \in JobType(n)
<1> DEFINE k == [j EXCEPT !.op = op]
<1>1. /\ k \in ActionRecord(n) /\ k.op = op /\ k.kind = j.kind /\ k.id = j.id
      /\ k.r = j.r /\ k.pool = j.pool /\ k.ids = j.ids /\ k.linked = j.linked
      /\ k.created = j.created
  BY DEF ActionRecord
<1> HIDE DEF k
<1>2. ActionFacts(k)
  BY <1>1 DEF ActionFacts
<1>3. k \in JobType(n)
  BY <1>1, <1>2, JobKinds
<1> QED
  BY <1>3 DEF k

LEMMA RecordPutTyped ==
  ASSUME DriftsTyped, NEW c, NEW account \in PoolIds, NEW status \in Decisions,
         RecordPut(c, account, status)
  PROVE  DriftsTyped'
<1>1. \A d \in DOMAIN records : records[d] \in RecordOfConflict
  BY DEF DriftsTyped
<1>2. [account |-> account, status |-> status] \in RecordOfConflict
  BY DEF RecordOfConflict
<1>3. records' \in [DOMAIN records \cup {c} -> RecordOfConflict]
  BY <1>1, <1>2 DEF RecordPut
<1>4. drifts' = drifts /\ detections' = detections
  BY DEF RecordPut
<1> QED
  BY <1>3, <1>4 DEF DriftsTyped

LEMMA RecordStatusTyped ==
  ASSUME DriftsTyped, NEW c \in DOMAIN records,
         NEW decision \in {"skip", "ignore", "defer", "link", "import"},
         RecordStatus(c, networkDecisionStatus(decision))
  PROVE  DriftsTyped'
<1>1. records[c].account \in PoolIds
  BY DEF DriftsTyped, RecordOfConflict
<1>2. networkDecisionStatus(decision) \in Decisions
  BY DEF networkDecisionStatus, Decisions
<1> QED
  BY <1>1, <1>2, RecordPutTyped DEF RecordStatus

LEMMA ResolveUpdateTyped ==
  ASSUME NetTyped, NEW w \in Workers, ResolveUpdate(w)
  PROVE  NetTyped'
<1> DEFINE j == job[w]
<1>1. j.op = "resolve" /\ UNCHANGED <<store, res>>
  BY DEF ResolveUpdate
<1>2. j \in ActionRecord(next) /\ ActionFacts(j)
  BY <1>1, ActionShape
<1>3. /\ [j EXCEPT !.op = "ok"] \in JobType(next) /\ [j EXCEPT !.op = "record"] \in JobType(next)
      /\ [j EXCEPT !.op = "rollback"] \in JobType(next)
  BY <1>2, ActionMoves
<1>4. j.decision \in {"skip", "ignore", "defer", "link", "import"}
  BY <1>2 DEF ActionRecord
<1>5. CASE /\ j.id \in DOMAIN records
           /\ RecordStatus(j.id, networkDecisionStatus(j.decision))
           /\ Writes(w, [j EXCEPT !.op = "ok"])
  <2>1. DriftsTyped'
    BY <1>4, <1>5, RecordStatusTyped DEF NetTyped
  <2> QED
    BY <1>1, <1>3, <1>5, <2>1, ReportedTyped
<1>6. CASE Goes(w, [j EXCEPT !.op = "record"]) /\ UNCHANGED driftStore
  BY <1>1, <1>3, <1>6, ReadTyped
<1>7. CASE DriftFails /\ Goes(w, [j EXCEPT !.op = "rollback"])
  BY <1>1, <1>3, <1>7, ReadTyped DEF DriftFails
<1> QED
  BY <1>5, <1>6, <1>7 DEF ResolveUpdate

LEMMA ResolveCreateTyped ==
  ASSUME NetTyped, NEW w \in Workers, ResolveCreate(w)
  PROVE  NetTyped'
<1> DEFINE j == job[w]
<1>1. j.op = "record" /\ UNCHANGED <<store, res>>
  BY DEF ResolveCreate
<1>2. j \in ActionRecord(next) /\ ActionFacts(j)
  BY <1>1, ActionShape
<1>3. [j EXCEPT !.op = "recorded"] \in JobType(next) /\ [j EXCEPT !.op = "rollback"] \in JobType(next)
  BY <1>2, ActionMoves
<1>4. j.account \in PoolIds
  BY <1>2 DEF ActionRecord
<1>5. CASE RecordPut(j.id, j.account, "open") /\ Writes(w, [j EXCEPT !.op = "recorded"])
  <2>1. DriftsTyped'
    BY <1>4, <1>5, RecordPutTyped DEF NetTyped, Decisions
  <2> QED
    BY <1>1, <1>3, <1>5, <2>1, ReportedTyped
<1>6. CASE DriftFails /\ Goes(w, [j EXCEPT !.op = "rollback"])
  BY <1>1, <1>3, <1>6, ReadTyped DEF DriftFails
<1> QED
  BY <1>5, <1>6 DEF ResolveCreate

LEMMA ResolveAgainTyped ==
  ASSUME NetTyped, NEW w \in Workers, ResolveAgain(w)
  PROVE  NetTyped'
<1> DEFINE j == job[w]
<1>1. j.op = "recorded" /\ UNCHANGED <<store, res>>
  BY DEF ResolveAgain
<1>2. j \in ActionRecord(next) /\ ActionFacts(j)
  BY <1>1, ActionShape
<1>3. [j EXCEPT !.op = "ok"] \in JobType(next) /\ [j EXCEPT !.op = "rollback"] \in JobType(next)
  BY <1>2, ActionMoves
<1>4. j.decision \in {"skip", "ignore", "defer", "link", "import"}
  BY <1>2 DEF ActionRecord
<1>5. CASE /\ j.id \in DOMAIN records
           /\ RecordStatus(j.id, networkDecisionStatus(j.decision))
           /\ Writes(w, [j EXCEPT !.op = "ok"])
  <2>1. DriftsTyped'
    BY <1>4, <1>5, RecordStatusTyped DEF NetTyped
  <2> QED
    BY <1>1, <1>3, <1>5, <2>1, ReportedTyped
<1>6. CASE Goes(w, [j EXCEPT !.op = "rollback"]) /\ UNCHANGED driftStore
  BY <1>1, <1>3, <1>6, ReadTyped
<1> QED
  BY <1>5, <1>6 DEF ResolveAgain

LEMMA EnsureRecordTyped ==
  ASSUME NetTyped, NEW w \in Workers, EnsureRecord(w)
  PROVE  NetTyped'
<1> DEFINE j == job[w]
<1> DEFINE account == IF j.id \in DOMAIN records THEN records[j.id].account ELSE j.account
<1> DEFINE k == [j EXCEPT !.op = j.kind]
<1>1. j.op = "ensure" /\ UNCHANGED <<store, res>>
  BY DEF EnsureRecord
<1>2. j \in ActionRecord(next) /\ ActionFacts(j)
  BY <1>1, ActionShape
<1>3. [j EXCEPT !.op = "failed"] \in JobType(next)
  BY <1>2, ActionMoves
<1>4. account \in PoolIds
  BY <1>2 DEF ActionRecord, NetTyped, DriftsTyped, RecordOfConflict
<1>5. /\ k \in ActionRecord(next) /\ k.op = j.kind /\ k.kind = j.kind /\ k.id = j.id
      /\ k.r = j.r /\ k.pool = j.pool /\ k.ids = j.ids /\ k.linked = j.linked
      /\ k.created = j.created /\ j.kind \in {"link_action", "import_action"}
  BY <1>1, <1>2 DEF ActionRecord, ActionFacts
<1> HIDE DEF k
<1>6. ActionFacts(k)
  BY <1>2, <1>5 DEF ActionFacts
<1>7. k \in JobType(next)
  BY <1>5, <1>6, JobKinds
<1>8. \/ RecordPut(j.id, account, "open") /\ Writes(w, k)
      \/ DriftFails /\ Goes(w, [j EXCEPT !.op = "failed"])
  BY DEF EnsureRecord, k
<1> HIDE DEF account
<1>9. CASE RecordPut(j.id, account, "open") /\ Writes(w, k)
  <2>1. DriftsTyped'
    BY <1>4, <1>9, RecordPutTyped DEF NetTyped, Decisions
  <2> QED
    BY <1>1, <1>7, <1>9, <2>1, ReportedTyped
<1>10. CASE DriftFails /\ Goes(w, [j EXCEPT !.op = "failed"])
  BY <1>1, <1>3, <1>10, ReadTyped DEF DriftFails
<1> QED
  BY <1>8, <1>9, <1>10

LEMMA LinkActionTyped ==
  ASSUME NetTyped, NEW w \in Workers, LinkAction(w)
  PROVE  NetTyped'
<1> DEFINE j == job[w]
<1>1. j.op = "link_action" /\ UNCHANGED <<store, driftStore>>
  BY DEF LinkAction
<1>2. j \in ActionRecord(next) /\ ActionFacts(j)
  BY <1>1, ActionShape
<1>3. [j EXCEPT !.op = "resolve"] \in JobType(next) /\ [j EXCEPT !.op = "failed"] \in JobType(next)
  BY <1>2, ActionMoves
<1>4. j.r \in Resources /\ j.pool \in Ref(next)
  BY <1>2 DEF ActionRecord
<1>5. CASE LinkResource(j.r, j.pool) /\ Writes(w, [j EXCEPT !.op = "resolve"])
  BY <1>1, <1>3, <1>4, <1>5, LinkedTyped
<1>6. CASE LinkFails /\ Goes(w, [j EXCEPT !.op = "failed"])
  BY <1>1, <1>3, <1>6, ReadTyped DEF LinkFails
<1> QED
  BY <1>5, <1>6 DEF LinkAction

LEMMA RollbackLinkTyped ==
  ASSUME NetTyped, NEW w \in Workers, RollbackLink(w)
  PROVE  NetTyped'
<1> DEFINE j == job[w]
<1>1. j.op = "rollback" /\ UNCHANGED <<store, driftStore>>
  BY DEF RollbackLink
<1>2. j \in ActionRecord(next) /\ ActionFacts(j)
  BY <1>1, ActionShape
<1>3. [j EXCEPT !.op = "failed"] \in JobType(next) /\ [j EXCEPT !.op = "stuck"] \in JobType(next)
  BY <1>2, ActionMoves
<1>4. j.r \in Resources /\ j.before[j.r] \in Ref(next)
  BY <1>2 DEF ActionRecord
<1>5. CASE LinkResource(j.r, j.before[j.r]) /\ Writes(w, [j EXCEPT !.op = "failed"])
  BY <1>1, <1>3, <1>4, <1>5, LinkedTyped
<1>6. CASE LinkFails /\ Goes(w, [j EXCEPT !.op = "stuck"])
  BY <1>1, <1>3, <1>6, ReadTyped DEF LinkFails
<1> QED
  BY <1>5, <1>6 DEF RollbackLink, RollbackTo

LEMMA ImportActionTyped ==
  ASSUME NetTyped, NEW w \in Workers, ImportAction(w)
  PROVE  NetTyped'
<1> DEFINE j == job[w]
<1> DEFINE account == Data[Head(j.ids)].account
<1>1. j.op = "import_action" /\ UNCHANGED <<store, res, driftStore>>
  BY DEF ImportAction
<1>2. j \in ActionRecord(next) /\ ActionFacts(j) /\ j \in ActionType(next)
  BY <1>1, ActionShape
<1>3. [j EXCEPT !.op = "failed"] \in JobType(next)
  BY <1>2, ActionMoves
<1>4. /\ j.ids \in Seq(Resources) /\ j.selected \in Ref(next) /\ j.override \in BOOLEAN
      /\ j.alone \in BOOLEAN
  BY <1>2 DEF ActionRecord
<1>5. j.ids # <<>> /\ SameOwner(j.ids, account)
  BY <1>1, <1>2 DEF ActionFacts
<1>6. account \in PoolIds
  BY <1>4, <1>5, HeadTailProperties, Discovered
<1>7. j \in CallerType(next)
  BY <1>1, <1>2 DEF CallerType
<1> HIDE DEF account
<1>8. CASE ImportBegin(w, account, j.ids, j.selected, j.override, j, j.alone)
  BY <1>1, <1>4, <1>5, <1>6, <1>7, <1>8, ImportBeginTyped
<1>9. CASE Goes(w, [j EXCEPT !.op = "failed"])
  BY <1>1, <1>3, <1>9, ReadTyped
<1> QED
  BY <1>8, <1>9 DEF ImportAction, account

LEMMA ImportOutcomeTyped ==
  ASSUME NetTyped, NEW w \in Workers, ImportOutcome(w)
  PROVE  NetTyped'
<1> DEFINE j == job[w]
<1> DEFINE result == [j.conflict EXCEPT !.linked = j.linked, !.created = j.created,
                                        !.alone = j.alone]
<1>1. j.op = "imported" /\ j.conflict # None /\ UNCHANGED <<store, res, driftStore>>
  BY DEF ImportOutcome
<1>2. j \in ImportRecord(next)
  BY <1>1, JobShape DEF Shapes, ImportType
<1>3. /\ j.conflict \in ActionRecord(next) /\ ActionFacts(j.conflict)
      /\ j.conflict.op = "import_action"
      /\ j.linked \in SUBSET Resources /\ j.created \in SUBSET (1 .. next - 1)
      /\ j.alone \in BOOLEAN
  BY <1>1, <1>2 DEF ImportRecord, CallerType, ActionType
<1>4. /\ result \in ActionRecord(next) /\ result.op = "import_action"
      /\ result.kind = j.conflict.kind /\ result.id = j.conflict.id
      /\ result.r = j.conflict.r /\ result.pool = j.conflict.pool
      /\ result.ids = j.conflict.ids
  BY <1>3 DEF ActionRecord
<1> HIDE DEF result
<1>5. ActionFacts(result)
  BY <1>3, <1>4 DEF ActionFacts
<1>6. /\ [result EXCEPT !.op = "rollback"] \in JobType(next)
      /\ [result EXCEPT !.op = "resolve"] \in JobType(next)
  BY <1>4, <1>5, ActionMoves
<1>7. \/ Goes(w, [result EXCEPT !.op = "rollback"])
      \/ Goes(w, [result EXCEPT !.op = "resolve"])
  BY DEF ImportOutcome, result
<1> QED
  BY <1>1, <1>6, <1>7, ReadTyped

LEMMA RollbackUnlinkTyped ==
  ASSUME NetTyped, NEW w \in Workers, RollbackUnlink(w)
  PROVE  NetTyped'
<1> DEFINE j == job[w]
<1> DEFINE r == FirstOf(j.linked)
<1> DEFINE then == [j EXCEPT !.linked = @ \ {r}]
<1>1. /\ j.op = "rollback" /\ j.kind = "import_action" /\ j.linked # {}
      /\ UNCHANGED <<store, driftStore>>
  BY DEF RollbackUnlink
<1>2. j \in ActionRecord(next) /\ ActionFacts(j)
  BY <1>1, ActionShape
<1>3. r \in Resources
  <2>1. j.linked \in SUBSET Resources
    BY <1>2 DEF ActionRecord
  <2>2. j.linked \in SUBSET Nat
    BY <2>1, Discovered
  <2> QED
    BY <1>1, <2>1, <2>2, FirstOfType
<1>4. \/ LinkResource(r, None) /\ Writes(w, then)
      \/ LinkFails /\ Goes(w, [then EXCEPT !.stuck = TRUE])
  BY DEF RollbackUnlink
<1> HIDE DEF r
<1>5. /\ then \in ActionRecord(next) /\ then.op = "rollback" /\ then.kind = "import_action"
      /\ then.ids = j.ids
  BY <1>1, <1>2 DEF ActionRecord
<1>6. ActionFacts(then)
  BY <1>1, <1>2, <1>5 DEF ActionFacts
<1> HIDE DEF then
<1>7. [then EXCEPT !.stuck = TRUE] \in ActionRecord(next) /\ ActionFacts([then EXCEPT !.stuck = TRUE])
  BY <1>5, <1>6 DEF ActionFacts, ActionRecord
<1>8. then \in JobType(next) /\ [then EXCEPT !.stuck = TRUE] \in JobType(next)
  BY <1>5, <1>6, <1>7, JobKinds
<1>9. CASE LinkResource(r, None) /\ Writes(w, then)
  BY <1>1, <1>3, <1>8, <1>9, NextTyped, LinkedTyped
<1>10. CASE LinkFails /\ Goes(w, [then EXCEPT !.stuck = TRUE])
  BY <1>1, <1>8, <1>10, ReadTyped DEF LinkFails
<1> QED
  BY <1>4, <1>9, <1>10

LEMMA RollbackPoolTyped ==
  ASSUME NetTyped, NEW w \in Workers, RollbackPool(w)
  PROVE  NetTyped'
<1> DEFINE j == job[w]
<1> DEFINE p == LastCreated(j.created)
<1> DEFINE then == [j EXCEPT !.created = @ \ {p}]
<1>1. /\ j.op = "rollback" /\ j.kind = "import_action"
      /\ UNCHANGED <<res, driftStore>>
  BY DEF RollbackPool
<1>2. j \in ActionRecord(next) /\ ActionFacts(j)
  BY <1>1, ActionShape
<1>3. \/ RemovePool(p) /\ Writes(w, then)
      \/ RemoveFails(p) /\ Goes(w, [then EXCEPT !.stuck = TRUE])
  BY DEF RollbackPool
<1> HIDE DEF p
<1>4. /\ then \in ActionRecord(next) /\ then.op = "rollback" /\ then.kind = "import_action"
      /\ then.ids = j.ids
  BY <1>1, <1>2 DEF ActionRecord
<1>5. ActionFacts(then)
  BY <1>1, <1>2, <1>4 DEF ActionFacts
<1> HIDE DEF then
<1>6. [then EXCEPT !.stuck = TRUE] \in ActionRecord(next) /\ ActionFacts([then EXCEPT !.stuck = TRUE])
  BY <1>4, <1>5 DEF ActionFacts, ActionRecord
<1>7. then \in JobType(next) /\ [then EXCEPT !.stuck = TRUE] \in JobType(next)
  BY <1>4, <1>5, <1>6, JobKinds
<1>8. CASE RemovePool(p) /\ Writes(w, then)
  <2>1. StoreTyped' /\ next' = next
    BY <1>8, DeleteTyped DEF RemovePool, NetTyped
  <2> QED
    BY <1>1, <1>7, <1>8, <2>1, NextTyped, StoredTyped
<1>9. CASE RemoveFails(p) /\ Goes(w, [then EXCEPT !.stuck = TRUE])
  BY <1>1, <1>7, <1>9, ReadTyped DEF RemoveFails
<1> QED
  BY <1>3, <1>8, <1>9

LEMMA RollbackEndTyped ==
  ASSUME NetTyped, NEW w \in Workers, RollbackEnd(w)
  PROVE  NetTyped'
<1>1. job[w].op = "rollback" /\ UNCHANGED <<store, res, driftStore>>
  BY DEF RollbackEnd
<1>2. job[w] \in ActionRecord(next) /\ ActionFacts(job[w])
  BY <1>1, ActionShape
<1>3. /\ [job[w] EXCEPT !.op = "stuck"] \in JobType(next)
      /\ [job[w] EXCEPT !.op = "failed"] \in JobType(next)
  BY <1>2, ActionMoves
<1>4. Goes(w, [job[w] EXCEPT !.op = "stuck"]) \/ Goes(w, [job[w] EXCEPT !.op = "failed"])
  BY DEF RollbackEnd
<1> QED
  BY <1>1, <1>3, <1>4, ReadTyped

LEMMA PlaceholderCreateTyped ==
  ASSUME NetTyped, NEW w \in Workers, PlaceholderCreate(w)
  PROVE  NetTyped'
<1> DEFINE j == job[w]
<1>1. j.op = "placeholder" /\ UNCHANGED <<store, res, driftStore>>
  BY DEF PlaceholderCreate
<1>2. j \in ActionRecord(next) /\ ActionFacts(j)
  BY <1>1, ActionShape
<1>3. [j EXCEPT !.op = "resolve"] \in JobType(next) /\ [j EXCEPT !.op = "failed"] \in JobType(next)
  BY <1>2, ActionMoves
<1>4. CASE Writes(w, [j EXCEPT !.op = "resolve"])
  BY <1>1, <1>3, <1>4, ReportedTyped, DriftsKept DEF NetTyped
<1>5. CASE Goes(w, [j EXCEPT !.op = "failed"])
  BY <1>1, <1>3, <1>5, ReadTyped
<1> QED
  BY <1>4, <1>5 DEF PlaceholderCreate

LEMMA ActionReturnTyped ==
  ASSUME NetTyped, NEW w \in Workers, ActionReturn(w)
  PROVE  NetTyped'
BY NextTyped, ReadTyped DEF ActionReturn

LEMMA ConflictStepTyped ==
  ASSUME NetTyped, NEW w \in Workers, ConflictStep(w)
  PROVE  NetTyped'
BY ResolveUpdateTyped, ResolveCreateTyped, ResolveAgainTyped, EnsureRecordTyped,
   LinkActionTyped, RollbackLinkTyped, ImportActionTyped, ImportOutcomeTyped,
   RollbackUnlinkTyped, RollbackPoolTyped, RollbackEndTyped, PlaceholderCreateTyped,
   ActionReturnTyped DEF ConflictStep

(* Writes of others.                                                       *)

LEMMA OthersTyped ==
  ASSUME NetTyped, NEW c \in Clients, Others(c), job' = Disturbed(job, None),
         UNCHANGED driftStore
  PROVE  NetTyped'
<1>1. res' = res
  BY DEF Others
<1>2. StoreTyped' /\ next' = next
  <2>1. ASSUME NEW i \in Ids, DeletePool(c, i) \/ DeletePoolCascade(c, i)
        PROVE  StoreTyped' /\ next' = next
    BY <2>1, DeleteTyped DEF DeletePool, DeletePoolCascade, NetTyped
  <2>2. ASSUME NEW i \in Ids, NEW account \in {None} \cup AccountIds,
               PatchWithAccount(c, i, account, None)
        PROVE  StoreTyped' /\ next' = next
    <3>1. account \in OptId
      BY DEF AccountIds, OptId, NetTyped, StoreTyped, PoolIds
    <3> QED
      BY <2>2, <3>1, UpdateTyped DEF PatchWithAccount, NetTyped
  <2>3. ASSUME NEW a \in AccountIds, DeleteAccount(c, a)
        PROVE  StoreTyped' /\ next' = next
    BY <2>3 DEF DeleteAccount, NetTyped, StoreTyped, Ids
  <2>4. ASSUME NEW a \in AccountIds, DeleteAccountCascade(c, a)
        PROVE  StoreTyped' /\ next' = next
    BY <2>4, DeleteTyped DEF DeleteAccountCascade, NetTyped
  <2> QED
    BY <2>1, <2>2, <2>3, <2>4 DEF Others
<1>3. ResTyped'
  BY <1>1, <1>2, NextTyped, ResKept DEF NetTyped
<1>4. JobsTyped'
  BY <1>2, NextTyped, DisturbedTyped DEF NetTyped, JobsTyped
<1> QED
  BY <1>2, <1>3, <1>4, DriftsKept DEF NetTyped

LEMMA OthersWriteTyped ==
  ASSUME NetTyped, OthersWrite
  PROVE  NetTyped'
<1>1. ASSUME NEW c \in Clients, Others(c), UNCHANGED driftStore
      PROVE  NetTyped'
  BY <1>1, OthersTyped DEF OthersWrite
<1>2. ASSUME UNCHANGED store
      PROVE  next' = next /\ StoreTyped' /\ JobsTyped'
  <2>1. next' = next /\ StoreTyped'
    BY <1>2, StoreKept DEF NetTyped, store
  <2> QED
    BY <2>1, NextTyped, DisturbedTyped DEF OthersWrite, NetTyped, JobsTyped
<1>3. ASSUME NEW r \in Resources, Rediscover(r), UNCHANGED <<store, req, driftStore>>
      PROVE  NetTyped'
  <2>1. next' = next
    BY <1>3 DEF store
  <2>2. ResTyped'
    BY <1>3, <2>1 DEF Rediscover, ResTyped, NetTyped
  <2> QED
    BY <1>2, <1>3, <2>2, DriftsKept DEF NetTyped
<1>4. ASSUME NEW status \in {"resolved", "ignored"}, Decide(status), UNCHANGED <<store, req, res>>
      PROVE  NetTyped'
  <2>1. DriftsTyped'
    BY <1>4, DecideTyped DEF NetTyped
  <2>2. ResTyped'
    BY <1>4 DEF ResTyped, NetTyped, store
  <2> QED
    BY <1>2, <1>4, <2>1, <2>2 DEF NetTyped
<1> QED
  BY <1>1, <1>3, <1>4 DEF OthersWrite

LEMMA ServesTyped ==
  ASSUME NetTyped, NEW w \in Workers, Serves(w)
  PROVE  NetTyped'
BY LinkWriteTyped, ImportStepTyped, SchemaImportStepTyped, DetectStepTyped,
   ConflictStepTyped DEF Serves

LEMMA StepTyped ==
  ASSUME NetTyped, [NetworkNext]_networkVars
  PROVE  NetTyped'
<1>1. CASE NetworkNext
  BY <1>1, NewRequestTyped, OthersWriteTyped, ServesTyped DEF NetworkNext, Arrives
<1>2. CASE UNCHANGED networkVars
  <2>1. UNCHANGED <<store, res, job, driftStore>>
    BY <1>2 DEF networkVars
  <2>2. StoreTyped' /\ next' = next
    BY <2>1, StoreKept DEF NetTyped, store
  <2>3. ResTyped' /\ JobsTyped'
    BY <2>1, <2>2 DEF NetTyped, ResTyped, JobsTyped
  <2> QED
    BY <2>1, <2>2, <2>3, DriftsKept DEF NetTyped
<1> QED
  BY <1>1, <1>2

LEMMA InitTyped ==
  ASSUME NetworkInit
  PROVE  NetTyped
<1>1. /\ pools \in Seq(Pool)
      /\ \A i \in DOMAIN pools : pools[i].parent # None => pools[i].parent \in 1 .. i - 1
      /\ next = Len(pools) + 1 /\ accounts \in Seq(Account)
      /\ nextAccount = Len(accounts) + 1
  BY NetworkAssumption DEF NetworkInit
<1>2. /\ Len(pools) \in Nat /\ DOMAIN pools = 1 .. Len(pools) /\ next - 1 = Len(pools)
      /\ next \in PoolIds /\ nextAccount \in PoolIds
      /\ pools \in [1 .. next - 1 -> Pool]
  BY <1>1 DEF PoolIds
<1>3. StoreTyped
  BY <1>1, <1>2 DEF StoreTyped, Ids
<1>4. ResTyped
  BY DEF NetworkInit, ResTyped, Ref
<1>5. DriftsTyped
  <2>1. records = <<>> /\ drifts = {} /\ detections = 0
    BY DEF NetworkInit
  <2>2. DOMAIN records = {} /\ records = [c \in {} |-> None]
    BY <2>1
  <2> QED
    BY <2>1, <2>2 DEF DriftsTyped
<1>6. JobsTyped
  BY DEF NetworkInit, JobsTyped, JobType
<1> QED
  BY <1>3, <1>4, <1>5, <1>6 DEF NetTyped

\* The store, the links, the drift store and the locals of every request have
\* their types, and a pool's parent is older than the pool.
THEOREM TypeTheorem == NetworkSpec => []NetTyped
<1>1. NetworkInit => NetTyped
  BY InitTyped
<1>2. NetTyped /\ [NetworkNext]_networkVars => NetTyped'
  BY StepTyped
<1> QED
  BY <1>1, <1>2, PTL DEF NetworkSpec

-----------------------------------------------------------------------------
(* Alone. *)
(* Nobody else has written as long as a request is alone: a step of another *)
(* request or actor leaves all it depends on as it is, or the request is    *)
(* alone no more.                                                           *)

Lone(w) == job[w] # Idle /\ job[w].alone

Still == UNCHANGED <<pools, next, accounts, nextAccount, res, drifts, records>>

Wrote(w) == \E j : Writes(w, j)

LookedOn(w) == Still /\ \E j : Goes(w, j)

LEMMA LinksEffect ==
  ASSUME NEW w \in Workers, UNCHANGED driftStore,
         \/ \E r \in Resources, p \in Ids : LinkRequest(w, r, p)
         \/ \E r \in Resources : Unlink(w, r)
         \/ LinkWrite(w)
  PROVE  Wrote(w) \/ LookedOn(w)
<1>1. ASSUME NEW r \in Resources, NEW p \in Ids, LinkRequest(w, r, p) PROVE LookedOn(w)
  BY <1>1 DEF LinkRequest, LookedOn, Still, driftStore, store
<1>2. ASSUME NEW r \in Resources, Unlink(w, r) PROVE Wrote(w)
  BY <1>2 DEF Unlink, Wrote
<1>3. LinkWrite(w) => Wrote(w) \/ LookedOn(w)
  BY DEF LinkWrite, LinkFails, Wrote, LookedOn, Still, driftStore, store
<1> QED
  BY <1>1, <1>2, <1>3

LEMMA ImportEffect ==
  ASSUME NEW w \in Workers, UNCHANGED driftStore,
         \/ \E a \in AccountIds, ids \in Selections, selected \in {None} \cup Ids :
              ImportRequest(w, a, ids, selected)
         \/ ImportStep(w)
  PROVE  Wrote(w) \/ LookedOn(w)
<1>1. ASSUME NEW a, NEW ids, NEW selected, ImportRequest(w, a, ids, selected)
      PROVE  LookedOn(w)
  BY <1>1 DEF ImportRequest, ImportBegin, LookedOn, Still, driftStore, store
<1>2. ASSUME ImportPreview(w) \/ ApplySkip(w) \/ ApplyParent(w) \/ ImportReturn(w)
      PROVE  LookedOn(w)
  BY <1>2 DEF ImportPreview, ApplySkip, ApplyParent, ImportReturn, LookedOn, Still,
              driftStore, store
<1>3. ASSUME ApplyLinkExisting(w) \/ ApplyLink(w)
      PROVE  Wrote(w) \/ LookedOn(w)
  BY <1>3 DEF ApplyLinkExisting, ApplyLink, LinkFails, Wrote, LookedOn, Still,
              driftStore, store
<1>4. ASSUME ApplyCreate(w)
      PROVE  Wrote(w) \/ LookedOn(w)
  BY <1>4 DEF ApplyCreate, StoreFails, Wrote, LookedOn, Still, driftStore
<1>5. ASSUME ApplyCleanup(w)
      PROVE  Wrote(w) \/ LookedOn(w)
  BY <1>5 DEF ApplyCleanup, RemoveFails, Wrote, LookedOn, Still, driftStore, store
<1> QED
  BY <1>1, <1>2, <1>3, <1>4, <1>5 DEF ImportStep

LEMMA SchemaEffect ==
  ASSUME NEW w \in Workers, UNCHANGED driftStore,
         (\E a \in AccountIds : SchemaImportRequest(w, a)) \/ SchemaImportStep(w)
  PROVE  Wrote(w) \/ LookedOn(w)
<1>1. ASSUME NEW a, SchemaImportRequest(w, a)
      PROVE  LookedOn(w)
  BY <1>1 DEF SchemaImportRequest, LookedOn, Still, driftStore, store
<1>2. ASSUME SchemaImportList(w) \/ SchemaImportSkip(w)
      PROVE  LookedOn(w)
  BY <1>2 DEF SchemaImportList, SchemaImportSkip, LookedOn, Still, driftStore, store
<1>3. ASSUME SchemaImportItem(w)
      PROVE  Wrote(w) \/ LookedOn(w)
  <2>1. \/ \E j : Writes(w, j)
        \/ (\E j : Goes(w, j)) /\ LinkFails /\ UNCHANGED store
        \/ (\E j : Goes(w, j)) /\ StoreFails /\ UNCHANGED res
    BY <1>3 DEF SchemaImportItem
  <2> QED
    BY <2>1 DEF LinkFails, StoreFails, Wrote, LookedOn, Still, driftStore, store
<1>4. ASSUME SchemaImportLink(w)
      PROVE  Wrote(w) \/ LookedOn(w)
  BY <1>4 DEF SchemaImportLink, LinkFails, Wrote, LookedOn, Still, driftStore, store
<1> QED
  BY <1>1, <1>2, <1>3, <1>4 DEF SchemaImportStep

LEMMA DetectEffect ==
  ASSUME NEW w \in Workers, (\E S : DetectRequest(w, S)) \/ DetectStep(w)
  PROVE  Wrote(w) \/ LookedOn(w)
<1>1. ASSUME NEW S, DetectRequest(w, S)
      PROVE  LookedOn(w)
  BY <1>1 DEF DetectRequest, LookedOn, Still, driftStore, store
<1>2. ASSUME DetectList(w) \/ DetectNext(w) \/ DetectReturn(w)
      PROVE  LookedOn(w)
  BY <1>2 DEF DetectList, DetectNext, DetectReturn, LookedOn, Still, driftStore, store
<1>3. ASSUME DetectClear(w)
      PROVE  Wrote(w) \/ LookedOn(w)
  BY <1>3 DEF DetectClear, DriftFails, Wrote, LookedOn, Still, driftStore, store
<1>4. ASSUME NEW kind, NEW subject, NEW then, Report(w, kind, subject, then),
             UNCHANGED <<store, res>>
      PROVE  Wrote(w) \/ LookedOn(w)
  BY <1>4 DEF Report, DriftFails, Wrote, LookedOn, Still, driftStore, store
<1>5. ASSUME DetectResource(w) \/ DetectPool(w)
      PROVE  Wrote(w) \/ LookedOn(w)
  <2>1. /\ UNCHANGED <<store, res>>
        /\ \/ \E kind, subject, then : Report(w, kind, subject, then)
           \/ (\E j : Goes(w, j)) /\ UNCHANGED driftStore
    BY <1>5 DEF DetectResource, DetectPool
  <2> QED
    BY <1>4, <2>1 DEF LookedOn, Still, driftStore, store
<1> QED
  BY <1>1, <1>2, <1>3, <1>5 DEF DetectStep

LEMMA ConflictEffect ==
  ASSUME NEW w \in Workers, (\E c : ConflictRequest(w, c)) \/ ConflictStep(w)
  PROVE  Wrote(w) \/ LookedOn(w)
<1>1. ASSUME NEW c, ConflictRequest(w, c)
      PROVE  LookedOn(w)
  <2>1. (\E j : Goes(w, j)) /\ UNCHANGED <<store, res, driftStore>>
    BY <1>1 DEF ConflictRequest, ResolveRequest, LinkActionRequest, ImportActionRequest,
                PlaceholderRequest
  <2> QED
    BY <2>1 DEF LookedOn, Still, driftStore, store
<1>2. ASSUME ImportOutcome(w) \/ RollbackEnd(w) \/ ActionReturn(w)
      PROVE  LookedOn(w)
  BY <1>2 DEF ImportOutcome, RollbackEnd, ActionReturn, LookedOn, Still, driftStore, store
<1>3. ASSUME ImportAction(w)
      PROVE  LookedOn(w)
  BY <1>3 DEF ImportAction, ImportBegin, LookedOn, Still, driftStore, store
<1>4. ASSUME ResolveUpdate(w) \/ ResolveCreate(w) \/ ResolveAgain(w) \/ EnsureRecord(w)
      PROVE  Wrote(w) \/ LookedOn(w)
  <2>1. \/ \E j : Writes(w, j)
        \/ (\E j : Goes(w, j)) /\ UNCHANGED <<store, res, driftStore>>
    BY <1>4 DEF ResolveUpdate, ResolveCreate, ResolveAgain, EnsureRecord, DriftFails
  <2> QED
    BY <2>1 DEF Wrote, LookedOn, Still, driftStore, store
<1>5. ASSUME LinkAction(w) \/ RollbackLink(w) \/ RollbackUnlink(w) \/ RollbackPool(w)
             \/ PlaceholderCreate(w)
      PROVE  Wrote(w) \/ LookedOn(w)
  <2>1. \/ \E j : Writes(w, j)
        \/ (\E j : Goes(w, j)) /\ UNCHANGED <<store, res, driftStore>>
    BY <1>5 DEF LinkAction, RollbackLink, RollbackUnlink, RollbackPool, PlaceholderCreate,
                LinkFails, RemoveFails
  <2> QED
    BY <2>1 DEF Wrote, LookedOn, Still, driftStore, store
<1> QED
  BY <1>1, <1>2, <1>3, <1>4, <1>5 DEF ConflictStep

LEMMA AloneStep ==
  ASSUME NetTyped, [NetworkNext]_networkVars, NEW v \in Workers, Lone(v)'
  PROVE  \/ Still /\ job'[v] = job[v]
         \/ Arrives /\ NewRequest(v)
         \/ Serves(v)
<1>1. ASSUME NEW w \in Workers, w # v, Wrote(w)
      PROVE  FALSE
  <2>1. Disturbed(job, w)[v] = Idle \/ Disturbed(job, w)[v].alone = FALSE
    BY <1>1, NextTyped, DisturbedTyped DEF NetTyped
  <2>2. job'[v] = Disturbed(job, w)[v]
    BY <1>1 DEF Writes, Disturbed, Wrote
  <2> QED
    BY <2>1, <2>2 DEF Lone
<1>2. ASSUME NEW w \in Workers, w # v, LookedOn(w)
      PROVE  Still /\ job'[v] = job[v]
  BY <1>2 DEF Goes, LookedOn
<1>3. CASE UNCHANGED networkVars
  BY <1>3 DEF networkVars, store, driftStore, Still
<1>4. CASE OthersWrite
  <2>1. Disturbed(job, None)[v] = Idle \/ Disturbed(job, None)[v].alone = FALSE
    BY NextTyped, DisturbedTyped, ImportsAssumption DEF NetTyped
  <2> QED
    BY <1>4, <2>1 DEF OthersWrite, Lone
<1>5. ASSUME NEW w \in Workers, NewRequest(w) \/ Serves(w)
      PROVE  Wrote(w) \/ LookedOn(w)
  <2>1. NewRequest(w) => Wrote(w) \/ LookedOn(w)
    BY LinksEffect, ImportEffect, SchemaEffect, DetectEffect, ConflictEffect DEF NewRequest
  <2>2. Serves(w) => Wrote(w) \/ LookedOn(w)
    BY LinksEffect, ImportEffect, SchemaEffect, DetectEffect, ConflictEffect DEF Serves
  <2> QED
    BY <1>5, <2>1, <2>2
<1>6. CASE NetworkNext
  <2>1. PICK w \in Workers : OthersWrite \/ (Arrives /\ NewRequest(w)) \/ Serves(w)
    BY <1>6 DEF NetworkNext, Arrives
  <2> QED
    BY <1>1, <1>2, <1>4, <1>5, <2>1
<1> QED
  BY <1>3, <1>6

(* What a request of one kind turns into.                                  *)

DetectOps == {"detect", "detect_list", "detect_scan", "detected"}
ImportOps == {"preview", "item", "create", "link", "cleanup", "imported"}
SchemaOps == {"schema_list", "schema", "schema_link"}
ActionOps ==
  {"resolve", "record", "recorded", "ensure", "link_action", "import_action", "rollback",
   "placeholder", "ok", "failed", "stuck"}

LEMMA JobNow ==
  ASSUME NetTyped, NEW w \in Workers, NEW j
  PROVE  Goes(w, j) \/ Writes(w, j) => job'[w] = j
BY DEF NetTyped, JobsTyped, Goes, Writes, Disturbed

LEMMA LinkOps ==
  ASSUME NetTyped, NEW w \in Workers,
         \/ \E r \in Resources, p \in Ids : LinkRequest(w, r, p)
         \/ \E r \in Resources : Unlink(w, r)
         \/ LinkWrite(w)
  PROVE  job'[w].op \in {"linking", "idle"}
<1>1. ASSUME NEW r, NEW p, LinkRequest(w, r, p) PROVE job'[w].op = "linking"
  BY <1>1, JobNow DEF LinkRequest
<1>2. ASSUME NEW r, Unlink(w, r) PROVE job'[w] = Idle
  BY <1>2, JobNow DEF Unlink
<1>3. LinkWrite(w) => job'[w] = Idle
  BY JobNow DEF LinkWrite
<1> QED
  BY <1>1, <1>2, <1>3 DEF Idle

LEMMA RestFields ==
  ASSUME NEW n, NEW k \in ImportRecord(n), NEW r, NEW p
  PROVE  /\ Rest(k).op = (IF Len(k.ids) = 1 THEN "imported" ELSE "item")
         /\ Rest(k).ids = Tail(k.ids) /\ Rest(k).items = k.items /\ Rest(k).made = k.made
         /\ Rest(k).created = k.created /\ Rest(k).linked = k.linked
         /\ Rest(k).failed = k.failed /\ Rest(k).base = k.base /\ Rest(k).alone = k.alone
         /\ Rest(k).conflict = k.conflict /\ Rest(k).account = k.account
BY DEF Rest, ImportRecord

LEMMA SkippedFields ==
  ASSUME NEW n, NEW k \in ImportRecord(n)
  PROVE  /\ Skipped(k).op = (IF Len(k.ids) = 1 THEN "imported" ELSE "item")
         /\ Skipped(k).ids = Tail(k.ids) /\ Skipped(k).items = k.items
         /\ Skipped(k).made = k.made /\ Skipped(k).created = k.created
         /\ Skipped(k).linked = k.linked /\ Skipped(k).failed = TRUE
         /\ Skipped(k).base = k.base /\ Skipped(k).alone = k.alone
         /\ Skipped(k).conflict = k.conflict /\ Skipped(k).account = k.account
<1> DEFINE t == [k EXCEPT !.failed = TRUE]
<1>1. /\ t \in ImportRecord(n) /\ t.ids = k.ids /\ t.items = k.items /\ t.made = k.made
      /\ t.created = k.created /\ t.linked = k.linked /\ t.failed = TRUE /\ t.base = k.base
      /\ t.alone = k.alone /\ t.conflict = k.conflict /\ t.account = k.account
  BY DEF ImportRecord
<1>2. Skipped(k) = Rest(t)
  BY DEF Skipped
<1> HIDE DEF t
<1> QED
  BY <1>1, <1>2, RestFields

LEMMA DoneFields ==
  ASSUME NEW n, NEW k \in ImportRecord(n), Head(k.ids) \in DOMAIN k.made,
         Head(k.ids) \in Resources, None \in Ref(n), NEW p \in Ref(n)
  PROVE  /\ Done(k, p).op = (IF Len(k.ids) = 1 THEN "imported" ELSE "item")
         /\ Done(k, p).ids = Tail(k.ids) /\ Done(k, p).items = k.items
         /\ Done(k, p).made = [k.made EXCEPT ![Head(k.ids)] = p]
         /\ Done(k, p).created = k.created
         /\ Done(k, p).linked = k.linked \cup {Head(k.ids)}
         /\ Done(k, p).failed = k.failed
         /\ Done(k, p).base = k.base /\ Done(k, p).alone = k.alone
         /\ Done(k, p).conflict = k.conflict /\ Done(k, p).account = k.account
<1> DEFINE r == Head(k.ids)
<1> DEFINE t == [k EXCEPT !.made[r] = p, !.linked = @ \cup {r}]
<1>0. [k.made EXCEPT ![r] = p] \in Links(n)
  <2>1. k.made \in Links(n)
    BY DEF ImportRecord
  <2> QED
    BY <2>1, LinksShape
<1> HIDE DEF r
<1>1. /\ t \in ImportRecord(n) /\ t.ids = k.ids /\ t.items = k.items
      /\ t.made = [k.made EXCEPT ![r] = p]
      /\ t.created = k.created /\ t.linked = k.linked \cup {r} /\ t.failed = k.failed
      /\ t.base = k.base /\ t.alone = k.alone /\ t.conflict = k.conflict
      /\ t.account = k.account
  BY <1>0 DEF ImportRecord, r
<1>2. Done(k, p) = Rest(t)
  BY DEF Done, r
<1> HIDE DEF t
<1> QED
  BY <1>1, <1>2, RestFields DEF r

LEMMA DoneRest ==
  ASSUME NEW n, NEW k \in ImportRecord(n), Head(k.ids) \in DOMAIN k.made,
         Head(k.ids) \in Resources, None \in Ref(n), NEW p \in Ref(n)
  PROVE  /\ Done(k, p).ids = Tail(k.ids) /\ Done(k, p).items = k.items
         /\ Done(k, p).created = k.created
         /\ Done(k, p).linked = k.linked \cup {Head(k.ids)}
         /\ Done(k, p).failed = k.failed
         /\ Done(k, p).base = k.base /\ Done(k, p).alone = k.alone
         /\ Done(k, p).conflict = k.conflict /\ Done(k, p).account = k.account
<1>1. /\ Done(k, p).ids = Tail(k.ids) /\ Done(k, p).items = k.items
      /\ Done(k, p).made = [k.made EXCEPT ![Head(k.ids)] = p]
      /\ Done(k, p).created = k.created
      /\ Done(k, p).linked = k.linked \cup {Head(k.ids)}
      /\ Done(k, p).failed = k.failed
      /\ Done(k, p).base = k.base /\ Done(k, p).alone = k.alone
      /\ Done(k, p).conflict = k.conflict /\ Done(k, p).account = k.account
  BY DoneFields
<1> QED
  BY <1>1

LEMMA DoneOp ==
  ASSUME NEW n, NEW k \in ImportRecord(n), NEW p
  PROVE  Done(k, p).op \in {"imported", "item"}
<1> DEFINE r == Head(k.ids)
<1> DEFINE t == [k EXCEPT !.made[r] = p, !.linked = @ \cup {r}]
<1>1. DOMAIN t = DOMAIN k /\ "op" \in DOMAIN k
  BY DEF ImportRecord
<1>2. Done(k, p) = Rest(t)
  BY DEF Done
<1> HIDE DEF t
<1>3. Rest(t).op \in {"imported", "item"}
  BY <1>1 DEF Rest
<1> QED
  BY <1>2, <1>3

LEMMA ImportOpsStay ==
  ASSUME NetTyped, NEW w \in Workers,
         \/ \E a \in AccountIds, ids \in Selections, selected \in {None} \cup Ids :
              ImportRequest(w, a, ids, selected)
         \/ ImportStep(w)
  PROVE  job'[w].op \in ImportOps \cup {"idle"}
<1> DEFINE j == job[w]
<1>1. ASSUME NEW a, NEW ids, NEW selected, ImportRequest(w, a, ids, selected)
      PROVE  job'[w].op \in ImportOps \cup {"idle"}
  BY <1>1, JobNow DEF ImportRequest, ImportBegin, ImportOps
<1>2. ImportPreview(w) => job'[w].op = "item"
  BY JobNow DEF ImportPreview
<1>4. ImportReturn(w) => job'[w] = Idle
  BY JobNow DEF ImportReturn
<1>3. ASSUME ApplySkip(w) \/ ApplyLinkExisting(w) \/ ApplyParent(w) \/ ApplyCreate(w)
             \/ ApplyLink(w) \/ ApplyCleanup(w)
      PROVE  job'[w].op \in ImportOps \cup {"idle"}
  <2>1. j.op \in {"item", "create", "link", "cleanup"}
    BY <1>3 DEF ApplySkip, ApplyLinkExisting, ApplyParent, ApplyCreate, ApplyLink, ApplyCleanup
  <2>2. /\ j \in ImportRecord(next) /\ Head(j.ids) \in Resources /\ DOMAIN j.made = DOMAIN j.items
        /\ Head(j.ids) \in DOMAIN j.items /\ j.items[Head(j.ids)].pool \in Ref(next)
        /\ j.pool \in Ref(next) /\ None \in Ref(next)
    BY <2>1, ImportingShape, NextTyped DEF ImportCore
  <2>3. /\ Skipped(j).op \in ImportOps
        /\ Done(j, j.pool).op \in ImportOps
        /\ Done(j, j.items[Head(j.ids)].pool).op \in ImportOps
    <3>1. Skipped(j).op \in {"imported", "item"}
      BY <2>2, SkippedFields
    <3>2. ASSUME NEW p \in Ref(next) PROVE Done(j, p).op \in {"imported", "item"}
      BY <2>2, DoneOp
    <3> QED
      BY <2>2, <3>1, <3>2 DEF ImportOps
  <2>4. [j EXCEPT !.op = "cleanup"].op = "cleanup"
    BY <2>2 DEF ImportRecord
  <2>5. CASE ApplySkip(w)
    BY <2>3, <2>5, JobNow DEF ApplySkip
  <2>6. CASE ApplyLinkExisting(w)
    BY <2>3, <2>6, JobNow DEF ApplyLinkExisting
  <2>7. CASE ApplyParent(w)
    <3>1. \/ job'[w] = Skipped(j)
          \/ job'[w] = [j EXCEPT !.op = "create", !.parent = ImportParent(j)]
      BY <2>7, JobNow DEF ApplyParent
    <3>2. [j EXCEPT !.op = "create", !.parent = ImportParent(j)].op = "create"
      BY <2>2 DEF ImportRecord
    <3> QED
      BY <2>3, <3>1, <3>2 DEF ImportOps
  <2>8. CASE ApplyCreate(w)
    <3>1. \/ job'[w] = Skipped(j)
          \/ job'[w] = [j EXCEPT !.op = "link", !.pool = next, !.created = @ \cup {next}]
      BY <2>8, JobNow DEF ApplyCreate
    <3>2. [j EXCEPT !.op = "link", !.pool = next, !.created = @ \cup {next}].op = "link"
      BY <2>2 DEF ImportRecord
    <3> QED
      BY <2>3, <3>1, <3>2 DEF ImportOps
  <2>9. CASE ApplyLink(w)
    BY <2>3, <2>4, <2>9, JobNow DEF ApplyLink, ImportOps
  <2>10. CASE ApplyCleanup(w)
    <3>1. Goes(w, Skipped(j)) \/ Writes(w, Skipped([j EXCEPT !.created = @ \ {j.pool}]))
      BY <2>10 DEF ApplyCleanup
    <3>2. [j EXCEPT !.created = @ \ {j.pool}] \in ImportRecord(next)
      BY <2>2 DEF ImportRecord
    <3>3. Skipped([j EXCEPT !.created = @ \ {j.pool}]).op \in ImportOps
      BY <3>2, SkippedFields DEF ImportOps
    <3> QED
      BY <2>3, <3>1, <3>3, JobNow
  <2> QED
    BY <1>3, <2>5, <2>6, <2>7, <2>8, <2>9, <2>10
<1> QED
  BY <1>1, <1>2, <1>3, <1>4 DEF ImportStep, ImportOps, Idle

LEMMA SchemaOpsStay ==
  ASSUME NetTyped, NEW w \in Workers,
         (\E a \in AccountIds : SchemaImportRequest(w, a)) \/ SchemaImportStep(w)
  PROVE  job'[w].op \in SchemaOps \cup {"idle"}
<1>1. ASSUME NEW a, SchemaImportRequest(w, a)
      PROVE  job'[w].op \in SchemaOps \cup {"idle"}
  BY <1>1, JobNow DEF SchemaImportRequest, SchemaOps
<1>2. SchemaImportList(w) => job'[w].op \in SchemaOps \cup {"idle"}
  BY JobNow DEF SchemaImportList, SchemaOps
<1>3. ASSUME SchemaImportSkip(w) \/ SchemaImportItem(w) \/ SchemaImportLink(w)
      PROVE  job'[w].op \in SchemaOps \cup {"idle"}
  <2>1. job[w] \in SchemaRecord(next)
    BY <1>3, JobShape DEF SchemaImportSkip, SchemaImportItem, SchemaImportLink, Shapes,
                          SchemaType
  <2>2. ASSUME NEW k \in SchemaRecord(next), NEW r, NEW p
        PROVE  SchemaRest(k, r, p).op \in SchemaOps \cup {"idle"}
    BY DEF SchemaRest, SchemaRecord, Idle, SchemaOps
  <2>3. ASSUME NEW k, NEW r, NEW p, k.op = "schema_link", DOMAIN k = DOMAIN job[w]
        PROVE  SchemaRest(k, r, p).op \in SchemaOps \cup {"idle"}
    BY <2>1, <2>3 DEF SchemaRest, SchemaRecord, Idle, SchemaOps
  <2>4. CASE SchemaImportSkip(w)
    BY <2>1, <2>2, <2>4, JobNow DEF SchemaImportSkip
  <2>5. CASE SchemaImportItem(w)
    <3>1. \/ \E r, p : Goes(w, SchemaRest(job[w], r, p)) \/ Writes(w, SchemaRest(job[w], r, p))
          \/ Writes(w, [job[w] EXCEPT !.op = "schema_link", !.pool = next])
      BY <2>5 DEF SchemaImportItem
    <3>2. [job[w] EXCEPT !.op = "schema_link", !.pool = next].op = "schema_link"
      BY <2>1 DEF SchemaRecord
    <3> QED
      BY <2>1, <2>2, <3>1, <3>2, JobNow DEF SchemaOps
  <2>6. CASE SchemaImportLink(w)
    <3>1. job[w].op = "schema_link"
      BY <2>6 DEF SchemaImportLink
    <3>2. \E listed, r, p :
            \/ Goes(w, SchemaRest([job[w] EXCEPT !.listed = listed], r, p))
            \/ Writes(w, SchemaRest([job[w] EXCEPT !.listed = listed], r, p))
      BY <2>6 DEF SchemaImportLink
    <3>3. ASSUME NEW listed
          PROVE  /\ [job[w] EXCEPT !.listed = listed].op = "schema_link"
                 /\ DOMAIN [job[w] EXCEPT !.listed = listed] = DOMAIN job[w]
      BY <2>1, <3>1 DEF SchemaRecord
    <3> QED
      BY <2>3, <3>2, <3>3, JobNow
  <2> QED
    BY <1>3, <2>4, <2>5, <2>6
<1> QED
  BY <1>1, <1>2, <1>3 DEF SchemaImportStep

LEMMA ConflictOpsStay ==
  ASSUME NetTyped, NEW w \in Workers
  PROVE  /\ (\E c : ConflictRequest(w, c)) => job'[w].op \in ActionOps
         /\ ConflictStep(w) => job'[w].op \in ActionOps \cup {"preview", "idle"}
         /\ ConflictStep(w) /\ ~ ImportAction(w) => job'[w].op \in ActionOps \cup {"idle"}
<1>1. ASSUME NEW c, ConflictRequest(w, c) PROVE job'[w].op \in ActionOps
  <2>1. ASSUME NEW op, NEW kind, NEW decision, NEW r, NEW p, NEW ids, NEW selected, NEW override
        PROVE  /\ Work(op, c, kind, decision).op = op
               /\ [Work(op, c, kind, decision) EXCEPT !.r = r, !.pool = p].op = op
               /\ [Work(op, c, kind, decision) EXCEPT !.ids = ids, !.selected = selected,
                                                     !.override = override].op = op
    BY DEF Work
  <2>2. CASE \E decision : ResolveRequest(w, c, decision)
    BY <2>1, <2>2, JobNow DEF ResolveRequest, ActionOps
  <2>3. ASSUME NEW r, NEW p, NEW override, LinkActionRequest(w, c, r, p, override)
        PROVE  job'[w].op \in ActionOps
    <3>1. job'[w] = [Work("ensure", c, "link_action", "link") EXCEPT !.r = r, !.pool = p]
      BY <2>3, JobNow DEF LinkActionRequest
    <3> QED
      BY <2>1, <3>1 DEF ActionOps
  <2>4. ASSUME NEW ids, NEW selected, NEW override,
               ImportActionRequest(w, c, ids, selected, override)
        PROVE  job'[w].op \in ActionOps
    <3>1. job'[w] = [Work("ensure", c, "import_action", "import")
                       EXCEPT !.ids = ids, !.selected = selected, !.override = override]
      BY <2>4, JobNow DEF ImportActionRequest
    <3> QED
      BY <2>1, <3>1 DEF ActionOps
  <2>5. CASE PlaceholderRequest(w, c)
    BY <2>1, <2>5, JobNow DEF PlaceholderRequest, ActionOps
  <2> QED
    BY <1>1, <2>2, <2>3, <2>4, <2>5 DEF ConflictRequest
<1>2. ASSUME ConflictStep(w)
      PROVE  /\ job'[w].op \in ActionOps \cup {"preview", "idle"}
             /\ ~ ImportAction(w) => job'[w].op \in ActionOps \cup {"idle"}
  <2>1. CASE ImportOutcome(w)
    <3>1. job[w] \in ImportRecord(next) /\ job[w].conflict # None
      BY <2>1, JobShape DEF ImportOutcome, Shapes, ImportType
    <3>2. job[w].conflict \in ActionRecord(next)
      BY <3>1 DEF ImportRecord, CallerType, ActionType
    <3>3. \E op \in {"rollback", "resolve"} :
            job'[w] = [[job[w].conflict EXCEPT !.linked = job[w].linked,
                                               !.created = job[w].created,
                                               !.alone = job[w].alone] EXCEPT !.op = op]
      BY <2>1, JobNow DEF ImportOutcome
    <3> QED
      BY <3>2, <3>3 DEF ActionRecord, ActionOps
  <2>2. CASE ActionReturn(w)
    BY <2>2, JobNow DEF ActionReturn, Idle
  <2>3. CASE ~ ImportOutcome(w) /\ ~ ActionReturn(w)
    <3>1. job[w].op \in ActionOps
      BY <1>2, <2>3 DEF ConflictStep, ResolveUpdate, ResolveCreate, ResolveAgain, EnsureRecord,
         LinkAction, RollbackLink, ImportAction, RollbackUnlink, RollbackPool, RollbackEnd,
         PlaceholderCreate, ActionOps
    <3>2. job[w] \in ActionRecord(next) /\ ActionFacts(job[w])
      BY <3>1, ActionShape DEF ActionOps
    <3>3. /\ \A op : [job[w] EXCEPT !.op = op].op = op
          /\ \A S : [job[w] EXCEPT !.linked = S].op = job[w].op
          /\ \A S, b : [[job[w] EXCEPT !.linked = S] EXCEPT !.stuck = b].op = job[w].op
          /\ \A S : [job[w] EXCEPT !.created = S].op = job[w].op
          /\ \A S, b : [[job[w] EXCEPT !.created = S] EXCEPT !.stuck = b].op = job[w].op
      BY <3>2 DEF ActionRecord
    <3>4. CASE ResolveUpdate(w)
      <4>1. \E op \in ActionOps : job'[w] = [job[w] EXCEPT !.op = op]
        BY <3>4, JobNow DEF ResolveUpdate, ActionOps
      <4> QED
        BY <3>3, <4>1
    <3>5. CASE ResolveCreate(w)
      <4>1. \E op \in ActionOps : job'[w] = [job[w] EXCEPT !.op = op]
        BY <3>5, JobNow DEF ResolveCreate, ActionOps
      <4> QED
        BY <3>3, <4>1
    <3>6. CASE ResolveAgain(w)
      <4>1. \E op \in ActionOps : job'[w] = [job[w] EXCEPT !.op = op]
        BY <3>6, JobNow DEF ResolveAgain, ActionOps
      <4> QED
        BY <3>3, <4>1
    <3>7. CASE LinkAction(w)
      <4>1. \E op \in ActionOps : job'[w] = [job[w] EXCEPT !.op = op]
        BY <3>7, JobNow DEF LinkAction, ActionOps
      <4> QED
        BY <3>3, <4>1
    <3>8. CASE RollbackLink(w)
      <4>1. \E op \in ActionOps : job'[w] = [job[w] EXCEPT !.op = op]
        BY <3>8, JobNow DEF RollbackLink, ActionOps
      <4> QED
        BY <3>3, <4>1
    <3>9. CASE RollbackEnd(w)
      <4>1. \E op \in ActionOps : job'[w] = [job[w] EXCEPT !.op = op]
        BY <3>9, JobNow DEF RollbackEnd, ActionOps
      <4> QED
        BY <3>3, <4>1
    <3>10. CASE PlaceholderCreate(w)
      <4>1. \E op \in ActionOps : job'[w] = [job[w] EXCEPT !.op = op]
        BY <3>10, JobNow DEF PlaceholderCreate, ActionOps
      <4> QED
        BY <3>3, <4>1
    <3>11. CASE EnsureRecord(w)
      <4>1. job[w].kind \in ActionOps
        BY <3>2, <3>11 DEF EnsureRecord, ActionFacts, ActionOps
      <4>2. \E op \in ActionOps : job'[w] = [job[w] EXCEPT !.op = op]
        BY <3>11, <4>1, JobNow DEF EnsureRecord, ActionOps
      <4> QED
        BY <3>3, <4>2
    <3>12. CASE RollbackUnlink(w)
      <4>1. PICK S : \/ job'[w] = [job[w] EXCEPT !.linked = S]
                    \/ job'[w] = [[job[w] EXCEPT !.linked = S] EXCEPT !.stuck = TRUE]
        BY <3>12, JobNow DEF RollbackUnlink
      <4>2. job'[w].op = job[w].op
        <5>1. /\ [job[w] EXCEPT !.linked = S].op = job[w].op
              /\ [[job[w] EXCEPT !.linked = S] EXCEPT !.stuck = TRUE].op = job[w].op
          BY <3>2 DEF ActionRecord
        <5> QED
          BY <4>1, <5>1
      <4> QED
        BY <3>1, <4>2
    <3>13. CASE RollbackPool(w)
      <4>1. PICK S : \/ job'[w] = [job[w] EXCEPT !.created = S]
                    \/ job'[w] = [[job[w] EXCEPT !.created = S] EXCEPT !.stuck = TRUE]
        BY <3>13, JobNow DEF RollbackPool
      <4>2. job'[w].op = job[w].op
        <5>1. /\ [job[w] EXCEPT !.created = S].op = job[w].op
              /\ [[job[w] EXCEPT !.created = S] EXCEPT !.stuck = TRUE].op = job[w].op
          BY <3>2 DEF ActionRecord
        <5> QED
          BY <4>1, <5>1
      <4> QED
        BY <3>1, <4>2
    <3>14. CASE ImportAction(w)
      <4>1. \/ job'[w] = [job[w] EXCEPT !.op = "failed"]
            \/ job'[w].op = "preview"
        BY <3>14, JobNow DEF ImportAction, ImportBegin
      <4>2. [job[w] EXCEPT !.op = "failed"].op = "failed"
        BY <3>2 DEF ActionRecord
      <4> QED
        BY <3>14, <4>1, <4>2 DEF ActionOps
    <3> QED
      BY <1>2, <2>3, <3>4, <3>5, <3>6, <3>7, <3>8, <3>9, <3>10, <3>11, <3>12, <3>13, <3>14
         DEF ConflictStep
  <2> QED
    BY <2>1, <2>2, <2>3
<1> QED
  BY <1>1, <1>2

LEMMA DetectOpsStay ==
  ASSUME NetTyped, NEW w \in Workers, (\E S : DetectRequest(w, S)) \/ DetectStep(w)
  PROVE  job'[w].op \in DetectOps \cup {"idle"}
<1>1. ASSUME NEW S, DetectRequest(w, S) PROVE job'[w].op = "detect"
  BY <1>1, JobNow DEF DetectRequest
<1>2. ASSUME DetectResource(w) \/ DetectPool(w)
      PROVE  job'[w].op \in DetectOps \cup {"idle"}
  <2>1. job[w] \in DetectScanType(next)
    BY <1>2, JobShape DEF DetectResource, DetectPool, Shapes
  <2> DEFINE k == [job[w] EXCEPT !.scan = @ \ {FirstOf(job[w].scan)}]
  <2> DEFINE l == [job[w] EXCEPT !.orphans = @ \ {FirstOf(job[w].orphans)}]
  <2>2. k.op = "detect_scan" /\ l.op = "detect_scan"
    BY <2>1 DEF DetectScanType
  <2>3. DetectResource(w) => job'[w] = Idle \/ job'[w] = k
    BY JobNow DEF DetectResource, Report
  <2>4. DetectPool(w) => job'[w] = Idle \/ job'[w] = l
    BY JobNow DEF DetectPool, Report
  <2> HIDE DEF k, l
  <2> QED
    BY <1>2, <2>2, <2>3, <2>4 DEF Idle, DetectOps
<1>3. DetectClear(w) => job'[w].op \in {"detect_list", "idle"}
  BY JobNow DEF DetectClear, Idle
<1>4. DetectList(w) => job'[w].op = "detect_scan"
  BY JobNow DEF DetectList
<1>5. DetectNext(w) => job'[w].op \in {"detected", "detect"}
  BY JobNow DEF DetectNext
<1>6. DetectReturn(w) => job'[w] = Idle
  BY JobNow DEF DetectReturn
<1> QED
  BY <1>1, <1>2, <1>3, <1>4, <1>5, <1>6 DEF DetectStep, DetectOps, Idle

-----------------------------------------------------------------------------
(* Detections. *)
(* What an undisturbed detection has established.                          *)

Reported(a) == Open({d \in drifts : d.account = a})

Named(S) == {<<d.kind, d.subject>> : d \in S}

Once(S) == \A d, e \in S : d.kind = e.kind /\ d.subject = e.subject => d = e

AccountExact(a) == Named(Reported(a)) = Differences(a) /\ Once(Reported(a))

Pending(j) ==
  {<<"unmanaged", r>> : r \in j.scan} \cup {<<"cidr_mismatch", r>> : r \in j.scan}
  \cup {<<"orphaned_pool", i>> : i \in j.orphans}

Detecting(j) ==
  /\ j.listed = ListPools
  /\ j.todo \subseteq j.accounts
  /\ \A a \in j.accounts \ j.todo : AccountExact(a)

ScanFound(j) ==
  /\ j.links = [r \in Watched(j.account) |-> res[r].pool]
  /\ \A r \in j.scan : r \in Watched(j.account) /\ Data[r].cidr # NoCIDR
  /\ \A i \in j.orphans : <<"orphaned_pool", i>> \in Differences(j.account)
  /\ Named(Reported(j.account)) = Differences(j.account) \ Pending(j)
  /\ Once(Reported(j.account))

DetectSound(j) ==
  /\ j.op \in {"detect", "detect_list", "detect_scan"} => Detecting(j)
  /\ j.op \in {"detect_list", "detect_scan"} => j.account \in j.todo
  /\ j.op = "detect_list" => Reported(j.account) = {}
  /\ j.op = "detect_scan" => ScanFound(j)
  /\ j.op = "detected" => \A a \in j.accounts : AccountExact(a)

DetectInv == \A w \in Workers : Lone(w) => DetectSound(job[w])

LEMMA ViewKept ==
  ASSUME UNCHANGED <<pools, next, res>>
  PROVE  /\ ListPools' = ListPools
         /\ \A a : Watched(a)' = Watched(a) /\ Differences(a)' = Differences(a)
         /\ \A i : Live(i)' <=> Live(i)
         /\ Ids' = Ids
<1>1. Ids' = Ids /\ \A i : Live(i)' <=> Live(i)
  BY DEF Ids, Live
<1>2. ListPools' = ListPools
  BY <1>1 DEF ListPools
<1>3. \A a : Watched(a)' = Watched(a)
  BY DEF Watched
<1>4. ASSUME NEW a PROVE Differences(a)' = Differences(a)
  BY <1>1, <1>3 DEF Differences, Unlinked
<1> QED
  BY <1>1, <1>2, <1>3, <1>4

LEMMA ExactKept ==
  ASSUME NEW a, Differences(a)' = Differences(a), Reported(a)' = Reported(a)
  PROVE  AccountExact(a) => AccountExact(a)'
BY DEF AccountExact

LEMMA DetectKept ==
  ASSUME NetTyped, NEW w \in Workers, DetectSound(job[w]), Still, job'[w] = job[w]
  PROVE  DetectSound(job[w])'
<1> DEFINE j == job[w]
<1>1. /\ ListPools' = ListPools
      /\ \A a : Watched(a)' = Watched(a) /\ Differences(a)' = Differences(a)
  BY ViewKept DEF Still
<1>2. \A a : Reported(a)' = Reported(a)
  BY DEF Reported, Open, Still
<1>3. \A a : AccountExact(a)' <=> AccountExact(a)
  BY <1>1, <1>2 DEF AccountExact
<1>4. Detecting(j) => Detecting(j)'
  BY <1>1, <1>3 DEF Detecting
<1>5. ScanFound(j) => ScanFound(j)'
  <2>1. Pending(j)' = Pending(j)
    BY DEF Pending
  <2>2. [r \in Watched(j.account) |-> res[r].pool]' = [r \in Watched(j.account) |-> res[r].pool]
    BY <1>1 DEF Still
  <2> QED
    BY <1>1, <1>2, <2>1, <2>2 DEF ScanFound
<1> QED
  BY <1>2, <1>3, <1>4, <1>5 DEF DetectSound

LEMMA OtherOps ==
  ASSUME NEW w \in Workers, job'[w].op \notin DetectOps
  PROVE  DetectSound(job[w])'
BY DEF DetectSound, DetectOps

LEMMA DetectRequestSound ==
  ASSUME NetTyped, NEW w \in Workers, NEW S, DetectRequest(w, S)
  PROVE  DetectSound(job[w])'
<1> DEFINE targets == {a \in AccountIds : LiveAccount(a) /\ a \in S}
<1> DEFINE k == [op |-> "detect", run |-> detections + 1, accounts |-> targets,
                 todo |-> targets, listed |-> ListPools, alone |-> TRUE]
<1>1. job'[w] = k /\ UNCHANGED <<store, res>>
  BY JobNow DEF DetectRequest
<1>2. ListPools' = ListPools
  BY <1>1, ViewKept DEF store
<1>3. k.op = "detect" /\ k.accounts = k.todo /\ k.listed = ListPools
  OBVIOUS
<1> HIDE DEF k
<1> QED
  BY <1>1, <1>2, <1>3 DEF DetectSound, Detecting

LEMMA DetectClearSound ==
  ASSUME NetTyped, NEW w \in Workers, DetectClear(w), DetectSound(job[w])
  PROVE  DetectSound(job[w])'
<1> DEFINE j == job[w]
<1> DEFINE k(a) == [op |-> "detect_list", run |-> j.run, accounts |-> j.accounts,
                    todo |-> j.todo, listed |-> j.listed, account |-> a,
                    alone |-> j.alone]
<1>1. j.op = "detect" /\ UNCHANGED <<store, res>>
  BY DEF DetectClear
<1>2. CASE job'[w] = Idle
  BY <1>2, OtherOps DEF Idle, DetectOps
<1>3. ASSUME NEW a \in j.todo, DeleteOpenForAccount(a), job'[w] = k(a)
      PROVE  DetectSound(job[w])'
  <2>1. Detecting(j)
    BY <1>1 DEF DetectSound
  <2>2. ListPools' = ListPools /\ \A b : Differences(b)' = Differences(b)
    BY <1>1, ViewKept DEF store
  <2>3. Reported(a)' = {}
    BY <1>3 DEF Reported, Open, DeleteOpenForAccount, Survives
  <2>4. ASSUME NEW b, b # a PROVE Reported(b)' = Reported(b)
    BY <1>3, <2>4 DEF Reported, Open, DeleteOpenForAccount, Survives
  <2>5. ASSUME NEW b \in j.accounts \ j.todo PROVE AccountExact(b)'
    <3>1. b # a
      OBVIOUS
    <3> QED
      BY <2>1, <2>2, <2>4, <3>1, ExactKept DEF Detecting
  <2>6. /\ k(a).op = "detect_list" /\ k(a).accounts = j.accounts /\ k(a).todo = j.todo
        /\ k(a).listed = j.listed /\ k(a).account = a
    OBVIOUS
  <2> HIDE DEF k
  <2>7. Detecting(job[w])'
    BY <1>3, <2>1, <2>2, <2>5, <2>6 DEF Detecting
  <2> QED
    BY <1>3, <2>3, <2>6, <2>7 DEF DetectSound
<1> QED
  BY <1>2, <1>3, JobNow DEF DetectClear

LEMMA DetectListSound ==
  ASSUME NetTyped, NEW w \in Workers, DetectList(w), DetectSound(job[w])
  PROVE  DetectSound(job[w])'
<1> DEFINE j == job[w]
<1> DEFINE shown == {r \in Resources : Data[r].account = j.account /\ res[r].active}
<1> DEFINE owned == {i \in DOMAIN j.listed : j.listed[i] = j.account /\ pools[i].meta.tag # None}
<1> DEFINE k == [op |-> "detect_scan", run |-> j.run, accounts |-> j.accounts,
                 todo |-> j.todo, listed |-> j.listed, account |-> j.account,
                 links |-> [r \in shown |-> res[r].pool],
                 scan |-> {r \in shown : Data[r].cidr # NoCIDR},
                 orphans |-> {i \in owned : \A r \in shown : res[r].pool # i},
                 alone |-> j.alone]
<1>1. j.op = "detect_list" /\ job'[w] = k /\ UNCHANGED <<store, res, driftStore>>
  BY JobNow DEF DetectList
<1>2. Detecting(j) /\ j.account \in j.todo /\ Reported(j.account) = {}
  BY <1>1 DEF DetectSound
<1>3. /\ k.op = "detect_scan" /\ k.accounts = j.accounts /\ k.todo = j.todo
      /\ k.listed = j.listed /\ k.account = j.account
      /\ k.links = [r \in shown |-> res[r].pool]
      /\ k.scan = {r \in shown : Data[r].cidr # NoCIDR}
      /\ k.orphans = {i \in owned : \A r \in shown : res[r].pool # i}
  OBVIOUS
<1>4. shown = Watched(j.account)
  BY DEF Watched
<1>5. DOMAIN j.listed = {i \in Ids : Live(i)}
      /\ \A i \in DOMAIN j.listed : j.listed[i] = pools[i].account
  BY <1>2 DEF Detecting, ListPools, Live
<1>6. k.orphans = {i \in Ids : /\ Live(i) /\ pools[i].account = j.account
                               /\ pools[i].meta.tag # None
                               /\ \A r \in Watched(j.account) : res[r].pool # i}
  BY <1>3, <1>4, <1>5
<1> HIDE DEF k, shown, owned
<1>7. Differences(j.account) \subseteq Pending(k)
  BY <1>3, <1>4, <1>6 DEF Differences, Pending
<1>8. \A i \in k.orphans : <<"orphaned_pool", i>> \in Differences(j.account)
  BY <1>6 DEF Differences
<1>9. ScanFound(k)
  <2>1. Named({}) = {} /\ Once({})
    BY DEF Named, Once
  <2> QED
    BY <1>2, <1>3, <1>4, <1>7, <1>8, <2>1 DEF ScanFound
<1>10. Detecting(k)
  BY <1>2, <1>3 DEF Detecting
<1>11. DetectSound(k)
  BY <1>2, <1>3, <1>9, <1>10 DEF DetectSound
<1>12. /\ ListPools' = ListPools
       /\ \A a : Watched(a)' = Watched(a) /\ Differences(a)' = Differences(a)
  BY <1>1, ViewKept DEF store
<1>13. \A a : Reported(a)' = Reported(a)
  BY <1>1 DEF Reported, Open, driftStore
<1>14. \A a : AccountExact(a)' <=> AccountExact(a)
  BY <1>12, <1>13 DEF AccountExact
<1>15. job'[w].listed = ListPools' /\ job'[w].todo \subseteq job'[w].accounts
       /\ \A a \in job'[w].accounts \ job'[w].todo : AccountExact(a)'
  BY <1>1, <1>10, <1>12, <1>14 DEF Detecting
<1>16. [r \in Watched(job[w].account) |-> res[r].pool]' = [r \in Watched(k.account) |-> res[r].pool]
  BY <1>1, <1>12
<1>17. ScanFound(job[w])'
  <2>1. Pending(job[w])' = Pending(k)
    BY <1>1 DEF Pending
  <2> QED
    BY <1>1, <1>9, <1>12, <1>13, <1>16, <2>1 DEF ScanFound
<1>18. Detecting(job[w])'
  BY <1>15 DEF Detecting
<1> QED
  BY <1>1, <1>2, <1>3, <1>17, <1>18 DEF DetectSound

LEMMA DetectNextSound ==
  ASSUME NetTyped, NEW w \in Workers, DetectNext(w), DetectSound(job[w])
  PROVE  DetectSound(job[w])'
<1> DEFINE j == job[w]
<1> DEFINE todo == j.todo \ {j.account}
<1> DEFINE k == [op |-> "detected", accounts |-> j.accounts, alone |-> j.alone]
<1> DEFINE l == [op |-> "detect", run |-> j.run, accounts |-> j.accounts,
                 todo |-> todo, listed |-> j.listed, alone |-> j.alone]
<1>1. /\ j.op = "detect_scan" /\ j.scan = {} /\ j.orphans = {}
      /\ UNCHANGED <<store, res, driftStore>>
      /\ job'[w] = IF todo = {} THEN k ELSE l
  BY JobNow DEF DetectNext
<1>2. Detecting(j) /\ j.account \in j.todo /\ ScanFound(j)
  BY <1>1 DEF DetectSound
<1>3. AccountExact(j.account)
  <2>1. Pending(j) = {}
    BY <1>1 DEF Pending
  <2> QED
    BY <1>2, <2>1 DEF ScanFound, AccountExact
<1>4. ListPools' = ListPools /\ \A a : Differences(a)' = Differences(a)
  BY <1>1, ViewKept DEF store
<1>5. \A a : Reported(a)' = Reported(a)
  BY <1>1 DEF Reported, Open, driftStore
<1>6. \A a : AccountExact(a) => AccountExact(a)'
  BY <1>4, <1>5, ExactKept
<1>7. \A a \in j.accounts \ todo : AccountExact(a)'
  BY <1>2, <1>3, <1>6 DEF Detecting
<1>8. /\ k.op = "detected" /\ k.accounts = j.accounts
      /\ l.op = "detect" /\ l.accounts = j.accounts /\ l.todo = todo /\ l.listed = j.listed
  OBVIOUS
<1> HIDE DEF k, l
<1>9. CASE todo = {}
  BY <1>1, <1>7, <1>8, <1>9 DEF DetectSound
<1>10. CASE todo # {}
  <2>1. Detecting(job[w])'
    BY <1>1, <1>2, <1>4, <1>7, <1>8, <1>10 DEF Detecting
  <2> QED
    BY <1>1, <1>8, <1>10, <2>1 DEF DetectSound
<1> QED
  BY <1>9, <1>10

\* then: the scan j with one resource or pool done
ScansOn(then, j) ==
  /\ then.op = j.op /\ then.accounts = j.accounts /\ then.todo = j.todo
  /\ then.listed = j.listed /\ then.account = j.account /\ then.links = j.links
  /\ then.scan \subseteq j.scan /\ then.orphans \subseteq j.orphans

LEMMA ScanSound ==
  ASSUME NetTyped, NEW w \in Workers, job[w].op = "detect_scan", DetectSound(job[w]),
         UNCHANGED <<store, res>>, NEW then, job'[w] = then, ScansOn(then, job[w]),
         NEW a, a = job[w].account,
         \A b : b # a => Reported(b)' = Reported(b),
         Named(Reported(a)') = Differences(a) \ Pending(then), Once(Reported(a)')
  PROVE  DetectSound(job[w])'
<1> DEFINE j == job[w]
<1>1. Detecting(j) /\ a \in j.todo /\ ScanFound(j)
  BY DEF DetectSound
<1>2. /\ ListPools' = ListPools
      /\ \A b : Watched(b)' = Watched(b) /\ Differences(b)' = Differences(b)
  BY ViewKept DEF store
<1>3. \A b \in j.accounts \ j.todo : AccountExact(b)'
  <2> SUFFICES ASSUME NEW b \in j.accounts \ j.todo PROVE AccountExact(b)'
    OBVIOUS
  <2>1. b # a
    BY <1>1
  <2> QED
    BY <1>1, <1>2, <2>1, ExactKept DEF Detecting
<1>4. Detecting(job[w])'
  BY <1>1, <1>2, <1>3 DEF Detecting, ScansOn
<1>5. [r \in Watched(a) |-> res[r].pool]' = [r \in Watched(a) |-> res[r].pool]
  BY <1>2
<1>6. job'[w].account = a /\ job'[w].links = j.links
  BY DEF ScansOn
<1>7. Pending(job[w])' = Pending(then)
  BY DEF Pending
<1>8. Named(Reported(job[w].account))' = Differences(a) \ Pending(then)
      /\ Once(Reported(job[w].account))'
  BY <1>6 DEF Named, Once
<1>9. ScanFound(job[w])'
  BY <1>1, <1>2, <1>5, <1>6, <1>7, <1>8 DEF ScanFound, ScansOn
<1> QED
  BY <1>1, <1>4, <1>9 DEF DetectSound, ScansOn

LEMMA ReportSound ==
  ASSUME NetTyped, NEW w \in Workers, job[w].op = "detect_scan", DetectSound(job[w]),
         UNCHANGED <<store, res>>, NEW then, ScansOn(then, job[w]),
         NEW kind, NEW subject, Report(w, kind, subject, then),
         <<kind, subject>> \in Differences(job[w].account) \cap Pending(job[w]),
         \A x \in Differences(job[w].account) :
           x \in Pending(then) <=> x \in Pending(job[w]) /\ x # <<kind, subject>>
  PROVE  DetectSound(job[w])'
<1>0. PICK a : a = job[w].account
  OBVIOUS
<1>00. PICK run : run = job[w].run
  OBVIOUS
<1> DEFINE d == [run |-> run, kind |-> kind, subject |-> subject,
                 account |-> a, status |-> "open"]
<1>1. CASE job'[w] = Idle
  BY <1>1, OtherOps DEF Idle, DetectOps
<1>2. CASE drifts' = drifts \cup {d} /\ job'[w] = then
  <2>1. d.account = a /\ d.status = "open" /\ d.kind = kind /\ d.subject = subject
    OBVIOUS
  <2> HIDE DEF d
  <2>2. Reported(a)' = Reported(a) \cup {d}
    BY <1>2, <2>1 DEF Reported, Open
  <2>3. ASSUME NEW b, b # a PROVE Reported(b)' = Reported(b)
    BY <1>2, <2>1, <2>3 DEF Reported, Open
  <2>4. ScanFound(job[w])
    BY DEF DetectSound
  <2>5. Named(Reported(a) \cup {d}) = Named(Reported(a)) \cup {<<kind, subject>>}
    BY <2>1 DEF Named
  <2>6. Named(Reported(a)) = Differences(a) \ Pending(job[w])
    BY <1>0, <2>4 DEF ScanFound
  <2>7. Named(Reported(a)) \cup {<<kind, subject>>} = Differences(a) \ Pending(then)
    BY <1>0, <2>6
  <2>8. Once(Reported(a) \cup {d})
    <3>1. \A e \in Reported(a) : ~ (e.kind = kind /\ e.subject = subject)
      <4> SUFFICES ASSUME NEW e \in Reported(a), e.kind = kind, e.subject = subject
                   PROVE  FALSE
        OBVIOUS
      <4>1. <<kind, subject>> \in Named(Reported(a))
        BY DEF Named
      <4> QED
        BY <2>6, <4>1
    <3>2. Once(Reported(a))
      BY <1>0, <2>4 DEF ScanFound
    <3> QED
      BY <2>1, <3>1, <3>2 DEF Once
  <2>9. Named(Reported(a)') = Differences(a) \ Pending(then)
    BY <2>2, <2>5, <2>7
  <2>10. Once(Reported(a)')
    BY <2>2, <2>8
  <2>11. job'[w] = then
    BY <1>2
  <2> QED
    BY <1>0, <2>3, <2>9, <2>10, <2>11, ScanSound
<1> QED
  BY <1>0, <1>00, <1>1, <1>2, JobNow DEF Report

LEMMA PassedSound ==
  ASSUME NetTyped, NEW w \in Workers, job[w].op = "detect_scan", DetectSound(job[w]),
         UNCHANGED <<store, res, driftStore>>, NEW then, ScansOn(then, job[w]), job'[w] = then,
         \A x \in Differences(job[w].account) : x \in Pending(then) <=> x \in Pending(job[w])
  PROVE  DetectSound(job[w])'
<1>0. PICK a : a = job[w].account
  OBVIOUS
<1>1. \A b : Reported(b)' = Reported(b)
  BY DEF Reported, Open, driftStore
<1>2. ScanFound(job[w])
  BY DEF DetectSound
<1>3. Named(Reported(a)') = Differences(a) \ Pending(then) /\ Once(Reported(a)')
  BY <1>0, <1>1, <1>2 DEF ScanFound
<1> QED
  BY <1>0, <1>1, <1>3, ScanSound

LEMMA DetectResourceSound ==
  ASSUME NetTyped, NEW w \in Workers, DetectResource(w), DetectSound(job[w])
  PROVE  DetectSound(job[w])'
<1> DEFINE j == job[w]
<1> DEFINE r == FirstOf(j.scan)
<1> DEFINE p == j.links[r]
<1> DEFINE then == [j EXCEPT !.scan = @ \ {r}]
<1>1. /\ j.op = "detect_scan" /\ j.scan # {} /\ UNCHANGED <<store, res>>
      /\ IF p = None THEN Report(w, "unmanaged", r, then)
         ELSE IF Live(p) /\ ~ cidrEqual(Data[r].cidr, pools[p].cidr)
           THEN Report(w, "cidr_mismatch", r, then)
         ELSE Goes(w, then) /\ UNCHANGED driftStore
  BY DEF DetectResource
<1>2. j \in DetectScanType(next) /\ r \in j.scan
  <2>1. j \in DetectScanType(next)
    BY <1>1, JobShape DEF Shapes
  <2>2. j.scan \in SUBSET Nat
    BY <2>1, Discovered DEF DetectScanType
  <2> QED
    BY <1>1, <2>1, <2>2, FirstOfType
<1> HIDE DEF r
<1>3. ScanFound(j)
  BY <1>1 DEF DetectSound
<1>4. r \in Watched(j.account) /\ Data[r].cidr # NoCIDR /\ p = res[r].pool
  BY <1>2, <1>3 DEF ScanFound
<1>5. /\ then.scan = j.scan \ {r} /\ then.orphans = j.orphans /\ ScansOn(then, j)
  BY <1>2 DEF DetectScanType, ScansOn
<1> HIDE DEF then, p
<1>6. \A x : x \in Pending(then) <=> /\ x \in Pending(j)
                                    /\ x # <<"unmanaged", r>> /\ x # <<"cidr_mismatch", r>>
  BY <1>5 DEF Pending
<1>7. <<"unmanaged", r>> \in Pending(j) /\ <<"cidr_mismatch", r>> \in Pending(j)
  BY <1>2 DEF Pending
<1>8. <<"unmanaged", r>> \in Differences(j.account) <=> p = None
  BY <1>4 DEF Differences, Unlinked
<1>9. <<"cidr_mismatch", r>> \in Differences(j.account) <=>
        p # None /\ Live(p) /\ ~ cidrEqual(Data[r].cidr, pools[p].cidr)
  BY <1>4 DEF Differences, Unlinked
<1>10. CASE p = None
  BY <1>1, <1>5, <1>6, <1>7, <1>8, <1>9, <1>10, ReportSound
<1>11. CASE p # None /\ Live(p) /\ ~ cidrEqual(Data[r].cidr, pools[p].cidr)
  BY <1>1, <1>5, <1>6, <1>7, <1>8, <1>9, <1>11, ReportSound
<1>12. CASE p # None /\ ~ (Live(p) /\ ~ cidrEqual(Data[r].cidr, pools[p].cidr))
  <2>1. job'[w] = then /\ UNCHANGED driftStore
    BY <1>1, <1>12, JobNow
  <2> QED
    BY <1>1, <1>5, <1>6, <1>8, <1>9, <1>12, <2>1, PassedSound
<1> QED
  BY <1>10, <1>11, <1>12

LEMMA DetectPoolSound ==
  ASSUME NetTyped, NEW w \in Workers, DetectPool(w), DetectSound(job[w])
  PROVE  DetectSound(job[w])'
<1> DEFINE j == job[w]
<1> DEFINE i == FirstOf(j.orphans)
<1> DEFINE then == [j EXCEPT !.orphans = @ \ {i}]
<1>1. /\ j.op = "detect_scan" /\ j.orphans # {} /\ UNCHANGED <<store, res>>
      /\ Report(w, "orphaned_pool", i, then)
  BY DEF DetectPool
<1>2. j \in DetectScanType(next) /\ i \in j.orphans
  <2>1. j \in DetectScanType(next)
    BY <1>1, JobShape DEF Shapes
  <2>2. j.orphans \in SUBSET Nat
    BY <2>1 DEF DetectScanType
  <2> QED
    BY <1>1, <2>1, <2>2, FirstOfType
<1> HIDE DEF i
<1>3. <<"orphaned_pool", i>> \in Differences(j.account)
  BY <1>1, <1>2 DEF DetectSound, ScanFound
<1>4. then.scan = j.scan /\ then.orphans = j.orphans \ {i} /\ ScansOn(then, j)
  BY <1>2 DEF DetectScanType, ScansOn
<1> HIDE DEF then
<1>5. \A x : x \in Pending(then) <=> x \in Pending(j) /\ x # <<"orphaned_pool", i>>
  BY <1>4 DEF Pending
<1>6. <<"orphaned_pool", i>> \in Pending(j)
  BY <1>2 DEF Pending
<1> QED
  BY <1>1, <1>3, <1>4, <1>5, <1>6, ReportSound

LEMMA DetectStepSound ==
  ASSUME NetTyped, NEW w \in Workers, DetectStep(w), DetectSound(job[w])
  PROVE  DetectSound(job[w])'
<1>1. CASE DetectReturn(w)
  <2>1. job'[w] = Idle
    BY <1>1, JobNow DEF DetectReturn
  <2> QED
    BY <2>1, OtherOps DEF Idle, DetectOps
<1> QED
  BY <1>1, DetectClearSound, DetectListSound, DetectResourceSound, DetectPoolSound,
     DetectNextSound DEF DetectStep

\* A detection that is alone has been so
LEMMA DetectStayed ==
  ASSUME NetTyped, NEW w \in Workers, DetectStep(w), Lone(w)'
  PROVE  Lone(w)
<1> DEFINE j == job[w]
<1>1. j # Idle
  BY DEF DetectStep, DetectClear, DetectList, DetectResource, DetectPool, DetectNext,
         DetectReturn, Idle
<1>2. CASE DetectClear(w)
  <2>1. job'[w] = Idle \/ job'[w].alone = j.alone
    BY <1>2, JobNow DEF DetectClear
  <2> QED
    BY <1>1, <2>1 DEF Lone
<1>3. CASE DetectList(w)
  <2>1. job'[w].alone = j.alone
    BY <1>3, JobNow DEF DetectList
  <2> QED
    BY <1>1, <2>1 DEF Lone
<1>4. CASE DetectResource(w) \/ DetectPool(w)
  <2> DEFINE k == [j EXCEPT !.scan = @ \ {FirstOf(j.scan)}]
  <2> DEFINE l == [j EXCEPT !.orphans = @ \ {FirstOf(j.orphans)}]
  <2>1. j \in DetectScanType(next)
    BY <1>4, JobShape DEF DetectResource, DetectPool, Shapes
  <2>2. k.alone = j.alone /\ l.alone = j.alone
    BY <2>1 DEF DetectScanType
  <2>3. DetectResource(w) => job'[w] = Idle \/ job'[w] = k
    BY JobNow DEF DetectResource, Report
  <2>4. DetectPool(w) => job'[w] = Idle \/ job'[w] = l
    BY JobNow DEF DetectPool, Report
  <2> HIDE DEF k, l
  <2> QED
    BY <1>1, <1>4, <2>2, <2>3, <2>4 DEF Lone
<1>5. CASE DetectNext(w)
  <2>1. job'[w].alone = j.alone
    BY <1>5, JobNow DEF DetectNext
  <2> QED
    BY <1>1, <2>1 DEF Lone
<1>6. CASE DetectReturn(w)
  BY <1>6, JobNow DEF DetectReturn, Lone
<1> QED
  BY <1>2, <1>3, <1>4, <1>5, <1>6 DEF DetectStep

LEMMA DetectInvStep ==
  ASSUME NetTyped, DetectInv, [NetworkNext]_networkVars
  PROVE  DetectInv'
<1> SUFFICES ASSUME NEW w \in Workers, Lone(w)'
             PROVE  DetectSound(job[w])'
  BY DEF DetectInv
<1>1. CASE Still /\ job'[w] = job[w]
  <2>1. Lone(w)
    BY <1>1 DEF Lone
  <2> QED
    BY <1>1, <2>1, DetectKept DEF DetectInv
<1>2. CASE NewRequest(w)
  <2>1. CASE \E S : DetectRequest(w, S)
    BY <2>1, DetectRequestSound
  <2>2. CASE ~ \E S : DetectRequest(w, S)
    <3>1. job'[w].op \in {"linking", "idle"} \cup ImportOps \cup SchemaOps \cup ActionOps
      BY <1>2, <2>2, LinkOps, ImportOpsStay, SchemaOpsStay, ConflictOpsStay DEF NewRequest
    <3> QED
      BY <3>1, OtherOps DEF ImportOps, SchemaOps, ActionOps, DetectOps
  <2> QED
    BY <2>1, <2>2
<1>3. CASE Serves(w)
  <2>1. CASE DetectStep(w)
    <3>1. DetectSound(job[w])
      BY <2>1, DetectStayed DEF DetectInv
    <3> QED
      BY <2>1, <3>1, DetectStepSound
  <2>2. CASE ~ DetectStep(w)
    <3>1. job'[w].op \in {"linking", "idle"} \cup ImportOps \cup SchemaOps \cup ActionOps
      BY <1>3, <2>2, LinkOps, ImportOpsStay, SchemaOpsStay, ConflictOpsStay
         DEF Serves, ImportOps
    <3> QED
      BY <3>1, OtherOps DEF ImportOps, SchemaOps, ActionOps, DetectOps
  <2> QED
    BY <2>1, <2>2
<1> QED
  BY <1>1, <1>2, <1>3, AloneStep

(* Decisions survive. *)

\* Who may reopen a decision on conflict c
AtWorkOn(c) ==
  \E w \in Workers :
    job[w].op \in {"ensure", "resolve", "record", "recorded"} /\ job[w].id = c

RecordsSurvive ==
  \A c \in DOMAIN records : records[c].status # "open" =>
    c \in DOMAIN records' /\ (records'[c].status = "open" => AtWorkOn(c))

DriftsSurvive ==
  \A d \in drifts : d.status # "open" =>
    \E e \in drifts' :
      e.run = d.run /\ e.kind = d.kind /\ e.subject = d.subject /\ e.status # "open"

LEMMA DriftsSpared ==
  ASSUME \A d \in drifts : d.status # "open" => d \in drifts'
  PROVE  DriftsSurvive
BY DEF DriftsSurvive

LEMMA RecordPutSurvives ==
  ASSUME NEW w \in Workers, NEW account, NEW status, RecordPut(job[w].id, account, status),
         job[w].op \in {"ensure", "resolve", "record", "recorded"}
  PROVE  RecordsSurvive /\ DriftsSurvive
<1>1. PICK i : i = job[w].id
  OBVIOUS
<1>2. AtWorkOn(i)
  BY <1>1 DEF AtWorkOn
<1>3. /\ records' = [d \in DOMAIN records \cup {i} |->
                     IF d = i THEN [account |-> account, status |-> status] ELSE records[d]]
      /\ drifts' = drifts
  BY <1>1 DEF RecordPut
<1>4. \A c \in DOMAIN records : c \in DOMAIN records' /\ (c # i => records'[c] = records[c])
  BY <1>3
<1> QED
  BY <1>2, <1>3, <1>4, DriftsSpared DEF RecordsSurvive

LEMMA UnchangedSurvive ==
  ASSUME UNCHANGED <<drifts, records>>
  PROVE  RecordsSurvive /\ DriftsSurvive
BY DriftsSpared DEF RecordsSurvive

LEMMA DetectSurvives ==
  ASSUME NEW w \in Workers, DetectStep(w)
  PROVE  RecordsSurvive /\ DriftsSurvive
<1>1. CASE DetectClear(w)
  <2>1. ASSUME NEW a, DeleteOpenForAccount(a) PROVE RecordsSurvive /\ DriftsSurvive
    <3>1. \A d \in drifts : d.status # "open" => d \in drifts'
      BY <2>1 DEF DeleteOpenForAccount, Survives
    <3>2. records' = [c \in {k \in DOMAIN records : Survives(records[k], a)} |-> records[c]]
      BY <2>1 DEF DeleteOpenForAccount
    <3>3. ASSUME NEW c \in DOMAIN records, records[c].status # "open"
          PROVE  c \in DOMAIN records' /\ records'[c] = records[c]
      BY <3>2, <3>3 DEF Survives
    <3> QED
      BY <3>1, <3>3, DriftsSpared DEF RecordsSurvive
  <2> QED
    BY <1>1, <2>1, UnchangedSurvive DEF DetectClear, DriftFails, driftStore
<1>2. CASE DetectResource(w) \/ DetectPool(w)
  <2>1. ASSUME NEW kind, NEW subject, NEW then, Report(w, kind, subject, then)
        PROVE  RecordsSurvive /\ DriftsSurvive
    <3>1. records' = records /\ \A d \in drifts : d \in drifts'
      BY <2>1 DEF Report, DriftFails, driftStore
    <3> QED
      BY <3>1, DriftsSpared DEF RecordsSurvive
  <2>2. (\E kind, subject, then : Report(w, kind, subject, then)) \/ UNCHANGED driftStore
    BY <1>2 DEF DetectResource, DetectPool
  <2> QED
    BY <2>1, <2>2, UnchangedSurvive DEF driftStore
<1>3. CASE DetectList(w) \/ DetectNext(w) \/ DetectReturn(w)
  BY <1>3, UnchangedSurvive DEF DetectList, DetectNext, DetectReturn, driftStore
<1> QED
  BY <1>1, <1>2, <1>3 DEF DetectStep

LEMMA ConflictSurvives ==
  ASSUME NEW w \in Workers, ConflictStep(w)
  PROVE  RecordsSurvive /\ DriftsSurvive
<1>1. \/ UNCHANGED driftStore
      \/ /\ job[w].op \in {"ensure", "resolve", "record", "recorded"}
         /\ \E account, status : RecordPut(job[w].id, account, status)
  <2>1. CASE ResolveUpdate(w)
    BY <2>1 DEF ResolveUpdate, RecordStatus, DriftFails
  <2>2. CASE ResolveCreate(w)
    BY <2>2 DEF ResolveCreate, DriftFails
  <2>3. CASE ResolveAgain(w)
    BY <2>3 DEF ResolveAgain, RecordStatus
  <2>4. CASE EnsureRecord(w)
    BY <2>4 DEF EnsureRecord, DriftFails
  <2>5. CASE LinkAction(w) \/ RollbackLink(w) \/ ImportAction(w) \/ ImportOutcome(w)
             \/ RollbackUnlink(w) \/ RollbackPool(w) \/ RollbackEnd(w)
             \/ PlaceholderCreate(w) \/ ActionReturn(w)
    BY <2>5 DEF LinkAction, RollbackLink, ImportAction, ImportOutcome, RollbackUnlink,
                RollbackPool, RollbackEnd, PlaceholderCreate, ActionReturn
  <2> QED
    BY <2>1, <2>2, <2>3, <2>4, <2>5 DEF ConflictStep
<1> QED
  BY <1>1, RecordPutSurvives, UnchangedSurvive DEF driftStore

LEMMA DecideSurvives ==
  ASSUME DriftsTyped, NEW status \in {"resolved", "ignored"}, Decide(status)
  PROVE  RecordsSurvive /\ DriftsSurvive
<1>1. ASSUME NEW d \in drifts, records' = records,
             drifts' = (drifts \ {d}) \cup {[d EXCEPT !.status = status]}
      PROVE  RecordsSurvive /\ DriftsSurvive
  <2>1. d \in ItemOfDrift
    BY DEF DriftsTyped
  <2> DEFINE e == [d EXCEPT !.status = status]
  <2>2. e.run = d.run /\ e.kind = d.kind /\ e.subject = d.subject /\ e.status = status
    BY <2>1 DEF ItemOfDrift
  <2>3. e \in drifts' /\ \A x \in drifts : x # d => x \in drifts'
    BY <1>1
  <2> HIDE DEF e
  <2>4. DriftsSurvive
    BY <2>2, <2>3 DEF DriftsSurvive
  <2> QED
    BY <1>1, <2>4 DEF RecordsSurvive
<1>2. ASSUME NEW c \in DOMAIN records, records' = [records EXCEPT ![c].status = status],
             drifts' = drifts
      PROVE  RecordsSurvive /\ DriftsSurvive
  <2>1. records[c] \in RecordOfConflict
    BY DEF DriftsTyped
  <2>2. records'[c].status = status
    BY <1>2, <2>1 DEF RecordOfConflict
  <2>3. DOMAIN records' = DOMAIN records /\ \A x \in DOMAIN records : x # c => records'[x] = records[x]
    BY <1>2
  <2> QED
    BY <1>2, <2>2, <2>3, DriftsSpared DEF RecordsSurvive
<1> QED
  BY <1>1, <1>2 DEF Decide

LEMMA SurvivesStep ==
  ASSUME NetTyped, [NetworkNext]_networkVars
  PROVE  RecordsSurvive /\ DriftsSurvive
<1>1. ASSUME NEW w \in Workers, NewRequest(w)
      PROVE  RecordsSurvive /\ DriftsSurvive
  <2>1. UNCHANGED <<drifts, records>>
    BY <1>1 DEF NewRequest, DetectRequest, ConflictRequest, ResolveRequest, LinkActionRequest,
                ImportActionRequest, PlaceholderRequest, driftStore
  <2> QED
    BY <2>1, UnchangedSurvive
<1>2. CASE OthersWrite
  BY <1>2, UnchangedSurvive, DecideSurvives DEF OthersWrite, driftStore, NetTyped
<1>3. ASSUME NEW w \in Workers, Serves(w)
      PROVE  RecordsSurvive /\ DriftsSurvive
  BY <1>3, UnchangedSurvive, DetectSurvives, ConflictSurvives DEF Serves, driftStore
<1>4. CASE UNCHANGED networkVars
  BY <1>4, UnchangedSurvive DEF networkVars, driftStore
<1> QED
  BY <1>1, <1>2, <1>3, <1>4 DEF NetworkNext, Arrives

LEMMA NobodyLone ==
  ASSUME NetworkInit, NEW w \in Workers
  PROVE  ~ Lone(w)
BY DEF NetworkInit, Lone

\* Detections nobody disturbed are exact, and a settled decision is neither
\* deleted nor reopened by anything but an action on that very conflict.
THEOREM DriftTheorem == NetworkSpec => DriftSound
<1>1. NetworkInit => NetTyped /\ DetectInv
  BY InitTyped, NobodyLone DEF DetectInv
<1>2. NetTyped /\ DetectInv /\ [NetworkNext]_networkVars => NetTyped' /\ DetectInv'
  BY StepTyped, DetectInvStep
<1>3. NetTyped /\ DetectInv => DetectExact
  <2> SUFFICES ASSUME NetTyped, DetectInv, NEW w \in Workers,
                      job[w].op = "detected", job[w].alone, NEW a \in job[w].accounts
               PROVE  AccountExact(a)
    BY DEF DetectExact, AccountExact, Named, Once, Reported
  <2>1. Lone(w)
    BY DEF Lone, Idle
  <2> QED
    BY <2>1 DEF DetectInv, DetectSound
<1>4. NetTyped /\ [NetworkNext]_networkVars =>
       [/\ \A c \in DOMAIN records : records[c].status # "open" =>
             /\ c \in DOMAIN records'
             /\ records'[c].status = "open" =>
                  \E w \in Workers :
                    job[w].op \in {"ensure", "resolve", "record", "recorded"} /\ job[w].id = c
        /\ \A d \in drifts : d.status # "open" =>
             \E e \in drifts' :
               e.run = d.run /\ e.kind = d.kind /\ e.subject = d.subject /\ e.status # "open"
       ]_<<drifts, records, job>>
  BY SurvivesStep DEF RecordsSurvive, DriftsSurvive, AtWorkOn
<1>5. NetworkSpec => DecisionsSurvive
  BY <1>1, <1>2, <1>4, PTL DEF NetworkSpec, DecisionsSurvive
<1> QED
  BY <1>1, <1>2, <1>3, <1>5, PTL DEF NetworkSpec, DriftSound

-----------------------------------------------------------------------------
(* Imports. *)
(* What an undisturbed import has done.                                    *)

\* The live pools made since the next id was base
MadeSince(base) == {i \in Ids : i >= base /\ Live(i)}

\* Resources linked since, and those that were not when it began
Accounted(j) ==
  /\ j.base <= next
  /\ MadeSince(j.base) = j.created
  /\ \A r \in j.linked :
       /\ r \in DOMAIN j.items /\ j.made[r] # None /\ res[r].pool = j.made[r]
       /\ IF j.items[r].pool # None THEN j.made[r] = j.items[r].pool
          ELSE j.made[r] \in j.created /\ pools[j.made[r]].meta.tag = Data[r].name
  /\ \A r \in DOMAIN j.items :
       /\ j.items[r].pool # None => j.items[r].pool < j.base
       /\ j.items[r].status \in {"importable", "conflict", "blocked"}
            => r \in j.linked \/ Unlinked(r)

\* The pool just made, if any, is not linked yet
Fresh(j) ==
  j.op \in {"link", "cleanup"} =>
    /\ j.pool = next - 1 /\ j.pool \in j.created
    /\ pools[j.pool].meta.tag = Data[Head(j.ids)].name
    /\ j.items[Head(j.ids)].pool = None
    /\ \A r \in j.linked : j.made[r] # j.pool

Owned(j) ==
  ~ j.failed =>
    \A i \in j.created : \/ j.op \in {"link", "cleanup"} /\ i = j.pool
                         \/ \E r \in j.linked : MadeFor(i, r, j.created)

ImportSound(j) ==
  /\ j.op = "preview" => j.base = next /\ j.listed = ListPools
  /\ j.op \in {"item", "create", "link", "cleanup", "imported"} =>
       Accounted(j) /\ Fresh(j) /\ Owned(j)
  /\ j.op = "create" => j.items[Head(j.ids)].pool = None
  /\ j.op = "schema_list" => \A r \in DOMAIN j.links : res[r].pool = j.links[r]
  /\ j.op \in {"schema", "schema_link"} => \A r \in j.todo : res[r].pool = j.links[r]

ImportInv == \A w \in Workers : Lone(w) => ImportSound(job[w])

\* What of an import's locals the invariant speaks of
SameImport(j, k) ==
  /\ k.base = j.base /\ k.created = j.created /\ k.linked = j.linked
  /\ k.items = j.items /\ k.made = j.made

LEMMA LiveKept ==
  ASSUME UNCHANGED <<pools, next, res>>
  PROVE  /\ \A b : MadeSince(b)' = MadeSince(b)
         /\ \A r : Unlinked(r)' <=> Unlinked(r)
         /\ \A i, r, S : MadeFor(i, r, S)' <=> MadeFor(i, r, S)
BY DEF MadeSince, Ids, Live, Unlinked, MadeFor

LEMMA AccountedKept ==
  ASSUME NEW w \in Workers, UNCHANGED <<pools, next, res>>, Accounted(job[w]),
         SameImport(job[w], job'[w])
  PROVE  Accounted(job[w])'
<1>1. PICK b, C, L, I, M : /\ b = job[w].base /\ C = job[w].created /\ L = job[w].linked
                           /\ I = job[w].items /\ M = job[w].made
  OBVIOUS
<1>2. /\ b = job'[w].base /\ C = job'[w].created /\ L = job'[w].linked
      /\ I = job'[w].items /\ M = job'[w].made
  BY <1>1 DEF SameImport
<1>3. /\ MadeSince(b)' = MadeSince(b)
      /\ \A r : Unlinked(r)' <=> Unlinked(r)
  BY LiveKept
<1>4. MadeSince(b) = C /\ MadeSince(job[w].base)' = MadeSince(b)'
  BY <1>1, <1>2 DEF Accounted, MadeSince
<1> QED
  BY <1>1, <1>2, <1>3, <1>4 DEF Accounted

LEMMA ImportKept ==
  ASSUME NetTyped, NEW w \in Workers, ImportSound(job[w]), Still, job'[w] = job[w]
  PROVE  ImportSound(job[w])'
<1>0. UNCHANGED <<pools, next, res>> /\ SameImport(job[w], job'[w])
  BY DEF Still, SameImport
<1>1. Accounted(job[w]) => Accounted(job[w])'
  BY <1>0, AccountedKept
<1>2. Fresh(job[w]) => Fresh(job[w])'
  BY <1>0 DEF Fresh
<1>3. Owned(job[w]) => Owned(job[w])'
  <2>1. \A i, r : MadeFor(i, r, job[w].created)' <=> MadeFor(i, r, job[w].created)
    BY <1>0, LiveKept DEF MadeFor
  <2> QED
    BY <2>1 DEF Owned
<1>4. ListPools' = ListPools
  BY <1>0, ViewKept
<1> QED
  BY <1>0, <1>1, <1>2, <1>3, <1>4 DEF ImportSound

LEMMA NoImport ==
  ASSUME NEW w \in Workers, job'[w].op \notin ImportOps \cup SchemaOps
  PROVE  ImportSound(job[w])'
BY DEF ImportSound, ImportOps, SchemaOps

LEMMA BeginSound ==
  ASSUME NetTyped, NEW w \in Workers, NEW account, NEW ids, NEW selected, NEW force,
         NEW conflict, NEW alone, ImportBegin(w, account, ids, selected, force, conflict, alone),
         UNCHANGED store
  PROVE  ImportSound(job[w])'
<1>1. job'[w].op = "preview" /\ job'[w].base = next /\ job'[w].listed = ListPools
  BY JobNow DEF ImportBegin
<1>2. ListPools' = ListPools /\ next' = next
  BY DEF store, ListPools, Ids
<1> QED
  BY <1>1, <1>2 DEF ImportSound

LEMMA SchemaRequestSound ==
  ASSUME NetTyped, NEW w \in Workers, NEW a, SchemaImportRequest(w, a)
  PROVE  ImportSound(job[w])'
<1>1. PICK shown : job'[w] = [op |-> "schema_list", account |-> a,
                              links |-> [r \in shown |-> res[r].pool], alone |-> TRUE]
  BY JobNow DEF SchemaImportRequest
<1>2. job'[w].op = "schema_list" /\ job'[w].links = [r \in shown |-> res[r].pool]
  BY <1>1
<1>3. res' = res
  BY DEF SchemaImportRequest
<1> QED
  BY <1>2, <1>3 DEF ImportSound

LEMMA SchemaStepSound ==
  ASSUME NetTyped, NEW w \in Workers, SchemaImportStep(w), ImportSound(job[w])
  PROVE  ImportSound(job[w])'
<1> DEFINE j == job[w]
<1>1. CASE SchemaImportList(w)
  <2>1. /\ job'[w].op = "schema" /\ job'[w].links = j.links /\ job'[w].todo = DOMAIN j.links
        /\ j.op = "schema_list" /\ res' = res
    BY <1>1, JobNow DEF SchemaImportList
  <2> QED
    BY <2>1 DEF ImportSound
<1>2. ASSUME j.op \in {"schema", "schema_link"}, NEW r \in j.todo, NEW p,
             NEW k \in SchemaRecord(next), k.links = j.links, k.todo = j.todo,
             job'[w] = SchemaRest(k, r, p), \A s \in Resources : s # r => res'[s] = res[s]
      PROVE  ImportSound(job[w])'
  <2>1. j.todo \subseteq Resources
    BY <1>2 DEF SchemaRecord
  <2>2. CASE job'[w] = Idle
    BY <2>2, NoImport DEF Idle, ImportOps, SchemaOps
  <2>3. CASE job'[w] # Idle
    <3>1. job'[w] = [k EXCEPT !.op = "schema", !.todo = k.todo \ {r}, !.here[r] = p,
                              !.parent = None, !.pool = None]
      BY <1>2, <2>3 DEF SchemaRest
    <3>2. job'[w].op = "schema" /\ job'[w].links = j.links /\ job'[w].todo = j.todo \ {r}
      BY <1>2, <3>1 DEF SchemaRecord
    <3>3. \A s \in j.todo : res[s].pool = j.links[s]
      BY <1>2 DEF ImportSound
    <3> QED
      BY <1>2, <2>1, <3>2, <3>3 DEF ImportSound
  <2> QED
    BY <2>2, <2>3
<1>3. j.op \in {"schema", "schema_link"} =>
        j \in SchemaRecord(next) /\ FirstOf(j.todo) \in j.todo
  <2> HAVE j.op \in {"schema", "schema_link"}
  <2>1. j \in SchemaRecord(next) /\ SchemaFacts(j)
    BY JobShape DEF Shapes, SchemaType
  <2>2. j.todo \in SUBSET Nat /\ j.todo # {}
    BY <2>1, Discovered DEF SchemaRecord, SchemaFacts
  <2> QED
    BY <2>1, <2>2, FirstOfType
<1>4. CASE SchemaImportSkip(w)
  BY <1>2, <1>3, <1>4, JobNow DEF SchemaImportSkip
<1>5. CASE SchemaImportItem(w)
  <2>0. PICK r : r = FirstOf(j.todo)
    OBVIOUS
  <2>1. \/ \E p : /\ job'[w] = SchemaRest(j, r, p)
                  /\ (\E q : LinkResource(r, q)) \/ res' = res
        \/ job'[w] = [j EXCEPT !.op = "schema_link", !.pool = next] /\ res' = res
    BY <1>5, <2>0, JobNow DEF SchemaImportItem, LinkFails
  <2>2. j.op = "schema" /\ r \in j.todo /\ j \in SchemaRecord(next)
    BY <1>3, <1>5, <2>0 DEF SchemaImportItem
  <2>3. \A s \in Resources : s # r => res'[s] = res[s]
    BY <2>1 DEF LinkResource, NetTyped, ResTyped
  <2>4. CASE \E p : job'[w] = SchemaRest(j, r, p)
    BY <1>2, <2>2, <2>3, <2>4
  <2>5. CASE job'[w] = [j EXCEPT !.op = "schema_link", !.pool = next] /\ res' = res
    <3>1. job'[w].op = "schema_link" /\ job'[w].todo = j.todo /\ job'[w].links = j.links
      BY <2>2, <2>5 DEF SchemaRecord
    <3> QED
      BY <2>2, <2>5, <3>1 DEF ImportSound
  <2> QED
    BY <2>1, <2>4, <2>5
<1>6. CASE SchemaImportLink(w)
  <2>0. PICK r : r = FirstOf(j.todo)
    OBVIOUS
  <2> DEFINE listed == [i \in DOMAIN j.listed \cup {j.pool} |->
                          IF i = j.pool THEN j.account ELSE j.listed[i]]
  <2> DEFINE k == [j EXCEPT !.listed = listed]
  <2>1. job'[w] = SchemaRest(k, r, j.pool) /\ (LinkResource(r, j.pool) \/ res' = res)
    BY <1>6, <2>0, JobNow DEF SchemaImportLink, LinkFails
  <2>2. j.op = "schema_link" /\ r \in j.todo /\ j \in SchemaRecord(next)
    BY <1>3, <1>6, <2>0 DEF SchemaImportLink
  <2>3. \A s \in Resources : s # r => res'[s] = res[s]
    BY <2>1 DEF LinkResource, NetTyped, ResTyped
  <2> HIDE DEF listed
  <2>4. k.links = j.links /\ k.todo = j.todo /\ k.op = "schema_link" /\ DOMAIN k = DOMAIN j
        /\ "op" \in DOMAIN k /\ "todo" \in DOMAIN k /\ "links" \in DOMAIN k
    BY <2>2 DEF SchemaRecord
  <2>5. j.todo \subseteq Resources
    BY <2>2 DEF SchemaRecord
  <2> HIDE DEF k
  <2>6. CASE job'[w] = Idle
    BY <2>6, NoImport DEF Idle, ImportOps, SchemaOps
  <2>7. CASE job'[w] # Idle
    <3>1. job'[w] = [k EXCEPT !.op = "schema", !.todo = k.todo \ {r}, !.here[r] = j.pool,
                              !.parent = None, !.pool = None]
      BY <2>1, <2>7 DEF SchemaRest
    <3>2. job'[w].op = "schema" /\ job'[w].links = j.links /\ job'[w].todo = j.todo \ {r}
      BY <2>4, <3>1
    <3>3. \A s \in j.todo : res[s].pool = j.links[s]
      BY <2>2 DEF ImportSound
    <3> QED
      BY <2>3, <2>5, <3>2, <3>3 DEF ImportSound
  <2> QED
    BY <2>6, <2>7
<1> QED
  BY <1>1, <1>4, <1>5, <1>6 DEF SchemaImportStep

\* Between two items only the accounts matter
LEMMA BetweenItems ==
  ASSUME NEW w \in Workers, job'[w].op \in {"item", "imported"},
         Accounted(job[w])', Owned(job[w])'
  PROVE  ImportSound(job[w])'
BY DEF ImportSound, Fresh

LEMMA PreviewSound ==
  ASSUME NetTyped, NEW w \in Workers, ImportPreview(w), ImportSound(job[w])
  PROVE  ImportSound(job[w])'
<1> DEFINE j == job[w]
<1>1. j \in PreviewRecord(next) /\ PreviewFacts(j) /\ j.base = next
  BY JobShape DEF ImportPreview, Shapes, PreviewType, ImportSound
<1>2. j.ids \in Seq(Resources) /\ j.selected \in Ref(next) /\ j.listed \in Listings(next)
  BY <1>1 DEF PreviewRecord
<1>3. PICK items \in Previews(w) :
        Goes(w, [op |-> "item",
                 account |-> job[w].account, ids |-> job[w].ids, items |-> items,
                 force |-> job[w].force, conflict |-> job[w].conflict,
                 made |-> [r \in DOMAIN items |-> None], created |-> {},
                 linked |-> {}, failed |-> FALSE, parent |-> None, pool |-> None,
                 base |-> job[w].base, alone |-> job[w].alone])
  BY DEF ImportPreview
<1>4. /\ job'[w].op = "item" /\ job'[w].items = items /\ job'[w].created = {}
      /\ job'[w].linked = {} /\ job'[w].base = next
  BY <1>1, <1>3, JobNow
<1>5. Remaining(j) \in SUBSET Resources
  BY <1>2 DEF Remaining
<1>6. /\ DOMAIN items = Remaining(j)
      /\ \A r \in Remaining(j) :
           items[r] \in PreviewItems(r, j.account, j.ids, j.selected, j.listed)
  BY DEF Previews, Remaining
<1>7. \A r \in DOMAIN items :
        /\ items[r] \in ItemType(next)
        /\ items[r].status \in {"importable", "conflict", "blocked"} => Unlinked(r)
  BY <1>2, <1>5, <1>6, PreviewItemShape
<1>8. UNCHANGED <<pools, next, res>>
  BY DEF ImportPreview, store
<1>9. \A r \in DOMAIN items : items[r].pool # None => items[r].pool < next
  BY <1>7, NextTyped DEF ItemType, Ref, PoolIds
<1>10. MadeSince(next) = {}
  BY NextTyped DEF MadeSince, Ids, PoolIds
<1>11. MadeSince(job[w].base)' = {}
  BY <1>4, <1>8, <1>10 DEF MadeSince, Ids, Live
<1>12. next \in Nat /\ next <= next
  BY NextTyped DEF PoolIds
<1>13. Accounted(job[w])'
  BY <1>4, <1>7, <1>8, <1>9, <1>11, <1>12 DEF Accounted, Unlinked
<1>14. Owned(job[w])'
  BY <1>4 DEF Owned
<1> QED
  BY <1>4, <1>13, <1>14, BetweenItems

LEMMA ImportSkipSound ==
  ASSUME NetTyped, NEW w \in Workers, ImportSound(job[w]),
         job[w].op \in {"item", "create", "link", "cleanup"},
         UNCHANGED <<store, res>>, job'[w] = Skipped(job[w])
  PROVE  ImportSound(job[w])'
<1>1. job[w] \in ImportRecord(next) /\ job[w].ids # <<>>
  BY ImportingShape
<1>2. /\ SameImport(job[w], job'[w]) /\ job'[w].failed = TRUE
      /\ job'[w].op \in {"item", "imported"}
  <2>1. PICK j : j = job[w]
    OBVIOUS
  <2>2. /\ Skipped(j).op = (IF Len(j.ids) = 1 THEN "imported" ELSE "item")
        /\ Skipped(j).items = j.items /\ Skipped(j).made = j.made
        /\ Skipped(j).created = j.created /\ Skipped(j).linked = j.linked
        /\ Skipped(j).failed = TRUE /\ Skipped(j).base = j.base
    BY <1>1, <2>1, SkippedFields
  <2>3. Skipped(j).op \in {"item", "imported"}
    BY <2>2
  <2> QED
    BY <2>1, <2>2, <2>3 DEF SameImport
<1>3. Accounted(job[w])'
  BY <1>2, AccountedKept DEF store, ImportSound
<1> QED
  BY <1>2, <1>3, BetweenItems DEF Owned

LEMMA WantedStatus ==
  ASSUME NEW n, NEW j \in ImportType(n), j.op # "imported", Wanted(j)
  PROVE  j.items[Head(j.ids)].status \in {"importable", "conflict", "blocked"}
<1> DEFINE r == Head(j.ids)
<1>1. /\ j \in ImportRecord(n) /\ ImportCore(j) /\ j.ids # <<>> /\ j.ids \in Seq(Resources)
      /\ r \in DOMAIN j.items
  BY HeadRemains
<1>2. CASE j.items[r].status = "account_mismatch" /\ j.force
  <2>1. Data[r].account # j.account
    BY <1>1, <1>2 DEF ImportCore
  <2>2. 1 \in DOMAIN j.ids /\ j.ids[1] = r
    BY <1>1
  <2> QED
    BY <1>1, <1>2, <2>1, <2>2 DEF ImportCore, SameOwner
<1> QED
  BY <1>2 DEF Wanted, canForceDiscoveryImport

\* r, the current item, gets the pool p
LEMMA ItemLinked ==
  ASSUME NetTyped, NEW w \in Workers, ImportSound(job[w]),
         job[w].op \in {"item", "create", "link", "cleanup"},
         NEW r, r = Head(job[w].ids), NEW p \in 1 .. next - 1, LinkResource(r, p),
         UNCHANGED store, job'[w] = Done(job[w], p),
         NEW q, q = job[w].items[r].pool,
         IF q # None THEN p = q
         ELSE p \in job[w].created /\ pools[p].meta.tag = Data[r].name
  PROVE  Accounted(job[w])'
<1>1. PICK b, C, L, I, M : /\ b = job[w].base /\ C = job[w].created /\ L = job[w].linked
                           /\ I = job[w].items /\ M = job[w].made
  OBVIOUS
<1>2. /\ job[w] \in ImportRecord(next) /\ r \in Resources /\ r \in DOMAIN I /\ DOMAIN M = DOMAIN I
      /\ None \in Ref(next) /\ p \in Ref(next) /\ p # None
  BY <1>1, ImportingShape, NextTyped, PoolsAssumption DEF ImportCore, Ref
<1>3. /\ job'[w].base = b /\ job'[w].created = C /\ job'[w].linked = L \cup {r}
      /\ job'[w].items = I /\ job'[w].made = [M EXCEPT ![r] = p]
  BY <1>1, <1>2, DoneFields
<1>4. Accounted(job[w])
  BY DEF ImportSound
<1>5. \A s : s # r => res'[s] = res[s] 
  BY DEF LinkResource, NetTyped, ResTyped
<1>6. res'[r].pool = p
  BY <1>2 DEF LinkResource, NetTyped, ResTyped
<1>7. UNCHANGED <<pools, next>>
  BY DEF store
<1>8. MadeSince(b)' = MadeSince(b)
  BY <1>7 DEF MadeSince, Ids, Live
<1>9. MadeSince(job[w].base)' = C
  BY <1>1, <1>3, <1>4, <1>8 DEF Accounted, MadeSince
<1>10. \A s \in L \cup {r} :
         /\ s \in DOMAIN I /\ [M EXCEPT ![r] = p][s] # None
         /\ res'[s].pool = [M EXCEPT ![r] = p][s]
         /\ IF I[s].pool # None THEN [M EXCEPT ![r] = p][s] = I[s].pool
            ELSE /\ [M EXCEPT ![r] = p][s] \in C
                 /\ pools[[M EXCEPT ![r] = p][s]].meta.tag = Data[s].name
  BY <1>1, <1>2, <1>4, <1>5, <1>6 DEF Accounted
<1>11. \A s \in DOMAIN I :
         /\ I[s].pool # None => I[s].pool < b
         /\ I[s].status \in {"importable", "conflict", "blocked"}
              => s \in L \cup {r} \/ Unlinked(s)'
  BY <1>1, <1>4, <1>5 DEF Accounted, Unlinked
<1>12. b <= next'
  BY <1>1, <1>4, <1>7 DEF Accounted
<1> QED
  BY <1>3, <1>7, <1>9, <1>10, <1>11, <1>12 DEF Accounted

LEMMA LinkExistingSound ==
  ASSUME NetTyped, NEW w \in Workers, ApplyLinkExisting(w), ImportSound(job[w])
  PROVE  ImportSound(job[w])'
<1>1. PICK r, p : r = Head(job[w].ids) /\ p = job[w].items[r].pool
  OBVIOUS
<1>2. /\ job[w].op = "item" /\ p # None /\ UNCHANGED store
      /\ \/ LinkResource(r, p) /\ job'[w] = Done(job[w], p)
         \/ res' = res /\ job'[w] = Skipped(job[w])
  BY <1>1, JobNow DEF ApplyLinkExisting, LinkFails
<1>3. /\ job[w] \in ImportRecord(next) /\ r \in Resources /\ p \in 1 .. next - 1
      /\ None \in Ref(next) /\ r \in DOMAIN job[w].made /\ p \in Ref(next)
  BY <1>1, <1>2, ImportingShape, NextTyped DEF Ref, ImportCore
<1>4. CASE LinkResource(r, p) /\ job'[w] = Done(job[w], p)
  <2>1. Accounted(job[w])'
    BY <1>1, <1>2, <1>3, <1>4, ItemLinked
  <2>2. PICK C, L, f : C = job[w].created /\ L = job[w].linked /\ f = job[w].failed
    OBVIOUS
  <2>3. /\ job'[w].op \in {"item", "imported"} /\ job'[w].created = C
        /\ job'[w].linked = L \cup {r} /\ job'[w].failed = f
    <3>1. /\ job'[w].created = C /\ job'[w].linked = L \cup {r} /\ job'[w].failed = f
      <4>1. Head(job[w].ids) \in Resources /\ Head(job[w].ids) \in DOMAIN job[w].made
        BY <1>1, <1>3
      <4>2. /\ Done(job[w], p).created = job[w].created
            /\ Done(job[w], p).linked = job[w].linked \cup {Head(job[w].ids)}
            /\ Done(job[w], p).failed = job[w].failed
        BY <1>3, <4>1, DoneRest
      <4> QED
        BY <1>1, <1>4, <2>2, <4>2
    <3>2. Done(job[w], p).op \in {"imported", "item"}
      BY <1>3, DoneOp
    <3> QED
      BY <1>4, <3>1, <3>2
  <2>4. Accounted(job[w]) /\ Owned(job[w])
    BY <1>2 DEF ImportSound
  <2>5. \A i \in C : ~ f => \E s \in L : MadeFor(i, s, C)
    BY <1>2, <2>2, <2>4 DEF Owned
  <2>6. \A s \in L : res'[s].pool = res[s].pool
    <3>1. \A s : s # r => res'[s] = res[s]
      BY <1>4 DEF LinkResource, NetTyped, ResTyped
    <3>2. res'[r].pool = p
      BY <1>3, <1>4 DEF LinkResource, NetTyped, ResTyped
    <3>3. r \in L => res[r].pool = p
      BY <1>1, <1>2, <2>2, <2>4 DEF Accounted
    <3> QED
      BY <3>1, <3>2, <3>3
  <2>7. \A i, s : s \in L => (MadeFor(i, s, C) => MadeFor(i, s, C)')
    BY <1>2, <2>6 DEF MadeFor, store
  <2>8. Owned(job[w])'
    <3>1. \A i \in C : ~ f => \E s \in L : MadeFor(i, s, C)'
      BY <2>5, <2>7
    <3> QED
      BY <2>3, <3>1 DEF Owned, MadeFor
  <2> QED
    BY <2>1, <2>3, <2>8, BetweenItems
<1>5. CASE res' = res /\ job'[w] = Skipped(job[w])
  BY <1>2, <1>5, ImportSkipSound
<1> QED
  BY <1>2, <1>4, <1>5

LEMMA ParentSound ==
  ASSUME NetTyped, NEW w \in Workers, ApplyParent(w), ImportSound(job[w])
  PROVE  ImportSound(job[w])'
<1> DEFINE j == job[w]
<1> DEFINE k == [j EXCEPT !.op = "create", !.parent = ImportParent(j)]
<1>1. /\ j.op = "item" /\ j.items[Head(j.ids)].pool = None /\ UNCHANGED <<store, res>>
      /\ job'[w] = Skipped(j) \/ job'[w] = k
  BY JobNow DEF ApplyParent
<1>2. j \in ImportRecord(next)
  BY <1>1, ImportingShape
<1>3. /\ k.op = "create" /\ k.ids = j.ids /\ k.items = j.items /\ k.made = j.made
      /\ k.created = j.created /\ k.linked = j.linked /\ k.failed = j.failed
      /\ k.base = j.base /\ k.pool = j.pool
  BY <1>2 DEF ImportRecord
<1> HIDE DEF k
<1>4. CASE job'[w] = Skipped(j)
  BY <1>1, <1>4, ImportSkipSound
<1>5. CASE job'[w] = k
  <2>1. Accounted(job[w])'
    BY <1>1, <1>3, <1>5, AccountedKept DEF SameImport, store, ImportSound
  <2>2. Owned(job[w])'
    <3>1. Owned(job[w])
      BY <1>1 DEF ImportSound
    <3>2. \A i, s : MadeFor(i, s, job[w].created)' <=> MadeFor(i, s, job[w].created)
      BY <1>1, <1>3, <1>5 DEF MadeFor, store
    <3> QED
      BY <1>1, <1>3, <1>5, <3>1, <3>2 DEF Owned
  <2> QED
    BY <1>1, <1>3, <1>5, <2>1, <2>2 DEF ImportSound, Fresh
<1> QED
  BY <1>1, <1>4, <1>5

LEMMA PoolMade ==
  ASSUME StoreTyped, NEW r, NEW account, NEW parent,
         CreatePool(DiscoveredPool(r, account, parent))
  PROVE  /\ next \in PoolIds /\ next' = next + 1 /\ Ids' = Ids \cup {next} /\ next \notin Ids
         /\ \A i \in Ids : pools'[i] = pools[i] /\ i < next
         /\ pools'[next].meta.tag = Data[r].name /\ pools'[next].parent = parent
         /\ \A b \in PoolIds : b <= next => MadeSince(b)' = MadeSince(b) \cup {next}
<1>1. next \in PoolIds /\ next' = next + 1 /\ next' - 1 = next
  BY DEF CreatePool, StoreTyped, PoolIds
<1>2. Ids' = Ids \cup {next} /\ next \notin Ids /\ \A i \in Ids : i < next /\ i \in Nat
  BY <1>1 DEF Ids, PoolIds
<1>3. /\ \A i \in Ids : pools'[i] = pools[i]
      /\ pools'[next] = DiscoveredPool(r, account, parent)
  BY <1>1, <1>2 DEF CreatePool, Ids, PoolIds
<1>4. /\ pools'[next].meta.tag = Data[r].name /\ pools'[next].parent = parent
      /\ ~ pools'[next].deleted
  BY <1>3 DEF DiscoveredPool, NewPool
<1>5. ASSUME NEW b \in PoolIds, b <= next
      PROVE  MadeSince(b)' = MadeSince(b) \cup {next}
  <2>0. PICK n : n = next
    OBVIOUS
  <2>1. /\ Live(n)'
        /\ \A i \in Ids : Live(i)' <=> Live(i)
    BY <1>2, <1>3, <1>4, <2>0 DEF Live
  <2>2. \A i \in Ids' : i >= b /\ Live(i)' <=> i = n \/ (i \in Ids /\ i >= b /\ Live(i))
    BY <1>1, <1>2, <1>5, <2>0, <2>1 DEF PoolIds
  <2> QED
    BY <1>2, <2>0, <2>2 DEF MadeSince
<1> QED
  BY <1>1, <1>2, <1>3, <1>4, <1>5

LEMMA PoolRemoved ==
  ASSUME StoreTyped, NEW p, RemovePool(p)
  PROVE  /\ next' = next /\ Ids' = Ids /\ p \in Ids
         /\ \A i \in Ids : pools'[i].meta = pools[i].meta /\ pools'[i].parent = pools[i].parent
         /\ \A i \in Ids : i # p => (Live(i)' <=> Live(i))
         /\ ~ Live(p)'
         /\ \A b : MadeSince(b)' = MadeSince(b) \ {p}
<1>1. next' = next /\ Ids' = Ids /\ p \in Ids
  BY DEF RemovePool, Ids, Live
<1>2. \A i \in Ids : pools'[i] = IF i = p THEN [pools[i] EXCEPT !.deleted = TRUE] ELSE pools[i]
  BY DEF RemovePool, SoftDelete
<1>3. \A i \in Ids : pools[i] \in Pool
  BY DEF StoreTyped, Ids
<1>4. /\ \A i \in Ids : pools'[i].meta = pools[i].meta /\ pools'[i].parent = pools[i].parent
      /\ pools'[p].deleted
  BY <1>1, <1>2, <1>3 DEF Pool
<1>5. /\ \A i \in Ids : i # p => (Live(i)' <=> Live(i))
      /\ ~ Live(p)'
  BY <1>1, <1>2, <1>4 DEF Live
<1>6. ASSUME NEW b PROVE MadeSince(b)' = MadeSince(b) \ {p}
  BY <1>1, <1>5 DEF MadeSince
<1> QED
  BY <1>1, <1>4, <1>5, <1>6

LEMMA CreateSound ==
  ASSUME NetTyped, NEW w \in Workers, ApplyCreate(w), ImportSound(job[w])
  PROVE  ImportSound(job[w])'
<1> DEFINE j == job[w]
<1> DEFINE k == [j EXCEPT !.op = "link", !.pool = next, !.created = @ \cup {next}]
<1>0. PICK b, C, L, I, M : /\ b = job[w].base /\ C = job[w].created /\ L = job[w].linked
                           /\ I = job[w].items /\ M = job[w].made
  OBVIOUS
<1>00. PICK r : r = Head(job[w].ids)
  OBVIOUS
<1>1. /\ j.op = "create" /\ res' = res
      /\ \/ CreatePool(DiscoveredPool(r, j.account, j.parent)) /\ job'[w] = k
         \/ UNCHANGED store /\ job'[w] = Skipped(j)
  BY <1>00, JobNow DEF ApplyCreate, StoreFails, store
<1>2. j \in ImportRecord(next) /\ r \in DOMAIN I /\ DOMAIN M = DOMAIN I /\ M \in Links(next)
  BY <1>0, <1>00, <1>1, ImportingShape DEF ImportCore, ImportRecord
<1>3. /\ k.op = "link" /\ k.ids = j.ids /\ k.items = I /\ k.made = M
      /\ k.created = C \cup {next} /\ k.linked = L /\ k.failed = j.failed
      /\ k.base = b /\ k.pool = next
  BY <1>0, <1>2 DEF ImportRecord
<1> HIDE DEF k
<1>4. CASE UNCHANGED store /\ job'[w] = Skipped(j)
  BY <1>1, <1>4, ImportSkipSound
<1>5. CASE CreatePool(DiscoveredPool(r, j.account, j.parent)) /\ job'[w] = k
  <2>0. b \in PoolIds /\ b <= next /\ C \subseteq Ids
    <3>1. b \in PoolIds /\ C \subseteq 1 .. next - 1
      BY <1>0, <1>2 DEF ImportRecord
    <3> QED
      BY <1>0, <1>1, <3>1 DEF ImportSound, Accounted, Ids
  <2>1. /\ next \in PoolIds /\ next' = next + 1 /\ Ids' = Ids \cup {next} /\ next \notin Ids
        /\ \A i \in Ids : pools'[i] = pools[i] /\ i < next
        /\ pools'[next].meta.tag = Data[r].name
        /\ MadeSince(b)' = MadeSince(b) \cup {next}
    BY <1>5, <2>0, PoolMade DEF NetTyped
  <2>2. Accounted(j) /\ Owned(j) /\ I[r].pool = None
    BY <1>0, <1>00, <1>1 DEF ImportSound
  <2>3. \A s \in L : M[s] # None /\ M[s] \in Ids
    <3>1. M \in [DOMAIN M -> Ref(next)]
      BY <1>2, LinksShape
    <3>2. \A s \in L : s \in DOMAIN M /\ M[s] # None
      BY <1>0, <1>2, <2>2 DEF Accounted
    <3> QED
      BY <3>1, <3>2 DEF Ref, Ids
  <2>4. Accounted(job[w])'
    <3>1. b <= next'
      BY <2>0, <2>1 DEF PoolIds
    <3>2. MadeSince(job[w].base)' = C \cup {next}
      BY <1>0, <1>3, <1>5, <2>1, <2>2 DEF Accounted, MadeSince
    <3>3. \A s \in L :
            /\ s \in DOMAIN I /\ M[s] # None /\ res'[s].pool = M[s]
            /\ IF I[s].pool # None THEN M[s] = I[s].pool
               ELSE M[s] \in C \cup {next} /\ pools'[M[s]].meta.tag = Data[s].name
      BY <1>0, <1>1, <2>1, <2>2, <2>3 DEF Accounted
    <3>4. \A s \in DOMAIN I :
            /\ I[s].pool # None => I[s].pool < b
            /\ I[s].status \in {"importable", "conflict", "blocked"} => s \in L \/ Unlinked(s)'
      BY <1>0, <1>1, <2>2 DEF Accounted, Unlinked
    <3> QED
      BY <1>3, <1>5, <3>1, <3>2, <3>3, <3>4 DEF Accounted
  <2>5. Fresh(job[w])'
    <3>1. job'[w].pool = next' - 1 /\ job'[w].pool \in job'[w].created
      BY <1>3, <1>5, <2>1 DEF PoolIds
    <3>2. \A s \in L : M[s] # next
      BY <2>1, <2>3
    <3> QED
      BY <1>00, <1>3, <1>5, <2>1, <2>2, <3>1, <3>2 DEF Fresh
  <2>6. Owned(job[w])'
    <3>0. PICK D, f : D = C \cup {next} /\ f = job[w].failed
      OBVIOUS
    <3>1. ASSUME NEW i \in C, NEW s, MadeFor(i, s, C)
          PROVE  MadeFor(i, s, D)'
      BY <1>1, <2>0, <2>1, <3>0, <3>1 DEF MadeFor
    <3>2. \A i \in C : ~ f => \E s \in L : MadeFor(i, s, C)
      BY <1>0, <1>1, <2>2, <3>0 DEF Owned
    <3>3. \A i \in C : ~ f => \E s \in L : MadeFor(i, s, D)'
      BY <3>1, <3>2
    <3>4. /\ job'[w].op = "link" /\ job'[w].pool = next /\ job'[w].created = D
          /\ job'[w].linked = L /\ job'[w].failed = f
      BY <1>3, <1>5, <3>0
    <3> QED
      BY <3>0, <3>3, <3>4 DEF Owned, MadeFor
  <2> QED
    BY <1>3, <1>5, <2>4, <2>5, <2>6 DEF ImportSound
<1> QED
  BY <1>1, <1>4, <1>5

LEMMA ApplyLinkSound ==
  ASSUME NetTyped, NEW w \in Workers, ApplyLink(w), ImportSound(job[w])
  PROVE  ImportSound(job[w])'
<1> DEFINE j == job[w]
<1> DEFINE k == [j EXCEPT !.op = "cleanup"]
<1>0. PICK r, p : r = Head(job[w].ids) /\ p = job[w].pool
  OBVIOUS
<1>00. PICK C, L, f : C = job[w].created /\ L = job[w].linked /\ f = job[w].failed
  OBVIOUS
<1>1. /\ j.op = "link" /\ UNCHANGED store
      /\ \/ LinkResource(r, p) /\ job'[w] = Done(j, p)
         \/ res' = res /\ job'[w] = k
  BY <1>0, JobNow DEF ApplyLink, LinkFails
<1>2. /\ j \in ImportRecord(next) /\ r \in Resources /\ p \in 1 .. next - 1
      /\ None \in Ref(next) /\ p \in Ref(next) /\ r \in DOMAIN j.made /\ C \subseteq Ids
  BY <1>0, <1>00, <1>1, ImportingShape, NextTyped DEF Ref, ImportCore, ImportRecord, Ids
<1>3. Accounted(j) /\ Fresh(j) /\ Owned(j)
  BY <1>1 DEF ImportSound
<1>4. /\ p = next - 1 /\ p \in C /\ pools[p].meta.tag = Data[r].name
      /\ j.items[r].pool = None /\ \A s \in L : j.made[s] # p
  BY <1>0, <1>00, <1>1, <1>3 DEF Fresh
<1>5. CASE LinkResource(r, p) /\ job'[w] = Done(j, p)
  <2>1. Accounted(job[w])'
    BY <1>0, <1>00, <1>1, <1>2, <1>4, <1>5, ItemLinked
  <2>2. /\ job'[w].op \in {"item", "imported"} /\ job'[w].created = C
        /\ job'[w].linked = L \cup {r} /\ job'[w].failed = f
    <3>1. Head(j.ids) \in Resources /\ Head(j.ids) \in DOMAIN j.made
      BY <1>0, <1>2
    <3>2. /\ Done(j, p).created = j.created
          /\ Done(j, p).linked = j.linked \cup {Head(j.ids)}
          /\ Done(j, p).failed = j.failed
      BY <1>2, <3>1, DoneRest
    <3>3. Done(j, p).op \in {"imported", "item"}
      BY <1>2, DoneOp
    <3> QED
      BY <1>0, <1>00, <1>5, <3>2, <3>3
  <2>3. /\ \A s : s # r => res'[s] = res[s]
        /\ res'[r].pool = p
    BY <1>2, <1>5 DEF LinkResource, NetTyped, ResTyped
  <2>4. ASSUME ~ f, NEW i \in C PROVE \E s \in L \cup {r} : MadeFor(i, s, C)'
    <3>0. UNCHANGED pools
      BY <1>1 DEF store
    <3>1. CASE i = p
      BY <2>3, <3>1 DEF MadeFor
    <3>2. CASE i # p
      <4>1. PICK s \in L : MadeFor(i, s, C)
        BY <1>0, <1>00, <1>1, <1>3, <2>4, <3>2 DEF Owned
      <4>2. CASE s # r
        BY <2>3, <3>0, <4>1, <4>2 DEF MadeFor
      <4>3. CASE s = r
        <5>1. res[r].pool \in C /\ pools[res[r].pool].meta.tag = Data[r].name
          BY <1>00, <1>3, <1>4, <4>3 DEF Accounted
        <5>2. pools[i].meta.tag = Data[r].name
          BY <4>1, <4>3, <5>1 DEF MadeFor
        <5>3. i < p
          BY <1>2, <1>4, <3>2, NextTyped DEF Ids, PoolIds
        <5> QED
          BY <1>4, <2>3, <3>0, <4>3, <5>2, <5>3 DEF MadeFor
      <4> QED
        BY <4>2, <4>3
    <3> QED
      BY <3>1, <3>2
  <2>5. Owned(job[w])'
    BY <2>2, <2>4 DEF Owned, MadeFor
  <2> QED
    BY <2>1, <2>2, <2>5, BetweenItems
<1>6. CASE res' = res /\ job'[w] = k
  <2>1. /\ k.op = "cleanup" /\ k.ids = j.ids /\ k.items = j.items /\ k.made = j.made
        /\ k.created = j.created /\ k.linked = j.linked /\ k.failed = j.failed
        /\ k.base = j.base /\ k.pool = j.pool
    BY <1>2 DEF ImportRecord
  <2> HIDE DEF k
  <2>2. Accounted(job[w])'
    BY <1>1, <1>3, <1>6, <2>1, AccountedKept DEF SameImport, store
  <2>3. Fresh(job[w])'
    BY <1>1, <1>3, <1>6, <2>1 DEF Fresh, store
  <2>4. Owned(job[w])'
    <3>1. \A i, s : MadeFor(i, s, job[w].created)' <=> MadeFor(i, s, job[w].created)
      BY <1>1, <1>6, <2>1 DEF MadeFor, store
    <3> QED
      BY <1>1, <1>3, <1>6, <2>1, <3>1 DEF Owned
  <2> QED
    BY <1>6, <2>1, <2>2, <2>3, <2>4 DEF ImportSound
<1> QED
  BY <1>1, <1>5, <1>6

LEMMA CleanupSound ==
  ASSUME NetTyped, NEW w \in Workers, ApplyCleanup(w), ImportSound(job[w])
  PROVE  ImportSound(job[w])'
<1> DEFINE j == job[w]
<1> DEFINE k == [j EXCEPT !.created = @ \ {j.pool}]
<1>0. PICK b, C, L, I, M, p : /\ b = job[w].base /\ C = job[w].created /\ L = job[w].linked
                              /\ I = job[w].items /\ M = job[w].made /\ p = job[w].pool
  OBVIOUS
<1>1. /\ j.op = "cleanup" /\ res' = res
      /\ \/ RemovePool(p) /\ job'[w] = Skipped(k)
         \/ UNCHANGED store /\ job'[w] = Skipped(j)
  BY <1>0, JobNow DEF ApplyCleanup, RemoveFails
<1>2. j \in ImportRecord(next)
  BY <1>1, ImportingShape
<1>3. CASE UNCHANGED store /\ job'[w] = Skipped(j)
  BY <1>1, <1>3, ImportSkipSound
<1>4. CASE RemovePool(p) /\ job'[w] = Skipped(k)
  <2>1. /\ k \in ImportRecord(next) /\ k.created = C \ {p} /\ k.linked = L /\ k.items = I
        /\ k.made = M /\ k.base = b
    BY <1>0, <1>2 DEF ImportRecord
  <2> HIDE DEF k
  <2>2. /\ job'[w].created = C \ {p} /\ job'[w].linked = L /\ job'[w].items = I
        /\ job'[w].made = M /\ job'[w].base = b /\ job'[w].failed = TRUE
    <3>1. /\ Skipped(k).items = k.items /\ Skipped(k).made = k.made
          /\ Skipped(k).created = k.created /\ Skipped(k).linked = k.linked
          /\ Skipped(k).failed = TRUE /\ Skipped(k).base = k.base
      BY <2>1, SkippedFields
    <3> QED
      BY <1>4, <2>1, <3>1
  <2>3. job'[w].op \in {"item", "imported"}
    <3>1. Skipped(k).op = IF Len(k.ids) = 1 THEN "imported" ELSE "item"
      BY <2>1, SkippedFields
    <3> QED
      BY <1>4, <3>1
  <2>4. /\ next' = next /\ Ids' = Ids /\ MadeSince(b)' = MadeSince(b) \ {p}
        /\ \A i \in Ids : pools'[i].meta = pools[i].meta
    BY <1>4, PoolRemoved DEF NetTyped
  <2>5. Accounted(j) /\ Fresh(j) /\ C \subseteq Ids
    BY <1>0, <1>1, <1>2 DEF ImportSound, ImportRecord, Ids
  <2>6. \A s \in L : M[s] # p
    BY <1>0, <1>1, <2>5 DEF Fresh
  <2>7. Accounted(job[w])'
    <3>1. MadeSince(job[w].base)' = C \ {p}
      BY <1>0, <2>2, <2>4, <2>5 DEF Accounted, MadeSince
    <3>2. \A s \in L :
            /\ s \in DOMAIN I /\ M[s] # None /\ res'[s].pool = M[s]
            /\ IF I[s].pool # None THEN M[s] = I[s].pool
               ELSE M[s] \in C \ {p} /\ pools'[M[s]].meta.tag = Data[s].name
      BY <1>0, <1>1, <2>4, <2>5, <2>6 DEF Accounted
    <3>3. \A s \in DOMAIN I :
            /\ I[s].pool # None => I[s].pool < b
            /\ I[s].status \in {"importable", "conflict", "blocked"} => s \in L \/ Unlinked(s)'
      BY <1>0, <1>1, <2>5 DEF Accounted, Unlinked
    <3>4. b <= next'
      BY <1>0, <2>4, <2>5 DEF Accounted
    <3> QED
      BY <2>2, <3>1, <3>2, <3>3, <3>4 DEF Accounted
  <2> QED
    BY <2>2, <2>3, <2>7, BetweenItems DEF Owned
<1> QED
  BY <1>1, <1>3, <1>4

LEMMA ImportStepSound ==
  ASSUME NetTyped, NEW w \in Workers, ImportStep(w), ImportSound(job[w])
  PROVE  ImportSound(job[w])'
<1>1. CASE ApplySkip(w)
  BY <1>1, ImportSkipSound, JobNow DEF ApplySkip
<1>2. CASE ImportReturn(w)
  <2>1. job'[w].op = "idle"
    BY <1>2, JobNow DEF ImportReturn, Idle
  <2> QED
    BY <2>1, NoImport DEF ImportOps, SchemaOps
<1> QED
  BY <1>1, <1>2, PreviewSound, LinkExistingSound, ParentSound, CreateSound, ApplyLinkSound,
     CleanupSound DEF ImportStep

\* An import goes on as the request it was
LEMMA ImportStayed ==
  ASSUME NetTyped, NEW w \in Workers, ImportStep(w), job'[w] # Idle
  PROVE  job'[w].alone = job[w].alone /\ job[w] # Idle
<1> DEFINE j == job[w]
<1>0. job[w] # Idle
  BY DEF ImportStep, ImportPreview, ApplySkip, ApplyLinkExisting, ApplyParent, ApplyCreate,
         ApplyLink, ApplyCleanup, ImportReturn, Idle
<1>1. CASE ImportPreview(w)
  BY <1>0, <1>1, JobNow DEF ImportPreview
<1>2. CASE ImportReturn(w)
  BY <1>2, JobNow DEF ImportReturn
<1>3. ASSUME ApplySkip(w) \/ ApplyLinkExisting(w) \/ ApplyParent(w) \/ ApplyCreate(w)
             \/ ApplyLink(w) \/ ApplyCleanup(w)
      PROVE  job'[w].alone = j.alone
  <2>1. j.op \in {"item", "create", "link", "cleanup"}
    BY <1>3 DEF ApplySkip, ApplyLinkExisting, ApplyParent, ApplyCreate, ApplyLink, ApplyCleanup
  <2>2. /\ j \in ImportRecord(next) /\ Head(j.ids) \in Resources /\ Head(j.ids) \in DOMAIN j.made
        /\ j.items[Head(j.ids)].pool \in Ref(next)
        /\ j.pool \in Ref(next) /\ None \in Ref(next)
    BY <2>1, ImportingShape, NextTyped DEF ImportCore
  <2>3. \A p \in Ref(next) : Done(j, p).alone = j.alone
    BY <2>2, DoneRest
  <2>4. Skipped(j).alone = j.alone
    BY <2>2, SkippedFields
  <2>5. CASE ApplySkip(w)
    BY <2>4, <2>5, JobNow DEF ApplySkip
  <2>6. CASE ApplyLinkExisting(w)
    BY <2>2, <2>3, <2>4, <2>6, JobNow DEF ApplyLinkExisting
  <2>7. CASE ApplyParent(w)
    <3>1. \/ job'[w] = Skipped(j)
          \/ job'[w] = [j EXCEPT !.op = "create", !.parent = ImportParent(j)]
      BY <2>7, JobNow DEF ApplyParent
    <3>2. [j EXCEPT !.op = "create", !.parent = ImportParent(j)].alone = j.alone
      BY <2>2 DEF ImportRecord
    <3> QED
      BY <2>4, <3>1, <3>2
  <2>8. CASE ApplyCreate(w)
    <3>1. \/ job'[w] = Skipped(j)
          \/ job'[w] = [j EXCEPT !.op = "link", !.pool = next, !.created = @ \cup {next}]
      BY <2>8, JobNow DEF ApplyCreate
    <3>2. [j EXCEPT !.op = "link", !.pool = next, !.created = @ \cup {next}].alone = j.alone
      BY <2>2 DEF ImportRecord
    <3> QED
      BY <2>4, <3>1, <3>2
  <2>9. CASE ApplyLink(w)
    <3>1. [j EXCEPT !.op = "cleanup"].alone = j.alone
      BY <2>2 DEF ImportRecord
    <3> QED
      BY <2>2, <2>3, <2>9, <3>1, JobNow DEF ApplyLink
  <2>10. CASE ApplyCleanup(w)
    <3>1. Goes(w, Skipped(j)) \/ Writes(w, Skipped([j EXCEPT !.created = @ \ {j.pool}]))
      BY <2>10 DEF ApplyCleanup
    <3>2. /\ [j EXCEPT !.created = @ \ {j.pool}] \in ImportRecord(next)
          /\ [j EXCEPT !.created = @ \ {j.pool}].alone = j.alone
      BY <2>2 DEF ImportRecord
    <3>3. Skipped([j EXCEPT !.created = @ \ {j.pool}]).alone = j.alone
      BY <3>2, SkippedFields
    <3> QED
      BY <2>4, <3>1, <3>3, JobNow
  <2> QED
    BY <1>3, <2>5, <2>6, <2>7, <2>8, <2>9, <2>10
<1> QED
  BY <1>0, <1>1, <1>2, <1>3 DEF ImportStep

LEMMA SchemaStayed ==
  ASSUME NetTyped, NEW w \in Workers, SchemaImportStep(w), job'[w] # Idle
  PROVE  job'[w].alone = job[w].alone /\ job[w] # Idle
<1>0. job[w] # Idle
  BY DEF SchemaImportStep, SchemaImportList, SchemaImportSkip, SchemaImportItem,
         SchemaImportLink, Idle
<1>1. CASE SchemaImportList(w)
  BY <1>0, <1>1, JobNow DEF SchemaImportList
<1>2. CASE SchemaImportSkip(w) \/ SchemaImportItem(w) \/ SchemaImportLink(w)
  <2>1. job[w] \in SchemaRecord(next)
    BY <1>2, JobShape DEF SchemaImportSkip, SchemaImportItem, SchemaImportLink, Shapes,
                          SchemaType
  <2>2. ASSUME NEW k \in SchemaRecord(next), NEW r, NEW p, SchemaRest(k, r, p) # Idle
        PROVE  SchemaRest(k, r, p).alone = k.alone
    BY <2>2 DEF SchemaRest, SchemaRecord
  <2>3. ASSUME NEW k, NEW r, NEW p, DOMAIN k = DOMAIN job[w], SchemaRest(k, r, p) # Idle
        PROVE  SchemaRest(k, r, p).alone = k.alone
    BY <2>1, <2>3 DEF SchemaRest, SchemaRecord
  <2>4. CASE SchemaImportSkip(w)
    BY <1>0, <2>1, <2>2, <2>4, JobNow DEF SchemaImportSkip
  <2>5. CASE SchemaImportItem(w)
    <3>1. \/ \E r, p : job'[w] = SchemaRest(job[w], r, p)
          \/ job'[w] = [job[w] EXCEPT !.op = "schema_link", !.pool = next]
      BY <2>5, JobNow DEF SchemaImportItem
    <3>2. [job[w] EXCEPT !.op = "schema_link", !.pool = next].alone = job[w].alone
      BY <2>1 DEF SchemaRecord
    <3>3. CASE \E r, p : job'[w] = SchemaRest(job[w], r, p)
      BY <1>0, <2>1, <2>2, <3>3
    <3> QED
      BY <1>0, <3>1, <3>2, <3>3
  <2>6. CASE SchemaImportLink(w)
    <3>1. PICK listed, r, p : job'[w] = SchemaRest([job[w] EXCEPT !.listed = listed], r, p)
      BY <2>6, JobNow DEF SchemaImportLink
    <3> DEFINE k == [job[w] EXCEPT !.listed = listed]
    <3>2. k.alone = job[w].alone /\ DOMAIN k = DOMAIN job[w]
      BY <2>1 DEF SchemaRecord
    <3> HIDE DEF k
    <3>3. job'[w] = SchemaRest(k, r, p)
      BY <3>1 DEF k
    <3>4. SchemaRest(k, r, p) # Idle
      BY <3>3
    <3>5. SchemaRest(k, r, p).alone = k.alone
      BY <2>3, <3>2, <3>4
    <3> QED
      BY <1>0, <3>2, <3>3, <3>5
  <2> QED
    BY <1>2, <2>4, <2>5, <2>6
<1> QED
  BY <1>0, <1>1, <1>2 DEF SchemaImportStep

LEMMA ConflictBeginSound ==
  ASSUME NetTyped, NEW w \in Workers, ConflictStep(w)
  PROVE  ImportSound(job[w])'
<1>1. CASE ImportAction(w)
  <2>1. CASE job'[w].op = "preview"
    <3>1. UNCHANGED store
      BY <1>1 DEF ImportAction
    <3>2. \/ \E account, ids, selected, force, conflict, alone :
               ImportBegin(w, account, ids, selected, force, conflict, alone)
          \/ job'[w] = [job[w] EXCEPT !.op = "failed"]
      BY <1>1, JobNow DEF ImportAction
    <3>3. [job[w] EXCEPT !.op = "failed"].op # "preview"
      <4>1. job[w] \in ActionRecord(next)
        BY <1>1, ActionShape DEF ImportAction
      <4> QED
        BY <4>1 DEF ActionRecord
    <3> QED
      BY <2>1, <3>1, <3>2, <3>3, BeginSound
  <2>2. CASE job'[w].op # "preview"
    BY <2>2, ConflictOpsStay, NoImport DEF ActionOps, ImportOps, SchemaOps
  <2> QED
    BY <2>1, <2>2
<1>2. CASE ~ ImportAction(w)
  <2>1. job'[w].op \in ActionOps \cup {"idle"}
    BY <1>2, ConflictOpsStay
  <2> QED
    BY <2>1, NoImport DEF ActionOps, ImportOps, SchemaOps
<1> QED
  BY <1>1, <1>2

LEMMA ImportInvStep ==
  ASSUME NetTyped, ImportInv, [NetworkNext]_networkVars
  PROVE  ImportInv'
<1> SUFFICES ASSUME NEW w \in Workers, Lone(w)'
             PROVE  ImportSound(job[w])'
  BY DEF ImportInv
<1>1. CASE Still /\ job'[w] = job[w]
  <2>1. Lone(w)
    BY <1>1 DEF Lone
  <2> QED
    BY <1>1, <2>1, ImportKept DEF ImportInv
<1>2. CASE NewRequest(w)
  <2>1. CASE \E a \in AccountIds, ids \in Selections, selected \in {None} \cup Ids :
               ImportRequest(w, a, ids, selected)
    BY <2>1, BeginSound DEF ImportRequest
  <2>2. CASE \E a \in AccountIds : SchemaImportRequest(w, a)
    BY <2>2, SchemaRequestSound
  <2>3. CASE job'[w].op \in {"linking", "idle"} \cup DetectOps \cup ActionOps
    BY <2>3, NoImport DEF ImportOps, SchemaOps, DetectOps, ActionOps
  <2> QED
    BY <1>2, <2>1, <2>2, <2>3, LinkOps, DetectOpsStay, ConflictOpsStay DEF NewRequest
<1>3. CASE Serves(w)
  <2>1. CASE ImportStep(w)
    <3>1. Lone(w)
      BY <2>1, ImportStayed DEF Lone
    <3> QED
      BY <2>1, <3>1, ImportStepSound DEF ImportInv
  <2>2. CASE SchemaImportStep(w)
    <3>1. Lone(w)
      BY <2>2, SchemaStayed DEF Lone
    <3> QED
      BY <2>2, <3>1, SchemaStepSound DEF ImportInv
  <2>3. CASE LinkWrite(w) \/ DetectStep(w)
    <3>1. job'[w].op \in {"linking", "idle"} \cup DetectOps
      BY <2>3, LinkOps, DetectOpsStay
    <3> QED
      BY <3>1, NoImport DEF ImportOps, SchemaOps, DetectOps
  <2>4. CASE ConflictStep(w)
    BY <2>4, ConflictBeginSound
  <2> QED
    BY <1>3, <2>1, <2>2, <2>3, <2>4 DEF Serves
<1> QED
  BY <1>1, <1>2, <1>3, AloneStep

\* A request that ends or moves on, still alone, is served itself
LEMMA OwnStep ==
  ASSUME NetTyped, [NetworkNext]_networkVars, NEW v \in Workers,
         job[v] # Idle, job'[v] # job[v], job'[v] # Idle => job'[v].alone
  PROVE  Serves(v) \/ NewRequest(v)
<1>1. CASE job'[v] # Idle
  BY <1>1, AloneStep DEF Lone
<1>2. CASE job'[v] = Idle
  <2>0. job \in [Workers -> JobType(next)]
    BY DEF NetTyped, JobsTyped
  <2>1. job[v].op # "idle"
    BY <2>0, ShapeOf DEF Shapes
  <2>2. Busied(job[v]) # Idle
    BY <2>0, BusiedType
  <2>3. ASSUME NEW w, w # v PROVE Disturbed(job, w)[v] # Idle
    BY <2>1, <2>2, <2>3 DEF Disturbed, Busied
  <2>4. ASSUME NEW w \in Workers, w # v, Wrote(w)
        PROVE  FALSE
    <3>1. job'[v] = Disturbed(job, w)[v]
      BY <2>4 DEF Writes, Disturbed, Wrote
    <3> QED
      BY <1>2, <2>3, <2>4, <3>1
  <2>5. ASSUME NEW w \in Workers, w # v, LookedOn(w)
        PROVE  FALSE
    BY <2>5 DEF Goes, LookedOn
  <2>6. ~ UNCHANGED networkVars
    BY DEF networkVars
  <2>7. ~ OthersWrite
    BY <1>2, <2>3, ImportsAssumption DEF OthersWrite
  <2>8. ASSUME NEW w \in Workers, NewRequest(w) \/ Serves(w)
        PROVE  Wrote(w) \/ LookedOn(w)
    <3>1. NewRequest(w) => Wrote(w) \/ LookedOn(w)
      BY LinksEffect, ImportEffect, SchemaEffect, DetectEffect, ConflictEffect DEF NewRequest
    <3>2. Serves(w) => Wrote(w) \/ LookedOn(w)
      BY LinksEffect, ImportEffect, SchemaEffect, DetectEffect, ConflictEffect DEF Serves
    <3> QED
      BY <2>8, <3>1, <3>2
  <2>9. PICK w \in Workers : NewRequest(w) \/ Serves(w)
    BY <2>6, <2>7 DEF NetworkNext, Arrives
  <2> QED
    BY <2>4, <2>5, <2>8, <2>9
<1> QED
  BY <1>1, <1>2

\* A new request takes an idle worker
LEMMA RequestIdle ==
  ASSUME NEW w \in Workers, NewRequest(w)
  PROVE  job[w] = Idle
BY DEF NewRequest, LinkRequest, Unlink, ImportRequest, SchemaImportRequest, DetectRequest,
       ConflictRequest, ResolveRequest, LinkActionRequest, ImportActionRequest,
       PlaceholderRequest

LEMMA LinkedPoolKept ==
  ASSUME NetTyped, NEW w \in Workers, ImportSound(job[w]), NEW r \in Resources,
         job[w].op \in {"item", "link", "schema", "schema_link"},
         job[w].op \in {"item", "link"} => r \notin job[w].linked,
         ~ Unlinked(r), Serves(w)
  PROVE  res'[r].pool = res[r].pool
<1> DEFINE j == job[w]
<1>0. \A s \in Resources : \A p : LinkResource(s, p) /\ s # r => res'[r] = res[r]
  BY DEF LinkResource, NetTyped, ResTyped
<1>1. CASE ApplyLinkExisting(w) \/ ApplyLink(w)
  <2>1. PICK s, p : s = Head(j.ids) /\ (LinkResource(s, p) \/ res' = res)
    BY <1>1 DEF ApplyLinkExisting, ApplyLink, LinkFails
  <2>2. j.op \in {"item", "link"} /\ (j.op = "item" => Wanted(j))
    BY <1>1 DEF ApplyLinkExisting, ApplyLink
  <2>3. /\ j \in ImportType(next) /\ j.op # "imported" /\ Wanted(j)
        /\ s \in Resources /\ s \in DOMAIN j.items
    BY <2>1, <2>2, ImportingShape
  <2>4. j.items[s].status \in {"importable", "conflict", "blocked"}
    BY <2>1, <2>3, WantedStatus
  <2>5. s \in j.linked \/ Unlinked(s)
    BY <2>2, <2>3, <2>4 DEF ImportSound, Accounted
  <2> QED
    BY <1>0, <2>1, <2>2, <2>3, <2>5
<1>2. CASE SchemaImportItem(w) \/ SchemaImportLink(w)
  <2>1. PICK s, p : s = FirstOf(j.todo) /\ (LinkResource(s, p) \/ res' = res)
    BY <1>2 DEF SchemaImportItem, SchemaImportLink, LinkFails
  <2>2. j.op \in {"schema", "schema_link"} /\ (j.op = "schema" => j.links[s] = None)
    BY <1>2, <2>1 DEF SchemaImportItem, SchemaImportLink
  <2>3. j \in SchemaRecord(next) /\ SchemaFacts(j)
    BY <2>2, JobShape DEF Shapes, SchemaType
  <2>4. s \in j.todo /\ s \in Resources
    <3>1. j.todo \in SUBSET Nat /\ j.todo # {} /\ j.todo \subseteq Resources
      BY <2>3, Discovered DEF SchemaRecord, SchemaFacts
    <3> QED
      BY <2>1, <3>1, FirstOfType
  <2>5. j.links[s] = None
    BY <2>1, <2>2, <2>3 DEF SchemaFacts
  <2>6. Unlinked(s)
    BY <2>2, <2>4, <2>5 DEF ImportSound, Unlinked
  <2> QED
    BY <1>0, <2>1, <2>4, <2>6
<1>3. CASE ~ (ApplyLinkExisting(w) \/ ApplyLink(w) \/ SchemaImportItem(w) \/ SchemaImportLink(w))
  <2>1. ~ LinkWrite(w)
    BY DEF LinkWrite
  <2>2. ~ DetectStep(w)
    BY DEF DetectStep, DetectClear, DetectList, DetectResource, DetectPool, DetectNext,
           DetectReturn
  <2>3. ~ ConflictStep(w)
    BY DEF ConflictStep, ResolveUpdate, ResolveCreate, ResolveAgain, EnsureRecord,
           LinkAction, RollbackLink, ImportAction, ImportOutcome, RollbackUnlink, RollbackPool,
           RollbackEnd, PlaceholderCreate, ActionReturn
  <2>4. ImportStep(w) => res' = res
    BY <1>3 DEF ImportStep, ImportPreview, ApplySkip, ApplyParent, ApplyCreate, ApplyCleanup,
                ImportReturn
  <2>5. SchemaImportStep(w) => res' = res
    BY <1>3 DEF SchemaImportStep, SchemaImportList, SchemaImportSkip
  <2> QED
    BY <2>1, <2>2, <2>3, <2>4, <2>5 DEF Serves
<1> QED
  BY <1>1, <1>2, <1>3

\* An import nobody disturbed accounts for every pool it made, and takes a
\* resource from no pool but one that it linked itself.
THEOREM ImportTheorem == NetworkSpec => ImportsSound
<1>1. NetworkInit => NetTyped /\ ImportInv
  BY InitTyped, NobodyLone DEF ImportInv
<1>2. NetTyped /\ ImportInv /\ [NetworkNext]_networkVars => NetTyped' /\ ImportInv'
  BY StepTyped, ImportInvStep
<1>3. NetTyped /\ ImportInv => ImportAccounted
  <2> SUFFICES ASSUME NetTyped, ImportInv, NEW w \in Workers,
                      job[w].op = "imported", job[w].alone,
                      NEW i \in Ids, i >= job[w].base, Live(i)
               PROVE  /\ i \in job[w].created
                      /\ ~ job[w].failed =>
                           \E r \in job[w].linked : MadeFor(i, r, job[w].created)
    BY DEF ImportAccounted
  <2>1. Lone(w)
    BY DEF Lone, Idle
  <2>2. Accounted(job[w]) /\ Owned(job[w])
    BY <2>1 DEF ImportInv, ImportSound
  <2> QED
    BY <2>2 DEF Accounted, Owned, MadeSince
<1>4. NetTyped /\ ImportInv /\ [NetworkNext]_networkVars =>
       [\A w \in Workers, r \in Resources :
          /\ job[w].op \in {"item", "link", "schema", "schema_link"}
          /\ job[w].op \in {"item", "link"} => r \notin job[w].linked
          /\ job[w].alone
          /\ job'[w] # job[w] /\ (job'[w] # Idle => job'[w].alone)
          /\ ~ Unlinked(r)
          => res'[r].pool = res[r].pool]_<<res, job>>
  <2> SUFFICES ASSUME NetTyped, ImportInv, [NetworkNext]_networkVars,
                      NEW w \in Workers, NEW r \in Resources,
                      job[w].op \in {"item", "link", "schema", "schema_link"},
                      job[w].op \in {"item", "link"} => r \notin job[w].linked,
                      job[w].alone, job'[w] # job[w], job'[w] # Idle => job'[w].alone,
                      ~ Unlinked(r)
               PROVE  res'[r].pool = res[r].pool
    OBVIOUS
  <2>1. job[w] # Idle
    BY DEF Idle
  <2>2. Serves(w)
    BY <2>1, OwnStep, RequestIdle
  <2>3. ImportSound(job[w])
    BY <2>1 DEF ImportInv, Lone
  <2> QED
    BY <2>2, <2>3, LinkedPoolKept
<1>5. NetworkSpec => ImportKeepsLinks
  BY <1>1, <1>2, <1>4, PTL DEF NetworkSpec, ImportKeepsLinks
<1> QED
  BY <1>1, <1>2, <1>3, <1>5, PTL DEF NetworkSpec, ImportsSound

-----------------------------------------------------------------------------
(* Conflict actions. *)
(* What an undisturbed conflict action has changed.                        *)

\* Links but those of S are what they were
LinksBut(S, j) == \A r \in Resources \ S : res[r].pool = j.before[r]

Untouched(j) == LinksBut({}, j) /\ j.base = next

Undone(j) == LinksBut({}, j) /\ j.base <= next /\ MadeSince(j.base) = {}

LinkDone(j) ==
  /\ LinksBut({j.r}, j) /\ res[j.r].pool = j.pool
  /\ j.base <= next /\ MadeSince(j.base) = {}

ImportDone(j) ==
  /\ LinksBut(j.linked, j)
  /\ \A r \in j.linked : j.before[r] = None
  /\ j.base <= next /\ MadeSince(j.base) = j.created

AllLinked(j) == \A k \in DOMAIN j.ids : ~ Unlinked(j.ids[k])

Begun == {"ensure", "link_action", "import_action", "placeholder"}
Resolving == {"resolve", "record", "recorded", "ok"}

ActionSound(j) ==
  /\ j.op \in Begun => Untouched(j) /\ ~ j.stuck /\ j.linked = {} /\ j.created = {}
  /\ j.op \in Resolving =>
       /\ j.kind = "decision" => Undone(j)
       /\ j.kind = "link_action" => LinkDone(j)
       /\ j.kind = "import_action" => ImportDone(j) /\ AllLinked(j)
       /\ ~ j.stuck
  /\ j.op = "rollback" /\ j.stuck => j.kind = "import_action"
  /\ j.op = "rollback" /\ ~ j.stuck =>
       /\ j.kind = "decision" => Undone(j)
       /\ j.kind = "link_action" => LinkDone(j)
       /\ j.kind = "import_action" => ImportDone(j)
  /\ j.op = "ok" => records[j.id].status = networkDecisionStatus(j.decision)
  /\ j.op = "failed" => Undone(j)
  /\ j.op = "preview" /\ j.conflict # None => Untouched(j.conflict) /\ ~ j.conflict.stuck
  /\ j.op \in {"item", "create", "link", "cleanup", "imported"} /\ j.conflict # None =>
       /\ LinksBut(j.linked, j.conflict)
       /\ \A r \in j.linked : j.conflict.before[r] = None
       /\ j.conflict.base = j.base /\ ~ j.conflict.stuck

ActionInv == \A w \in Workers : Lone(w) => ActionSound(job[w])

\* What of an action's locals the invariant speaks of
SameWork(j, k) ==
  /\ k.kind = j.kind /\ k.before = j.before /\ k.base = j.base /\ k.r = j.r
  /\ k.pool = j.pool /\ k.ids = j.ids /\ k.linked = j.linked /\ k.created = j.created
  /\ k.stuck = j.stuck /\ k.id = j.id /\ k.decision = j.decision

LEMMA WorkKept ==
  ASSUME NEW w \in Workers, UNCHANGED <<pools, next, res>>, SameWork(job[w], job'[w])
  PROVE  /\ Untouched(job[w]) => Untouched(job[w])'
         /\ Undone(job[w]) => Undone(job[w])'
         /\ LinkDone(job[w]) => LinkDone(job[w])'
         /\ ImportDone(job[w]) => ImportDone(job[w])'
         /\ AllLinked(job[w]) => AllLinked(job[w])'
<1>1. PICK b, C, L, B, r, p, I :
        /\ b = job[w].base /\ C = job[w].created /\ L = job[w].linked /\ B = job[w].before
        /\ r = job[w].r /\ p = job[w].pool /\ I = job[w].ids
  OBVIOUS
<1>2. /\ b = job'[w].base /\ C = job'[w].created /\ L = job'[w].linked /\ B = job'[w].before
      /\ r = job'[w].r /\ p = job'[w].pool /\ I = job'[w].ids
  BY <1>1 DEF SameWork
<1>3. MadeSince(b)' = MadeSince(b) /\ \A s : Unlinked(s)' <=> Unlinked(s)
  BY LiveKept
<1>4. MadeSince(job[w].base)' = MadeSince(job[w].base)
  BY <1>1, <1>2, <1>3 DEF MadeSince
<1>5. \A S : LinksBut(S, job[w]) => LinksBut(S, job[w])'
  BY <1>1, <1>2 DEF LinksBut
<1>6. LinksBut({r}, job[w]) => LinksBut({job[w].r}, job[w])'
  BY <1>1, <1>2 DEF LinksBut
<1>7. LinksBut(L, job[w]) => LinksBut(job[w].linked, job[w])'
  BY <1>1, <1>2 DEF LinksBut
<1>8. Untouched(job[w]) => Untouched(job[w])'
  BY <1>1, <1>2, <1>5 DEF Untouched
<1>9. Undone(job[w]) => Undone(job[w])'
  BY <1>1, <1>2, <1>4, <1>5 DEF Undone
<1>10. LinkDone(job[w]) => LinkDone(job[w])'
  BY <1>1, <1>2, <1>4, <1>6 DEF LinkDone
<1>11. ImportDone(job[w]) => ImportDone(job[w])'
  BY <1>1, <1>2, <1>4, <1>7 DEF ImportDone
<1>12. AllLinked(job[w]) => AllLinked(job[w])'
  BY <1>1, <1>2, <1>3 DEF AllLinked
<1> QED
  BY <1>8, <1>9, <1>10, <1>11, <1>12

LEMMA NothingMade ==
  ASSUME StoreTyped
  PROVE  MadeSince(next) = {} /\ \A j : Untouched(j) => Undone(j)
<1>1. MadeSince(next) = {} /\ next <= next
  BY DEF MadeSince, Ids, StoreTyped, PoolIds
<1> QED
  BY <1>1 DEF Untouched, Undone

LEMMA OpMoved ==
  ASSUME NEW n, NEW j \in ActionRecord(n), NEW op, NEW k, k = [j EXCEPT !.op = op]
  PROVE  k.op = op /\ SameWork(j, k) /\ k.alone = j.alone
BY DEF ActionRecord, SameWork

LEMMA NoAction ==
  ASSUME NEW w \in Workers, job'[w].op \notin ActionOps \cup ImportOps
  PROVE  ActionSound(job[w])'
BY DEF ActionSound, ActionOps, ImportOps, Begun, Resolving

LEMMA ActionKept ==
  ASSUME NetTyped, NEW w \in Workers, ActionSound(job[w]), Still, job'[w] = job[w]
  PROVE  ActionSound(job[w])'
<1>0. PICK j : j = job[w]
  OBVIOUS
<1>1. UNCHANGED <<pools, next, res, records>>
  BY DEF Still
<1>2. /\ Untouched(job[w]) => Untouched(job[w])'
      /\ Undone(job[w]) => Undone(job[w])'
      /\ LinkDone(job[w]) => LinkDone(job[w])'
      /\ ImportDone(job[w]) => ImportDone(job[w])'
      /\ AllLinked(job[w]) => AllLinked(job[w])'
  BY <1>1, WorkKept DEF SameWork
<1>3. Untouched(job[w].conflict) => Untouched(job[w].conflict)'
  BY <1>1 DEF Untouched, LinksBut
<1>4. LinksBut(job[w].linked, job[w].conflict) => LinksBut(job[w].linked, job[w].conflict)'
  BY <1>1 DEF LinksBut
<1> QED
  BY <1>1, <1>2, <1>3, <1>4 DEF ActionSound

LEMMA ResolvedSound ==
  ASSUME NetTyped, NEW w \in Workers, ActionSound(job[w]), UNCHANGED <<store, res>>,
         job[w].op \in {"resolve", "record", "recorded"},
         NEW op \in {"record", "recorded", "rollback", "ok"},
         job'[w] = [job[w] EXCEPT !.op = op],
         op = "ok" => records'[job[w].id].status = networkDecisionStatus(job[w].decision)
  PROVE  ActionSound(job[w])'
<1>1. job[w] \in ActionRecord(next)
  BY ActionShape
<1>2. job'[w].op = op /\ SameWork(job[w], job'[w])
  BY <1>1, OpMoved
<1>3. /\ Undone(job[w]) => Undone(job[w])'
      /\ LinkDone(job[w]) => LinkDone(job[w])'
      /\ ImportDone(job[w]) => ImportDone(job[w])'
      /\ AllLinked(job[w]) => AllLinked(job[w])'
  BY <1>2, WorkKept DEF store
<1>4. /\ job[w].kind = "decision" => Undone(job[w])
      /\ job[w].kind = "link_action" => LinkDone(job[w])
      /\ job[w].kind = "import_action" => ImportDone(job[w]) /\ AllLinked(job[w])
      /\ ~ job[w].stuck
  BY DEF ActionSound, Resolving
<1>5. /\ job'[w].kind = job[w].kind /\ ~ job'[w].stuck
      /\ job'[w].id = job[w].id /\ job'[w].decision = job[w].decision
  BY <1>2, <1>4 DEF SameWork
<1>6. op = "ok" => (records[job[w].id].status = networkDecisionStatus(job[w].decision))'
  BY <1>5 DEF networkDecisionStatus
<1> QED
  BY <1>2, <1>3, <1>4, <1>5, <1>6 DEF ActionSound, Begun, Resolving

LEMMA ResolveStepsSound ==
  ASSUME NetTyped, NEW w \in Workers, ActionSound(job[w]),
         ResolveUpdate(w) \/ ResolveCreate(w) \/ ResolveAgain(w)
  PROVE  ActionSound(job[w])' /\ job'[w].alone = job[w].alone
<1>1. ASSUME NEW status, RecordStatus(job[w].id, status)
      PROVE  records'[job[w].id].status = status
  BY <1>1 DEF RecordStatus, RecordPut
<1>2. \E op \in {"record", "recorded", "rollback", "ok"} :
        /\ job'[w] = [job[w] EXCEPT !.op = op]
        /\ op = "ok" => records'[job[w].id].status = networkDecisionStatus(job[w].decision)
        /\ UNCHANGED <<store, res>> /\ job[w].op \in {"resolve", "record", "recorded"}
  <2>1. CASE ResolveUpdate(w)
    BY <1>1, <2>1, JobNow DEF ResolveUpdate
  <2>2. CASE ResolveCreate(w)
    BY <2>2, JobNow DEF ResolveCreate
  <2>3. CASE ResolveAgain(w)
    BY <1>1, <2>3, JobNow DEF ResolveAgain
  <2> QED
    BY <2>1, <2>2, <2>3
<1>3. PICK op \in {"record", "recorded", "rollback", "ok"} :
        /\ job'[w] = [job[w] EXCEPT !.op = op]
        /\ op = "ok" => records'[job[w].id].status = networkDecisionStatus(job[w].decision)
  BY <1>2
<1>4. UNCHANGED <<store, res>> /\ job[w].op \in {"resolve", "record", "recorded"}
  BY <1>2
<1>5. job[w] \in ActionRecord(next)
  BY <1>4, ActionShape
<1>6. job'[w].alone = job[w].alone
  BY <1>3, <1>5, OpMoved
<1>7. ActionSound(job[w])'
  BY <1>3, <1>4, ResolvedSound
<1> QED
  BY <1>6, <1>7

\* An action that goes on before it has changed anything, or gives up
LEMMA BegunSound ==
  ASSUME NetTyped, NEW w \in Workers, ActionSound(job[w]), UNCHANGED <<store, res>>,
         job[w].op \in Begun,
         NEW op \in {"link_action", "import_action", "failed"},
         job'[w] = [job[w] EXCEPT !.op = op]
  PROVE  ActionSound(job[w])' /\ job'[w].alone = job[w].alone
<1>1. job[w] \in ActionRecord(next)
  BY ActionShape DEF Begun
<1>2. job'[w].op = op /\ SameWork(job[w], job'[w]) /\ job'[w].alone = job[w].alone
  BY <1>1, OpMoved
<1>3. /\ Untouched(job[w]) => Untouched(job[w])'
      /\ Undone(job[w]) => Undone(job[w])'
  BY <1>2, WorkKept DEF store
<1>4. Untouched(job[w]) /\ Undone(job[w]) /\ ~ job[w].stuck
      /\ job[w].linked = {} /\ job[w].created = {}
  BY NothingMade DEF ActionSound, NetTyped
<1>5. ~ job'[w].stuck /\ job'[w].linked = {} /\ job'[w].created = {}
  BY <1>2, <1>4 DEF SameWork
<1> QED
  BY <1>2, <1>3, <1>4, <1>5 DEF ActionSound, Begun, Resolving

LEMMA EnsureSound ==
  ASSUME NetTyped, NEW w \in Workers, ActionSound(job[w]), EnsureRecord(w)
  PROVE  ActionSound(job[w])' /\ job'[w].alone = job[w].alone
<1>1. job[w].op = "ensure" /\ ActionFacts(job[w]) /\ UNCHANGED <<store, res>>
  BY ActionShape DEF EnsureRecord
<1>2. \E op \in {"link_action", "import_action", "failed"} : job'[w] = [job[w] EXCEPT !.op = op]
  BY <1>1, JobNow DEF EnsureRecord, ActionFacts
<1> QED
  BY <1>1, <1>2, BegunSound DEF Begun

LEMMA PlaceholderSound ==
  ASSUME NetTyped, NEW w \in Workers, ActionSound(job[w]), PlaceholderCreate(w)
  PROVE  ActionSound(job[w])' /\ job'[w].alone = job[w].alone
<1>1. job[w].op = "placeholder" /\ ActionFacts(job[w]) /\ UNCHANGED <<store, res>>
      /\ job[w] \in ActionRecord(next)
  BY ActionShape DEF PlaceholderCreate
<1>2. CASE job'[w] = [job[w] EXCEPT !.op = "failed"]
  BY <1>1, <1>2, BegunSound DEF Begun
<1>3. CASE job'[w] = [job[w] EXCEPT !.op = "resolve"]
  <2>1. job'[w].op = "resolve" /\ SameWork(job[w], job'[w]) /\ job'[w].alone = job[w].alone
    BY <1>1, <1>3, OpMoved
  <2>2. Undone(job[w])'
    <3>1. Undone(job[w])
      BY <1>1, NothingMade DEF ActionSound, Begun, NetTyped
    <3> QED
      BY <1>1, <2>1, <3>1, WorkKept DEF store
  <2>3. job'[w].kind = "decision" /\ ~ job'[w].stuck
    BY <1>1, <2>1 DEF SameWork, ActionSound, Begun, ActionFacts
  <2> QED
    BY <2>1, <2>2, <2>3 DEF ActionSound, Begun, Resolving
<1> QED
  BY <1>2, <1>3, JobNow DEF PlaceholderCreate

LEMMA MadeKept ==
  ASSUME UNCHANGED <<pools, next>>
  PROVE  \A b : MadeSince(b)' = MadeSince(b)
BY DEF MadeSince, Live, Ids

LEMMA Relinked ==
  ASSUME NetTyped, NEW r \in Resources, NEW p, LinkResource(r, p)
  PROVE  /\ res'[r].pool = p
         /\ \A s \in Resources : s # r => res'[s] = res[s]
<1>1. res \in [Resources -> [active : BOOLEAN, pool : Ref(next)]]
  BY DEF NetTyped, ResTyped
<1>2. res[r] \in [active : BOOLEAN, pool : Ref(next)]
  BY <1>1
<1>3. res' = [res EXCEPT ![r] = [@ EXCEPT !.pool = p]]
  BY DEF LinkResource
<1>4. res'[r] = [res[r] EXCEPT !.pool = p]
  BY <1>1, <1>3
<1> QED
  BY <1>1, <1>2, <1>3, <1>4

LEMMA LinkActionSound ==
  ASSUME NetTyped, NEW w \in Workers, ActionSound(job[w]), LinkAction(w)
  PROVE  ActionSound(job[w])' /\ job'[w].alone = job[w].alone
<1>1. job[w].op = "link_action" /\ UNCHANGED store
  BY DEF LinkAction
<1>2. /\ job[w] \in ActionRecord(next) /\ job[w].kind = "link_action"
      /\ job[w].r \in Resources
  BY <1>1, ActionShape DEF ActionFacts, ActionRecord
<1>3. /\ Untouched(job[w]) /\ ~ job[w].stuck /\ Undone(job[w])
  BY <1>1, NothingMade DEF ActionSound, Begun, NetTyped
<1>4. CASE LinkFails /\ Goes(w, [job[w] EXCEPT !.op = "failed"])
  <2>1. res' = res /\ job'[w] = [job[w] EXCEPT !.op = "failed"]
    BY <1>4, JobNow DEF LinkFails
  <2> QED
    BY <1>1, <2>1, BegunSound DEF Begun
<1>5. CASE /\ LinkResource(job[w].r, job[w].pool)
           /\ Writes(w, [job[w] EXCEPT !.op = "resolve"])
  <2>1. job'[w] = [job[w] EXCEPT !.op = "resolve"]
    BY <1>5, JobNow
  <2>2. job'[w].op = "resolve" /\ SameWork(job[w], job'[w]) /\ job'[w].alone = job[w].alone
    BY <1>2, <2>1, OpMoved
  <2>3. PICK r, p, b, B : r = job[w].r /\ p = job[w].pool /\ b = job[w].base /\ B = job[w].before
    OBVIOUS
  <2>4. r = job'[w].r /\ p = job'[w].pool /\ b = job'[w].base /\ B = job'[w].before
    BY <2>2, <2>3 DEF SameWork
  <2>5. res'[r].pool = p /\ \A s \in Resources : s # r => res'[s] = res[s]
    BY <1>2, <1>5, <2>3, Relinked
  <2>6. \A s \in Resources \ {r} : res'[s].pool = B[s]
    BY <1>3, <2>3, <2>5 DEF Untouched, LinksBut
  <2>7. b <= next' /\ MadeSince(b)' = {}
    BY <1>1, <1>3, <2>3, MadeKept DEF Undone, store
  <2>8. LinkDone(job[w])'
    BY <2>4, <2>5, <2>6, <2>7 DEF LinkDone, LinksBut, MadeSince
  <2>9. job'[w].kind = "link_action" /\ ~ job'[w].stuck
    BY <1>2, <1>3, <2>2 DEF SameWork
  <2> QED
    BY <2>2, <2>8, <2>9 DEF ActionSound, Begun, Resolving
<1> QED
  BY <1>4, <1>5 DEF LinkAction

LEMMA RollbackLinkSound ==
  ASSUME NetTyped, NEW w \in Workers, ActionSound(job[w]), RollbackLink(w)
  PROVE  ActionSound(job[w])' /\ job'[w].alone = job[w].alone
<1>1. job[w].op = "rollback" /\ job[w].kind = "link_action" /\ UNCHANGED store
  BY DEF RollbackLink
<1>2. job[w] \in ActionRecord(next) /\ job[w].r \in Resources
  BY <1>1, ActionShape DEF ActionRecord
<1>3. LinkDone(job[w])
  BY <1>1 DEF ActionSound
<1>4. CASE LinkFails /\ Goes(w, [job[w] EXCEPT !.op = "stuck"])
  <2>1. job'[w] = [job[w] EXCEPT !.op = "stuck"]
    BY <1>4, JobNow
  <2>2. job'[w].op = "stuck" /\ job'[w].alone = job[w].alone
    BY <1>2, <2>1, OpMoved
  <2> QED
    BY <2>2 DEF ActionSound, Begun, Resolving
<1>5. CASE /\ RollbackTo(job[w].r, job[w].before[job[w].r])
           /\ Writes(w, [job[w] EXCEPT !.op = "failed"])
  <2>1. job'[w] = [job[w] EXCEPT !.op = "failed"]
    BY <1>5, JobNow
  <2>2. job'[w].op = "failed" /\ SameWork(job[w], job'[w]) /\ job'[w].alone = job[w].alone
    BY <1>2, <2>1, OpMoved
  <2>3. PICK r, b, B : r = job[w].r /\ b = job[w].base /\ B = job[w].before
    OBVIOUS
  <2>4. r = job'[w].r /\ b = job'[w].base /\ B = job'[w].before
    BY <2>2, <2>3 DEF SameWork
  <2>5. res'[r].pool = B[r] /\ \A s \in Resources : s # r => res'[s] = res[s]
    BY <1>2, <1>5, <2>3, Relinked DEF RollbackTo
  <2>6. \A s \in Resources \ {} : res'[s].pool = B[s]
    BY <1>3, <2>3, <2>5 DEF LinkDone, LinksBut
  <2>7. b <= next' /\ MadeSince(b)' = {}
    BY <1>1, <1>3, <2>3, MadeKept DEF LinkDone, store
  <2>8. Undone(job[w])'
    BY <2>4, <2>6, <2>7 DEF Undone, LinksBut, MadeSince
  <2> QED
    BY <2>2, <2>8 DEF ActionSound, Begun, Resolving
<1> QED
  BY <1>4, <1>5 DEF RollbackLink

LEMMA ImportActionSound ==
  ASSUME NetTyped, NEW w \in Workers, ActionSound(job[w]), ImportAction(w)
  PROVE  ActionSound(job[w])' /\ job'[w].alone = job[w].alone
<1>1. job[w].op = "import_action" /\ UNCHANGED <<store, res>>
  BY DEF ImportAction
<1>2. CASE Goes(w, [job[w] EXCEPT !.op = "failed"])
  <2>1. job'[w] = [job[w] EXCEPT !.op = "failed"]
    BY <1>2, JobNow
  <2> QED
    BY <1>1, <2>1, BegunSound DEF Begun
<1>3. CASE ImportBegin(w, Data[Head(job[w].ids)].account, job[w].ids, job[w].selected,
                       job[w].override, job[w], job[w].alone)
  <2>1. job'[w].op = "preview" /\ job'[w].conflict = job[w] /\ job'[w].alone = job[w].alone
    BY <1>3, JobNow DEF ImportBegin
  <2>2. PICK j : j = job[w]
    OBVIOUS
  <2>3. Untouched(j) /\ ~ j.stuck
    BY <1>1, <2>2 DEF ActionSound, Begun
  <2>4. Untouched(j)'
    BY <1>1, <2>3 DEF Untouched, LinksBut, store
  <2>5. Untouched(job[w].conflict)' /\ ~ job'[w].conflict.stuck
    BY <2>1, <2>2, <2>3, <2>4
  <2> QED
    BY <2>1, <2>5 DEF ActionSound, Begun, Resolving
<1> QED
  BY <1>2, <1>3 DEF ImportAction

LEMMA OutcomeSound ==
  ASSUME NetTyped, NEW w \in Workers, ActionSound(job[w]), ImportSound(job[w]),
         ImportOutcome(w)
  PROVE  ActionSound(job[w])' /\ job'[w].alone = job[w].alone
<1>1. /\ job[w].op = "imported" /\ job[w].conflict # None /\ UNCHANGED <<store, res>>
  BY DEF ImportOutcome
<1>2. job[w] \in ImportRecord(next) /\ ImportFacts(job[w])
  BY <1>1, JobShape DEF Shapes, ImportType
<1>3. PICK c, L, C, b, B, I :
        /\ c = job[w].conflict /\ L = job[w].linked /\ C = job[w].created
        /\ b = job[w].base /\ B = c.before /\ I = c.ids
  OBVIOUS
<1>4. c \in ActionRecord(next) /\ c.kind = "import_action"
  <2>1. c \in ActionType(next) /\ c.op = "import_action"
    BY <1>1, <1>2, <1>3 DEF ImportRecord, CallerType
  <2> QED
    BY <2>1 DEF ActionType, ActionFacts
<1>5. PICK op \in {"rollback", "resolve"} :
        /\ job'[w] = [[c EXCEPT !.linked = L, !.created = C, !.alone = job[w].alone]
                        EXCEPT !.op = op]
        /\ op = "resolve" => ~ job[w].failed
  BY <1>3, JobNow DEF ImportOutcome
<1>6. PICK k : k = job'[w]
  OBVIOUS
<1>7. /\ k.op = op /\ k.kind = "import_action" /\ k.linked = L /\ k.created = C
      /\ k.alone = job[w].alone /\ k.before = B /\ k.base = c.base /\ k.ids = I
      /\ k.stuck = c.stuck
  BY <1>3, <1>4, <1>5, <1>6 DEF ActionRecord
<1>8. /\ LinksBut(L, c) /\ (\A r \in L : B[r] = None) /\ c.base = b /\ ~ c.stuck
  BY <1>1, <1>3 DEF ActionSound
<1>9. Accounted(job[w])
  BY <1>1 DEF ImportSound
<1>10. k.base = b
  BY <1>7, <1>8
<1>11. b <= next' /\ MadeSince(b)' = C
  BY <1>1, <1>3, <1>9, MadeKept DEF Accounted, store
<1>12. \A r \in Resources \ L : res'[r].pool = B[r]
  BY <1>1, <1>3, <1>8 DEF LinksBut
<1>13. ImportDone(job[w])'
  BY <1>6, <1>7, <1>8, <1>10, <1>11, <1>12 DEF ImportDone, LinksBut, MadeSince
<1>14. op = "resolve" => AllLinked(job[w])'
  <2> SUFFICES ASSUME op = "resolve" PROVE AllLinked(job[w])'
    OBVIOUS
  <2>1. Remaining(job[w]) = {}
    <3>1. job[w].ids = <<>>
      BY <1>1, <1>2 DEF ImportFacts
    <3> QED
      BY <3>1 DEF Remaining
  <2>2. \A i \in DOMAIN I : I[i] \in L
    BY <1>1, <1>2, <1>3, <1>5, <2>1 DEF ImportFacts, ImportCore
  <2>3. \A r \in L : ~ Unlinked(r)
    BY <1>3, <1>9 DEF Accounted, Unlinked
  <2>4. \A i \in DOMAIN I : res'[I[i]].pool # None
    BY <1>1, <2>2, <2>3 DEF Unlinked
  <2> QED
    BY <1>6, <1>7, <2>4 DEF AllLinked, Unlinked
<1> QED
  BY <1>6, <1>7, <1>8, <1>13, <1>14 DEF ActionSound, Begun, Resolving

LEMMA RollbackShape ==
  ASSUME NetTyped, NEW w \in Workers, job[w].op = "rollback"
  PROVE  /\ job[w] \in ActionRecord(next)
         /\ job[w].linked \in SUBSET Resources /\ job[w].created \in SUBSET (1 .. next - 1)
         /\ job[w].linked # {} =>
              FirstOf(job[w].linked) \in job[w].linked /\ FirstOf(job[w].linked) \in Resources
         /\ job[w].created # {} =>
              LastCreated(job[w].created) \in job[w].created
<1>1. /\ job[w] \in ActionRecord(next)
      /\ job[w].linked \in SUBSET Resources /\ job[w].created \in SUBSET (1 .. next - 1)
  BY ActionShape DEF ActionRecord
<1>2. PICK L, C : L = job[w].linked /\ C = job[w].created
  OBVIOUS
<1>3. L # {} => FirstOf(L) \in L /\ FirstOf(L) \in Resources
  BY <1>1, <1>2, Discovered, FirstOfType
<1>4. PICK n : n = next - 1
  OBVIOUS
<1>5. n \in Nat
  BY <1>4 DEF NetTyped, StoreTyped, PoolIds
<1>6. C # {} => LastCreated(C) \in C
  BY <1>1, <1>2, <1>4, <1>5, LastCreatedType
<1> QED
  BY <1>1, <1>2, <1>3, <1>6

LEMMA RollbackUnlinkSound ==
  ASSUME NetTyped, NEW w \in Workers, ActionSound(job[w]), RollbackUnlink(w)
  PROVE  ActionSound(job[w])' /\ job'[w].alone = job[w].alone
<1>1. PICK j, L, r : j = job[w] /\ L = job[w].linked /\ r = FirstOf(L)
  OBVIOUS
<1>2. /\ j.op = "rollback" /\ j.kind = "import_action" /\ UNCHANGED store
      /\ \/ LinkResource(r, None) /\ Writes(w, [j EXCEPT !.linked = L \ {r}])
         \/ LinkFails /\ Goes(w, [[j EXCEPT !.linked = L \ {r}] EXCEPT !.stuck = TRUE])
  BY <1>1 DEF RollbackUnlink
<1>3. j \in ActionRecord(next) /\ r \in L /\ r \in Resources
  BY <1>1, RollbackShape DEF RollbackUnlink
<1>4. PICK k : k = job'[w]
  OBVIOUS
<1>5. CASE Goes(w, [[j EXCEPT !.linked = L \ {r}] EXCEPT !.stuck = TRUE])
  <2>1. k = [[j EXCEPT !.linked = L \ {r}] EXCEPT !.stuck = TRUE]
    BY <1>4, <1>5, JobNow
  <2>2. k.op = "rollback" /\ k.kind = "import_action" /\ k.stuck = TRUE /\ k.alone = j.alone
    BY <1>2, <1>3, <2>1 DEF ActionRecord
  <2> QED
    BY <1>1, <1>4, <2>2 DEF ActionSound, Begun, Resolving
<1>6. CASE LinkResource(r, None) /\ Writes(w, [j EXCEPT !.linked = L \ {r}])
  <2>1. k = [j EXCEPT !.linked = L \ {r}]
    BY <1>4, <1>6, JobNow
  <2>2. /\ k.op = "rollback" /\ k.kind = "import_action" /\ k.stuck = j.stuck
        /\ k.alone = j.alone /\ k.linked = L \ {r} /\ k.created = j.created
        /\ k.before = j.before /\ k.base = j.base
    BY <1>2, <1>3, <2>1 DEF ActionRecord
  <2>3. ~ j.stuck => ImportDone(job[w])'
    <3> SUFFICES ASSUME ~ j.stuck PROVE ImportDone(job[w])'
      OBVIOUS
    <3>1. ImportDone(j)
      BY <1>1, <1>2 DEF ActionSound
    <3>2. res'[r].pool = None /\ \A s \in Resources : s # r => res'[s] = res[s]
      BY <1>3, <1>6, Relinked
    <3>3. PICK b, B, C : b = j.base /\ B = j.before /\ C = j.created
      OBVIOUS
    <3>4. \A s \in Resources \ (L \ {r}) : res'[s].pool = B[s]
      BY <1>1, <1>3, <3>1, <3>2, <3>3 DEF ImportDone, LinksBut
    <3>5. (\A s \in L \ {r} : B[s] = None) /\ b <= next' /\ MadeSince(b)' = C
      BY <1>1, <1>2, <3>1, <3>3, MadeKept DEF ImportDone, store
    <3> QED
      BY <1>4, <2>2, <3>3, <3>4, <3>5 DEF ImportDone, LinksBut, MadeSince
  <2> QED
    BY <1>1, <1>4, <2>2, <2>3 DEF ActionSound, Begun, Resolving
<1> QED
  BY <1>2, <1>5, <1>6

LEMMA RollbackPoolSound ==
  ASSUME NetTyped, NEW w \in Workers, ActionSound(job[w]), RollbackPool(w)
  PROVE  ActionSound(job[w])' /\ job'[w].alone = job[w].alone
<1>1. PICK j, C, p : j = job[w] /\ C = job[w].created /\ p = LastCreated(C)
  OBVIOUS
<1>2. /\ j.op = "rollback" /\ j.kind = "import_action" /\ j.linked = {} /\ res' = res
      /\ \/ RemovePool(p) /\ Writes(w, [j EXCEPT !.created = C \ {p}])
         \/ Goes(w, [[j EXCEPT !.created = C \ {p}] EXCEPT !.stuck = TRUE])
  BY <1>1 DEF RollbackPool
<1>3. j \in ActionRecord(next)
  BY <1>1, <1>2, RollbackShape
<1>4. PICK k : k = job'[w]
  OBVIOUS
<1>5. CASE Goes(w, [[j EXCEPT !.created = C \ {p}] EXCEPT !.stuck = TRUE])
  <2>1. k = [[j EXCEPT !.created = C \ {p}] EXCEPT !.stuck = TRUE]
    BY <1>4, <1>5, JobNow
  <2>2. k.op = "rollback" /\ k.kind = "import_action" /\ k.stuck = TRUE /\ k.alone = j.alone
    BY <1>2, <1>3, <2>1 DEF ActionRecord
  <2> QED
    BY <1>1, <1>4, <2>2 DEF ActionSound, Begun, Resolving
<1>6. CASE RemovePool(p) /\ Writes(w, [j EXCEPT !.created = C \ {p}])
  <2>1. k = [j EXCEPT !.created = C \ {p}]
    BY <1>4, <1>6, JobNow
  <2>2. /\ k.op = "rollback" /\ k.kind = "import_action" /\ k.stuck = j.stuck
        /\ k.alone = j.alone /\ k.linked = {} /\ k.created = C \ {p}
        /\ k.before = j.before /\ k.base = j.base
    BY <1>2, <1>3, <2>1 DEF ActionRecord
  <2>3. ~ j.stuck => ImportDone(job[w])'
    <3> SUFFICES ASSUME ~ j.stuck PROVE ImportDone(job[w])'
      OBVIOUS
    <3>1. ImportDone(j)
      BY <1>1, <1>2 DEF ActionSound
    <3>2. PICK b, B : b = j.base /\ B = j.before
      OBVIOUS
    <3>3. \A s \in Resources \ {} : res'[s].pool = B[s]
      BY <1>2, <3>1, <3>2 DEF ImportDone, LinksBut
    <3>4. b <= next' /\ MadeSince(b)' = C \ {p}
      BY <1>1, <1>6, <3>1, <3>2, PoolRemoved DEF ImportDone, NetTyped
    <3> QED
      BY <1>4, <2>2, <3>2, <3>3, <3>4 DEF ImportDone, LinksBut, MadeSince
  <2> QED
    BY <1>1, <1>4, <2>2, <2>3 DEF ActionSound, Begun, Resolving
<1> QED
  BY <1>2, <1>5, <1>6

LEMMA RollbackEndSound ==
  ASSUME NetTyped, NEW w \in Workers, ActionSound(job[w]), RollbackEnd(w)
  PROVE  ActionSound(job[w])' /\ job'[w].alone = job[w].alone
<1>1. /\ job[w].op = "rollback" /\ job[w].kind # "link_action" /\ job[w].linked = {}
      /\ job[w].created = {} /\ UNCHANGED <<store, res>>
  BY DEF RollbackEnd
<1>2. /\ job[w] \in ActionRecord(next) /\ job[w].kind \in {"decision", "import_action"}
  BY <1>1, RollbackShape DEF ActionRecord
<1>3. PICK op \in {"stuck", "failed"} :
        /\ job'[w] = [job[w] EXCEPT !.op = op]
        /\ op = "failed" => ~ job[w].stuck
  BY JobNow DEF RollbackEnd
<1>4. job'[w].op = op /\ SameWork(job[w], job'[w]) /\ job'[w].alone = job[w].alone
  BY <1>2, <1>3, OpMoved
<1>5. op = "failed" => Undone(job[w])
  BY <1>1, <1>2, <1>3 DEF ActionSound, ImportDone, Undone
<1>6. op = "failed" => Undone(job[w])'
  BY <1>1, <1>4, <1>5, WorkKept DEF store
<1> QED
  BY <1>4, <1>6 DEF ActionSound, Begun, Resolving

LEMMA BornSound ==
  ASSUME NetTyped, NEW w \in Workers, UNCHANGED <<store, res>>, NEW k, job'[w] = k,
         k.op \in {"ensure", "placeholder", "resolve"}, k.op = "resolve" => k.kind = "decision",
         k.before = [r \in Resources |-> res[r].pool], k.base = next,
         k.linked = {}, k.created = {}, k.stuck = FALSE
  PROVE  ActionSound(job[w])'
<1>1. Untouched(k)
  BY DEF Untouched, LinksBut
<1>2. Undone(k)
  BY <1>1, NothingMade DEF NetTyped
<1>3. PICK B, b : B = k.before /\ b = k.base
  OBVIOUS
<1>4. (\A r \in Resources \ {} : res'[r].pool = B[r]) /\ b = next'
  BY <1>1, <1>3 DEF Untouched, LinksBut, store
<1>5. b <= next' /\ MadeSince(b)' = {}
  BY <1>2, <1>3, MadeKept DEF Undone, store
<1>6. Untouched(job[w])' /\ Undone(job[w])'
  BY <1>3, <1>4, <1>5 DEF Untouched, Undone, LinksBut, MadeSince
<1> QED
  BY <1>6 DEF ActionSound, Begun, Resolving

LEMMA ConflictRequestSound ==
  ASSUME NetTyped, NEW w \in Workers, NEW c, ConflictRequest(w, c)
  PROVE  ActionSound(job[w])'
<1>1. CASE \E decision \in {"skip", "ignore", "defer"} : ResolveRequest(w, c, decision)
  <2>1. PICK decision : ResolveRequest(w, c, decision)
    BY <1>1
  <2>2. job'[w] = Work("resolve", c, "decision", decision) /\ UNCHANGED <<store, res>>
    BY <2>1, JobNow DEF ResolveRequest
  <2>3. /\ job'[w].op = "resolve" /\ job'[w].kind = "decision" /\ job'[w].base = next
        /\ job'[w].before = [s \in Resources |-> res[s].pool]
        /\ job'[w].linked = {} /\ job'[w].created = {} /\ job'[w].stuck = FALSE
    BY <2>2 DEF Work
  <2> QED
    BY <2>2, <2>3, BornSound
<1>2. CASE \E r \in Resources, p \in Ids, override \in BOOLEAN :
             LinkActionRequest(w, c, r, p, override)
  <2>1. PICK r, p : /\ job'[w] = [Work("ensure", c, "link_action", "link")
                                    EXCEPT !.r = r, !.pool = p]
                    /\ UNCHANGED <<store, res>>
    BY <1>2, JobNow DEF LinkActionRequest
  <2>2. /\ job'[w].op = "ensure" /\ job'[w].base = next
        /\ job'[w].before = [s \in Resources |-> res[s].pool]
        /\ job'[w].linked = {} /\ job'[w].created = {} /\ job'[w].stuck = FALSE
    BY <2>1 DEF Work
  <2> QED
    BY <2>1, <2>2, BornSound
<1>3. CASE \E ids \in Selections, selected \in {None} \cup Ids, override \in BOOLEAN :
             ImportActionRequest(w, c, ids, selected, override)
  <2>0. PICK ids, selected, override : ImportActionRequest(w, c, ids, selected, override)
    BY <1>3
  <2>1. /\ job'[w] = [Work("ensure", c, "import_action", "import")
                        EXCEPT !.ids = ids, !.selected = selected, !.override = override]
        /\ UNCHANGED <<store, res>>
    BY <2>0, JobNow DEF ImportActionRequest
  <2>2. /\ job'[w].op = "ensure" /\ job'[w].base = next
        /\ job'[w].before = [s \in Resources |-> res[s].pool]
        /\ job'[w].linked = {} /\ job'[w].created = {} /\ job'[w].stuck = FALSE
    BY <2>1 DEF Work
  <2> QED
    BY <2>1, <2>2, BornSound
<1>4. CASE PlaceholderRequest(w, c)
  <2>1. PICK op \in {"resolve", "placeholder"} :
          job'[w] = Work(op, c, "decision", "defer") /\ UNCHANGED <<store, res>>
    BY <1>4, JobNow DEF PlaceholderRequest
  <2>2. /\ job'[w].op = op /\ job'[w].kind = "decision" /\ job'[w].base = next
        /\ job'[w].before = [s \in Resources |-> res[s].pool]
        /\ job'[w].linked = {} /\ job'[w].created = {} /\ job'[w].stuck = FALSE
    BY <2>1 DEF Work
  <2> QED
    BY <2>1, <2>2, BornSound
<1> QED
  BY <1>1, <1>2, <1>3, <1>4 DEF ConflictRequest

LEMMA NobodysImport ==
  ASSUME NEW w \in Workers, job'[w].op \in ImportOps, job'[w].conflict = None
  PROVE  ActionSound(job[w])'
BY DEF ActionSound, ImportOps, Begun, Resolving

\* A step of an import that links nothing
LEMMA SameCaller ==
  ASSUME NetTyped, NEW w \in Workers, ActionSound(job[w]), res' = res,
         job[w].op \in {"item", "create", "link", "cleanup"},
         job'[w].op \in {"item", "create", "link", "cleanup", "imported"},
         job'[w].conflict = job[w].conflict, job'[w].linked = job[w].linked,
         job'[w].base = job[w].base
  PROVE  ActionSound(job[w])'
<1>1. CASE job[w].conflict = None
  BY <1>1, NobodysImport DEF ImportOps
<1>2. CASE job[w].conflict # None
  <2>1. PICK c, L, b : c = job[w].conflict /\ L = job[w].linked /\ b = job[w].base
    OBVIOUS
  <2>2. /\ LinksBut(L, c) /\ \A r \in L : c.before[r] = None
        /\ c.base = b /\ ~ c.stuck
    BY <1>2, <2>1 DEF ActionSound
  <2>3. LinksBut(L, c)'
    BY <2>2 DEF LinksBut
  <2>4. /\ LinksBut(job[w].linked, job[w].conflict)'
        /\ \A r \in job'[w].linked : job'[w].conflict.before[r] = None
        /\ job'[w].conflict.base = job'[w].base /\ ~ job'[w].conflict.stuck
    BY <2>1, <2>2, <2>3 DEF LinksBut
  <2> QED
    BY <2>4 DEF ActionSound, Begun, Resolving
<1> QED
  BY <1>1, <1>2

LEMMA LinkedForCaller ==
  ASSUME NetTyped, NEW w \in Workers, ActionSound(job[w]), ImportSound(job[w]),
         job[w].op \in {"item", "link"}, Wanted(job[w]),
         NEW p \in Ref(next), LinkResource(Head(job[w].ids), p), job'[w] = Done(job[w], p)
  PROVE  ActionSound(job[w])'
<1>1. /\ job[w] \in ImportRecord(next) /\ job[w] \in ImportType(next)
      /\ job[w].op # "imported" /\ ImportCore(job[w]) /\ None \in Ref(next)
      /\ Head(job[w].ids) \in Resources /\ Head(job[w].ids) \in DOMAIN job[w].items
  BY ImportingShape, NextTyped
<1>2. Head(job[w].ids) \in DOMAIN job[w].made
  BY <1>1 DEF ImportCore
<1>3. /\ Done(job[w], p).linked = job[w].linked \cup {Head(job[w].ids)}
      /\ Done(job[w], p).base = job[w].base
      /\ Done(job[w], p).conflict = job[w].conflict
  BY <1>1, <1>2, DoneRest
<1>4. Done(job[w], p).op \in {"imported", "item"}
  BY <1>1, DoneOp
<1>5. PICK c, L, b, r :
        c = job[w].conflict /\ L = job[w].linked /\ b = job[w].base /\ r = Head(job[w].ids)
  OBVIOUS
<1>6. /\ job'[w].linked = L \cup {r} /\ job'[w].base = b /\ job'[w].conflict = c
      /\ job'[w].op \in {"imported", "item"}
  BY <1>3, <1>4, <1>5
<1>7. CASE c = None
  BY <1>6, <1>7, NobodysImport DEF ImportOps
<1>8. CASE c # None
  <2>1. /\ LinksBut(L, c) /\ \A s \in L : c.before[s] = None
        /\ c.base = b /\ ~ c.stuck
    BY <1>5, <1>8 DEF ActionSound
  <2>2. \A s \in Resources : s # r => res'[s] = res[s]
    BY <1>1, <1>5, Relinked
  <2>3. r \notin L => c.before[r] = None
    <3>1. job[w].items[r].status \in {"importable", "conflict", "blocked"}
      BY <1>1, <1>5, WantedStatus
    <3>2. Accounted(job[w])
      BY DEF ImportSound
    <3>3. r \in L \/ Unlinked(r)
      BY <1>1, <1>5, <3>1, <3>2 DEF Accounted
    <3> QED
      BY <1>1, <1>5, <2>1, <3>3 DEF LinksBut, Unlinked
  <2>4. \A s \in Resources \ (L \cup {r}) : res'[s].pool = c.before[s]
    BY <2>1, <2>2 DEF LinksBut
  <2>5. /\ LinksBut(job[w].linked, job[w].conflict)'
        /\ \A s \in job'[w].linked : job'[w].conflict.before[s] = None
        /\ job'[w].conflict.base = job'[w].base /\ ~ job'[w].conflict.stuck
    BY <1>6, <2>1, <2>3, <2>4 DEF LinksBut
  <2> QED
    BY <1>6, <2>5 DEF ActionSound, Begun, Resolving
<1> QED
  BY <1>7, <1>8

LEMMA CallerSound ==
  ASSUME NetTyped, NEW w \in Workers, ActionSound(job[w]), ImportSound(job[w]), ImportStep(w)
  PROVE  ActionSound(job[w])'
<1>0. job[w].op \in {"item", "create", "link", "cleanup"} => job[w] \in ImportRecord(next)
  BY ImportingShape
<1>1. ASSUME job[w] \in ImportRecord(next), res' = res, job'[w] = Skipped(job[w]),
             job[w].op \in {"item", "create", "link", "cleanup"}
      PROVE  ActionSound(job[w])'
  <2>1. /\ Skipped(job[w]).linked = job[w].linked /\ Skipped(job[w]).base = job[w].base
        /\ Skipped(job[w]).conflict = job[w].conflict
        /\ Skipped(job[w]).op = IF Len(job[w].ids) = 1 THEN "imported" ELSE "item"
    BY <1>1, SkippedFields
  <2>2. Skipped(job[w]).op \in {"item", "imported"}
    BY <2>1
  <2> QED
    BY <1>1, <2>1, <2>2, SameCaller
<1>2. CASE ImportPreview(w)
  <2>1. PICK c, b : c = job[w].conflict /\ b = job[w].base
    OBVIOUS
  <2>2. /\ job'[w].op = "item" /\ job'[w].linked = {} /\ job'[w].base = b
        /\ job'[w].conflict = c /\ UNCHANGED <<store, res>> /\ job[w].op = "preview"
    BY <1>2, <2>1, JobNow DEF ImportPreview
  <2>3. CASE c = None
    BY <2>2, <2>3, NobodysImport DEF ImportOps
  <2>4. CASE c # None
    <3>1. Untouched(c) /\ ~ c.stuck
      BY <2>1, <2>2, <2>4 DEF ActionSound
    <3>2. b = next
      BY <2>1, <2>2 DEF ImportSound
    <3>3. \A r \in Resources \ {} : res'[r].pool = c.before[r]
      BY <2>2, <3>1 DEF Untouched, LinksBut
    <3>4. /\ LinksBut(job[w].linked, job[w].conflict)'
          /\ \A r \in job'[w].linked : job'[w].conflict.before[r] = None
          /\ job'[w].conflict.base = job'[w].base /\ ~ job'[w].conflict.stuck
      BY <2>2, <3>1, <3>2, <3>3 DEF LinksBut, Untouched
    <3> QED
      BY <2>2, <3>4 DEF ActionSound, Begun, Resolving
  <2> QED
    BY <2>3, <2>4
<1>3. CASE ApplySkip(w)
  <2>1. res' = res /\ job'[w] = Skipped(job[w]) /\ job[w].op = "item"
    BY <1>3, JobNow DEF ApplySkip
  <2> QED
    BY <1>0, <1>1, <2>1
<1>4. CASE ApplyLinkExisting(w)
  <2>1. PICK p : p = job[w].items[Head(job[w].ids)].pool
    OBVIOUS
  <2>2. /\ job[w].op = "item" /\ Wanted(job[w])
        /\ \/ LinkResource(Head(job[w].ids), p) /\ job'[w] = Done(job[w], p)
           \/ res' = res /\ job'[w] = Skipped(job[w])
    BY <1>4, <2>1, JobNow DEF ApplyLinkExisting, LinkFails
  <2>3. p \in Ref(next)
    BY <2>1, <2>2, ImportingShape
  <2> QED
    BY <1>0, <1>1, <2>2, <2>3, LinkedForCaller
<1>5. CASE ApplyParent(w)
  <2>1. PICK p : \/ job'[w] = Skipped(job[w])
                 \/ job'[w] = [job[w] EXCEPT !.op = "create", !.parent = p]
    BY <1>5, JobNow DEF ApplyParent
  <2>2. res' = res /\ job[w].op = "item"
    BY <1>5 DEF ApplyParent
  <2>3. CASE job'[w] = [job[w] EXCEPT !.op = "create", !.parent = p]
    <3>1. /\ job'[w].op = "create" /\ job'[w].conflict = job[w].conflict
          /\ job'[w].linked = job[w].linked /\ job'[w].base = job[w].base
      BY <1>0, <2>2, <2>3 DEF ImportRecord
    <3> QED
      BY <2>2, <3>1, SameCaller
  <2> QED
    BY <1>0, <1>1, <2>1, <2>2, <2>3
<1>6. CASE ApplyCreate(w)
  <2>1. PICK C : \/ job'[w] = Skipped(job[w])
                 \/ job'[w] = [job[w] EXCEPT !.op = "link", !.pool = next, !.created = C]
    BY <1>6, JobNow DEF ApplyCreate
  <2>2. res' = res /\ job[w].op = "create"
    BY <1>6 DEF ApplyCreate
  <2>3. CASE job'[w] = [job[w] EXCEPT !.op = "link", !.pool = next, !.created = C]
    <3>1. /\ job'[w].op = "link" /\ job'[w].conflict = job[w].conflict
          /\ job'[w].linked = job[w].linked /\ job'[w].base = job[w].base
      BY <1>0, <2>2, <2>3 DEF ImportRecord
    <3> QED
      BY <2>2, <3>1, SameCaller
  <2> QED
    BY <1>0, <1>1, <2>1, <2>2, <2>3
<1>7. CASE ApplyLink(w)
  <2>1. /\ job[w].op = "link"
        /\ \/ LinkResource(Head(job[w].ids), job[w].pool) /\ job'[w] = Done(job[w], job[w].pool)
           \/ res' = res /\ job'[w] = [job[w] EXCEPT !.op = "cleanup"]
    BY <1>7, JobNow DEF ApplyLink, LinkFails
  <2>2. CASE res' = res /\ job'[w] = [job[w] EXCEPT !.op = "cleanup"]
    <3>1. /\ job'[w].op = "cleanup" /\ job'[w].conflict = job[w].conflict
          /\ job'[w].linked = job[w].linked /\ job'[w].base = job[w].base
      BY <1>0, <2>1, <2>2 DEF ImportRecord
    <3> QED
      BY <2>1, <2>2, <3>1, SameCaller
  <2>3. Wanted(job[w]) /\ job[w].pool \in Ref(next)
    BY <2>1, ImportingShape
  <2>4. PICK p : p = job[w].pool
    OBVIOUS
  <2> QED
    BY <2>1, <2>2, <2>3, <2>4, LinkedForCaller
<1>8. CASE ApplyCleanup(w)
  <2>1. PICK C : \/ job'[w] = Skipped(job[w])
                 \/ job'[w] = Skipped([job[w] EXCEPT !.created = C]) /\ C \subseteq job[w].created
    BY <1>8, JobNow DEF ApplyCleanup
  <2>2. res' = res /\ job[w].op = "cleanup"
    BY <1>8 DEF ApplyCleanup
  <2>3. CASE job'[w] = Skipped([job[w] EXCEPT !.created = C]) /\ C \subseteq job[w].created
    <3>1. PICK k : k = [job[w] EXCEPT !.created = C]
      OBVIOUS
    <3>2. /\ k \in ImportRecord(next) /\ k.linked = job[w].linked /\ k.base = job[w].base
          /\ k.conflict = job[w].conflict
      BY <1>0, <2>2, <2>3, <3>1 DEF ImportRecord
    <3>3. /\ Skipped(k).linked = k.linked /\ Skipped(k).base = k.base
          /\ Skipped(k).conflict = k.conflict
          /\ Skipped(k).op = IF Len(k.ids) = 1 THEN "imported" ELSE "item"
      BY <3>2, SkippedFields
    <3>4. Skipped(k).op \in {"item", "imported"}
      BY <3>3
    <3> QED
      BY <2>2, <2>3, <3>1, <3>2, <3>3, <3>4, SameCaller
  <2> QED
    BY <1>0, <1>1, <2>1, <2>2, <2>3
<1>9. CASE ImportReturn(w)
  <2>1. job'[w] = Idle
    BY <1>9, JobNow DEF ImportReturn
  <2> QED
    BY <2>1, NoAction DEF Idle, ActionOps, ImportOps
<1> QED
  BY <1>2, <1>3, <1>4, <1>5, <1>6, <1>7, <1>8, <1>9 DEF ImportStep

LEMMA ConflictStepSound ==
  ASSUME NetTyped, NEW w \in Workers, ConflictStep(w), job'[w] # Idle,
         ActionSound(job[w]), ImportSound(job[w])
  PROVE  ActionSound(job[w])'
<1>1. ~ ActionReturn(w)
  BY JobNow DEF ActionReturn
<1> QED
  BY <1>1, ResolveStepsSound, EnsureSound, LinkActionSound, RollbackLinkSound,
     ImportActionSound, OutcomeSound, RollbackUnlinkSound, RollbackPoolSound,
     RollbackEndSound, PlaceholderSound DEF ConflictStep

LEMMA ConflictStayed ==
  ASSUME NetTyped, NEW w \in Workers, ConflictStep(w), job'[w] # Idle
  PROVE  job'[w].alone = job[w].alone /\ job[w] # Idle
<1>1. job[w] # Idle
  BY DEF ConflictStep, ResolveUpdate, ResolveCreate, ResolveAgain, EnsureRecord, LinkAction,
         RollbackLink, ImportAction, ImportOutcome, RollbackUnlink, RollbackPool, RollbackEnd,
         PlaceholderCreate, ActionReturn, Idle
<1> SUFFICES job'[w].alone = job[w].alone
  BY <1>1
<1>2. CASE ImportOutcome(w)
  <2>1. PICK c, L, C, a : c = job[w].conflict /\ L = job[w].linked /\ C = job[w].created
                          /\ a = job[w].alone
    OBVIOUS
  <2>2. c \in ActionRecord(next)
    <3>1. job[w] \in ImportRecord(next)
      BY <1>2, JobShape DEF ImportOutcome, Shapes, ImportType
    <3> QED
      BY <1>2, <2>1, <3>1 DEF ImportOutcome, ImportRecord, CallerType, ActionType
  <2>3. PICK op : job'[w] = [[c EXCEPT !.linked = L, !.created = C, !.alone = a] EXCEPT !.op = op]
    BY <1>2, <2>1, JobNow DEF ImportOutcome
  <2> QED
    BY <1>1, <2>1, <2>2, <2>3 DEF ActionRecord
<1>3. CASE ImportBegin(w, Data[Head(job[w].ids)].account, job[w].ids, job[w].selected,
                       job[w].override, job[w], job[w].alone)
  BY <1>1, <1>3, JobNow DEF ImportBegin
<1>4. CASE ~ ImportOutcome(w) /\ job'[w].op # "preview"
  <2>1. job[w] \in ActionRecord(next)
    BY <1>4, ActionShape DEF ConflictStep, ResolveUpdate, ResolveCreate, ResolveAgain,
         EnsureRecord, LinkAction, RollbackLink, ImportAction, RollbackUnlink, RollbackPool,
         RollbackEnd, PlaceholderCreate, ActionReturn
  <2>2. ASSUME NEW op, job'[w] = [job[w] EXCEPT !.op = op]
        PROVE  job'[w].alone = job[w].alone
    BY <2>1, <2>2, OpMoved
  <2>3. CASE ResolveUpdate(w) \/ ResolveCreate(w) \/ ResolveAgain(w) \/ EnsureRecord(w)
    BY <2>2, <2>3, JobNow DEF ResolveUpdate, ResolveCreate, ResolveAgain, EnsureRecord
  <2>4. CASE LinkAction(w) \/ RollbackLink(w) \/ RollbackEnd(w) \/ PlaceholderCreate(w)
    BY <2>2, <2>4, JobNow DEF LinkAction, RollbackLink, RollbackEnd, PlaceholderCreate
  <2>5. CASE ImportAction(w)
    BY <1>3, <2>2, <2>5, JobNow DEF ImportAction
  <2>6. CASE RollbackUnlink(w)
    <3>1. PICK L : \/ job'[w] = [job[w] EXCEPT !.linked = L]
                   \/ job'[w] = [[job[w] EXCEPT !.linked = L] EXCEPT !.stuck = TRUE]
      BY <2>6, JobNow DEF RollbackUnlink
    <3> QED
      BY <2>1, <3>1 DEF ActionRecord
  <2>7. CASE RollbackPool(w)
    <3>1. PICK C : \/ job'[w] = [job[w] EXCEPT !.created = C]
                   \/ job'[w] = [[job[w] EXCEPT !.created = C] EXCEPT !.stuck = TRUE]
      BY <2>7, JobNow DEF RollbackPool
    <3> QED
      BY <2>1, <3>1 DEF ActionRecord
  <2>8. ~ ActionReturn(w)
    BY JobNow DEF ActionReturn
  <2> QED
    BY <1>1, <1>4, <2>3, <2>4, <2>5, <2>6, <2>7, <2>8 DEF ConflictStep
<1>5. CASE ~ ImportOutcome(w) /\ job'[w].op = "preview"
  <2>1. ImportAction(w)
    BY <1>5, ConflictOpsStay DEF ActionOps, Idle
  <2>2. job[w] \in ActionRecord(next)
    BY <2>1, ActionShape DEF ImportAction
  <2>3. job'[w] # [job[w] EXCEPT !.op = "failed"]
    BY <1>5, <2>2, OpMoved
  <2> QED
    BY <1>3, <2>1, <2>3, JobNow DEF ImportAction
<1> QED
  BY <1>2, <1>4, <1>5

LEMMA ActionInvStep ==
  ASSUME NetTyped, ImportInv, ActionInv, [NetworkNext]_networkVars
  PROVE  ActionInv'
<1> SUFFICES ASSUME NEW w \in Workers, Lone(w)'
             PROVE  ActionSound(job[w])'
  BY DEF ActionInv
<1>1. CASE Still /\ job'[w] = job[w]
  <2>1. Lone(w)
    BY <1>1 DEF Lone
  <2> QED
    BY <1>1, <2>1, ActionKept DEF ActionInv
<1>2. CASE NewRequest(w)
  <2>1. CASE \E c \in computeNetworkConflicts : ConflictRequest(w, c)
    BY <2>1, ConflictRequestSound
  <2>2. CASE \E a \in AccountIds, ids \in Selections, selected \in {None} \cup Ids :
               ImportRequest(w, a, ids, selected)
    <3>1. job'[w].op = "preview" /\ job'[w].conflict = None
      BY <2>2, JobNow DEF ImportRequest, ImportBegin
    <3> QED
      BY <3>1, NobodysImport DEF ImportOps
  <2>3. CASE job'[w].op \in {"linking", "idle"} \cup SchemaOps \cup DetectOps
    BY <2>3, NoAction DEF ImportOps, SchemaOps, DetectOps, ActionOps
  <2> QED
    BY <1>2, <2>1, <2>2, <2>3, LinkOps, SchemaOpsStay, DetectOpsStay DEF NewRequest
<1>3. CASE Serves(w)
  <2>1. CASE ImportStep(w)
    <3>1. Lone(w)
      BY <2>1, ImportStayed DEF Lone
    <3> QED
      BY <2>1, <3>1, CallerSound DEF ActionInv, ImportInv
  <2>2. CASE ConflictStep(w)
    <3>1. Lone(w) /\ job'[w] # Idle
      BY <2>2, ConflictStayed DEF Lone
    <3> QED
      BY <2>2, <3>1, ConflictStepSound DEF ActionInv, ImportInv
  <2>3. CASE LinkWrite(w) \/ SchemaImportStep(w) \/ DetectStep(w)
    <3>1. job'[w].op \in {"linking", "idle"} \cup SchemaOps \cup DetectOps
      BY <2>3, LinkOps, SchemaOpsStay, DetectOpsStay
    <3> QED
      BY <3>1, NoAction DEF ImportOps, SchemaOps, DetectOps, ActionOps
  <2> QED
    BY <1>3, <2>1, <2>2, <2>3 DEF Serves
<1> QED
  BY <1>1, <1>2, <1>3, AloneStep

\* A pool is not in conflict with the resource that is linked to it
LEMMA LinkEndsConflict ==
  ASSUME NetTyped, NEW w \in Workers, job[w].op = "ok", job[w].kind = "link_action",
         res[job[w].r].pool = job[w].pool
  PROVE  job[w].id \notin computeNetworkConflicts
<1>1. PICK c : c = job[w].id
  OBVIOUS
<1>2. /\ c.type \in {"unlinked_exact_pool", "alternate_exact_pool"}
      /\ job[w].r = c.r /\ job[w].pool = c.pool
  BY <1>1, ActionShape DEF ActionFacts
<1>3. SUFFICES ASSUME c \in computeNetworkConflicts PROVE FALSE
  BY <1>1
<1>4. PICK r \in Resources :
        \/ c = Conflict("missing_parent", r, None)
        \/ c = Conflict("invalid_nesting", r, None)
        \/ c = Conflict("linked_pool_mismatch", r, None)
        \/ c = Conflict("outside_pool", r, None)
        \/ \E i \in Ids : /\ \/ c = Conflict("unlinked_exact_pool", r, i)
                             \/ c = Conflict("alternate_exact_pool", r, i)
                          /\ exactPool(r, i)
        \/ c = Conflict("duplicate_cidr", r, None) /\ Cardinality(Duplicates(r)) > 1
  BY <1>3, ConflictForms
<1>5. PICK i \in Ids : c.r = r /\ c.pool = i /\ exactPool(r, i)
  BY <1>2, <1>4 DEF Conflict
<1> QED
  BY <1>2, <1>5 DEF exactPool

\* The last pool an import made has no live child: parents are older
LEMMA LastDeletable ==
  ASSUME NetTyped, NEW b, NEW C \in SUBSET (1 .. next - 1), C # {}, MadeSince(b) = C,
         b \in PoolIds
  PROVE  Deletable(LastCreated(C))
<1>1. PICK n : n = next - 1
  OBVIOUS
<1>2. n \in Nat /\ Ids = 1 .. n
  BY <1>1 DEF NetTyped, StoreTyped, PoolIds, Ids
<1>3. PICK p : p = LastCreated(C)
  OBVIOUS
<1>4. p \in C /\ \A s \in C : s <= p
  BY <1>1, <1>2, <1>3, LastCreatedType
<1>5. Live(p) /\ p \in 1 .. n /\ b <= p
  BY <1>1, <1>4 DEF MadeSince
<1>6. ASSUME NEW i \in Ids, pools[i].parent = p, Live(i) PROVE FALSE
  <2>1. p < i
    BY <1>2, <1>5, <1>6, PoolsAssumption DEF NetTyped, StoreTyped, PoolIds
  <2>2. i \in C
    BY <1>2, <1>5, <1>6, <2>1 DEF MadeSince, PoolIds
  <2> QED
    BY <1>2, <1>4, <1>5, <2>1, <2>2
<1> QED
  BY <1>3, <1>5, <1>6 DEF Deletable

\* An undisturbed conflict action is all or nothing.
THEOREM ActionTheorem == NetworkSpec => []ActionAllOrNothing
<1>1. NetworkInit => NetTyped /\ ImportInv /\ ActionInv
  BY InitTyped, NobodyLone DEF ImportInv, ActionInv
<1>2. NetTyped /\ ImportInv /\ ActionInv /\ [NetworkNext]_networkVars
        => NetTyped' /\ ImportInv' /\ ActionInv'
  BY StepTyped, ImportInvStep, ActionInvStep
<1>3. NetTyped /\ ActionInv => ActionAllOrNothing
  <2> SUFFICES ASSUME NetTyped, ActionInv, NEW w \in Workers
               PROVE  /\ job[w].op = "ok" /\ job[w].alone =>
                           /\ records[job[w].id].status
                                = networkDecisionStatus(job[w].decision)
                           /\ job[w].kind = "link_action" =>
                                res[job[w].r].pool = job[w].pool
                                /\ job[w].id \notin computeNetworkConflicts
                           /\ job[w].kind = "import_action" =>
                                \A k \in DOMAIN job[w].ids : ~ Unlinked(job[w].ids[k])
                      /\ job[w].op = "failed" /\ job[w].alone =>
                           /\ \A r \in Resources : res[r].pool = job[w].before[r]
                           /\ \A i \in Ids : i >= job[w].base => ~ Live(i)
                      /\ /\ job[w].op = "rollback" /\ job[w].alone
                         /\ ~ job[w].stuck /\ job[w].linked = {} /\ job[w].created # {}
                         => Deletable(LastCreated(job[w].created))
    BY DEF ActionAllOrNothing
  <2>1. job[w].op \in {"ok", "failed", "rollback"} /\ job[w].alone => ActionSound(job[w])
    BY DEF ActionInv, Lone, Idle
  <2>2. ASSUME job[w].op = "ok", job[w].alone
        PROVE  /\ records[job[w].id].status = networkDecisionStatus(job[w].decision)
               /\ job[w].kind = "link_action" =>
                    res[job[w].r].pool = job[w].pool
                    /\ job[w].id \notin computeNetworkConflicts
               /\ job[w].kind = "import_action" =>
                    \A k \in DOMAIN job[w].ids : ~ Unlinked(job[w].ids[k])
    BY <2>1, <2>2, LinkEndsConflict DEF ActionSound, Resolving, LinkDone, AllLinked
  <2>3. ASSUME job[w].op = "failed", job[w].alone
        PROVE  /\ \A r \in Resources : res[r].pool = job[w].before[r]
               /\ \A i \in Ids : i >= job[w].base => ~ Live(i)
    BY <2>1, <2>3 DEF ActionSound, Undone, LinksBut, MadeSince
  <2>4. ASSUME job[w].op = "rollback", job[w].alone, ~ job[w].stuck, job[w].created # {}
        PROVE  Deletable(LastCreated(job[w].created))
    <3>1. /\ job[w].created \in SUBSET (1 .. next - 1) /\ job[w].base \in PoolIds
          /\ job[w].kind \in {"decision", "link_action", "import_action"}
          /\ job[w].kind # "import_action" => job[w].created = {}
      BY <2>4, ActionShape DEF ActionRecord, ActionFacts
    <3>2. MadeSince(job[w].base) = job[w].created
      BY <2>1, <2>4, <3>1 DEF ActionSound, ImportDone
    <3> QED
      BY <2>4, <3>1, <3>2, LastDeletable
  <2> QED
    BY <2>2, <2>3, <2>4
<1> QED
  BY <1>1, <1>2, <1>3, PTL DEF NetworkSpec
=============================================================================
