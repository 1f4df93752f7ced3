----------------------- MODULE RecommendationsProofs -----------------------
(***************************************************************************)
(* Theorems about Recommendations, for any number of calls, any store of   *)
(* pools and any bounds (what the gaps contain does not matter to them);   *)
(* and about Transfer, for any installations, plans and files, and any     *)
(* number of requests and writes of others.                                *)
(***************************************************************************)
EXTENDS Recommendations, Transfer, SequenceTheorems, FiniteSetTheorems, TLAPS

-----------------------------------------------------------------------------
(* Recommendations. *)
(* Shapes: the fields that recommendations and calls have, whatever is in  *)
(* those that come from the gap analysis.                                  *)

Statuses == {"pending", "applied", "dismissed"}

RecShape(rec) ==
  rec \in [pool : {rec.pool}, cidr : {rec.cidr}, seen : {rec.seen}, status : Statuses,
           appliedPool : {rec.appliedPool}]

CallShape(c) ==
  \/ c = Idle
  \/ \E todo : \E op \in {"clear", "analyze", "comply"} : c = [op |-> op, todo |-> todo]
  \/ \E todo, items, seen : \E op \in {"blocks", "rules"} :
       c = [op |-> op, todo |-> todo, items |-> items, seen |-> seen]
  \/ \E rec, pool, cidr, seen :
       c = [op |-> "create", rec |-> rec, pool |-> pool, cidr |-> cidr, seen |-> seen]
  \/ \E rec, pool : \E status \in {"applied", "dismissed"} : c = Mark(rec, status, pool)

\* Ids are not issued twice, so that a stored recommendation replaces none, and a
\* call that is about to mark never marks as pending.
RecShapes ==
  /\ nextRec \in Nat \ {0}
  /\ recs = [r \in DOMAIN recs |-> recs[r]]
  /\ DOMAIN recs \subseteq 1 .. nextRec - 1
  /\ \A r \in DOMAIN recs : RecShape(recs[r])
  /\ call = [g \in Planners |-> call[g]]
  /\ \A g \in Planners : CallShape(call[g])

\* What op says of a call
LEMMA CallKinds ==
  ASSUME NEW c, CallShape(c)
  PROVE  /\ c.op = "clear" => \E todo : c = [op |-> "clear", todo |-> todo]
         /\ c.op \in {"blocks", "rules"} =>
              \E todo, items, seen :
                c = [op |-> c.op, todo |-> todo, items |-> items, seen |-> seen]
         /\ c.op = "mark" =>
              \E rec, pool : \E status \in {"applied", "dismissed"} :
                c = Mark(rec, status, pool)
BY DEF CallShape, Idle, Mark

LEMMA RecordingShape ==
  ASSUME NEW op \in {"blocks", "rules"}, NEW todo, NEW items, NEW seen
  PROVE  CallShape(Recording(op, todo, items, seen))
<1>1. CASE items # <<>>
  BY <1>1 DEF Recording, CallShape
<1>2. CASE items = <<>> /\ op = "blocks"
  BY <1>2 DEF Recording, CallShape
<1>3. CASE items = <<>> /\ op = "rules"
  <2>1. Recording(op, todo, items, seen) = NextPool(todo)
    BY <1>3 DEF Recording
  <2> QED
    BY <2>1 DEF NextPool, CallShape
<1> QED
  BY <1>1, <1>2, <1>3

LEMMA CallStep ==
  ASSUME RecShapes, NEW g \in Planners, NEW c, CallShape(c), call' = [call EXCEPT ![g] = c]
  PROVE  /\ call' = [h \in Planners |-> call'[h]]
         /\ \A h \in Planners : CallShape(call'[h])
BY DEF RecShapes

\* Planners take a turn, and the recommendations stay
LEMMA CallOnly ==
  ASSUME RecShapes, NEW g \in Planners, NEW c, CallShape(c), call' = [call EXCEPT ![g] = c],
         UNCHANGED <<recs, nextRec>>
  PROVE  RecShapes'
BY CallStep DEF RecShapes

LEMMA MarkedShape ==
  ASSUME NEW rec, RecShape(rec), NEW status \in Statuses, NEW pool
  PROVE  LET marked == [rec EXCEPT !.status = status, !.appliedPool = pool]
         IN RecShape(marked) /\ marked.status = status
BY DEF RecShape

LEMMA ShapesInit == RecInit => RecShapes
BY DEF RecInit, RecShapes, CallShape

-----------------------------------------------------------------------------
(* The steps. *)

Stays ==
  \A r \in DOMAIN recs :
    recs[r].status # "pending" => r \in DOMAIN recs' /\ recs'[r].status # "pending"

\* A regeneration keeps what is settled
LEMMA ClearStep ==
  ASSUME RecShapes, NEW g \in Planners, GenerateClear(g)
  PROVE  RecShapes' /\ Stays
<1>1. PICK todo : call[g] = [op |-> "clear", todo |-> todo]
  BY CallKinds DEF RecShapes, GenerateClear
<1>2. CASE RecStoreFails(g)
  <2>1. CallShape(Idle)
    BY DEF CallShape
  <2> QED
    BY <1>2, <2>1, CallOnly DEF RecStoreFails, Answer, Stays
<1>3. ASSUME NEW i, DeletePendingForPool(i), call' = [call EXCEPT ![g].op = "analyze"],
             UNCHANGED nextRec
      PROVE  RecShapes' /\ Stays
  <2> DEFINE kept == {q \in DOMAIN recs : recs[q].pool # i \/ recs[q].status # "pending"}
  <2>1. recs' = [r \in kept |-> recs[r]]
    BY <1>3 DEF DeletePendingForPool
  <2>2. call' = [call EXCEPT ![g] = [op |-> "analyze", todo |-> todo]]
    <3>1. [call[g] EXCEPT !.op = "analyze"] = [op |-> "analyze", todo |-> todo]
      BY <1>1
    <3>2. call' = [call EXCEPT ![g] = [call[g] EXCEPT !.op = "analyze"]]
      BY <1>3
    <3> QED
      BY <3>1, <3>2
  <2>3. CallShape([op |-> "analyze", todo |-> todo])
    BY DEF CallShape
  <2>4. /\ call' = [h \in Planners |-> call'[h]]
        /\ \A h \in Planners : CallShape(call'[h])
    BY <2>2, <2>3, CallStep
  <2>5. DOMAIN recs' = kept /\ \A r \in kept : recs'[r] = recs[r]
    BY <2>1
  <2>6. Stays
    BY <2>5 DEF Stays
  <2>7. RecShapes'
    BY <1>3, <2>1, <2>4, <2>5 DEF RecShapes
  <2> QED
    BY <2>6, <2>7
<1> QED
  BY <1>2, <1>3 DEF GenerateClear

\* A stored recommendation gets a number of its own
LEMMA StoreStep ==
  ASSUME RecShapes, NEW g \in Planners, GenerateStore(g)
  PROVE  RecShapes' /\ Stays
<1>1. PICK todo, items, seen :
        call[g] = [op |-> call[g].op, todo |-> todo, items |-> items, seen |-> seen]
  BY CallKinds DEF RecShapes, GenerateStore
<1>2. CASE RecStoreFails(g)
  <2>1. CallShape(Idle)
    BY DEF CallShape
  <2> QED
    BY <1>2, <2>1, CallOnly DEF RecStoreFails, Answer, Stays
<1>3. CASE ~ RecStoreFails(g)
  <2> DEFINE rec == NewRec(Head(call[g].todo), Head(call[g].items), call[g].seen)
             rest == Recording(call[g].op, call[g].todo, Tail(call[g].items), call[g].seen)
  <2>1. /\ recs' = [r \in DOMAIN recs \cup {nextRec} |-> IF r = nextRec THEN rec ELSE recs[r]]
        /\ call' = [call EXCEPT ![g] = rest]
        /\ nextRec' = nextRec + 1
    BY <1>3 DEF GenerateStore
  <2>2. call[g].op \in {"blocks", "rules"}
    BY DEF GenerateStore
  <2>3. RecShape(rec)
    BY DEF RecShape, NewRec, Statuses
  <2>4. CallShape(rest)
    BY <2>2, RecordingShape
  <2> HIDE DEF rec, rest
  <2>5. /\ call' = [h \in Planners |-> call'[h]]
        /\ \A h \in Planners : CallShape(call'[h])
    BY <2>1, <2>4, CallStep
  <2>6. nextRec \notin DOMAIN recs /\ DOMAIN recs' \subseteq 1 .. nextRec' - 1
    BY <2>1 DEF RecShapes
  <2>7. Stays
    BY <2>1, <2>6 DEF Stays
  <2>8. RecShapes'
    BY <2>1, <2>3, <2>5, <2>6 DEF RecShapes
  <2> QED
    BY <2>7, <2>8
<1> QED
  BY <1>2, <1>3

\* Marking replaces one answer by another
LEMMA MarkStep ==
  ASSUME RecShapes, NEW g \in Planners, MarkStatus(g)
  PROVE  RecShapes' /\ Stays
<1>1. PICK rec, pool : \E status \in {"applied", "dismissed"} :
        call[g] = Mark(rec, status, pool)
  BY CallKinds DEF RecShapes, MarkStatus
<1>2. PICK status \in {"applied", "dismissed"} : call[g] = Mark(rec, status, pool)
  BY <1>1
<1>3. CallShape(Idle)
  BY DEF CallShape
<1>4. /\ call' = [h \in Planners |-> call'[h]]
      /\ \A h \in Planners : CallShape(call'[h])
      /\ nextRec' = nextRec
  BY <1>3, CallStep DEF MarkStatus, Answer
<1>5. CASE UNCHANGED recs
  BY <1>4, <1>5 DEF RecShapes, Stays
<1>6. CASE rec \in DOMAIN recs
           /\ recs' = [recs EXCEPT ![rec].status = status, ![rec].appliedPool = pool]
  <2> DEFINE marked == [recs[rec] EXCEPT !.status = status, !.appliedPool = pool]
  <2>1. RecShape(marked) /\ marked.status = status
    <3>1. RecShape(recs[rec]) /\ status \in Statuses
      BY <1>6 DEF RecShapes, Statuses
    <3> QED
      BY <3>1, MarkedShape
  <2>2. recs' = [recs EXCEPT ![rec] = marked]
    BY <1>6
  <2> HIDE DEF marked
  <2>3. /\ DOMAIN recs' = DOMAIN recs
        /\ recs' = [r \in DOMAIN recs |-> recs'[r]]
        /\ \A r \in DOMAIN recs : recs'[r] = IF r = rec THEN marked ELSE recs[r]
    BY <1>6, <2>2 DEF RecShapes
  <2>4. Stays
    BY <1>6, <2>1, <2>3 DEF Stays
  <2>5. RecShapes'
    BY <1>4, <2>1, <2>3 DEF RecShapes
  <2> QED
    BY <2>4, <2>5
<1>7. call[g].rec = rec /\ call[g].status = status /\ call[g].pool = pool
  BY <1>2 DEF Mark
<1> QED
  BY <1>5, <1>6, <1>7 DEF MarkStatus

LEMMA ShapesStep == RecShapes /\ [RecNext]_allVars => RecShapes' /\ Stays
<1> SUFFICES ASSUME RecShapes, [RecNext]_allVars
             PROVE  RecShapes' /\ Stays
  OBVIOUS
<1>1. CASE UNCHANGED recVars
  BY <1>1 DEF recVars, RecShapes, Stays
<1>2. ASSUME NEW g \in Planners, NEW c, CallShape(c), call' = [call EXCEPT ![g] = c],
             UNCHANGED <<recs, nextRec>>
      PROVE  RecShapes' /\ Stays
  BY <1>2, CallOnly DEF Stays
<1>3. ASSUME NEW g \in Planners, NEW id \in Targets, NEW deep \in BOOLEAN,
             GenerateStart(g, id, deep)
      PROVE  RecShapes' /\ Stays
  <2> DEFINE below == IF deep THEN WithDescendants({id}) \ {id} ELSE {}
             clear == [op |-> "clear", todo |-> <<id>> \o Seqs!SetToSeq(below)]
  <2>1. CallShape(clear)
    BY DEF CallShape
  <2>2. call' = [call EXCEPT ![g] = clear] /\ UNCHANGED <<recs, nextRec>>
    BY <1>3 DEF GenerateStart
  <2> HIDE DEF clear
  <2> QED
    BY <1>2, <2>1, <2>2
<1>4. ASSUME NEW g \in Planners, GenerateAnalyze(g)
      PROVE  RecShapes' /\ Stays
  <2> DEFINE items == IF Live(Head(call[g].todo)) THEN Gaps(Head(call[g].todo)).available
                      ELSE <<>>
  <2>1. CallShape(Recording("blocks", call[g].todo, items, next))
    BY RecordingShape
  <2>2. /\ call' = [call EXCEPT ![g] = Recording("blocks", call[g].todo, items, next)]
        /\ UNCHANGED <<recs, nextRec>>
    BY <1>4 DEF GenerateAnalyze
  <2> QED
    BY <1>2, <2>1, <2>2
<1>5. ASSUME NEW g \in Planners, GenerateComply(g)
      PROVE  RecShapes' /\ Stays
  <2> DEFINE items == IF Live(Head(call[g].todo)) THEN Violations(Head(call[g].todo))
                      ELSE <<>>
  <2>1. CallShape(Recording("rules", call[g].todo, items, 1))
    BY RecordingShape
  <2>2. /\ call' = [call EXCEPT ![g] = Recording("rules", call[g].todo, items, 1)]
        /\ UNCHANGED <<recs, nextRec>>
    BY <1>5 DEF GenerateComply
  <2> QED
    BY <1>2, <2>1, <2>2
<1>6. ASSUME NEW g \in Planners, NEW r \in DOMAIN recs, ApplyStart(g, r)
      PROVE  RecShapes' /\ Stays
  <2> DEFINE create == [op |-> "create", rec |-> r, pool |-> recs[r].pool,
                        cidr |-> recs[r].cidr, seen |-> recs[r].seen]
  <2>1. CallShape(Mark(r, "applied", None)) /\ CallShape(create)
    BY DEF CallShape
  <2>2. CASE recs[r].cidr = None
    BY <1>2, <1>6, <2>1, <2>2 DEF ApplyStart
  <2>3. CASE recs[r].cidr # None
    BY <1>2, <1>6, <2>1, <2>3 DEF ApplyStart
  <2> QED
    BY <2>2, <2>3
<1>7. ASSUME NEW g \in Planners, NEW r \in DOMAIN recs, DismissStart(g, r)
      PROVE  RecShapes' /\ Stays
  <2>1. CallShape(Mark(r, "dismissed", None))
    BY DEF CallShape
  <2> QED
    BY <1>2, <1>7, <2>1 DEF DismissStart
<1>8. ASSUME NEW g \in Planners, NEW meta \in Metas, ApplyCreate(g, meta)
      PROVE  RecShapes' /\ Stays
  <2>1. CallShape(Mark(call[g].rec, "applied", next)) /\ CallShape(Idle)
    BY DEF CallShape
  <2> QED
    BY <1>2, <1>8, <2>1 DEF ApplyCreate, Answer
<1> QED
  BY <1>1, <1>3, <1>4, <1>5, <1>6, <1>7, <1>8, ClearStep, StoreStep, MarkStep
  DEF RecNext, Recommend, allVars

\* What was applied or dismissed stays on record (DeletePendingForPool beside Apply and
\* Dismiss, UpdateRecommendationStatus whatever the status is by then).
THEOREM SettledTheorem == RecSpec => SettledStays
<1>1. RecShapes /\ [RecNext]_allVars => RecShapes'
  BY ShapesStep
<1>2. RecShapes /\ [RecNext]_allVars => [Stays]_allVars
  BY ShapesStep
<1> QED
  BY <1>1, <1>2, ShapesInit, PTL DEF RecSpec, SettledStays, Stays

-----------------------------------------------------------------------------
(* Transfer. *)

\* A strict total order lists every member of a finite set once, in its order
LEMMA OrderedSound ==
  ASSUME NEW S, IsFiniteSet(S), NEW R,
         \A x \in S : <<x, x>> \notin R,
         \A x, y, z \in S : <<x, y>> \in R /\ <<y, z>> \in R => <<x, z>> \in R,
         \A x, y \in S : x = y \/ <<x, y>> \in R \/ <<y, x>> \in R
  PROVE  /\ Cardinality(S) \in Nat
         /\ Ordered(S, R) \in [1 .. Cardinality(S) -> S]
         /\ \A m, n \in 1 .. Cardinality(S) :
              m < n => <<Ordered(S, R)[m], Ordered(S, R)[n]>> \in R
<1> DEFINE C == Cardinality(S)
           Pred(k) == {j \in S : <<j, k>> \in R}
           rank == [k \in S |-> Cardinality(Pred(k))]
<1>1. C \in Nat
  BY FS_CardinalityType
<1>2. ASSUME NEW k \in S PROVE rank[k] \in 0 .. C - 1
  <2>1. Pred(k) \subseteq S \ {k}
    OBVIOUS
  <2>2. IsFiniteSet(S \ {k}) /\ Cardinality(S \ {k}) = C - 1
    BY FS_RemoveElement
  <2> HIDE DEF Pred, C
  <2>3. IsFiniteSet(Pred(k)) /\ Cardinality(Pred(k)) <= C - 1
    BY <2>1, <2>2, FS_Subset
  <2>4. Cardinality(Pred(k)) \in Nat
    BY <2>3, FS_CardinalityType
  <2> QED
    BY <1>1, <2>3, <2>4 DEF rank
<1>3. ASSUME NEW x \in S, NEW y \in S, <<x, y>> \in R PROVE rank[x] < rank[y]
  <2>1. IsFiniteSet(Pred(y)) /\ Pred(y) \subseteq S
    BY FS_Subset
  <2>2. Pred(x) \subseteq Pred(y) /\ x \in Pred(y) /\ x \notin Pred(x)
    BY <1>3
  <2>3. Cardinality(Pred(x)) <= Cardinality(Pred(y)) /\ Cardinality(Pred(x)) # Cardinality(Pred(y))
    BY <2>1, <2>2, FS_Subset
  <2> HIDE DEF Pred
  <2>4. rank[x] <= rank[y] /\ rank[x] # rank[y]
    BY <2>3
  <2> HIDE DEF rank
  <2> QED
    BY <1>1, <1>2, <2>4
<1>4. ASSUME NEW n \in 1 .. C PROVE \E k \in S : rank[k] = n - 1
  <2> HIDE DEF rank
  <2> DEFINE T == 0 .. C - 1
  <2>1. rank \in Injection(S, T)
    <3>1. rank = [k \in S |-> rank[k]]
      BY DEF rank
    <3>2. \A x, y \in S : rank[x] = rank[y] => x = y
      <4>1. \A x, y \in S : x # y => rank[x] < rank[y] \/ rank[y] < rank[x]
        BY <1>3
      <4>2. \A x \in S : rank[x] \in Int
        BY <1>2
      <4> QED
        BY <4>1, <4>2
    <3> QED
      BY <1>2, <3>1, <3>2 DEF Injection, IsInjective
  <2>2. IsFiniteSet(T) /\ Cardinality(T) = C
    <3> HIDE DEF C
    <3>1. C - 1 \in Int /\ (0 > C - 1 <=> C = 0)
      BY <1>1
    <3> QED
      BY <1>1, <3>1, FS_Interval
  <2>3. rank \in Surjection(S, T)
    BY <2>1, <2>2, FS_Injection
  <2>4. n - 1 \in T
    BY <1>1
  <2> QED
    BY <2>3, <2>4 DEF Surjection
<1>5. ASSUME NEW n \in 1 .. C
      PROVE  Ordered(S, R)[n] \in S /\ rank[Ordered(S, R)[n]] = n - 1
  <2>1. Ordered(S, R)[n] = CHOOSE k \in S : rank[k] = n - 1
    BY DEF Ordered
  <2> HIDE DEF rank
  <2> QED
    BY <1>4, <2>1
<1>6. ASSUME NEW m \in 1 .. C, NEW n \in 1 .. C, m < n
      PROVE  <<Ordered(S, R)[m], Ordered(S, R)[n]>> \in R
  <2> DEFINE x == Ordered(S, R)[m]
             y == Ordered(S, R)[n]
  <2>1. x \in S /\ y \in S /\ rank[x] = m - 1 /\ rank[y] = n - 1
    BY <1>5
  <2> HIDE DEF x, y, rank
  <2>2. rank[x] < rank[y] /\ rank[x] # rank[y] /\ ~ rank[y] < rank[x]
    BY <1>1, <1>6, <2>1
  <2>3. <<x, y>> \in R
    BY <1>3, <2>1, <2>2
  <2> QED
    BY <2>3 DEF x, y
<1> QED
  BY <1>1, <1>5, <1>6 DEF Ordered

FileRow == [id : Nat, parent : Nat, owner : Nat, key : OwnerKeys \cup {""}]

Known == [key : OwnerKeys, id : Nat]

\* Rows of a file: numbered apart, and below what is older
FileTree(rows) ==
  /\ rows \in Seq(FileRow)
  /\ \A n \in DOMAIN rows : rows[n].parent < rows[n].id
  /\ \A m, n \in DOMAIN rows : rows[m].id = rows[n].id => m = n

InOrder(rows) == \A m, n \in DOMAIN rows : m < n => rows[m].parent <= rows[n].parent

StoreTyped ==
  /\ blocks \in Seq(Block) /\ owners \in Seq(Owner)
  /\ \A i \in DOMAIN blocks : blocks[i].parent < i

FileTyped ==
  /\ file \in [accounts : Seq(OwnerKeys), pools : Seq(FileRow)]
  /\ FileTree(file.pools)

\* What the rows are depends on the request
BulkTyped ==
  /\ bulk \in [op : {"none", "accounts", "pools", "plan"}, rows : {bulk.rows},
               keys : Seq(Known), at : Nat \ {0}, made : Seq(Nat),
               pc : {"resolve", "create"}, parent : Nat, owner : Nat]
  /\ bulk.op \in {"none", "accounts"} => bulk.rows \in Seq(OwnerKeys)
  /\ bulk.op = "pools" => FileTree(bulk.rows) /\ InOrder(bulk.rows)
  /\ bulk.op = "plan" =>
       bulk.rows \in Seq(Nat) /\ \A n \in DOMAIN bulk.rows : bulk.rows[n] < n
  /\ bulk.at = Len(bulk.made) + 1 \/ (bulk.rows = <<>> /\ bulk.made = <<>>)
  /\ Len(bulk.made) <= Len(bulk.rows)
  /\ bulk.op \in {"pools", "plan"} =>
       \A n \in DOMAIN bulk.made : bulk.made[n] <= Len(blocks)

\* The accounts a request knows by their keys have these keys
KeysHeld ==
  ~ Over /\ bulk.op = "pools" =>
    \A n \in DOMAIN bulk.keys :
      bulk.keys[n].id \in DOMAIN owners /\ owners[bulk.keys[n].id].key = bulk.keys[n].key

\* The parent a row is to be created under is the one its parent's row got
ParentHeld ==
  ~ Over /\ bulk.op = "pools" /\ bulk.pc = "create" =>
    /\ bulk.parent \in 0 .. Len(blocks)
    /\ \A n \in DOMAIN bulk.made :
         bulk.rows[n].id = Row.parent /\ bulk.made[n] # 0 => bulk.parent = bulk.made[n]
    /\ Row.key # "" => bulk.owner \in DOMAIN owners /\ owners[bulk.owner].key = Row.key

\* A pool made for a row with a key is in an account there was
KeyedOwner ==
  bulk.op = "pools" =>
    \A k \in DOMAIN bulk.made :
      bulk.made[k] # 0 /\ bulk.rows[k].key # "" =>
        blocks[bulk.made[k]].owner \in DOMAIN owners

TransferInv ==
  /\ StoreTyped /\ FileTyped /\ BulkTyped
  /\ KeysHeld /\ ParentHeld /\ KeyedOwner /\ TreeCopied

\* Numbers are not given out twice, and what a pool is in and under stays
Grown ==
  /\ StoreTyped'
  /\ Len(blocks) <= Len(blocks') /\ Len(owners) <= Len(owners')
  /\ \A i \in DOMAIN blocks :
       blocks'[i].parent = blocks[i].parent /\ blocks'[i].owner = blocks[i].owner
  /\ \A a \in DOMAIN owners : owners'[a].key = owners[a].key

\* The live entries of a store, in the order of their numbers
LEMMA ListSound ==
  ASSUME NEW T, NEW store \in Seq(T)
  PROVE  /\ ListOf(store) \in Seq(DOMAIN store)
         /\ \A m, n \in DOMAIN ListOf(store) :
              m < n => ListOf(store)[m] < ListOf(store)[n]
         /\ \A n \in DOMAIN ListOf(store) : store[ListOf(store)[n]].live
<1> DEFINE alive == {i \in DOMAIN store : store[i].live}
           R == {p \in alive \X alive : p[1] < p[2]}
           C == Cardinality(alive)
<1>1. alive \subseteq Nat /\ IsFiniteSet(alive)
  <2>1. Len(store) \in Nat /\ DOMAIN store = 1 .. Len(store)
    OBVIOUS
  <2>2. IsFiniteSet(1 .. Len(store))
    BY <2>1, FS_Interval
  <2>3. alive \in SUBSET (1 .. Len(store))
    BY <2>1
  <2> HIDE DEF alive, R, C
  <2>4. IsFiniteSet(alive)
    BY <2>2, <2>3, FS_Subset
  <2> QED
    BY <2>1, <2>3, <2>4
<1>2. \A x, y \in alive : <<x, y>> \in R <=> x < y
  OBVIOUS
<1>3. ListOf(store) = Ordered(alive, R)
  BY DEF ListOf
<1>4. /\ C \in Nat /\ ListOf(store) \in [1 .. C -> alive]
      /\ \A m, n \in 1 .. C : m < n => <<ListOf(store)[m], ListOf(store)[n]>> \in R
  <2> HIDE DEF alive, R, C
  <2>1. \A x \in alive : <<x, x>> \notin R
    BY <1>1, <1>2
  <2>2. \A x, y, z \in alive : <<x, y>> \in R /\ <<y, z>> \in R => <<x, z>> \in R
    BY <1>1, <1>2
  <2>3. ASSUME NEW x \in alive, NEW y \in alive, x # y PROVE <<x, y>> \in R \/ <<y, x>> \in R
    <3>1. x \in Nat /\ y \in Nat /\ (x < y \/ y < x)
      BY <1>1, <2>3
    <3> QED
      BY <1>2, <3>1
  <2>4. \A x, y \in alive : x = y \/ <<x, y>> \in R \/ <<y, x>> \in R
    BY <2>3
  <2>5. /\ Cardinality(alive) \in Nat /\ Ordered(alive, R) \in [1 .. Cardinality(alive) -> alive]
        /\ \A m, n \in 1 .. Cardinality(alive) :
             m < n => <<Ordered(alive, R)[m], Ordered(alive, R)[n]>> \in R
    BY <1>1, <2>1, <2>2, <2>4, OrderedSound
  <2> QED
    BY <1>3, <2>5 DEF C
<1>5. alive \subseteq DOMAIN store /\ \A i \in alive : store[i].live
  OBVIOUS
<1> HIDE DEF alive, R, C
<1>6. ListOf(store) \in Seq(DOMAIN store) /\ DOMAIN ListOf(store) = 1 .. C
  BY <1>4, <1>5
<1> QED
  BY <1>2, <1>4, <1>5, <1>6

\* The sort of a file's rows in any order
LEMMA ParentsFirstSound ==
  ASSUME NEW rows, FileTree(rows)
  PROVE  FileTree(ParentsFirst(rows)) /\ InOrder(ParentsFirst(rows))
<1> DEFINE D == DOMAIN rows
           Before(j, k) == \/ rows[j].parent < rows[k].parent
                           \/ rows[j].parent = rows[k].parent /\ j < k
           R == {p \in D \X D : Before(p[1], p[2])}
           order == Ordered(D, R)
<1>1. /\ D = 1 .. Len(rows) /\ Len(rows) \in Nat /\ IsFiniteSet(D) /\ Cardinality(D) = Len(rows)
      /\ \A k \in D : rows[k] \in FileRow /\ rows[k].parent \in Nat /\ k \in Nat
  <2>1. rows \in Seq(FileRow)
    BY DEF FileTree
  <2>2. D = 1 .. Len(rows) /\ Len(rows) \in Nat /\ \A k \in D : rows[k] \in FileRow
    BY <2>1
  <2>3. IsFiniteSet(1 .. Len(rows)) /\ Cardinality(1 .. Len(rows)) = Len(rows)
    BY <2>2, FS_Interval
  <2>4. \A k \in D : rows[k].parent \in Nat
    BY <2>2 DEF FileRow
  <2> QED
    BY <2>2, <2>3, <2>4
<1>2. \A x, y \in D : <<x, y>> \in R <=> Before(x, y)
  OBVIOUS
<1>3. ParentsFirst(rows) = [n \in D |-> rows[order[n]]]
  BY DEF ParentsFirst
<1>4. order \in [D -> D] /\ \A m, n \in D : m < n => Before(order[m], order[n])
  <2>1. \A x \in D : <<x, x>> \notin R
    BY <1>1, <1>2
  <2>2. \A x, y, z \in D : <<x, y>> \in R /\ <<y, z>> \in R => <<x, z>> \in R
    BY <1>1, <1>2
  <2>3. ASSUME NEW x \in D, NEW y \in D, x # y PROVE <<x, y>> \in R \/ <<y, x>> \in R
    <3>1. /\ x \in Nat /\ y \in Nat /\ (x < y \/ y < x)
          /\ rows[x].parent \in Nat /\ rows[y].parent \in Nat
      BY <1>1, <2>3
    <3>2. Before(x, y) \/ Before(y, x)
      BY <3>1
    <3> QED
      BY <1>2, <3>2
  <2>5. \A x, y \in D : x = y \/ <<x, y>> \in R \/ <<y, x>> \in R
    BY <2>3
  <2> HIDE DEF R, D
  <2>4. /\ order \in [1 .. Cardinality(D) -> D]
        /\ \A m, n \in 1 .. Cardinality(D) : m < n => <<order[m], order[n]>> \in R
    BY <1>1, <2>1, <2>2, <2>5, OrderedSound
  <2> QED
    BY <1>1, <1>2, <2>4
<1>5. \A m, n \in D : m # n => order[m] # order[n]
  <2> HIDE DEF order
  <2>1. ASSUME NEW m \in D, NEW n \in D, m < n PROVE order[m] # order[n]
    <3>1. order[m] \in D /\ Before(order[m], order[n])
      BY <1>4, <2>1
    <3>2. ~ Before(order[m], order[m])
      BY <1>1, <3>1
    <3> QED
      BY <3>1, <3>2
  <2> QED
    BY <1>1, <2>1
<1> DEFINE out == ParentsFirst(rows)
<1>6. DOMAIN out = D /\ \A n \in D : out[n] = rows[order[n]] /\ out[n] \in FileRow /\ order[n] \in D
  BY <1>1, <1>3, <1>4
<1> HIDE DEF order, R
<1>7. out \in Seq(FileRow)
  BY <1>1, <1>3, <1>4
<1> HIDE DEF out
<1>8. InOrder(out)
  BY <1>1, <1>4, <1>6 DEF InOrder
<1>9. FileTree(out)
  <2>1. \A n \in D : out[n].parent < out[n].id
    BY <1>6 DEF FileTree
  <2>2. ASSUME NEW m \in D, NEW n \in D, out[m].id = out[n].id PROVE m = n
    <3>1. /\ rows[order[m]].id = rows[order[n]].id /\ order[m] \in D /\ order[n] \in D
      BY <1>6, <2>2
    <3>2. order[m] = order[n]
      BY <3>1 DEF FileTree
    <3> QED
      BY <1>5, <3>2
  <2> HIDE DEF D
  <2> QED
    BY <1>6, <1>7, <2>1, <2>2 DEF FileTree
<1> QED
  BY <1>8, <1>9 DEF out

\* A row's parent comes before it
LEMMA ParentBefore ==
  ASSUME BulkTyped, bulk.op \in {"pools", "plan"},
         NEW j \in DOMAIN bulk.rows, NEW k \in DOMAIN bulk.rows, ParentRow(j, k)
  PROVE  j < k
<1>1. CASE bulk.op = "plan"
  <2>1. bulk.rows \in Seq(Nat) /\ bulk.rows[k] < k /\ bulk.rows[k] = j
    BY <1>1 DEF BulkTyped, ParentRow
  <2> QED
    BY <2>1
<1>2. CASE bulk.op = "pools"
  <2> DEFINE rows == bulk.rows
  <2>1. /\ rows \in Seq(FileRow) /\ rows[j].parent < rows[j].id
        /\ \A m, n \in DOMAIN rows : m < n => rows[m].parent <= rows[n].parent
    BY <1>2 DEF BulkTyped, FileTree, InOrder
  <2>2. rows[k].parent = rows[j].id
    BY <1>2 DEF ParentRow
  <2>3. rows[j].parent \in Nat /\ rows[j].id \in Nat /\ rows[k].parent \in Nat
        /\ j \in Nat /\ k \in Nat
    <3>1. rows[j] \in FileRow /\ rows[k] \in FileRow /\ j \in Nat /\ k \in Nat
      BY <2>1
    <3> HIDE DEF rows
    <3> QED
      BY <3>1 DEF FileRow
  <2> HIDE DEF rows
  <2>4. k # j
    BY <2>1, <2>2, <2>3
  <2>5. ~ k < j
    BY <2>1, <2>2, <2>3 DEF rows
  <2> QED
    BY <2>3, <2>4, <2>5
<1> QED
  BY <1>1, <1>2

\* What holds of pools that were made holds when others are
LEMMA CopiedStays ==
  ASSUME TransferInv, Grown, bulk.op \in {"pools", "plan"},
         NEW k \in DOMAIN bulk.made, bulk.made[k] # 0
  PROVE  /\ bulk.made[k] \in DOMAIN blocks /\ bulk.made[k] \in DOMAIN blocks'
         /\ \A j \in DOMAIN bulk.made :
              ParentRow(j, k) =>
                \/ bulk.made[j] = 0 /\ bulk.op = "pools"
                \/ blocks'[bulk.made[k]].parent = bulk.made[j] /\ bulk.made[j] # 0
         /\ bulk.op = "pools" /\ bulk.rows[k].key # "" =>
              /\ blocks'[bulk.made[k]].owner \in DOMAIN owners'
              /\ owners'[blocks'[bulk.made[k]].owner].key = bulk.rows[k].key
<1> DEFINE i == bulk.made[k]
<1>1. blocks \in Seq(Block) /\ blocks' \in Seq(Block) /\ owners \in Seq(Owner) /\ owners' \in Seq(Owner)
  BY DEF TransferInv, Grown, StoreTyped
<1>2. i \in Nat /\ i <= Len(blocks)
  BY DEF TransferInv, BulkTyped
<1>3. i \in DOMAIN blocks /\ i \in DOMAIN blocks'
  <2> HIDE DEF i
  <2>1. i \in Nat /\ i # 0 /\ i <= Len(blocks) /\ Len(blocks) <= Len(blocks')
    BY <1>2 DEF i, Grown
  <2> QED
    BY <1>1, <2>1
<1>4. blocks'[i].parent = blocks[i].parent /\ blocks'[i].owner = blocks[i].owner
  BY <1>3 DEF Grown
<1>5. \A j \in DOMAIN bulk.made :
        ParentRow(j, k) =>
          \/ bulk.made[j] = 0 /\ bulk.op = "pools"
          \/ blocks[i].parent = bulk.made[j] /\ bulk.made[j] # 0
  BY DEF TransferInv, TreeCopied
<1>6. ASSUME bulk.op = "pools", bulk.rows[k].key # ""
      PROVE  /\ blocks'[i].owner \in DOMAIN owners'
             /\ owners'[blocks'[i].owner].key = bulk.rows[k].key
  <2>1. blocks[i].owner \in DOMAIN owners /\ owners[blocks[i].owner].key = bulk.rows[k].key
    BY <1>6 DEF TransferInv, KeyedOwner, TreeCopied
  <2>2. DOMAIN owners \subseteq DOMAIN owners'
    <3>1. Len(owners) <= Len(owners')
      BY DEF Grown
    <3> QED
      BY <1>1, <3>1
  <2> QED
    BY <1>4, <2>1, <2>2 DEF Grown
<1> QED
  BY <1>3, <1>4, <1>5, <1>6

LEMMA GrownStep ==
  ASSUME TransferInv, Grown, bulk' = bulk, FileTyped'
  PROVE  TransferInv'
<1>1. blocks \in Seq(Block) /\ blocks' \in Seq(Block) /\ owners \in Seq(Owner) /\ owners' \in Seq(Owner)
  BY DEF TransferInv, Grown, StoreTyped
<1>2. Len(blocks) <= Len(blocks') /\ Len(owners) <= Len(owners')
  BY DEF Grown
<1>3. StoreTyped'
  BY DEF Grown
<1>4. BulkTyped'
  <2>1. BulkTyped /\ bulk.made \in Seq(Nat)
    BY DEF TransferInv, BulkTyped
  <2>2. \A n \in DOMAIN bulk.made : bulk.made[n] \in Nat
    BY <2>1
  <2>3. \A n \in DOMAIN bulk.made : bulk.made[n] <= Len(blocks) => bulk.made[n] <= Len(blocks')
    BY <1>1, <1>2, <2>2
  <2> QED
    BY <2>1, <2>3 DEF BulkTyped, FileTree, InOrder
<1>5. DOMAIN owners \subseteq DOMAIN owners'
  BY <1>1, <1>2
<1>6. KeysHeld'
  BY <1>5 DEF KeysHeld, Over, TransferInv, Grown
<1>7. ParentHeld'
  <2> SUFFICES ASSUME ~ Over, bulk.op = "pools", bulk.pc = "create" PROVE ParentHeld'
    BY DEF ParentHeld, Over
  <2>1. bulk.parent \in 0 .. Len(blocks) => bulk.parent \in 0 .. Len(blocks')
    BY <1>1, <1>2
  <2> QED
    BY <1>5, <2>1 DEF ParentHeld, Row, TransferInv, Grown
<1>8. KeyedOwner'
  BY CopiedStays DEF KeyedOwner
<1>9. TreeCopied'
  BY CopiedStays DEF TreeCopied, ParentRow
<1> QED
  BY <1>3, <1>4, <1>6, <1>7, <1>8, <1>9 DEF TransferInv

\* Where a request is that is not over
LEMMA UnderWay ==
  ASSUME BulkTyped, ~ Over
  PROVE  /\ bulk.at = Len(bulk.made) + 1 /\ bulk.at \in Nat \ {0}
         /\ bulk.at \in DOMAIN bulk.rows
         /\ Len(bulk.rows) \in Nat /\ DOMAIN bulk.rows = 1 .. Len(bulk.rows)
         /\ bulk.made \in Seq(Nat) /\ DOMAIN bulk.made = 1 .. bulk.at - 1
<1>1. \E S : bulk.rows \in Seq(S)
  <2>1. CASE bulk.op \in {"none", "accounts"}
    BY <2>1 DEF BulkTyped
  <2>2. CASE bulk.op = "pools"
    BY <2>2 DEF BulkTyped, FileTree
  <2>3. CASE bulk.op = "plan"
    BY <2>3 DEF BulkTyped
  <2> QED
    BY <2>1, <2>2, <2>3 DEF BulkTyped
<1>2. Len(bulk.rows) \in Nat /\ DOMAIN bulk.rows = 1 .. Len(bulk.rows)
  BY <1>1
<1>3. bulk.made \in Seq(Nat) /\ bulk.at \in Nat \ {0}
  BY DEF BulkTyped
<1>4. bulk.at <= Len(bulk.rows)
  BY <1>2, <1>3 DEF Over
<1>5. bulk.rows # <<>>
  BY <1>2, <1>3, <1>4
<1>6. bulk.at = Len(bulk.made) + 1
  BY <1>5 DEF BulkTyped
<1> QED
  BY <1>2, <1>3, <1>4, <1>6

LEMMA Longer ==
  ASSUME NEW s \in Seq(Nat), NEW x \in Nat
  PROVE  /\ Append(s, x) \in Seq(Nat) /\ Len(Append(s, x)) = Len(s) + 1
         /\ Append(s, x)[Len(s) + 1] = x
         /\ DOMAIN Append(s, x) = 1 .. Len(s) + 1
         /\ \A n \in DOMAIN s : Append(s, x)[n] = s[n] /\ n \in DOMAIN Append(s, x)
         /\ \A n \in DOMAIN Append(s, x) : n = Len(s) + 1 \/ n \in DOMAIN s
OBVIOUS

LEMMA Reaches ==
  ASSUME NEW S, NEW T, NEW s \in Seq(S), NEW t \in Seq(T), Len(s) <= Len(t)
  PROVE  DOMAIN s \subseteq DOMAIN t
OBVIOUS

\* The pool made for the row at hand is where that says
Copied(id) ==
  bulk.op \in {"pools", "plan"} =>
    /\ id <= Len(blocks')
    /\ id # 0 =>
         \A j \in DOMAIN bulk.made :
           ParentRow(j, bulk.at) =>
             \/ bulk.made[j] = 0 /\ bulk.op = "pools"
             \/ blocks'[id].parent = bulk.made[j] /\ bulk.made[j] # 0
    /\ bulk.op = "pools" /\ id # 0 /\ Row.key # "" =>
         /\ blocks'[id].owner \in DOMAIN owners'
         /\ owners'[blocks'[id].owner].key = Row.key

\* A row is done with
LEMMA RowStep ==
  ASSUME TransferInv, Grown, ~ Over, file' = file, NEW id \in Nat, RowDone(id), Copied(id)
  PROVE  TransferInv'
<1> DEFINE last == bulk.at
           made == bulk.made
           new == bulk'.made
<1>1. BulkTyped /\ BulkTyped!1
  BY DEF TransferInv, BulkTyped
<1>2. /\ last = Len(bulk.made) + 1 /\ last \in Nat \ {0} /\ last \in DOMAIN bulk.rows
      /\ Len(bulk.rows) \in Nat /\ DOMAIN bulk.rows = 1 .. Len(bulk.rows)
      /\ made \in Seq(Nat) /\ DOMAIN made = 1 .. last - 1 /\ Len(made) \in Nat
  BY <1>1, UnderWay
<1>3. /\ bulk'.op = bulk.op /\ bulk'.rows = bulk.rows /\ bulk'.keys = bulk.keys
      /\ bulk'.at = last + 1 /\ bulk'.made = Append(bulk.made, id) /\ bulk'.pc = "resolve"
      /\ bulk'.parent = bulk.parent /\ bulk'.owner = bulk.owner
      /\ bulk' \in [op : {"none", "accounts", "pools", "plan"}, rows : {bulk'.rows},
                    keys : Seq(Known), at : Nat \ {0}, made : Seq(Nat),
                    pc : {"resolve", "create"}, parent : Nat, owner : Nat]
  <2>1. Append(bulk.made, id) \in Seq(Nat)
    BY <1>2, Longer
  <2>2. last + 1 \in Nat \ {0}
    <3> HIDE DEF last
    <3> QED
      BY <1>2
  <2> QED
    BY <1>1, <1>2, <2>1, <2>2 DEF RowDone
<1> HIDE DEF last, made, new
<1>4. /\ new \in Seq(Nat) /\ DOMAIN new = 1 .. last /\ Len(new) = last
      /\ new[last] = id
      /\ \A n \in DOMAIN made : new[n] = made[n] /\ n \in DOMAIN new
  <2>1. new = Append(made, id)
    BY <1>3 DEF made, new
  <2>2. last = Len(made) + 1
    BY <1>2 DEF made
  <2> QED
    BY <1>2, <2>1, <2>2, Longer
<1>5. ASSUME NEW n \in DOMAIN new PROVE n = last \/ n \in DOMAIN made
  BY <1>2, <1>4, <1>5
<1>6. blocks \in Seq(Block) /\ blocks' \in Seq(Block) /\ owners \in Seq(Owner) /\ owners' \in Seq(Owner)
      /\ Len(blocks) <= Len(blocks')
  BY DEF TransferInv, Grown, StoreTyped
<1>7. BulkTyped'
  <2>1. Len(new) <= Len(bulk'.rows) /\ bulk'.at = Len(new) + 1
    <3>1. last <= Len(bulk.rows)
      BY <1>2
    <3> QED
      BY <1>3, <1>4, <3>1
  <2>2. ASSUME bulk.op \in {"pools", "plan"}, NEW n \in DOMAIN new
        PROVE  new[n] <= Len(blocks')
    <3>1. CASE n = last
      BY <1>4, <2>2, <3>1 DEF Copied
    <3>2. CASE n \in DOMAIN made
      <4>1. made[n] <= Len(blocks)
        BY <1>1, <2>2, <3>2 DEF BulkTyped, made
      <4>2. made[n] \in Nat
        BY <1>2, <3>2
      <4>3. new[n] = made[n]
        BY <1>4, <3>2
      <4>4. Len(blocks) \in Nat /\ Len(blocks') \in Nat /\ Len(blocks) <= Len(blocks')
        BY <1>6
      <4> QED
        BY <4>1, <4>2, <4>3, <4>4
    <3> QED
      BY <1>5, <2>2, <3>1, <3>2
  <2> QED
    BY <1>1, <1>3, <2>1, <2>2 DEF BulkTyped, FileTree, InOrder, new
<1>8. KeysHeld'
  <2> SUFFICES ASSUME bulk.op = "pools", NEW n \in DOMAIN bulk.keys
               PROVE  /\ bulk.keys[n].id \in DOMAIN owners'
                      /\ owners'[bulk.keys[n].id].key = bulk.keys[n].key
    BY <1>3 DEF KeysHeld
  <2>1. bulk.keys[n].id \in DOMAIN owners /\ owners[bulk.keys[n].id].key = bulk.keys[n].key
    BY DEF TransferInv, KeysHeld
  <2>2. DOMAIN owners \subseteq DOMAIN owners'
    <3>1. Len(owners) <= Len(owners')
      BY DEF Grown
    <3> QED
      BY <1>6, <3>1, Reaches
  <2> QED
    BY <2>1, <2>2 DEF Grown
<1>9. ParentHeld'
  BY <1>3 DEF ParentHeld
<1>10. ASSUME bulk.op \in {"pools", "plan"}, NEW j \in 1 .. last, NEW k \in 1 .. last
       PROVE  /\ ParentRow(j, k)' <=> ParentRow(j, k)
              /\ ParentRow(j, k) => j < k
  <2>1. j \in DOMAIN bulk.rows /\ k \in DOMAIN bulk.rows
    BY <1>2
  <2>2. ParentRow(j, k) => j < k
    BY <1>1, <1>10, <2>1, ParentBefore
  <2> QED
    BY <1>3, <2>2 DEF ParentRow
<1>11. KeyedOwner'
  <2> SUFFICES ASSUME bulk.op = "pools", NEW k \in DOMAIN new,
                      new[k] # 0, bulk.rows[k].key # ""
               PROVE  blocks'[new[k]].owner \in DOMAIN owners'
    BY <1>3 DEF KeyedOwner, new
  <2>1. CASE k = last
    BY <1>4, <2>1 DEF Row, last, Copied
  <2>2. CASE k \in DOMAIN made
    BY <1>4, <2>2, CopiedStays DEF made
  <2> QED
    BY <1>5, <2>1, <2>2
<1>12. TreeCopied'
  <2> SUFFICES ASSUME bulk.op \in {"pools", "plan"}, NEW k \in DOMAIN new, new[k] # 0
               PROVE  /\ \A j \in DOMAIN new :
                           ParentRow(j, k)' =>
                             \/ new[j] = 0 /\ bulk.op = "pools"
                             \/ blocks'[new[k]].parent = new[j] /\ new[j] # 0
                      /\ bulk.op = "pools" /\ bulk.rows[k].key # "" =>
                           owners'[blocks'[new[k]].owner].key = bulk.rows[k].key
    BY <1>3 DEF TreeCopied, new
  <2>1. ASSUME NEW j \in DOMAIN new, ParentRow(j, k)'
        PROVE  ParentRow(j, k) /\ j \in DOMAIN bulk.made /\ new[j] = made[j]
    <3>1. j \in 1 .. last /\ k \in 1 .. last
      BY <1>4, <2>1
    <3>2. ParentRow(j, k) /\ j < k
      BY <1>10, <2>1, <3>1
    <3> QED
      BY <1>2, <1>4, <3>1, <3>2
  <2>2. CASE k = last
    <3>1. new[k] = id /\ id # 0
      BY <1>4, <2>2
    <3> QED
      BY <2>1, <2>2, <3>1 DEF Row, made, last, Copied
  <2>3. CASE k \in DOMAIN made
    <3>1. new[k] = made[k] /\ made[k] # 0
      BY <1>4, <2>3
    <3> QED
      BY <2>1, <2>3, <3>1, CopiedStays DEF made
  <2> QED
    BY <1>5, <2>2, <2>3
<1> QED
  BY <1>7, <1>8, <1>9, <1>11, <1>12 DEF TransferInv, FileTyped, Grown

LEMMA Standing ==
  ASSUME TransferInv, blocks' = blocks, owners' = owners
  PROVE  Grown
<1>1. StoreTyped
  BY DEF TransferInv
<1> QED
  BY <1>1 DEF Grown, StoreTyped

LEMMA SkipStep ==
  ASSUME TransferInv, ~ Over, Skipped
  PROVE  TransferInv'
<1>1. Grown
  BY Standing DEF Skipped
<1>2. Copied(0)
  <2>1. blocks' \in Seq(Block)
    BY <1>1 DEF Grown, StoreTyped
  <2> QED
    BY <2>1 DEF Copied
<1> QED
  BY <1>1, <1>2, RowStep DEF Skipped

\* A pool under this parent in this account is what the row at hand says
Meant(parent, owner) ==
  bulk.op \in {"pools", "plan"} =>
    /\ \A j \in DOMAIN bulk.made :
         ParentRow(j, bulk.at) =>
           \/ bulk.made[j] = 0 /\ bulk.op = "pools"
           \/ parent = bulk.made[j] /\ bulk.made[j] # 0
    /\ bulk.op = "pools" /\ Row.key # "" =>
         owner \in DOMAIN owners /\ owners[owner].key = Row.key

LEMMA AppendGrows ==
  ASSUME TransferInv, NEW block \in Block, block.parent <= Len(blocks),
         blocks' = Append(blocks, block), owners' = owners
  PROVE  /\ Grown /\ Len(blocks) \in Nat
         /\ Len(blocks') = Len(blocks) + 1 /\ blocks'[Len(blocks) + 1] = block
<1> DEFINE last == Len(blocks) + 1
<1>1. blocks \in Seq(Block) /\ \A i \in DOMAIN blocks : blocks[i].parent < i
  BY DEF TransferInv, StoreTyped
<1>2. owners \in Seq(Owner)
  BY DEF TransferInv, StoreTyped
<1>3. /\ blocks' \in Seq(Block) /\ Len(blocks') = last /\ blocks'[last] = block
      /\ \A i \in DOMAIN blocks : blocks'[i] = blocks[i]
      /\ Len(blocks) \in Nat
  BY <1>1
<1>4. DOMAIN blocks = 1 .. Len(blocks) /\ DOMAIN blocks' = 1 .. last
  BY <1>1, <1>3
<1>5. block.parent \in Nat /\ block.parent < last
  BY <1>3 DEF Block
<1>6. ASSUME NEW i \in DOMAIN blocks' PROVE blocks'[i].parent < i
  <2>1. i = last \/ i \in DOMAIN blocks
    BY <1>3, <1>4, <1>6
  <2> QED
    BY <1>1, <1>3, <1>5, <2>1
<1> QED
  BY <1>2, <1>3, <1>6 DEF Grown, StoreTyped

LEMMA CreateStep ==
  ASSUME TransferInv, ~ Over, NEW parent \in Nat, parent <= Len(blocks), NEW owner \in Nat,
         Meant(parent, owner), CreateBlock(parent, owner)
  PROVE  TransferInv'
<1>1. CASE Skipped
  BY <1>1, SkipStep
<1>2. CASE ~ Skipped
  <2> DEFINE block == [parent |-> parent, owner |-> owner, live |-> TRUE]
             id == Len(blocks) + 1
  <2>1. blocks' = Append(blocks, block) /\ RowDone(id) /\ owners' = owners /\ file' = file
    BY <1>2 DEF CreateBlock
  <2>2. block \in Block /\ block.parent = parent /\ block.owner = owner
    BY DEF Block
  <2>3. Grown /\ Len(blocks) \in Nat /\ Len(blocks') = id /\ blocks'[id] = block
    BY <2>1, <2>2, AppendGrows
  <2>4. Copied(id)
    <3>1. id <= Len(blocks') /\ blocks'[id].parent = parent /\ blocks'[id].owner = owner
      BY <2>2, <2>3
    <3> HIDE DEF id, block
    <3> QED
      BY <2>1, <3>1 DEF Copied, Meant
  <2>5. id \in Nat
    BY <2>3
  <2> HIDE DEF id, block
  <2> QED
    BY <2>1, <2>3, <2>4, <2>5, RowStep
<1> QED
  BY <1>1, <1>2

\* A request may be taken with these rows, knowing these accounts
Acceptable(op, rows, keys) ==
  /\ keys \in Seq(Known)
  /\ \A n \in DOMAIN keys :
       keys[n].id \in DOMAIN owners /\ owners[keys[n].id].key = keys[n].key
  /\ \/ op = "accounts" /\ rows \in Seq(OwnerKeys)
     \/ op = "pools" /\ FileTree(rows) /\ InOrder(rows)
     \/ op = "plan" /\ rows \in Seq(Nat) /\ \A n \in DOMAIN rows : rows[n] < n

LEMMA TakesStep ==
  ASSUME TransferInv, NEW op, NEW rows, NEW keys, Acceptable(op, rows, keys),
         Takes(op, rows, keys)
  PROVE  TransferInv'
<1>1. /\ bulk' = [op |-> op, rows |-> rows, keys |-> keys, at |-> 1, made |-> <<>>,
                  pc |-> "resolve", parent |-> 0, owner |-> 0]
      /\ blocks' = blocks /\ owners' = owners /\ file' = file
  BY DEF Takes
<1>2. StoreTyped' /\ FileTyped'
  BY <1>1 DEF TransferInv, StoreTyped, FileTyped
<1>3. Len(rows) \in Nat
  BY DEF Acceptable, FileTree
<1>4. op \in {"accounts", "pools", "plan"} /\ keys \in Seq(Known)
  BY DEF Acceptable
<1>5. BulkTyped'
  <2>1. <<>> \in Seq(Nat) /\ Len(<<>>) = 0 /\ DOMAIN <<>> = {}
    OBVIOUS
  <2> QED
    BY <1>1, <1>3, <1>4, <2>1 DEF BulkTyped, Acceptable, FileTree, InOrder
<1>6. KeysHeld'
  BY <1>1 DEF KeysHeld, Acceptable
<1>7. ParentHeld'
  BY <1>1 DEF ParentHeld
<1>8. KeyedOwner' /\ TreeCopied'
  <2>1. DOMAIN bulk'.made = {}
    BY <1>1
  <2> QED
    BY <2>1 DEF KeyedOwner, TreeCopied
<1> QED
  BY <1>2, <1>5, <1>6, <1>7, <1>8 DEF TransferInv

LEMMA KeyTyped ==
  ASSUME owners \in Seq(Owner), NEW a \in DOMAIN owners
  PROVE  owners[a].key \in OwnerKeys /\ a \in Nat
<1>1. owners[a] \in Owner /\ a \in Nat
  OBVIOUS
<1> QED
  BY <1>1 DEF Owner

LEMMA InitStep == TransferInit => TransferInv
<1> SUFFICES ASSUME TransferInit PROVE TransferInv
  OBVIOUS
<1>1. StoreTyped
  BY TransferAssumption DEF TransferInit, StoreTyped
<1>2. FileTyped
  BY DEF TransferInit, FileTyped, FileTree
<1>3. bulk = [op |-> "none", rows |-> <<>>, keys |-> <<>>, at |-> 1, made |-> <<>>,
              pc |-> "resolve", parent |-> 0, owner |-> 0]
  BY DEF TransferInit
<1>4. BulkTyped
  BY <1>3 DEF BulkTyped
<1>5. KeysHeld /\ ParentHeld /\ KeyedOwner /\ TreeCopied
  BY <1>3 DEF KeysHeld, ParentHeld, KeyedOwner, TreeCopied
<1> QED
  BY <1>1, <1>2, <1>4, <1>5 DEF TransferInv

LEMMA ExportAccountsStep ==
  ASSUME TransferInv, ExportAccounts
  PROVE  TransferInv'
<1> DEFINE ids == ListOf(owners)
           keys == [n \in DOMAIN ids |-> owners[ids[n]].key]
<1>1. owners \in Seq(Owner) /\ FileTyped
  BY DEF TransferInv, StoreTyped
<1>2. ids \in Seq(DOMAIN owners)
  BY <1>1, ListSound
<1>3. keys \in Seq(OwnerKeys)
  <2>1. \A a \in DOMAIN owners : owners[a].key \in OwnerKeys
    BY <1>1, KeyTyped
  <2> HIDE DEF ids
  <2> QED
    BY <1>2, <2>1
<1>4. file' = [file EXCEPT !.accounts = keys] /\ bulk' = bulk
  BY DEF ExportAccounts
<1>5. FileTyped'
  <2> HIDE DEF keys
  <2> QED
    BY <1>1, <1>3, <1>4 DEF FileTyped
<1> QED
  BY <1>4, <1>5, Standing, GrownStep DEF ExportAccounts

LEMMA ExportPoolsStep ==
  ASSUME TransferInv, ExportPools
  PROVE  TransferInv'
<1> DEFINE ids == ListOf(blocks)
           key(i) == IF OwnerKnown(blocks[i].owner) THEN owners[blocks[i].owner].key ELSE ""
           row(i) == [id |-> i, parent |-> blocks[i].parent,
                      owner |-> blocks[i].owner, key |-> key(i)]
           rows == [n \in DOMAIN ids |-> row(ids[n])]
<1>1. owners \in Seq(Owner) /\ blocks \in Seq(Block) /\ FileTyped
      /\ \A i \in DOMAIN blocks : blocks[i].parent < i
  BY DEF TransferInv, StoreTyped
<1>2. /\ ids \in Seq(DOMAIN blocks)
      /\ \A m, n \in DOMAIN ids : m < n => ids[m] < ids[n]
  BY <1>1, ListSound
<1>3. ASSUME NEW i \in DOMAIN blocks
      PROVE  row(i) \in FileRow /\ row(i).id = i /\ row(i).parent < row(i).id
  <2>1. i \in Nat /\ blocks[i] \in Block /\ blocks[i].parent < i
    BY <1>1
  <2>2. key(i) \in OwnerKeys \cup {""}
    <3>1. \A a \in DOMAIN owners : owners[a].key \in OwnerKeys
      BY <1>1, KeyTyped
    <3> QED
      BY <3>1 DEF OwnerKnown
  <2> HIDE DEF key
  <2> QED
    BY <2>1, <2>2 DEF FileRow, Block
<1> HIDE DEF row, ids
<1>4. rows \in Seq(FileRow) /\ \A n \in DOMAIN rows : n \in DOMAIN ids /\ rows[n] = row(ids[n])
  BY <1>2, <1>3
<1>5. FileTree(rows)
  <2>1. ASSUME NEW n \in DOMAIN rows PROVE rows[n].parent < rows[n].id
    <3>1. ids[n] \in DOMAIN blocks /\ rows[n] = row(ids[n])
      BY <1>2, <1>4
    <3> QED
      BY <1>3, <3>1
  <2>2. ASSUME NEW m \in DOMAIN rows, NEW n \in DOMAIN rows, rows[m].id = rows[n].id
        PROVE  m = n
    <3>1. ids[m] \in DOMAIN blocks /\ ids[n] \in DOMAIN blocks
      BY <1>2, <1>4
    <3>2. ids[m] = ids[n]
      BY <1>3, <1>4, <2>2, <3>1
    <3>3. m \in Nat /\ n \in Nat /\ ids[m] \in Nat
      BY <1>1, <1>2, <1>4, <3>1
    <3>4. ~ m < n /\ ~ n < m
      BY <1>2, <1>4, <3>2, <3>3
    <3> QED
      BY <3>3, <3>4
  <2> HIDE DEF rows
  <2> QED
    BY <1>4, <2>1, <2>2 DEF FileTree
<1>6. file' = [file EXCEPT !.pools = rows] /\ bulk' = bulk
  BY DEF ExportPools, row, ids
<1>7. FileTyped'
  <2> HIDE DEF rows
  <2> QED
    BY <1>1, <1>4, <1>5, <1>6 DEF FileTyped, FileTree
<1> QED
  BY <1>6, <1>7, Standing, GrownStep DEF ExportPools

LEMMA TakeToStep ==
  ASSUME TransferInv, NEW place \in Installations, TakeTo(place)
  PROVE  TransferInv'
<1>1. StoreTyped'
  BY TransferAssumption DEF TakeTo, StoreTyped
<1>2. FileTyped'
  BY DEF TakeTo, TransferInv, FileTyped
<1>3. bulk' = [bulk EXCEPT !.rows = <<>>, !.made = <<>>]
  BY DEF TakeTo
<1>4. BulkTyped
  BY DEF TransferInv
<1>5. bulk'.rows = <<>> /\ bulk'.made = <<>> /\ bulk'.op = bulk.op /\ bulk'.at \in Nat \ {0}
  BY <1>3, <1>4 DEF BulkTyped
<1>6. BulkTyped'
  <2>1. <<>> \in Seq(Nat) /\ <<>> \in Seq(OwnerKeys) /\ <<>> \in Seq(FileRow)
        /\ Len(<<>>) = 0 /\ DOMAIN <<>> = {}
    OBVIOUS
  <2>2. bulk' \in [op : {"none", "accounts", "pools", "plan"}, rows : {bulk'.rows},
                   keys : Seq(Known), at : Nat \ {0}, made : Seq(Nat),
                   pc : {"resolve", "create"}, parent : Nat, owner : Nat]
    BY <1>3, <1>4, <2>1 DEF BulkTyped
  <2>3. FileTree(bulk'.rows) /\ InOrder(bulk'.rows)
    BY <1>5, <2>1 DEF FileTree, InOrder
  <2> QED
    BY <1>5, <2>1, <2>2, <2>3 DEF BulkTyped, FileTree, InOrder
<1>7. Over'
  BY <1>5 DEF Over
<1>8. KeysHeld' /\ ParentHeld'
  BY <1>7 DEF KeysHeld, ParentHeld, Over
<1>9. KeyedOwner' /\ TreeCopied'
  <2>1. DOMAIN bulk'.made = {}
    BY <1>5
  <2> QED
    BY <2>1 DEF KeyedOwner, TreeCopied
<1> QED
  BY <1>1, <1>2, <1>6, <1>8, <1>9 DEF TransferInv

LEMMA ImportAccountsStep ==
  ASSUME TransferInv, ImportAccounts
  PROVE  TransferInv'
<1>1. file.accounts \in Seq(OwnerKeys)
  BY DEF TransferInv, FileTyped
<1>2. Acceptable("accounts", file.accounts, <<>>)
  BY <1>1 DEF Acceptable
<1> QED
  BY <1>2, TakesStep DEF ImportAccounts

LEMMA ImportAccountStep ==
  ASSUME TransferInv, ImportAccount
  PROVE  TransferInv'
<1>1. CASE Skipped
  BY <1>1, SkipStep DEF ImportAccount
<1>2. CASE ~ Skipped
  <2> DEFINE key == bulk.rows[bulk.at]
             id == Len(owners) + 1
             owner == [key |-> key, live |-> TRUE]
  <2>1. /\ owners' = Append(owners, owner) /\ RowDone(id) /\ blocks' = blocks /\ file' = file
        /\ ~ Over /\ bulk.op = "accounts"
    BY <1>2 DEF ImportAccount
  <2>2. owners \in Seq(Owner) /\ StoreTyped
    BY DEF TransferInv, StoreTyped
  <2>3. owner \in Owner
    <3>1. bulk.rows \in Seq(OwnerKeys) /\ bulk.at \in DOMAIN bulk.rows
      BY <2>1, UnderWay DEF TransferInv, BulkTyped
    <3>2. key \in OwnerKeys
      BY <3>1
    <3> HIDE DEF key
    <3> QED
      BY <3>2 DEF Owner
  <2> HIDE DEF owner
  <2>4. /\ owners' \in Seq(Owner) /\ Len(owners') = Len(owners) + 1 /\ Len(owners) \in Nat
        /\ \A a \in DOMAIN owners : owners'[a] = owners[a]
    BY <2>1, <2>2, <2>3
  <2>5. Grown
    BY <2>1, <2>2, <2>4 DEF Grown, StoreTyped
  <2>6. Copied(id)
    BY <2>1 DEF Copied
  <2> QED
    BY <2>1, <2>4, <2>5, <2>6, RowStep
<1> QED
  BY <1>1, <1>2

LEMMA ImportPoolsStep ==
  ASSUME TransferInv, NEW byKey \in BOOLEAN, ImportPools(byKey)
  PROVE  TransferInv'
<1> DEFINE D == DOMAIN file.pools
           known == ListOf(owners)
           keys == [n \in DOMAIN known |-> [key |-> owners[known[n]].key, id |-> known[n]]]
<1>1. PICK order \in Bijection(D, D) :
        Takes("pools",
              ParentsFirst([n \in DOMAIN order |->
                 [file.pools[order[n]] EXCEPT !.key = IF byKey THEN @ ELSE ""]]),
              keys)
  BY DEF ImportPools
<1> DEFINE given == [n \in DOMAIN order |->
                       [file.pools[order[n]] EXCEPT !.key = IF byKey THEN @ ELSE ""]]
<1>2. order \in [D -> D] /\ \A m, n \in D : order[m] = order[n] => m = n
  BY DEF Bijection, Injection, IsInjective
<1>3. FileTree(file.pools) /\ file.pools \in Seq(FileRow) /\ owners \in Seq(Owner)
  BY DEF TransferInv, FileTyped, FileTree, StoreTyped
<1>4. ASSUME NEW n \in D
      PROVE  /\ given[n] \in FileRow /\ order[n] \in D
             /\ given[n].id = file.pools[order[n]].id
             /\ given[n].parent = file.pools[order[n]].parent
  <2>1. order[n] \in D /\ file.pools[order[n]] \in FileRow
    BY <1>2, <1>3
  <2>2. given[n] = [file.pools[order[n]] EXCEPT !.key = IF byKey THEN @ ELSE ""]
    BY <1>2
  <2> HIDE DEF given
  <2> QED
    BY <2>1, <2>2 DEF FileRow
<1>5. FileTree(given)
  <2>1. DOMAIN given = D
    BY <1>2
  <2>2. given \in Seq(FileRow)
    <3>1. D = 1 .. Len(file.pools) /\ Len(file.pools) \in Nat
      BY <1>3
    <3>2. given = [n \in D |-> given[n]]
      BY <2>1
    <3> HIDE DEF given
    <3> QED
      BY <1>4, <3>1, <3>2
  <2> HIDE DEF given, D
  <2>3. \A n \in D : given[n].parent < given[n].id
    BY <1>3, <1>4 DEF FileTree, D
  <2>4. \A m, n \in D : given[m].id = given[n].id => m = n
    <3> SUFFICES ASSUME NEW m \in D, NEW n \in D, given[m].id = given[n].id PROVE m = n
      OBVIOUS
    <3>1. order[m] \in D /\ order[n] \in D /\ file.pools[order[m]].id = file.pools[order[n]].id
      BY <1>4
    <3>2. order[m] = order[n]
      BY <1>3, <3>1 DEF FileTree, D
    <3> QED
      BY <1>2, <3>2
  <2> QED
    BY <2>1, <2>2, <2>3, <2>4 DEF FileTree
<1>6. keys \in Seq(Known) /\ \A n \in DOMAIN keys :
        keys[n].id \in DOMAIN owners /\ owners[keys[n].id].key = keys[n].key
  <2>1. known \in Seq(DOMAIN owners)
    BY <1>3, ListSound
  <2> HIDE DEF known
  <2>2. \A n \in DOMAIN known : known[n] \in DOMAIN owners
    BY <2>1
  <2>3. \A n \in DOMAIN known : [key |-> owners[known[n]].key, id |-> known[n]] \in Known
    BY <1>3, <2>2, KeyTyped DEF Known
  <2> QED
    BY <2>1, <2>2, <2>3
<1>7. Acceptable("pools", ParentsFirst(given), keys)
  <2> HIDE DEF keys, given
  <2> QED
    BY <1>5, <1>6, ParentsFirstSound DEF Acceptable
<1> HIDE DEF keys, given
<1> QED
  BY <1>1, <1>7, TakesStep DEF given

LEMMA ApplyPlanStep ==
  ASSUME TransferInv, NEW plan \in Plans, ApplyPlan(plan)
  PROVE  TransferInv'
<1>1. plan \in Seq(Nat)
  BY TransferAssumption
<1>2. Acceptable("plan", plan, <<>>)
  BY <1>1 DEF Acceptable, ApplyPlan, PrecedingOnly
<1> QED
  BY <1>2, TakesStep DEF ApplyPlan

LEMMA ApplyEntryStep ==
  ASSUME TransferInv, ApplyEntry
  PROVE  TransferInv'
<1> DEFINE ref == bulk.rows[bulk.at]
<1>1. BulkTyped /\ ~ Over /\ bulk.op = "plan"
  BY DEF ApplyEntry, TransferInv
<1>2. /\ bulk.at \in Nat \ {0} /\ bulk.at \in DOMAIN bulk.rows
      /\ bulk.made \in Seq(Nat) /\ DOMAIN bulk.made = 1 .. bulk.at - 1
  BY <1>1, UnderWay
<1>3. ref \in Nat /\ ref < bulk.at
  BY <1>1, <1>2 DEF BulkTyped
<1>4. \A j \in DOMAIN bulk.made : ParentRow(j, bulk.at) <=> ref = j
  BY <1>1 DEF ParentRow
<1>5. blocks \in Seq(Block) /\ Len(blocks) \in Nat
  BY DEF TransferInv, StoreTyped
<1> HIDE DEF ref
<1>6. CASE ref = 0
  <2>1. Meant(0, 0)
    BY <1>1, <1>2, <1>4, <1>6 DEF Meant
  <2>2. CreateBlock(0, 0)
    BY <1>6 DEF ApplyEntry, ref
  <2> QED
    BY <1>1, <1>5, <2>1, <2>2, CreateStep
<1>7. CASE ref # 0 /\ bulk.made[ref] = 0
  BY <1>1, <1>7, SkipStep DEF ApplyEntry, ref
<1>8. CASE ref # 0 /\ bulk.made[ref] # 0
  <2> DEFINE parent == bulk.made[ref]
  <2>1. ref \in DOMAIN bulk.made
    BY <1>2, <1>3, <1>8
  <2>2. parent \in Nat /\ parent <= Len(blocks)
    <3>1. parent <= Len(blocks)
      BY <1>1, <2>1 DEF BulkTyped
    <3> QED
      BY <1>2, <2>1, <3>1
  <2>3. CreateBlock(parent, 0)
    BY <1>8 DEF ApplyEntry, ref
  <2>4. Meant(parent, 0)
    BY <1>1, <1>4, <1>8 DEF Meant
  <2> HIDE DEF parent
  <2> QED
    BY <1>1, <2>2, <2>3, <2>4, CreateStep
<1> QED
  BY <1>6, <1>7, <1>8

LEMMA RowNumbers ==
  ASSUME NEW row \in FileRow, row.parent < row.id
  PROVE  row.id # 0 /\ row.parent \in Nat /\ row.id \in Nat
<1>1. row.parent \in Nat /\ row.id \in Nat
  BY DEF FileRow
<1> QED
  BY <1>1

LEMMA Rewritten ==
  ASSUME NEW S, NEW s \in Seq(S), NEW i \in DOMAIN s, NEW v \in S
  PROVE  /\ [s EXCEPT ![i] = v] \in Seq(S)
         /\ Len([s EXCEPT ![i] = v]) = Len(s) /\ Len(s) \in Nat
OBVIOUS

\* The account a row is resolved to has the key that the row names
LEMMA OwnerFound ==
  ASSUME TransferInv, ~ Over, bulk.op = "pools", NEW a \in RowOwner
  PROVE  /\ a \in Nat
         /\ Row.key # "" => a \in DOMAIN owners /\ owners[a].key = Row.key
<1>1. BulkTyped /\ owners \in Seq(Owner)
  BY DEF TransferInv, StoreTyped
<1>2. Row \in FileRow
  <2>1. bulk.at \in DOMAIN bulk.rows
    BY <1>1, UnderWay
  <2>2. bulk.rows \in Seq(FileRow)
    BY <1>1 DEF BulkTyped, FileTree
  <2> QED
    BY <2>1, <2>2 DEF Row
<1>3. CASE Row.key # ""
  <2>1. PICK n \in DOMAIN bulk.keys : bulk.keys[n].key = Row.key /\ bulk.keys[n].id = a
    BY <1>3 DEF RowOwner, ByKey
  <2>2. a \in DOMAIN owners /\ owners[a].key = Row.key
    BY <2>1 DEF TransferInv, KeysHeld
  <2>3. a \in Nat
    BY <1>1, <2>2, KeyTyped
  <2> QED
    BY <2>2, <2>3
<1>4. CASE Row.key = ""
  <2>1. a = Row.owner \/ a = 0
    BY <1>4 DEF RowOwner
  <2>2. Row.owner \in Nat
    BY <1>2 DEF FileRow
  <2>3. a \in Nat
    BY <2>1, <2>2
  <2> QED
    BY <1>4, <2>3
<1> QED
  BY <1>3, <1>4

\* The parent a row is resolved to is the one made for the parent's row
LEMMA ParentFound ==
  ASSUME TransferInv, ~ Over, bulk.op = "pools", NEW p \in RowParent
  PROVE  /\ p \in 0 .. Len(blocks)
         /\ \A n \in DOMAIN bulk.made :
              bulk.rows[n].id = Row.parent /\ bulk.made[n] # 0 => p = bulk.made[n]
<1> DEFINE rows == bulk.rows
           made == bulk.made
           at == bulk.at
<1>1. BulkTyped /\ FileTree(rows) /\ rows \in Seq(FileRow)
      /\ blocks \in Seq(Block) /\ Len(blocks) \in Nat
  BY DEF TransferInv, BulkTyped, StoreTyped, FileTree
<1>2. /\ at \in DOMAIN rows /\ DOMAIN made = 1 .. at - 1 /\ made \in Seq(Nat)
      /\ DOMAIN rows = 1 .. Len(rows) /\ Len(rows) \in Nat
  BY <1>1, UnderWay
<1>3. DOMAIN made \subseteq DOMAIN rows
  <2> HIDE DEF made, at, rows
  <2> QED
    BY <1>2
<1>4. Row \in FileRow /\ Row.parent \in Nat
  <2>1. Row \in FileRow
    BY <1>1, <1>2 DEF Row
  <2> QED
    BY <2>1 DEF FileRow
<1>5. ASSUME NEW n \in DOMAIN made PROVE rows[n].id # 0 /\ made[n] <= Len(blocks) /\ made[n] \in Nat
  <2>1. rows[n] \in FileRow /\ rows[n].parent < rows[n].id
    BY <1>1, <1>3 DEF FileTree
  <2>2. made[n] <= Len(blocks)
    BY <1>1 DEF BulkTyped
  <2>3. rows[n].id # 0
    <3> HIDE DEF rows
    <3> QED
      BY <2>1, RowNumbers
  <2>4. made[n] \in Nat
    BY <1>2
  <2> QED
    BY <2>2, <2>3, <2>4
<1> DEFINE given == {n \in DOMAIN made : rows[n].id = Row.parent /\ made[n] # 0}
<1>6. Renumbered(Row.parent) = {made[n] : n \in given}
  BY <1>2 DEF Renumbered
<1>7. \A m, n \in given : m = n
  BY <1>1, <1>3 DEF FileTree
<1>8. CASE Row.parent = 0
  <2>1. p = 0
    BY <1>8 DEF RowParent
  <2> QED
    BY <1>1, <1>5, <1>8, <2>1
<1>9. CASE Row.parent # 0 /\ Renumbered(Row.parent) # {}
  <2>1. p \in Renumbered(Row.parent)
    BY <1>9 DEF RowParent
  <2>2. PICK m \in given : p = made[m]
    BY <1>6, <2>1
  <2>3. p \in 0 .. Len(blocks)
    <3>1. made[m] \in Nat /\ made[m] <= Len(blocks)
      BY <1>5, <2>2
    <3> HIDE DEF made
    <3> QED
      BY <1>1, <2>2, <3>1
  <2> QED
    BY <1>7, <2>2, <2>3
<1>10. CASE Row.parent # 0 /\ Renumbered(Row.parent) = {}
  <2>1. p = Row.parent /\ InStore(p)
    BY <1>10 DEF RowParent
  <2>2. p \in 0 .. Len(blocks)
    BY <1>1, <2>1 DEF InStore
  <2> QED
    BY <1>6, <1>10, <2>2
<1> QED
  BY <1>8, <1>9, <1>10

LEMMA ResolveStep ==
  ASSUME TransferInv, ResolveRow
  PROVE  TransferInv'
<1>1. ~ Over /\ bulk.op = "pools"
  BY DEF ResolveRow
<1>2. CASE Skipped
  BY <1>1, <1>2, SkipStep
<1>3. CASE ~ Skipped
  <2>1. PICK a \in RowOwner, p \in RowParent :
          /\ bulk' = [bulk EXCEPT !.pc = "create", !.parent = p, !.owner = a]
          /\ UNCHANGED <<blocks, owners, file, bulks, others>>
    BY <1>3 DEF ResolveRow
  <2>2. /\ a \in Nat
        /\ Row.key # "" => a \in DOMAIN owners /\ owners[a].key = Row.key
    BY <1>1, OwnerFound
  <2>3. /\ p \in 0 .. Len(blocks)
        /\ \A n \in DOMAIN bulk.made :
             bulk.rows[n].id = Row.parent /\ bulk.made[n] # 0 => p = bulk.made[n]
    BY <1>1, ParentFound
  <2>4. StoreTyped' /\ FileTyped'
    BY <2>1 DEF TransferInv, StoreTyped, FileTyped
  <2>5. BulkTyped
    BY DEF TransferInv
  <2>6. p \in Nat
    <3>1. blocks \in Seq(Block)
      BY DEF TransferInv, StoreTyped
    <3> QED
      BY <2>3, <3>1
  <2>7. /\ bulk'.op = bulk.op /\ bulk'.rows = bulk.rows /\ bulk'.keys = bulk.keys
        /\ bulk'.at = bulk.at /\ bulk'.made = bulk.made
        /\ bulk'.parent = p /\ bulk'.owner = a
        /\ bulk' \in [op : {"none", "accounts", "pools", "plan"}, rows : {bulk'.rows},
                      keys : Seq(Known), at : Nat \ {0}, made : Seq(Nat),
                      pc : {"resolve", "create"}, parent : Nat, owner : Nat]
    BY <2>1, <2>2, <2>5, <2>6 DEF BulkTyped
  <2>8. BulkTyped'
    BY <2>1, <2>5, <2>7 DEF BulkTyped, FileTree, InOrder
  <2>9. KeysHeld'
    BY <1>1, <2>1, <2>7 DEF TransferInv, KeysHeld
  <2>10. ParentHeld'
    BY <2>1, <2>2, <2>3, <2>7 DEF ParentHeld, Row
  <2>11. KeyedOwner'
    BY <2>1, <2>7 DEF TransferInv, KeyedOwner
  <2>12. TreeCopied'
    <3>1. \A j, k : ParentRow(j, k)' <=> ParentRow(j, k)
      BY <2>7 DEF ParentRow
    <3>2. TreeCopied /\ blocks' = blocks /\ owners' = owners
          /\ bulk'.op = bulk.op /\ bulk'.rows = bulk.rows /\ bulk'.made = bulk.made
      BY <2>1, <2>7 DEF TransferInv
    <3> SUFFICES ASSUME NEW k \in DOMAIN bulk.made, bulk.made[k] # 0
                 PROVE  /\ \A j \in DOMAIN bulk.made :
                             ParentRow(j, k) =>
                               \/ bulk.made[j] = 0 /\ bulk.op = "pools"
                               \/ blocks[bulk.made[k]].parent = bulk.made[j] /\ bulk.made[j] # 0
                        /\ bulk.op = "pools" /\ bulk.rows[k].key # "" =>
                             owners[blocks[bulk.made[k]].owner].key = bulk.rows[k].key
      BY <3>1, <3>2 DEF TreeCopied
    <3> QED
      BY <1>1, <3>2 DEF TreeCopied
  <2> QED
    BY <2>4, <2>8, <2>9, <2>10, <2>11, <2>12 DEF TransferInv
<1> QED
  BY <1>2, <1>3

LEMMA CreateRowStep ==
  ASSUME TransferInv, CreateRow
  PROVE  TransferInv'
<1>1. /\ ~ Over /\ bulk.op = "pools" /\ bulk.pc = "create"
      /\ CreateBlock(bulk.parent, bulk.owner)
  BY DEF CreateRow
<1>2. /\ bulk.parent \in 0 .. Len(blocks)
      /\ \A n \in DOMAIN bulk.made :
           bulk.rows[n].id = Row.parent /\ bulk.made[n] # 0 => bulk.parent = bulk.made[n]
      /\ Row.key # "" => bulk.owner \in DOMAIN owners /\ owners[bulk.owner].key = Row.key
  BY <1>1 DEF TransferInv, ParentHeld
<1>3. bulk.parent \in Nat /\ bulk.owner \in Nat
  BY DEF TransferInv, BulkTyped
<1>4. bulk.parent <= Len(blocks)
  <2>1. Len(blocks) \in Nat
    BY DEF TransferInv, StoreTyped
  <2>2. bulk.parent \in 0 .. Len(blocks)
    BY <1>2
  <2> QED
    BY <2>1, <2>2
<1>5. Meant(bulk.parent, bulk.owner)
  BY <1>1, <1>2 DEF Meant, ParentRow, Row
<1> QED
  BY <1>1, <1>3, <1>4, <1>5, CreateStep

LEMMA OthersStep ==
  ASSUME TransferInv,
         \/ \E i \in DOMAIN blocks : OtherDeletes(i)
         \/ \E a \in DOMAIN owners : OtherDeletesAccount(a)
         \/ \E parent \in {0} \cup DOMAIN blocks : OtherCreates(parent)
  PROVE  TransferInv'
<1>1. bulk' = bulk /\ file' = file
  BY DEF OtherDeletes, OtherDeletesAccount, OtherCreates, Other
<1>2. FileTyped'
  BY <1>1 DEF TransferInv, FileTyped
<1>3. blocks \in Seq(Block) /\ owners \in Seq(Owner) /\ \A i \in DOMAIN blocks : blocks[i].parent < i
  BY DEF TransferInv, StoreTyped
<1>4. CASE \E i \in DOMAIN blocks : OtherDeletes(i)
  <2>1. PICK i \in DOMAIN blocks : OtherDeletes(i)
    BY <1>4
  <2>2. blocks' = [blocks EXCEPT ![i].live = FALSE] /\ owners' = owners
    BY <2>1 DEF OtherDeletes
  <2>3. ASSUME NEW j \in DOMAIN blocks
        PROVE  /\ blocks'[j] \in Block
               /\ blocks'[j].parent = blocks[j].parent /\ blocks'[j].owner = blocks[j].owner
    <3>1. blocks[j] \in Block
      BY <1>3
    <3> QED
      BY <2>2, <3>1 DEF Block
  <2>4. blocks' \in Seq(Block) /\ Len(blocks') = Len(blocks) /\ DOMAIN blocks' = DOMAIN blocks
        /\ Len(blocks) \in Nat
    <3> DEFINE v == [blocks[i] EXCEPT !.live = FALSE]
    <3>1. v \in Block
      <4>1. blocks[i] \in Block
        BY <1>3
      <4> QED
        BY <4>1 DEF Block
    <3>2. blocks' = [blocks EXCEPT ![i] = v]
      BY <2>2
    <3> HIDE DEF v
    <3>3. /\ [blocks EXCEPT ![i] = v] \in Seq(Block)
          /\ Len([blocks EXCEPT ![i] = v]) = Len(blocks) /\ Len(blocks) \in Nat
      BY <1>3, <3>1, Rewritten
    <3> QED
      BY <1>3, <3>2, <3>3
  <2>5. Grown
    BY <1>3, <2>2, <2>3, <2>4 DEF Grown, StoreTyped
  <2> QED
    BY <1>1, <1>2, <2>5, GrownStep
<1>5. CASE \E a \in DOMAIN owners : OtherDeletesAccount(a)
  <2>1. PICK a \in DOMAIN owners : OtherDeletesAccount(a)
    BY <1>5
  <2>2. owners' = [owners EXCEPT ![a].live = FALSE] /\ blocks' = blocks
    BY <2>1 DEF OtherDeletesAccount
  <2>3. ASSUME NEW b \in DOMAIN owners
        PROVE  owners'[b] \in Owner /\ owners'[b].key = owners[b].key
    <3>1. owners[b] \in Owner
      BY <1>3
    <3> QED
      BY <2>2, <3>1 DEF Owner
  <2>4. owners' \in Seq(Owner) /\ Len(owners') = Len(owners) /\ Len(owners) \in Nat
        /\ Len(blocks) \in Nat
    <3> DEFINE v == [owners[a] EXCEPT !.live = FALSE]
    <3>1. v \in Owner
      <4>1. owners[a] \in Owner
        BY <1>3
      <4> QED
        BY <4>1 DEF Owner
    <3>2. owners' = [owners EXCEPT ![a] = v]
      BY <2>2
    <3> HIDE DEF v
    <3>3. /\ [owners EXCEPT ![a] = v] \in Seq(Owner)
          /\ Len([owners EXCEPT ![a] = v]) = Len(owners) /\ Len(owners) \in Nat
      BY <1>3, <3>1, Rewritten
    <3> QED
      BY <1>3, <3>2, <3>3
  <2>5. Grown
    BY <1>3, <2>2, <2>3, <2>4 DEF Grown, StoreTyped
  <2> QED
    BY <1>1, <1>2, <2>5, GrownStep
<1>6. CASE \E parent \in {0} \cup DOMAIN blocks : OtherCreates(parent)
  <2>1. PICK parent \in {0} \cup DOMAIN blocks : OtherCreates(parent)
    BY <1>6
  <2> DEFINE block == [parent |-> parent, owner |-> 0, live |-> TRUE]
  <2>2. blocks' = Append(blocks, block) /\ owners' = owners
    BY <2>1 DEF OtherCreates
  <2>3. parent \in Nat /\ parent <= Len(blocks)
    BY <1>3
  <2>4. block \in Block /\ block.parent = parent
    BY <2>3 DEF Block
  <2> HIDE DEF block
  <2>5. Grown
    BY <2>2, <2>3, <2>4, AppendGrows
  <2> QED
    BY <1>1, <1>2, <2>5, GrownStep
<1> QED
  BY <1>4, <1>5, <1>6

LEMMA TransferStep ==
  TransferInv /\ [TransferNext]_transferVars => TransferInv'
<1> SUFFICES ASSUME TransferInv, [TransferNext]_transferVars PROVE TransferInv'
  OBVIOUS
<1>1. CASE UNCHANGED transferVars
  <2>1. bulk' = bulk /\ blocks' = blocks /\ owners' = owners /\ file' = file
    BY <1>1 DEF transferVars
  <2>2. FileTyped'
    BY <2>1 DEF TransferInv, FileTyped
  <2> QED
    BY <2>1, <2>2, Standing, GrownStep
<1>2. CASE TransferNext
  BY <1>2, ExportAccountsStep, ExportPoolsStep, TakeToStep, ImportAccountsStep,
     ImportAccountStep, ImportPoolsStep, ResolveStep, CreateRowStep, ApplyPlanStep,
     ApplyEntryStep, OthersStep DEF TransferNext
<1> QED
  BY <1>1, <1>2

\* Two pools made for a parent and its child by an import of a file, in any
\* order of its rows, or by a plan, are parent and child, whichever rows failed
\* and whatever others created and deleted meanwhile (handleImportPools,
\* handleApplyPlan).
THEOREM TreeTheorem == TransferSpec => []TreeCopied
<1>1. TransferInv => TreeCopied
  BY DEF TransferInv
<1> QED
  BY <1>1, InitStep, TransferStep, PTL DEF TransferSpec
=============================================================================
