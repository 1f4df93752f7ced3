---------------------------- MODULE PoolsProofs -----------------------------
(***************************************************************************)
(* Theorems about Pools, for every set of clients, every address width and *)
(* every bound; and about PoolsSerial: with one request at a time the      *)
(* handlers implement the atomic registry, for every schema too.           *)
(***************************************************************************)
EXTENDS PoolsSerial, TLAPS

-----------------------------------------------------------------------------
(* Pools. *)
(* The cascade's fixpoint: it contains its roots, is closed under live     *)
(* children, and adds only live pools.                                     *)

LEMMA DescendantsContainRoots ==
  ASSUME NEW roots \in SUBSET Ids
  PROVE  roots \subseteq WithDescendants(roots) /\ WithDescendants(roots) \subseteq Ids
BY DEF WithDescendants

LEMMA DescendantsClosed ==
  ASSUME NEW roots \in SUBSET Ids
  PROVE  Closed(WithDescendants(roots))
<1> SUFFICES ASSUME NEW i \in Ids, ~ pools[i].deleted,
                    pools[i].parent \in WithDescendants(roots),
                    NEW S \in SUBSET Ids, roots \subseteq S, Closed(S)
             PROVE  i \in S
  BY DEF Closed, WithDescendants
<1>1. pools[i].parent \in S
  BY DEF WithDescendants
<1> QED
  BY <1>1 DEF Closed

(* Type correctness: one step per kind of change of the store. *)

LEMMA CreatePoolType ==
  ASSUME TypeOK, NEW p \in Pool, CreatePool(p)
  PROVE  /\ next' \in PoolIds
         /\ pools' \in [1 .. next' - 1 -> Pool]
         /\ nextAccount' \in PoolIds
         /\ accounts' \in [1 .. nextAccount' - 1 -> Account]
<1>1. next' = next + 1 /\ next \in PoolIds
  BY DEF CreatePool, TypeOK
<1>2. next' - 1 = next
  BY <1>1 DEF PoolIds
<1>3. pools' \in [1 .. next -> Pool]
  BY <1>1 DEF CreatePool, TypeOK, PoolIds
<1> QED
  BY <1>1, <1>2, <1>3 DEF CreatePool, TypeOK, PoolIds

LEMMA SoftDeleteType ==
  ASSUME TypeOK, NEW S
  PROVE  SoftDelete(S) \in [1 .. next - 1 -> Pool]
BY DEF SoftDelete, TypeOK, Ids, Pool

LEMMA UpdatePoolType ==
  ASSUME TypeOK, NEW id, NEW account \in OptId, NEW meta \in Metas \cup {None},
         UpdatePool(id, account, meta)
  PROVE  pools' \in [1 .. next - 1 -> Pool]
BY DEF UpdatePool, TypeOK, Ids, Pool

LEMMA CreateAccountType ==
  ASSUME TypeOK, NEW c, NEW key \in Keys, NEW meta \in Metas, CreateAccount(c, key, meta)
  PROVE  /\ nextAccount' \in PoolIds
         /\ accounts' \in [1 .. nextAccount' - 1 -> Account]
<1>1. nextAccount' = nextAccount + 1 /\ nextAccount \in PoolIds
  BY DEF CreateAccount, TypeOK
<1>2. nextAccount' - 1 = nextAccount
  BY <1>1 DEF PoolIds
<1>3. accounts' \in [1 .. nextAccount -> Account]
  BY <1>1 DEF CreateAccount, TypeOK, PoolIds, Account
<1> QED
  BY <1>1, <1>2, <1>3 DEF PoolIds

LEMMA InitType ==
  Init => TypeOK
<1> SUFFICES ASSUME Init PROVE TypeOK
  OBVIOUS
<1>1. pools \in [1 .. next - 1 -> Pool] /\ accounts \in [1 .. nextAccount - 1 -> Account]
  <2>1. 1 - 1 = 0 /\ 1 .. 0 = {}
    OBVIOUS
  <2>2. <<>> \in [{} -> Pool] /\ <<>> \in [{} -> Account]
    OBVIOUS
  <2> QED
    BY <2>1, <2>2 DEF Init
<1> QED
  BY <1>1 DEF Init, TypeOK, PoolIds, Reqs

LEMMA TypeStep ==
  ASSUME TypeOK, [Next]_vars
  PROVE  TypeOK'
<1> USE DEF Begin, Return, PoolIds
<1> DEFINE StoreType ==
      /\ next' \in PoolIds
      /\ pools' \in [1 .. next' - 1 -> Pool]
      /\ nextAccount' \in PoolIds
      /\ accounts' \in [1 .. nextAccount' - 1 -> Account]
<1>1. ASSUME UNCHANGED <<pools, next, accounts, nextAccount>>
      PROVE  StoreType
  BY <1>1 DEF TypeOK
<1>2. ASSUME NEW c \in Clients, req[c] \in Reqs, NEW r \in Reqs,
             req' = [req EXCEPT ![c] = r]
      PROVE  req' \in [Clients -> Reqs]
  BY <1>2 DEF TypeOK
<1>3. ASSUME StoreType, req' \in [Clients -> Reqs] PROVE TypeOK'
  BY <1>3 DEF TypeOK
<1>4. Idle \in Reqs
  BY DEF Reqs
<1>5. AccountInputs \subseteq OptId
  BY PoolsAssumption DEF AccountInputs, OptId
<1>6. {None} \cup Ids \subseteq OptId
  BY DEF Ids, OptId, TypeOK
<1>7. CASE UNCHANGED vars
  BY <1>7 DEF vars, TypeOK
<1>8. ASSUME NEW c \in Clients, Request(c) PROVE TypeOK'
  <2>0. req[c] \in Reqs
    BY DEF TypeOK
  <2>1. ASSUME NEW cidr \in CIDRs, NEW parent \in {None} \cup Ids,
               NEW account \in AccountInputs, NEW meta \in Metas,
               CreatePoolStart(c, cidr, parent, account, meta)
        PROVE  TypeOK'
    <3> DEFINE r == [op |-> "list", cidr |-> cidr, parent |-> parent,
                     account |-> account, meta |-> meta, seen |-> 0]
    <3>1. r \in CreateReq
      BY <1>5, <1>6 DEF CreateReq
    <3>2. r \in Reqs /\ req' = [req EXCEPT ![c] = r]
      BY <3>1, <2>1 DEF Reqs, CreatePoolStart
    <3> HIDE DEF r
    <3> QED
      BY <3>2, <2>0, <2>1, <1>1, <1>2, <1>3 DEF CreatePoolStart
  <2>2. ASSUME NEW id \in Ids, NEW account \in AccountInputs,
               NEW meta \in Metas \cup {None}, PatchWithAccount(c, id, account, meta)
        PROVE  TypeOK'
    BY <2>2, <1>5, UpdatePoolType DEF PatchWithAccount, UpdatePool, TypeOK
  <2>3. ASSUME NEW id \in Ids, NEW meta \in Metas \cup {None}, PatchRead(c, id, meta)
        PROVE  TypeOK'
    <3> DEFINE r == [op |-> "patch", id |-> id, account |-> pools[id].account, meta |-> meta]
    <3>1. pools[id] \in Pool
      BY DEF TypeOK, Ids
    <3>2. r \in PatchReq
      BY <3>1 DEF PatchReq, Pool, Ids
    <3>3. r \in Reqs /\ req' = [req EXCEPT ![c] = r]
      BY <3>2, <2>3 DEF Reqs, PatchRead
    <3> HIDE DEF r
    <3> QED
      BY <3>3, <2>0, <2>3, <1>1, <1>2, <1>3 DEF PatchRead
  <2>4. ASSUME NEW id \in Ids, DeletePool(c, id) \/ DeletePoolCascade(c, id)
        PROVE  TypeOK'
    BY <2>4, SoftDeleteType DEF DeletePool, DeletePoolCascade, TypeOK
  <2>5. ASSUME NEW key \in Keys, NEW meta \in Metas, CreateAccount(c, key, meta)
        PROVE  TypeOK'
    BY <2>5, CreateAccountType DEF CreateAccount, TypeOK
  <2>6. ASSUME NEW a \in AccountIds, NEW meta \in Metas, UpdateAccount(c, a, meta)
        PROVE  TypeOK'
    BY <2>6 DEF UpdateAccount, TypeOK, AccountIds, Account
  <2>7. ASSUME NEW a \in AccountIds, DeleteAccount(c, a) \/ DeleteAccountCascade(c, a)
        PROVE  TypeOK'
    <3>1. accounts' \in [1 .. nextAccount - 1 -> Account]
      BY <2>7 DEF DeleteAccount, DeleteAccountCascade, TypeOK, AccountIds, Account
    <3> QED
      BY <2>7, <3>1, SoftDeleteType DEF DeleteAccount, DeleteAccountCascade, TypeOK
  <2>8. ASSUME NEW schema \in Schemas, NEW skip \in BOOLEAN, NEW meta \in Metas,
               SchemaStart(c, schema, skip, meta)
        PROVE  TypeOK'
    <3> DEFINE r == [op |-> "apply", schema |-> schema, meta |-> meta, ids |-> <<>>]
    <3>1. r \in ApplyReq
      <4>1. schema \in Seq(SchemaEntries) /\ schema # <<>>
        BY <2>8, PoolsAssumption DEF SchemaStart, SchemaValid
      <4>2. Len(schema) > 0 /\ Len(<<>>) = 0 /\ <<>> \in Seq(OptId)
        BY <4>1
      <4> QED
        BY <4>2 DEF ApplyReq
    <3>2. r \in Reqs /\ req' = [req EXCEPT ![c] = r]
      BY <3>1, <2>8 DEF Reqs, SchemaStart
    <3> HIDE DEF r
    <3> QED
      BY <3>2, <2>0, <2>8, <1>1, <1>2, <1>3 DEF SchemaStart
  <2> QED
    BY <1>8, <2>1, <2>2, <2>3, <2>4, <2>5, <2>6, <2>7, <2>8 DEF Request
<1>9. ASSUME NEW c \in Clients, Continue(c) PROVE TypeOK'
  <2>0. req[c] \in Reqs
    BY DEF TypeOK
  <2>1. CASE CreatePoolCheck(c)
    <3>1. req[c] \in CreateReq
      BY <2>0, <2>1 DEF Reqs, CreateReq, PatchReq, ApplyReq, Idle, CreatePoolCheck
    <3> DEFINE r == [req[c] EXCEPT !.op = "insert", !.seen = next]
    <3>2. r \in Reqs
      BY <3>1 DEF Reqs, CreateReq, TypeOK
    <3>3. req' = [req EXCEPT ![c] = Idle] \/ req' = [req EXCEPT ![c] = r]
      BY <2>1 DEF CreatePoolCheck, TypeOK
    <3> HIDE DEF r
    <3> QED
      BY <3>2, <3>3, <2>0, <2>1, <1>1, <1>2, <1>3, <1>4 DEF CreatePoolCheck
  <2>2. CASE CreatePoolInsert(c)
    <3>1. req[c] \in CreateReq
      BY <2>0, <2>2 DEF Reqs, CreateReq, PatchReq, ApplyReq, Idle, CreatePoolInsert
    <3>2. NewPool(req[c].cidr, req[c].parent, req[c].account, req[c].meta,
                  TRUE, req[c].seen) \in Pool
      BY <3>1 DEF NewPool, Pool, CreateReq
    <3>3. StoreType
      BY <2>2, <3>2, <1>1, CreatePoolType DEF CreatePoolInsert, StoreFails
    <3> QED
      BY <2>0, <2>2, <3>3, <1>2, <1>3, <1>4 DEF CreatePoolInsert
  <2>3. CASE PatchWrite(c)
    <3>1. req[c] \in PatchReq
      BY <2>0, <2>3 DEF Reqs, CreateReq, PatchReq, ApplyReq, Idle, PatchWrite
    <3>2. req[c].account \in OptId /\ req[c].meta \in Metas \cup {None}
      BY <3>1 DEF PatchReq
    <3>3. StoreType
      BY <2>3, <3>2, UpdatePoolType DEF PatchWrite, UpdatePool, TypeOK
    <3> QED
      BY <2>0, <2>3, <3>3, <1>2, <1>3, <1>4 DEF PatchWrite
  <2>4. CASE SchemaStep(c)
    <3> DEFINE r == req[c]
               e == r.schema[Len(r.ids) + 1]
               parent == RefToID(r, e.parentRef)
    <3>1. req[c] \in ApplyReq
      BY <2>0, <2>4 DEF Reqs, CreateReq, PatchReq, ApplyReq, Idle, SchemaStep
    <3>2. ASSUME NEW id \in OptId, SchemaAdvance(c, id)
          PROVE  req' \in [Clients -> Reqs]
      <4> DEFINE s == [r EXCEPT !.ids = Append(r.ids, id)]
      <4>1. CASE Len(r.ids) + 1 = Len(r.schema)
        BY <2>0, <3>2, <4>1, <1>2, <1>4 DEF SchemaAdvance
      <4>2. CASE Len(r.ids) + 1 # Len(r.schema)
        <5>1. r.ids \in Seq(OptId) /\ r.schema \in Seq(SchemaEntries)
              /\ Len(r.ids) < Len(r.schema)
          BY <3>1, PoolsAssumption DEF ApplyReq
        <5>2. Len(Append(r.ids, id)) < Len(r.schema) /\ Append(r.ids, id) \in Seq(OptId)
          BY <5>1, <4>2, <3>2
        <5>3. s \in Reqs
          BY <3>1, <5>2 DEF Reqs, ApplyReq
        <5>4. req' = [req EXCEPT ![c] = s]
          BY <3>2, <4>2 DEF SchemaAdvance
        <5> HIDE DEF s
        <5> QED
          BY <5>3, <5>4, <2>0, <1>2
      <4> QED
        BY <4>1, <4>2
    <3>3. r.ids \in Seq(OptId) /\ r.schema \in Seq(SchemaEntries) /\ r.meta \in Metas
          /\ Len(r.ids) < Len(r.schema)
      BY <3>1, PoolsAssumption DEF ApplyReq
    <3>4. e \in SchemaEntries
      BY <3>3
    <3>5. parent \in OptId /\ None \in OptId /\ next \in OptId /\ next \in Nat
      BY <3>3 DEF RefToID, OptId, TypeOK
    <3>6. NewPool(e.cidr, parent, None, r.meta, FALSE, next) \in Pool
      <4> HIDE DEF e, parent
      <4> QED
        BY <3>3, <3>4, <3>5 DEF NewPool, Pool, SchemaEntries
    <3>7. StoreType
      BY <2>4, <3>6, <1>1, CreatePoolType DEF SchemaStep, StoreFails
    <3>8. SchemaAdvance(c, None) \/ SchemaAdvance(c, next)
      BY <2>4 DEF SchemaStep
    <3> QED
      BY <3>2, <3>5, <3>7, <3>8, <1>3
  <2> QED
    BY <1>9, <2>1, <2>2, <2>3, <2>4 DEF Continue
<1> QED
  BY <1>7, <1>8, <1>9 DEF Next

\* The store and the request slots are well typed in every reachable state.
THEOREM TypeCorrect == Spec => []TypeOK
<1>1. TypeOK /\ [Next]_vars => TypeOK'
  BY TypeStep
<1> QED
  BY InitType, <1>1, PTL DEF Spec

-----------------------------------------------------------------------------
(* What no step changes: the frame under which the invariants survive all  *)
(* steps but the inserts.                                                  *)

Frame ==
  \A i \in Ids :
    /\ i \in Ids'
    /\ pools'[i].cidr = pools[i].cidr
    /\ pools'[i].parent = pools[i].parent
    /\ pools'[i].checked = pools[i].checked
    /\ pools'[i].seen = pools[i].seen
    /\ pools[i].deleted => pools'[i].deleted

LEMMA FrameStep ==
  ASSUME TypeOK, [Next]_vars
  PROVE  Frame /\ next <= next'
<1> USE DEF PoolIds
<1>1. ASSUME NEW p, CreatePool(p) PROVE Frame /\ next <= next'
  BY <1>1 DEF CreatePool, Frame, Ids, TypeOK
<1>2. ASSUME UNCHANGED <<pools, next>> PROVE Frame /\ next <= next'
  BY <1>2 DEF Frame, Ids, TypeOK
<1>3. ASSUME NEW S, pools' = SoftDelete(S), next' = next
      PROVE  Frame /\ next <= next'
  BY <1>3 DEF SoftDelete, Frame, Ids, TypeOK, Pool
<1>4. ASSUME NEW id, NEW account, NEW meta, UpdatePool(id, account, meta)
      PROVE  Frame /\ next <= next'
  BY <1>4 DEF UpdatePool, Frame, Ids, TypeOK, Pool
<1>5. CASE UNCHANGED vars
  BY <1>2, <1>5 DEF vars
<1>6. ASSUME NEW c \in Clients, Request(c) PROVE Frame /\ next <= next'
  BY <1>6, <1>2, <1>3, <1>4
     DEF Request, CreatePoolStart, PatchWithAccount, PatchRead, DeletePool,
         DeletePoolCascade, CreateAccount, UpdateAccount, DeleteAccount,
         DeleteAccountCascade, SchemaStart
<1>7. ASSUME NEW c \in Clients, Continue(c) PROVE Frame /\ next <= next'
  BY <1>7, <1>1, <1>2, <1>4
     DEF Continue, CreatePoolCheck, CreatePoolInsert, PatchWrite, SchemaStep, StoreFails
<1> QED
  BY <1>5, <1>6, <1>7 DEF Next

\* The only ways a pool appears: the insert of a createPool request, with what
\* its request carries, or an entry of a schema apply under an earlier entry.
Inserted(c) ==
  /\ req[c].op = "insert"
  /\ pools'[next] = NewPool(req[c].cidr, req[c].parent, req[c].account,
                            req[c].meta, TRUE, req[c].seen)

Planned(c) ==
  /\ req[c].op = "apply"
  /\ ~ pools'[next].checked
  /\ \/ pools'[next].parent = None
     \/ \E k \in DOMAIN req[c].ids : pools'[next].parent = req[c].ids[k]

LEMMA GrowthStep ==
  ASSUME TypeOK, [Next]_vars
  PROVE  \/ next' = next
         \/ next' = next + 1 /\ \E c \in Clients : Inserted(c) \/ Planned(c)
<1>1. ASSUME NEW p, CreatePool(p) PROVE next' = next + 1 /\ pools'[next] = p
  BY <1>1 DEF CreatePool, TypeOK, PoolIds
<1>2. CASE UNCHANGED vars
  BY <1>2 DEF vars
<1>3. ASSUME NEW c \in Clients, Request(c) PROVE next' = next
  BY <1>3
     DEF Request, CreatePoolStart, PatchWithAccount, PatchRead, DeletePool,
         DeletePoolCascade, CreateAccount, UpdateAccount, DeleteAccount,
         DeleteAccountCascade, SchemaStart, UpdatePool
<1>4. ASSUME NEW c \in Clients, Continue(c)
      PROVE  \/ next' = next
             \/ next' = next + 1 /\ (Inserted(c) \/ Planned(c))
  <2>1. CASE CreatePoolCheck(c) \/ PatchWrite(c)
    BY <2>1 DEF CreatePoolCheck, PatchWrite, UpdatePool
  <2>2. CASE CreatePoolInsert(c)
    BY <2>2, <1>1 DEF CreatePoolInsert, StoreFails, Inserted
  <2>3. CASE SchemaStep(c)
    <3> DEFINE r == req[c]
               e == r.schema[Len(r.ids) + 1]
               parent == RefToID(r, e.parentRef)
               p == NewPool(e.cidr, parent, None, r.meta, FALSE, next)
    <3>1. next' = next \/ CreatePool(p)
      BY <2>3 DEF SchemaStep, StoreFails
    <3>2. parent = None \/ \E k \in DOMAIN r.ids : parent = r.ids[k]
      BY DEF RefToID
    <3>3. p.checked = FALSE /\ p.parent = parent
      BY DEF NewPool
    <3>4. r.op = "apply"
      BY <2>3 DEF SchemaStep
    <3> HIDE DEF p, parent
    <3>5. CASE CreatePool(p)
      BY <3>5, <1>1, <3>2, <3>3, <3>4 DEF Planned
    <3> QED
      BY <3>1, <3>5
  <2> QED
    BY <1>4, <2>1, <2>2, <2>3 DEF Continue
<1> QED
  BY <1>2, <1>3, <1>4 DEF Next

\* A step changes at most one request slot, and these are the slots it makes.
Fresh(c) ==
  \/ req'[c] = Idle
  \/ /\ req'[c].op = "list"
     /\ req'[c].parent # None =>
          /\ req'[c].parent \in Ids
          /\ validateChildCIDR(pools[req'[c].parent].cidr, req'[c].cidr)
  \/ /\ req[c].op = "list"
     /\ req'[c] = [req[c] EXCEPT !.op = "insert", !.seen = next]
     /\ ~ Conflicts(req[c].cidr, req[c].parent)
     /\ UNCHANGED <<pools, next>>
  \/ req'[c].op = "patch" /\ req'[c].id \in Ids
  \/ req'[c].op = "apply" /\ req'[c].ids = <<>>
  \/ /\ req[c].op = "apply"
     /\ \E id : /\ req'[c] = [req[c] EXCEPT !.ids = Append(req[c].ids, id)]
                /\ id = None \/ (id = next /\ next' = next + 1)

LEMMA RequestStep ==
  ASSUME TypeOK, [Next]_vars, NEW c \in Clients
  PROVE  req'[c] = req[c] \/ Fresh(c)
<1>1. CASE UNCHANGED vars
  BY <1>1 DEF vars
<1>2. ASSUME NEW d \in Clients, NEW r, req' = [req EXCEPT ![d] = r]
      PROVE  req'[c] = IF c = d THEN r ELSE req[c]
  BY <1>2 DEF TypeOK
<1>3. ASSUME NEW d \in Clients, Request(d) PROVE req'[c] = req[c] \/ Fresh(c)
  <2>1. ASSUME NEW cidr \in CIDRs, NEW parent \in {None} \cup Ids,
               NEW account \in AccountInputs, NEW meta \in Metas,
               CreatePoolStart(d, cidr, parent, account, meta)
        PROVE  req'[c] = req[c] \/ Fresh(c)
    BY <2>1, <1>2 DEF CreatePoolStart, Begin, Fresh, Live
  <2>2. ASSUME NEW id \in Ids, NEW meta \in Metas \cup {None}, PatchRead(d, id, meta)
        PROVE  req'[c] = req[c] \/ Fresh(c)
    BY <2>2, <1>2 DEF PatchRead, Begin, Fresh
  <2>3. ASSUME NEW schema \in Schemas, NEW skip \in BOOLEAN, NEW meta \in Metas,
               SchemaStart(d, schema, skip, meta)
        PROVE  req'[c] = req[c] \/ Fresh(c)
    BY <2>3, <1>2 DEF SchemaStart, Begin, Fresh
  <2> QED
    BY <1>3, <2>1, <2>2, <2>3
       DEF Request, PatchWithAccount, DeletePool, DeletePoolCascade, CreateAccount,
           UpdateAccount, DeleteAccount, DeleteAccountCascade
<1>4. ASSUME NEW d \in Clients, Continue(d) PROVE req'[c] = req[c] \/ Fresh(c)
  <2>1. ASSUME Return(d) PROVE req'[c] = req[c] \/ Fresh(c)
    BY <2>1, <1>2 DEF Return, Fresh
  <2>2. CASE CreatePoolCheck(d)
    <3> DEFINE r == [req[d] EXCEPT !.op = "insert", !.seen = next]
    <3>1. CASE Conflicts(req[d].cidr, req[d].parent)
      BY <2>1, <2>2, <3>1 DEF CreatePoolCheck
    <3>2. CASE ~ Conflicts(req[d].cidr, req[d].parent)
      <4>1. req' = [req EXCEPT ![d] = r]
        BY <2>2, <3>2 DEF CreatePoolCheck, TypeOK
      <4>2. req'[c] = IF c = d THEN r ELSE req[c]
        <5> HIDE DEF r
        <5> QED
          BY <4>1, <1>2
      <4>3. req[d].op = "list" /\ UNCHANGED <<pools, next>>
        BY <2>2 DEF CreatePoolCheck
      <4>4. ASSUME c = d
            PROVE  /\ req[c].op = "list"
                   /\ req'[c] = [req[c] EXCEPT !.op = "insert", !.seen = next]
                   /\ ~ Conflicts(req[c].cidr, req[c].parent)
        BY <4>2, <4>3, <4>4, <3>2
      <4> QED
        BY <4>2, <4>3, <4>4 DEF Fresh
    <3> QED
      BY <3>1, <3>2
  <2>3. CASE SchemaStep(d)
    <3>1. PICK id : /\ SchemaAdvance(d, id)
                    /\ id = None \/ (id = next /\ next' = next + 1)
      BY <2>3 DEF SchemaStep, CreatePool
    <3>2. req' = [req EXCEPT ![d] = Idle]
          \/ req' = [req EXCEPT ![d] = [req[d] EXCEPT !.ids = Append(req[d].ids, id)]]
      BY <3>1 DEF SchemaAdvance
    <3>3. req[d].op = "apply"
      BY <2>3 DEF SchemaStep
    <3>4. CASE req' = [req EXCEPT ![d] = Idle]
      BY <3>4, <1>2 DEF Fresh
    <3>5. CASE req' = [req EXCEPT ![d] = [req[d] EXCEPT !.ids = Append(req[d].ids, id)]]
      <4>1. CASE c = d
        <5>1. req'[c] = [req[c] EXCEPT !.ids = Append(req[c].ids, id)]
          BY <3>5, <4>1 DEF TypeOK
        <5> QED
          BY <5>1, <4>1, <3>1, <3>3 DEF Fresh
      <4>2. CASE c # d
        BY <3>5, <4>2 DEF TypeOK
      <4> QED
        BY <4>1, <4>2
    <3> QED
      BY <3>2, <3>4, <3>5
  <2> QED
    BY <1>4, <2>1, <2>2, <2>3 DEF Continue, CreatePoolInsert, PatchWrite
<1> QED
  BY <1>1, <1>3, <1>4 DEF Next

-----------------------------------------------------------------------------
(* The inductive invariant: the tree and overlap invariants of the store   *)
(* need what each request in flight has established (RequestsSound), since *)
(* an insert relies on reads made before other requests ran.               *)

Integrity ==
  /\ TypeOK
  /\ ParentOlder
  /\ NestedInParent
  /\ OverlapOnlyByRace
  /\ RequestsSound

LEMMA IntegrityInit == Init => Integrity
<1> SUFFICES ASSUME Init PROVE Integrity
  OBVIOUS
<1>1. Ids = {}
  BY DEF Init, Ids
<1>2. \A c \in Clients : req[c].op = "idle"
  BY DEF Init, Idle
<1> QED
  BY <1>1, <1>2, InitType
     DEF Integrity, ParentOlder, NestedInParent, OverlapOnlyByRace, RequestsSound, Sound

LEMMA IntegrityStep == Integrity /\ [Next]_vars => Integrity'
<1> SUFFICES ASSUME Integrity, [Next]_vars PROVE Integrity'
  OBVIOUS
<1> USE DEF PoolIds
<1>1. TypeOK /\ TypeOK'
  BY TypeStep DEF Integrity
<1>2. Frame /\ next <= next'
  BY <1>1, FrameStep
<1>3. \A i \in Ids : i < next /\ i \in Nat
  BY <1>1 DEF Ids, TypeOK
<1>4. \A i \in Ids' : i \in Ids \/ (i = next /\ \E c \in Clients : Inserted(c) \/ Planned(c))
  <2>1. next \in Nat
    BY <1>1 DEF TypeOK
  <2>2. CASE next' = next
    BY <2>2 DEF Ids
  <2>3. CASE next' = next + 1 /\ \E c \in Clients : Inserted(c) \/ Planned(c)
    BY <2>1, <2>3 DEF Ids
  <2> QED
    BY <1>1, <2>2, <2>3, GrowthStep
<1>5. ASSUME NEW c \in Clients, Inserted(c)
      PROVE  /\ pools'[next].parent # None =>
                  /\ pools'[next].parent \in Ids
                  /\ validateChildCIDR(pools[pools'[next].parent].cidr, pools'[next].cidr)
             /\ \A i \in 1 .. pools'[next].seen - 1 :
                  /\ ~ pools[i].deleted
                  /\ pools[i].parent = pools'[next].parent
                  /\ pools[i].cidr # pools'[next].cidr
                  => ~ prefixesOverlapIPv4(pools[i].cidr, pools'[next].cidr)
  BY <1>5 DEF Inserted, NewPool, Integrity, RequestsSound, Sound
<1>6. ASSUME NEW c \in Clients, Planned(c)
      PROVE  pools'[next].parent # None => pools'[next].parent \in Ids
  BY <1>6 DEF Planned, Integrity, RequestsSound, Sound
<1>7. ParentOlder'
  BY <1>1, <1>2, <1>3, <1>4, <1>5, <1>6 DEF ParentOlder, Integrity, Frame, Ids, TypeOK
<1>8. NestedInParent'
  <2> SUFFICES ASSUME NEW i \in Ids', pools'[i].checked, pools'[i].parent # None
               PROVE  validateChildCIDR(pools'[pools'[i].parent].cidr, pools'[i].cidr)
    BY DEF NestedInParent
  <2>1. CASE i \in Ids
    <3>2. pools[i].checked /\ pools[i].parent # None
      BY <2>1, <1>2 DEF Frame
    <3>1. pools[i].parent \in Ids
      <4>1. pools[i].parent \in 1 .. i - 1
        BY <2>1, <3>2 DEF Integrity, ParentOlder
      <4> QED
        BY <4>1, <2>1, <1>1 DEF Ids, TypeOK
    <3>3. validateChildCIDR(pools[pools[i].parent].cidr, pools[i].cidr)
      BY <2>1, <3>2 DEF Integrity, NestedInParent
    <3>4. /\ pools'[i].parent = pools[i].parent
          /\ pools'[i].cidr = pools[i].cidr
          /\ pools'[pools[i].parent].cidr = pools[pools[i].parent].cidr
      BY <2>1, <3>1, <1>2 DEF Frame
    <3> QED
      BY <3>3, <3>4
  <2>2. CASE i = next /\ \E c \in Clients : Inserted(c) \/ Planned(c)
    BY <2>2, <1>2, <1>5 DEF Planned, Frame
  <2> QED
    BY <1>4, <2>1, <2>2
<1>9. OverlapOnlyByRace'
  <2> SUFFICES ASSUME NEW i \in Ids', NEW j \in Ids', i < j,
                      pools'[i].checked, pools'[j].checked,
                      ~ pools'[i].deleted, ~ pools'[j].deleted,
                      pools'[i].parent = pools'[j].parent,
                      pools'[i].cidr # pools'[j].cidr,
                      prefixesOverlapIPv4(pools'[i].cidr, pools'[j].cidr)
               PROVE  i >= pools'[j].seen
    BY DEF OverlapOnlyByRace
  <2>1. i \in Ids
    <3>1. j < next \/ j = next
      BY <1>3, <1>4
    <3>2. next \in Int /\ i \in Int /\ j \in Int
      BY <1>1 DEF Ids, TypeOK
    <3>3. i # next
      BY <3>1, <3>2
    <3> QED
      BY <1>4, <3>3
  <2>2. CASE j \in Ids
    <3>1. /\ pools[i].checked /\ pools[j].checked
          /\ ~ pools[i].deleted /\ ~ pools[j].deleted
          /\ pools[i].parent = pools[j].parent /\ pools[i].cidr # pools[j].cidr
      BY <2>1, <2>2, <1>2 DEF Frame
    <3>2. /\ pools'[i].cidr = pools[i].cidr
          /\ pools'[j].cidr = pools[j].cidr
          /\ pools'[j].seen = pools[j].seen
      BY <2>1, <2>2, <1>2 DEF Frame
    <3>3. prefixesOverlapIPv4(pools[i].cidr, pools[j].cidr)
      BY <3>2
    <3>4. i >= pools[j].seen
      BY <2>1, <2>2, <3>1, <3>3 DEF Integrity, OverlapOnlyByRace
    <3> QED
      BY <3>2, <3>4
  <2>3. CASE j = next /\ \E c \in Clients : Inserted(c) \/ Planned(c)
    <3>1. PICK c \in Clients : Inserted(c)
      BY <2>3 DEF Planned
    <3>2. pools'[j].seen \in Nat /\ i \in Nat \ {0}
      <4>1. pools'[j] \in Pool
        BY <1>1 DEF TypeOK, Ids
      <4> QED
        BY <4>1, <2>1, <1>1 DEF Pool, Ids, TypeOK
    <3>3. ~ pools[i].deleted /\ pools[i].parent = pools'[i].parent /\ pools[i].cidr = pools'[i].cidr
      BY <2>1, <1>2 DEF Frame
    <3>4. ~ (i \in 1 .. pools'[next].seen - 1)
      BY <2>3, <3>1, <3>3, <1>5
    <3> QED
      BY <2>3, <3>2, <3>4
  <2> QED
    BY <1>4, <2>2, <2>3
<1>10. RequestsSound'
  <2> SUFFICES ASSUME NEW c \in Clients PROVE Sound(c)'
    BY DEF RequestsSound
  <2>1. Sound(c) /\ req[c] \in Reqs
    BY <1>1 DEF Integrity, RequestsSound, TypeOK
  <2>2. CASE req'[c] = req[c]
    <3> DEFINE r == req[c]
    <3>1. ASSUME r.op \in {"list", "insert"}, r.parent # None
          PROVE  /\ r.parent \in Ids'
                 /\ validateChildCIDR(pools'[r.parent].cidr, r.cidr)
      <4>1. r.parent \in Ids /\ validateChildCIDR(pools[r.parent].cidr, r.cidr)
        BY <3>1, <2>1 DEF Sound
      <4>2. r.parent \in Ids' /\ pools'[r.parent].cidr = pools[r.parent].cidr
        BY <4>1, <1>2 DEF Frame
      <4> QED
        BY <4>1, <4>2
    <3>2. ASSUME r.op = "insert"
          PROVE  /\ r.seen <= next'
                 /\ \A i \in 1 .. r.seen - 1 :
                      /\ ~ pools'[i].deleted
                      /\ pools'[i].parent = r.parent
                      /\ pools'[i].cidr # r.cidr
                      => ~ prefixesOverlapIPv4(pools'[i].cidr, r.cidr)
      <4>1. r.seen \in Nat /\ r.seen <= next /\ next \in Nat /\ next' \in Nat
        BY <3>2, <2>1, <1>1 DEF Sound, Reqs, CreateReq, PatchReq, ApplyReq, Idle, TypeOK
      <4>2. ASSUME NEW i \in 1 .. r.seen - 1, ~ pools'[i].deleted,
                   pools'[i].parent = r.parent, pools'[i].cidr # r.cidr
            PROVE  ~ prefixesOverlapIPv4(pools'[i].cidr, r.cidr)
        <5>1. i \in Ids
          BY <4>1, <4>2 DEF Ids
        <5>2. /\ ~ pools[i].deleted
              /\ pools'[i].parent = pools[i].parent
              /\ pools'[i].cidr = pools[i].cidr
          BY <5>1, <4>2, <1>2 DEF Frame
        <5>3. ~ prefixesOverlapIPv4(pools[i].cidr, r.cidr)
          BY <5>2, <4>2, <3>2, <2>1 DEF Sound
        <5> QED
          BY <5>2, <5>3
      <4> QED
        BY <4>1, <4>2, <1>2
    <3>3. r.op = "patch" => r.id \in Ids'
      BY <2>1, <1>2 DEF Sound, Frame
    <3>4. r.op = "apply" =>
            \A k \in DOMAIN r.ids : r.ids[k] # None => r.ids[k] \in Ids'
      BY <2>1, <1>2 DEF Sound, Frame
    <3> HIDE DEF r
    <3> QED
      BY <2>2, <3>1, <3>2, <3>3, <3>4 DEF Sound, r
  <2>3. CASE Fresh(c)
    <3> DEFINE r == req'[c]
    <3>1. CASE r = Idle
      BY <3>1 DEF Sound, Idle
    <3>2. CASE /\ r.op = "list"
               /\ r.parent # None =>
                    /\ r.parent \in Ids
                    /\ validateChildCIDR(pools[r.parent].cidr, r.cidr)
      <4>1. r.parent # None =>
              /\ r.parent \in Ids'
              /\ pools'[r.parent].cidr = pools[r.parent].cidr
        BY <3>2, <1>2 DEF Frame
      <4> QED
        BY <3>2, <4>1 DEF Sound
    <3>3. CASE /\ req[c].op = "list"
               /\ r = [req[c] EXCEPT !.op = "insert", !.seen = next]
               /\ ~ Conflicts(req[c].cidr, req[c].parent)
               /\ UNCHANGED <<pools, next>>
      <4>1. req[c] \in CreateReq
        BY <3>3, <2>1 DEF Reqs, CreateReq, PatchReq, ApplyReq, Idle
      <4>2. /\ r.op = "insert" /\ r.seen = next /\ r.cidr = req[c].cidr
            /\ r.parent = req[c].parent
        BY <4>1, <3>3 DEF CreateReq
      <4>3. r.parent # None =>
              r.parent \in Ids /\ validateChildCIDR(pools[r.parent].cidr, r.cidr)
        BY <4>2, <3>3, <2>1 DEF Sound
      <4>4. /\ next <= next
            /\ \A i \in 1 .. next - 1 :
                 /\ ~ pools[i].deleted
                 /\ pools[i].parent = r.parent
                 /\ pools[i].cidr # r.cidr
                 => ~ prefixesOverlapIPv4(pools[i].cidr, r.cidr)
        BY <4>2, <3>3, <1>1 DEF Conflicts, Ids, TypeOK
      <4>5. UNCHANGED Ids
        BY <3>3 DEF Ids
      <4> HIDE DEF r
      <4> QED
        BY <4>2, <4>3, <4>4, <4>5, <3>3 DEF Sound, r
    <3>4. CASE r.op = "patch" /\ r.id \in Ids
      BY <3>4, <1>2 DEF Sound, Frame
    <3>5. CASE r.op = "apply" /\ r.ids = <<>>
      BY <3>5 DEF Sound
    <3>6. CASE /\ req[c].op = "apply"
               /\ \E id : /\ r = [req[c] EXCEPT !.ids = Append(req[c].ids, id)]
                          /\ id = None \/ (id = next /\ next' = next + 1)
      <4>1. PICK id : /\ r = [req[c] EXCEPT !.ids = Append(req[c].ids, id)]
                      /\ id = None \/ (id = next /\ next' = next + 1)
        BY <3>6
      <4>2. req[c] \in ApplyReq
        BY <3>6, <2>1 DEF Reqs, CreateReq, PatchReq, ApplyReq, Idle
      <4>3. req[c].ids \in Seq(OptId) /\ id \in OptId
        BY <4>1, <4>2, <1>1 DEF ApplyReq, OptId, TypeOK
      <4>4. r.op = "apply" /\ r.ids = Append(req[c].ids, id)
        BY <4>1, <4>2 DEF ApplyReq
      <4>5. id # None => id \in Ids'
        BY <4>1, <1>1 DEF Ids, TypeOK
      <4>6. \A k \in DOMAIN r.ids : r.ids[k] = id
                                   \/ (k \in DOMAIN req[c].ids /\ r.ids[k] = req[c].ids[k])
        BY <4>3, <4>4
      <4>7. \A k \in DOMAIN req[c].ids : req[c].ids[k] # None => req[c].ids[k] \in Ids'
        BY <3>6, <2>1, <1>2 DEF Sound, Frame
      <4> QED
        BY <4>4, <4>5, <4>6, <4>7 DEF Sound
    <3> QED
      BY <2>3, <3>1, <3>2, <3>3, <3>4, <3>5, <3>6 DEF Fresh
  <2> QED
    BY <1>1, <2>2, <2>3, RequestStep
<1> QED
  BY <1>1, <1>7, <1>8, <1>9, <1>10 DEF Integrity

\* The inductive invariant of the pool store: types, the forest, nesting, the
\* origin of overlaps and what requests in flight may rely on hold together
\* after every step of createPool, handleSchemaApply, PATCH and the deletes.
THEOREM IntegrityInvariant == Spec => []Integrity
<1>1. Integrity /\ UNCHANGED vars => Integrity'
  BY IntegrityStep
<1> QED
  BY IntegrityInit, IntegrityStep, <1>1, PTL DEF Spec

\* The parent relation of the store is acyclic in every reachable state, and
\* whatever runs between the read of the parent and the insert, a pool made by
\* POST /pools lies inside its parent.
THEOREM TreeTheorem == Spec => []TreeIntact
<1>1. Integrity => TreeIntact
  BY DEF Integrity, TreeIntact
<1> QED
  BY IntegrityInvariant, <1>1, PTL

\* Overlapping live siblings made by POST /pools come from the unlocked window
\* between ListPools and CreatePool and from nowhere else, for any number of
\* concurrent requests.
THEOREM OverlapTheorem == Spec => []OverlapOnlyByRace
<1>1. Integrity => OverlapOnlyByRace
  BY DEF Integrity
<1> QED
  BY IntegrityInvariant, <1>1, PTL

\* The checks of a request in flight stay valid until it inserts.
THEOREM RequestsTheorem == Spec => []RequestsSound
<1>1. Integrity => RequestsSound
  BY DEF Integrity
<1> QED
  BY IntegrityInvariant, <1>1, PTL

-----------------------------------------------------------------------------
(* Action properties. *)

\* How a step deletes: nothing, or a set of pools closed under live children.
Deletes(S) ==
  /\ next' = next
  /\ Closed(S)
  /\ \A i \in Ids : pools'[i].deleted <=> pools[i].deleted \/ i \in S

LEMMA DeleteStep ==
  ASSUME TypeOK, [Next]_vars
  PROVE  (\A i \in Ids : pools'[i].deleted = pools[i].deleted) \/ \E S : Deletes(S)
<1> DEFINE Quiet == \A i \in Ids : pools'[i].deleted = pools[i].deleted
<1> USE DEF PoolIds
<1>1. ASSUME NEW p, CreatePool(p) PROVE Quiet
  BY <1>1 DEF CreatePool, Ids, TypeOK
<1>2. ASSUME pools' = pools PROVE Quiet
  BY <1>2
<1>3. ASSUME NEW S \in SUBSET Ids, pools' = SoftDelete(S), next' = next, Closed(S)
      PROVE  Deletes(S)
  <2> SUFFICES ASSUME NEW i \in Ids
               PROVE  pools'[i].deleted <=> pools[i].deleted \/ i \in S
    BY <1>3 DEF Deletes
  <2>1. pools[i] \in Pool
    BY DEF TypeOK, Ids
  <2> QED
    BY <2>1, <1>3 DEF SoftDelete, Pool
<1>4. ASSUME NEW id, NEW account, NEW meta, UpdatePool(id, account, meta) PROVE Quiet
  BY <1>4 DEF UpdatePool, Ids, TypeOK, Pool
<1>5. CASE UNCHANGED vars
  BY <1>2, <1>5 DEF vars
<1>6. ASSUME NEW c \in Clients, Request(c) PROVE Quiet \/ \E S : Deletes(S)
  <2>1. ASSUME NEW id \in Ids, DeletePool(c, id) PROVE \E S : Deletes(S)
    <3>1. Closed({id})
      BY <2>1 DEF DeletePool, Closed
    <3> QED
      BY <2>1, <3>1, <1>3 DEF DeletePool
  <2>2. ASSUME NEW id \in Ids, DeletePoolCascade(c, id) PROVE \E S : Deletes(S)
    BY <2>2, <1>3, DescendantsContainRoots, DescendantsClosed DEF DeletePoolCascade
  <2>3. ASSUME NEW a \in AccountIds, DeleteAccountCascade(c, a) PROVE \E S : Deletes(S)
    <3>1. PoolsOf(a) \in SUBSET Ids
      BY DEF PoolsOf
    <3> QED
      BY <2>3, <3>1, <1>3, DescendantsContainRoots, DescendantsClosed
         DEF DeleteAccountCascade
  <2> QED
    BY <1>6, <1>2, <1>4, <2>1, <2>2, <2>3
       DEF Request, CreatePoolStart, PatchWithAccount, PatchRead, CreateAccount,
           UpdateAccount, DeleteAccount, SchemaStart
<1>7. ASSUME NEW c \in Clients, Continue(c) PROVE Quiet
  BY <1>7, <1>1, <1>2, <1>4
     DEF Continue, CreatePoolCheck, CreatePoolInsert, PatchWrite, SchemaStep, StoreFails
<1> QED
  BY <1>5, <1>6, <1>7 DEF Next

\* No delete of a pool or of an account leaves a live child behind.
THEOREM NoDeleteStrandsTheorem == Spec => NoDeleteStrands
<1>1. Integrity /\ Integrity' /\ [Next]_vars => [\A i \in Ids : Orphan(i)' => Orphan(i)]_vars
  <2> SUFFICES ASSUME Integrity, [Next]_vars, NEW i \in Ids, Orphan(i)'
               PROVE  Orphan(i)
    OBVIOUS
  <2>1. Frame
    BY FrameStep DEF Integrity
  <2>2. /\ ~ pools[i].deleted
        /\ pools'[i].parent = pools[i].parent
        /\ pools[i].parent # None
    BY <2>1 DEF Frame, Orphan
  <2>3. pools[i].parent \in Ids
    <3>1. pools[i].parent \in 1 .. i - 1
      BY <2>2 DEF Integrity, ParentOlder
    <3> QED
      BY <3>1 DEF Integrity, TypeOK, PoolIds, Ids
  <2>4. pools'[pools[i].parent].deleted /\ ~ pools'[i].deleted
    BY <2>2 DEF Orphan
  <2>5. CASE \A j \in Ids : pools'[j].deleted = pools[j].deleted
    BY <2>2, <2>3, <2>4, <2>5 DEF Orphan
  <2>6. ASSUME NEW S, Deletes(S) PROVE Orphan(i)
    <3>1. i \notin S
      BY <2>4, <2>6 DEF Deletes
    <3>2. pools[i].parent \notin S
      BY <2>2, <2>6, <3>1 DEF Deletes, Closed
    <3> QED
      BY <2>2, <2>3, <2>4, <2>6, <3>2 DEF Deletes, Orphan
  <2> QED
    BY <2>5, <2>6, DeleteStep DEF Integrity
<1> QED
  BY IntegrityInvariant, <1>1, PTL DEF Spec, NoDeleteStrands

\* Ids keep their CIDR and parent for ever, and tombstones stay.
THEOREM TombstonesTheorem == Spec => Tombstones
<1> DEFINE Stays == /\ \A i \in Ids :
                         /\ i \in Ids'
                         /\ pools'[i].cidr = pools[i].cidr
                         /\ pools'[i].parent = pools[i].parent
                         /\ pools[i].deleted => pools'[i].deleted
                    /\ \A a \in AccountIds : accounts[a].deleted => accounts'[a].deleted
<1>1. TypeOK /\ [Next]_vars => [Stays]_vars
  <2> SUFFICES ASSUME TypeOK, [Next]_vars, NEW a \in AccountIds, accounts[a].deleted
               PROVE  accounts'[a].deleted
    BY FrameStep DEF Frame
  <2>1. a \in 1 .. nextAccount - 1 /\ accounts[a] \in Account /\ nextAccount \in Nat
    BY DEF AccountIds, TypeOK, PoolIds
  <2>2. CASE accounts' = accounts
    BY <2>2
  <2>3. ASSUME NEW c \in Clients, NEW key, NEW meta, CreateAccount(c, key, meta)
        PROVE  accounts'[a].deleted
    BY <2>1, <2>3 DEF CreateAccount
  <2>4. ASSUME NEW b \in AccountIds, NEW meta, accounts' = [accounts EXCEPT ![b].meta = meta]
        PROVE  accounts'[a].deleted
    BY <2>1, <2>4 DEF TypeOK, Account
  <2>5. ASSUME NEW b \in AccountIds, accounts' = [accounts EXCEPT ![b].deleted = TRUE]
        PROVE  accounts'[a].deleted
    BY <2>1, <2>5 DEF TypeOK, Account
  <2>6. CASE UNCHANGED vars
    BY <2>2, <2>6 DEF vars
  <2>7. ASSUME NEW c \in Clients, Request(c) PROVE accounts'[a].deleted
    BY <2>7, <2>2, <2>3, <2>4, <2>5
       DEF Request, CreatePoolStart, PatchWithAccount, PatchRead, UpdatePool, DeletePool,
           DeletePoolCascade, UpdateAccount, DeleteAccount, DeleteAccountCascade,
           SchemaStart
  <2>8. ASSUME NEW c \in Clients, Continue(c) PROVE accounts'[a].deleted
    BY <2>8, <2>2
       DEF Continue, CreatePoolCheck, CreatePoolInsert, PatchWrite, SchemaStep,
           StoreFails, CreatePool, UpdatePool
  <2> QED
    BY <2>6, <2>7, <2>8 DEF Next
<1> QED
  BY TypeCorrect, <1>1, PTL DEF Spec, Tombstones

\* An account is deleted only when no live pool names it any more.
THEOREM AccountDeletionTheorem == Spec => AccountDeletionClean
<1> DEFINE Clean == \A a \in AccountIds : LiveAccount(a) /\ ~ LiveAccount(a)' => PoolsOf(a)' = {}
<1>1. TypeOK /\ [Next]_vars => [Clean]_vars
  <2> SUFFICES ASSUME TypeOK, [Next]_vars, NEW a \in AccountIds,
                      LiveAccount(a), ~ LiveAccount(a)'
               PROVE  PoolsOf(a)' = {}
    OBVIOUS
  <2>1. a \in 1 .. nextAccount - 1 /\ accounts[a] \in Account /\ nextAccount \in Nat
    BY DEF AccountIds, TypeOK, PoolIds
  <2>2. ASSUME accounts' = accounts, nextAccount' = nextAccount PROVE FALSE
    BY <2>2 DEF LiveAccount, AccountIds
  <2>3. ASSUME NEW c \in Clients, NEW key, NEW meta, CreateAccount(c, key, meta) PROVE FALSE
    BY <2>1, <2>3 DEF CreateAccount, LiveAccount, AccountIds
  <2>4. ASSUME NEW b \in AccountIds, NEW meta, nextAccount' = nextAccount,
               accounts' = [accounts EXCEPT ![b].meta = meta]
        PROVE  FALSE
    BY <2>1, <2>4 DEF LiveAccount, AccountIds, TypeOK, Account
  <2>5. ASSUME NEW b \in AccountIds, nextAccount' = nextAccount,
               accounts' = [accounts EXCEPT ![b].deleted = TRUE]
        PROVE  b = a
    BY <2>1, <2>5 DEF LiveAccount, AccountIds, TypeOK, Account
  <2>6. ASSUME NEW c \in Clients, NEW b \in AccountIds, DeleteAccount(c, b)
        PROVE  PoolsOf(a)' = {}
    <3>1. b = a
      BY <2>5, <2>6 DEF DeleteAccount
    <3> QED
      BY <2>6, <3>1 DEF DeleteAccount, PoolsOf, Ids
  <2>7. ASSUME NEW c \in Clients, NEW b \in AccountIds, DeleteAccountCascade(c, b)
        PROVE  PoolsOf(a)' = {}
    <3>1. b = a
      BY <2>5, <2>7 DEF DeleteAccountCascade
    <3>2. pools' = SoftDelete(WithDescendants(PoolsOf(a))) /\ Ids' = Ids
      BY <2>7, <3>1 DEF DeleteAccountCascade, Ids
    <3>3. PoolsOf(a) \in SUBSET Ids /\ PoolsOf(a) \subseteq WithDescendants(PoolsOf(a))
      BY DescendantsContainRoots DEF PoolsOf
    <3>4. ASSUME NEW i \in Ids, ~ pools'[i].deleted, pools'[i].account = a
          PROVE  FALSE
      <4>1. i \notin WithDescendants(PoolsOf(a))
        BY <3>2, <3>4 DEF SoftDelete, TypeOK, Ids, Pool
      <4>2. pools'[i] = pools[i]
        BY <3>2, <4>1 DEF SoftDelete
      <4> QED
        BY <3>3, <3>4, <4>1, <4>2 DEF PoolsOf
    <3> QED
      BY <3>2, <3>4 DEF PoolsOf
  <2>8. CASE UNCHANGED vars
    BY <2>2, <2>8 DEF vars
  <2>9. ASSUME NEW c \in Clients, Request(c) PROVE PoolsOf(a)' = {}
    BY <2>9, <2>2, <2>3, <2>4, <2>6, <2>7
       DEF Request, CreatePoolStart, PatchWithAccount, PatchRead, UpdatePool, DeletePool,
           DeletePoolCascade, UpdateAccount, SchemaStart
  <2>10. ASSUME NEW c \in Clients, Continue(c) PROVE PoolsOf(a)' = {}
    BY <2>10, <2>2
       DEF Continue, CreatePoolCheck, CreatePoolInsert, PatchWrite, SchemaStep,
           StoreFails, CreatePool, UpdatePool
  <2> QED
    BY <2>8, <2>9, <2>10 DEF Next
<1> QED
  BY TypeCorrect, <1>1, PTL DEF Spec, AccountDeletionClean

\* Both kinds of delete leave nothing behind that names what they deleted.
THEOREM DeletesCleanTheorem == Spec => DeletesClean
BY NoDeleteStrandsTheorem, AccountDeletionTheorem DEF DeletesClean

-----------------------------------------------------------------------------
(* PoolsSerial. *)
(* What the only request in flight knows stays true, as nothing runs       *)
(* beside it.                                                              *)

SerialSound(c) ==
  /\ req[c].op \in {"list", "insert"} /\ req[c].parent # None => Live(req[c].parent)
  /\ req[c].op = "insert" =>
       req[c].seen = next /\ ~ Conflicts(req[c].cidr, req[c].parent)
  /\ req[c].op = "apply" =>
       \A k \in DOMAIN req[c].ids : req[c].ids[k] # None => Live(req[c].ids[k])

Serial ==
  /\ \A c \in Clients : SerialSound(c)
  /\ NoOrphan
  /\ \A i \in Ids : pools[i].checked => pools[i].seen = i

SerialInv == Integrity /\ Serial

LEMMA OverlapSymmetric ==
  \A a, b : prefixesOverlapIPv4(a, b) <=> prefixesOverlapIPv4(b, a)
BY DEF prefixesOverlapIPv4

LEMMA DescendantsLive ==
  ASSUME NEW roots \in SUBSET Ids, \A i \in roots : ~ pools[i].deleted
  PROVE  \A i \in WithDescendants(roots) : i \in Ids /\ ~ pools[i].deleted
<1> DEFINE T == {i \in Ids : ~ pools[i].deleted}
<1>1. roots \subseteq T /\ T \in SUBSET Ids /\ Closed(T)
  BY DEF Closed
<1> QED
  BY <1>1 DEF WithDescendants

LEMMA SerialInit == Init => SerialInv
<1> SUFFICES ASSUME Init PROVE SerialInv
  OBVIOUS
<1>1. Ids = {}
  BY DEF Init, Ids
<1>2. \A c \in Clients : req[c].op = "idle"
  BY DEF Init, Idle
<1> QED
  BY <1>1, <1>2, IntegrityInit DEF SerialInv, Serial, SerialSound, NoOrphan

-----------------------------------------------------------------------------
(* The insert step of the one client. *)

LEMMA SerialGrowth ==
  ASSUME SerialInv, [Next]_vars
  PROVE  \/ next' = next
         \/ /\ next' = next + 1
            /\ pools'[next].parent # None => Live(pools'[next].parent)
            /\ pools'[next].checked => pools'[next].seen = next
<1>1. TypeOK
  BY DEF SerialInv, Integrity
<1>2. ASSUME NEW c \in Clients, Inserted(c)
      PROVE  /\ pools'[next].parent # None => Live(pools'[next].parent)
             /\ pools'[next].checked => pools'[next].seen = next
  BY <1>2 DEF Inserted, NewPool, SerialInv, Serial, SerialSound
<1>3. ASSUME NEW c \in Clients, Planned(c)
      PROVE  /\ pools'[next].parent # None => Live(pools'[next].parent)
             /\ pools'[next].checked => pools'[next].seen = next
  BY <1>3 DEF Planned, SerialInv, Serial, SerialSound
<1> QED
  BY <1>1, <1>2, <1>3, GrowthStep

LEMMA NoOrphanStep ==
  ASSUME SerialInv, [Next]_vars
  PROVE  NoOrphan' /\ \A i \in Ids' : pools'[i].checked => pools'[i].seen = i
<1> USE DEF PoolIds
<1>1. TypeOK /\ Integrity /\ Integrity'
  BY IntegrityStep DEF SerialInv, Integrity
<1>2. Frame
  BY <1>1, FrameStep
<1>3. \A i \in Ids' : i \in Ids \/ (i = next /\ next' = next + 1)
  <2>1. next \in Nat /\ (next' = next \/ next' = next + 1)
    BY <1>1, GrowthStep DEF TypeOK
  <2> QED
    BY <2>1 DEF Ids
<1>4. ASSUME NEW i \in Ids', pools'[i].checked PROVE pools'[i].seen = i
  <2>1. CASE i \in Ids
    BY <2>1, <1>2, <1>4 DEF Frame, SerialInv, Serial
  <2>2. CASE i = next /\ next' = next + 1
    <3>1. next' # next
      BY <2>2, <1>1 DEF TypeOK
    <3> QED
      BY <2>2, <3>1, <1>4, SerialGrowth
  <2> QED
    BY <1>3, <2>1, <2>2
<1>5. ASSUME NEW i \in Ids', Orphan(i)' PROVE FALSE
  <2>1. CASE i \in Ids
    <3>1. /\ ~ pools[i].deleted
          /\ pools'[i].parent = pools[i].parent
          /\ pools[i].parent # None
          /\ pools'[pools[i].parent].deleted
      BY <2>1, <1>2, <1>5 DEF Frame, Orphan
    <3>2. pools[i].parent \in Ids
      <4>1. pools[i].parent \in 1 .. i - 1
        BY <2>1, <3>1, <1>1 DEF Integrity, ParentOlder
      <4> QED
        BY <2>1, <4>1, <1>1 DEF TypeOK, Ids
    <3>3. ~ pools[pools[i].parent].deleted
      BY <2>1, <3>1 DEF SerialInv, Serial, NoOrphan, Orphan
    <3>4. ~ \A j \in Ids : pools'[j].deleted = pools[j].deleted
      BY <3>1, <3>2, <3>3
    <3>5. PICK S : Deletes(S)
      BY <3>4, <1>1, DeleteStep
    <3>6. pools[i].parent \in S
      BY <3>1, <3>2, <3>3, <3>5 DEF Deletes
    <3>7. i \in S
      BY <2>1, <3>1, <3>5, <3>6 DEF Deletes, Closed
    <3> QED
      BY <2>1, <3>5, <3>7, <1>5 DEF Deletes, Orphan
  <2>2. CASE i = next /\ next' = next + 1
    <3>1. next' # next
      BY <2>2, <1>1 DEF TypeOK
    <3>2. pools'[i].parent # None /\ pools'[pools'[i].parent].deleted
      BY <1>5 DEF Orphan
    <3>3. Live(pools'[next].parent)
      BY <2>2, <3>1, <3>2, SerialGrowth
    <3>4. Frame /\ pools'[next].parent \in Ids /\ ~ pools[pools'[next].parent].deleted
      BY <1>2, <3>3 DEF Live
    <3>5. \A j \in Ids : pools'[j].deleted = pools[j].deleted
      BY <3>1, <1>1, DeleteStep DEF Deletes
    <3> QED
      BY <2>2, <3>2, <3>4, <3>5
  <2> QED
    BY <1>3, <2>1, <2>2
<1> QED
  BY <1>4, <1>5 DEF NoOrphan

-----------------------------------------------------------------------------
(* The request slot of the one client. *)

LEMMA SerialSoundStep ==
  ASSUME SerialInv, [Next]_vars, NEW c \in Clients
  PROVE  SerialSound(c)'
<1> USE DEF PoolIds
<1>1. TypeOK /\ TypeOK' /\ SerialSound(c) /\ \A d \in Clients : d = c
  BY OneClient, TypeStep DEF SerialInv, Integrity, Serial
<1>2. ASSUME NEW r, req' = [req EXCEPT ![c] = r] PROVE req'[c] = r
  BY <1>2, <1>1 DEF TypeOK
<1>3. ASSUME req'[c] = Idle PROVE SerialSound(c)'
  BY <1>3 DEF SerialSound, Idle
<1>4. CASE UNCHANGED vars
  BY <1>1, <1>4 DEF vars, SerialSound, Live, Conflicts, Ids
<1>5. CASE Request(c)
  <2>1. ASSUME NEW cidr \in CIDRs, NEW parent \in {None} \cup Ids,
               NEW account \in AccountInputs, NEW meta \in Metas,
               CreatePoolStart(c, cidr, parent, account, meta)
        PROVE  SerialSound(c)'
    <3> DEFINE r == [op |-> "list", cidr |-> cidr, parent |-> parent,
                     account |-> account, meta |-> meta, seen |-> 0]
    <3>1. r.op = "list" /\ (r.parent # None => Live(r.parent))
      BY <2>1 DEF CreatePoolStart
    <3>2. req' = [req EXCEPT ![c] = r] /\ UNCHANGED <<pools, next>>
      BY <2>1 DEF CreatePoolStart, Begin
    <3> HIDE DEF r
    <3>3. req'[c] = r
      BY <3>2, <1>2
    <3>4. Live(r.parent) => Live(r.parent)'
      BY <3>2 DEF Live, Ids
    <3> QED
      BY <3>1, <3>3, <3>4 DEF SerialSound
  <2>2. ASSUME NEW id \in Ids, NEW meta \in Metas \cup {None}, PatchRead(c, id, meta)
        PROVE  SerialSound(c)'
    <3> DEFINE r == [op |-> "patch", id |-> id, account |-> pools[id].account, meta |-> meta]
    <3>1. r.op = "patch"
      OBVIOUS
    <3>2. req' = [req EXCEPT ![c] = r]
      BY <2>2 DEF PatchRead, Begin
    <3> HIDE DEF r
    <3> QED
      BY <3>1, <3>2, <1>2 DEF SerialSound
  <2>3. ASSUME NEW schema \in Schemas, NEW skip \in BOOLEAN, NEW meta \in Metas,
               SchemaStart(c, schema, skip, meta)
        PROVE  SerialSound(c)'
    <3> DEFINE r == [op |-> "apply", schema |-> schema, meta |-> meta, ids |-> <<>>]
    <3>1. r.op = "apply" /\ r.ids = <<>>
      OBVIOUS
    <3>2. req' = [req EXCEPT ![c] = r]
      BY <2>3 DEF SchemaStart, Begin
    <3> HIDE DEF r
    <3>3. req'[c] = r
      BY <3>2, <1>2
    <3>4. \A k \in DOMAIN r.ids : FALSE
      BY <3>1
    <3> QED
      BY <3>1, <3>3, <3>4 DEF SerialSound
  <2> QED
    BY <1>3, <1>5, <2>1, <2>2, <2>3
       DEF Request, PatchWithAccount, DeletePool, DeletePoolCascade, CreateAccount,
           UpdateAccount, DeleteAccount, DeleteAccountCascade
<1>6. CASE Continue(c)
  <2>1. ASSUME Return(c) PROVE SerialSound(c)'
    BY <2>1, <1>2, <1>3 DEF Return
  <2>2. CASE CreatePoolCheck(c)
    <3> DEFINE r == [req[c] EXCEPT !.op = "insert", !.seen = next]
    <3>1. CASE Conflicts(req[c].cidr, req[c].parent)
      BY <2>1, <2>2, <3>1 DEF CreatePoolCheck
    <3>2. CASE ~ Conflicts(req[c].cidr, req[c].parent)
      <4>1. req' = [req EXCEPT ![c] = r]
        BY <1>1, <2>2, <3>2 DEF CreatePoolCheck, TypeOK
      <4>2. req[c] \in CreateReq
        BY <1>1, <2>2 DEF CreatePoolCheck, TypeOK, Reqs, CreateReq, PatchReq, ApplyReq, Idle
      <4>3. req'[c] = r
        <5> HIDE DEF r
        <5> QED
          BY <4>1, <1>2
      <4>4. /\ r.op = "insert" /\ r.seen = next /\ r.cidr = req[c].cidr
            /\ r.parent = req[c].parent
        BY <4>2 DEF CreateReq
      <4>5. r.parent # None => Live(r.parent)
        BY <4>4, <1>1, <2>2 DEF SerialSound, CreatePoolCheck
      <4> HIDE DEF r
      <4> QED
        BY <4>3, <4>4, <4>5, <2>2, <3>2
           DEF SerialSound, CreatePoolCheck, Live, Conflicts, Ids
    <3> QED
      BY <3>1, <3>2
  <2>3. CASE SchemaStep(c)
    <3>1. PICK id : /\ SchemaAdvance(c, id)
                    /\ \/ id = None /\ UNCHANGED <<pools, next>>
                       \/ /\ id = next
                          /\ \E p : CreatePool(p) /\ p.deleted = FALSE
      BY <2>3 DEF SchemaStep, StoreFails, NewPool
    <3>5. id = None \/ id = next
      BY <3>1
    <3> DEFINE LiveAfter(i) == i \in Ids' /\ ~ pools'[i].deleted
    <3>6. \A i : Live(i) => LiveAfter(i)
      <4>1. CASE UNCHANGED <<pools, next>>
        BY <4>1 DEF Live, Ids
      <4>2. ASSUME NEW p, CreatePool(p) PROVE \A i : Live(i) => LiveAfter(i)
        BY <4>2, <1>1 DEF CreatePool, Live, Ids, TypeOK
      <4> QED
        BY <3>1, <4>1, <4>2
    <3>7. id # None => LiveAfter(id)
      BY <3>1, <1>1 DEF CreatePool, Live, Ids, TypeOK
    <3> DEFINE r == [req[c] EXCEPT !.ids = Append(req[c].ids, id)]
    <3>2. req' = [req EXCEPT ![c] = Idle] \/ req' = [req EXCEPT ![c] = r]
      BY <3>1 DEF SchemaAdvance
    <3>3. CASE req' = [req EXCEPT ![c] = Idle]
      BY <3>3, <1>2, <1>3
    <3>4. CASE req' = [req EXCEPT ![c] = r]
      <4>0. req[c] \in Reqs
        BY <1>1 DEF TypeOK
      <4>1. req[c] \in ApplyReq
        BY <4>0, <2>3 DEF SchemaStep, Reqs, CreateReq, PatchReq, ApplyReq, Idle
      <4>2. req[c].ids \in Seq(OptId) /\ id \in OptId
        BY <4>1, <3>5, <1>1 DEF ApplyReq, OptId, TypeOK
      <4>3. r.op = "apply" /\ r.ids = Append(req[c].ids, id)
        BY <4>1 DEF ApplyReq
      <4>4. req'[c] = r
        <5> HIDE DEF r
        <5> QED
          BY <3>4, <1>2
      <4>7. \A k \in DOMAIN req[c].ids : req[c].ids[k] # None => Live(req[c].ids[k])
        BY <4>1, <1>1 DEF SerialSound, ApplyReq
      <4>8. \A k \in DOMAIN r.ids : r.ids[k] = id
                                   \/ (k \in DOMAIN req[c].ids /\ r.ids[k] = req[c].ids[k])
        BY <4>2, <4>3
      <4>9. \A k \in DOMAIN r.ids : r.ids[k] # None => LiveAfter(r.ids[k])
        <5> HIDE DEF r, LiveAfter
        <5> QED
          BY <3>6, <3>7, <4>7, <4>8
      <4> HIDE DEF r
      <4> QED
        BY <4>3, <4>4, <4>9 DEF SerialSound, Live
    <3> QED
      BY <3>2, <3>3, <3>4
  <2> QED
    BY <1>6, <2>1, <2>2, <2>3 DEF Continue, CreatePoolInsert, PatchWrite
<1> QED
  BY <1>1, <1>4, <1>5, <1>6 DEF Next

LEMMA SerialStep == SerialInv /\ [Next]_vars => SerialInv'
BY IntegrityStep, NoOrphanStep, SerialSoundStep DEF SerialInv, Serial

\* With one request in flight, Integrity holds together with: no live pool
\* under a deleted one, and what createPool listed is still what is stored.
THEOREM SerialInvariant == Spec => []SerialInv
BY SerialInit, SerialStep, PTL DEF Spec

\* With one request at a time every live pool has a live parent and live
\* siblings made by POST /pools are equal or disjoint.
THEOREM RegistryIntegrityTheorem == Spec => []RegistryIntegrity
<1>1. SerialInv => RegistryIntegrity
  <2> SUFFICES ASSUME SerialInv PROVE NoSiblingOverlap
    BY DEF SerialInv, Serial, RegistryIntegrity
  <2>1. ASSUME NEW i \in Ids, NEW j \in Ids, i < j,
               pools[i].checked, pools[j].checked,
               ~ pools[i].deleted, ~ pools[j].deleted,
               pools[i].parent = pools[j].parent, pools[i].cidr # pools[j].cidr
        PROVE  ~ prefixesOverlapIPv4(pools[i].cidr, pools[j].cidr)
    <3>1. pools[j].seen = j /\ ~ i >= j
      BY <2>1 DEF SerialInv, Serial, Integrity, TypeOK, PoolIds, Ids
    <3> QED
      BY <2>1, <3>1 DEF SerialInv, Integrity, OverlapOnlyByRace
  <2>2. \A i, j \in Ids : i # j => i < j \/ j < i
    BY DEF SerialInv, Integrity, TypeOK, PoolIds, Ids
  <2> QED
    BY <2>1, <2>2, OverlapSymmetric DEF NoSiblingOverlap
<1> QED
  BY SerialInvariant, <1>1, PTL

-----------------------------------------------------------------------------
(* The refinement: every insert is an Allocate or a Plan of the registry,  *)
(* every delete a Release, and all other steps stutter.                    *)

LEMMA BarFacts ==
  ASSUME TypeOK
  PROVE  /\ Registry!BlockIds = Ids
         /\ \A i \in Ids : blocksBar[i] = Block(pools[i])
         /\ \A i \in Ids : /\ blocksBar[i].cidr = pools[i].cidr
                           /\ blocksBar[i].parent = pools[i].parent
                           /\ blocksBar[i].live = (~ pools[i].deleted)
         /\ \A i : Registry!LiveBlock(i) <=> Live(i)
BY DEF blocksBar, Block, Registry!BlockIds, Registry!LiveBlock, Live

LEMMA SameCidr ==
  \A a, b : /\ Registry!validateChildCIDR(a, b) = validateChildCIDR(a, b)
           /\ Registry!prefixesOverlapIPv4(a, b) = prefixesOverlapIPv4(a, b)
BY DEF Registry!validateChildCIDR, Registry!prefixesOverlapIPv4, Registry!Contains,
       Registry!lastAddr, Registry!Masked, Registry!BlockSize, Registry!AddrSpace,
       validateChildCIDR, prefixesOverlapIPv4, Contains, lastAddr, Masked, BlockSize,
       AddrSpace

LEMMA BarStutter ==
  ASSUME TypeOK, next' = next,
         \A i \in Ids : Block(pools[i])' = Block(pools[i])
  PROVE  UNCHANGED blocksBar
<1>1. Ids' = Ids
  BY DEF Ids
<1> QED
  BY <1>1 DEF blocksBar

LEMMA BarAdd ==
  ASSUME TypeOK, NEW p, CreatePool(p)
  PROVE  Registry!Add(Block(p))
<1>1. next \in 1 .. MaxPools /\ next \in Nat
  BY PoolsAssumption DEF CreatePool, TypeOK, PoolIds
<1>2. Ids' = 1 .. next
  BY <1>1 DEF CreatePool, Ids
<1>3. blocksBar' = [i \in 1 .. next |-> IF i = next THEN Block(p) ELSE blocksBar[i]]
  <2>1. \A i \in 1 .. next : Block(pools'[i]) = IF i = next THEN Block(p) ELSE blocksBar[i]
    BY <1>1 DEF CreatePool, blocksBar, Ids
  <2> QED
    BY <1>2, <2>1 DEF blocksBar, Block
<1>4. DOMAIN blocksBar = 1 .. next - 1
  BY DEF blocksBar, Ids
<1> QED
  BY <1>1, <1>3, <1>4 DEF Registry!Add, Registry!BlockIds

LEMMA BarRelease ==
  ASSUME TypeOK, NEW S \in SUBSET Ids, Closed(S), \A i \in S : ~ pools[i].deleted,
         pools' = SoftDelete(S), next' = next
  PROVE  Registry!Release(S)
<1>1. Ids' = Ids
  BY DEF Ids
<1>2. \A i \in Ids : pools[i] \in Pool
  BY DEF TypeOK, Ids
<1>3. \A i \in Ids : Block(pools'[i]) =
        IF i \in S THEN [Block(pools[i]) EXCEPT !.live = FALSE] ELSE Block(pools[i])
  BY <1>2 DEF SoftDelete, Block, Pool
<1>4. blocksBar' = [i \in Ids |-> IF i \in S THEN [blocksBar[i] EXCEPT !.live = FALSE]
                                 ELSE blocksBar[i]]
  BY <1>1, <1>3 DEF blocksBar, Block
<1>5. \A i \in S : Registry!LiveBlock(i)
  BY BarFacts DEF Live
<1>6. \A i \in Registry!BlockIds :
        blocksBar[i].live /\ blocksBar[i].parent \in S => i \in S
  BY BarFacts DEF Closed
<1> QED
  BY <1>4, <1>5, <1>6, BarFacts DEF Registry!Release

LEMMA RegistryInit == Init => Registry!Init
<1> SUFFICES ASSUME Init PROVE blocksBar = <<>>
  BY DEF Registry!Init
<1>1. Ids = {}
  BY DEF Init, Ids
<1> QED
  BY <1>1 DEF blocksBar

LEMMA RegistryInsert ==
  ASSUME SerialInv, NEW c \in Clients, CreatePoolInsert(c)
  PROVE  [Registry!Next]_blocksBar
<1> DEFINE r == req[c]
           p == NewPool(r.cidr, r.parent, r.account, r.meta, TRUE, r.seen)
<1>1. TypeOK /\ r \in Reqs /\ r.op = "insert" /\ SerialSound(c) /\ Sound(c)
  BY DEF SerialInv, Serial, Integrity, RequestsSound, TypeOK, CreatePoolInsert
<1>2. r \in CreateReq
  BY <1>1 DEF Reqs, CreateReq, PatchReq, ApplyReq, Idle
<1>3. CASE StoreFails
  BY <1>1, <1>3, BarStutter DEF StoreFails
<1>4. CASE CreatePool(p)
  <2>1. Block(p) = [cidr |-> r.cidr, parent |-> r.parent, live |-> TRUE, planned |-> FALSE]
    BY DEF Block, NewPool
  <2>2. Registry!Add([cidr |-> r.cidr, parent |-> r.parent, live |-> TRUE, planned |-> FALSE])
    BY <1>1, <1>4, <2>1, BarAdd
  <2>3. r.parent # None =>
          /\ Registry!LiveBlock(r.parent)
          /\ validateChildCIDR(blocksBar[r.parent].cidr, r.cidr)
    <3>1. r.parent # None =>
            /\ Live(r.parent) /\ r.parent \in Ids
            /\ validateChildCIDR(pools[r.parent].cidr, r.cidr)
      BY <1>1 DEF SerialSound, Sound
    <3> QED
      BY <1>1, <3>1, BarFacts
  <2>4. \A i \in Registry!BlockIds :
          blocksBar[i].live /\ blocksBar[i].parent = r.parent /\ blocksBar[i].cidr # r.cidr
            => ~ prefixesOverlapIPv4(blocksBar[i].cidr, r.cidr)
    <3>1. \A i \in Ids :
            ~ pools[i].deleted /\ pools[i].parent = r.parent /\ pools[i].cidr # r.cidr
              => ~ prefixesOverlapIPv4(pools[i].cidr, r.cidr)
      BY <1>1 DEF SerialSound, Conflicts
    <3>2. ASSUME NEW i \in Ids, blocksBar[i].live, blocksBar[i].parent = r.parent,
                 blocksBar[i].cidr # r.cidr
          PROVE  ~ prefixesOverlapIPv4(blocksBar[i].cidr, r.cidr)
      <4>1. /\ blocksBar[i].cidr = pools[i].cidr
            /\ blocksBar[i].parent = pools[i].parent
            /\ ~ pools[i].deleted
        BY <1>1, <3>2, BarFacts
      <4> QED
        BY <3>1, <3>2, <4>1
    <3> QED
      BY <1>1, <3>2, BarFacts
  <2>5. Registry!Allocate(r.cidr, r.parent)
    BY <2>2, <2>3, <2>4, SameCidr DEF Registry!Allocate
  <2>6. r.cidr \in CIDRs /\ (r.parent = None \/ r.parent \in Registry!BlockIds)
    BY <1>2, <2>3 DEF CreateReq, Registry!LiveBlock
  <2> QED
    BY <2>5, <2>6 DEF Registry!Next
<1> QED
  BY <1>3, <1>4 DEF CreatePoolInsert

LEMMA RegistryPlan ==
  ASSUME SerialInv, NEW c \in Clients, SchemaStep(c)
  PROVE  [Registry!Next]_blocksBar
<1> DEFINE r == req[c]
           e == r.schema[Len(r.ids) + 1]
           parent == RefToID(r, e.parentRef)
           p == NewPool(e.cidr, parent, None, r.meta, FALSE, next)
<1>1. TypeOK /\ r \in Reqs /\ r.op = "apply" /\ SerialSound(c)
  BY DEF SerialInv, Serial, Integrity, TypeOK, SchemaStep
<1>2. r \in ApplyReq
  BY <1>1 DEF Reqs, CreateReq, PatchReq, ApplyReq, Idle
<1>3. e \in SchemaEntries
  <2>1. r.ids \in Seq(OptId) /\ r.schema \in Seq(SchemaEntries) /\ Len(r.ids) < Len(r.schema)
    BY <1>2, PoolsAssumption DEF ApplyReq
  <2> QED
    BY <2>1
<1>4. parent # None => Live(parent)
  BY <1>1 DEF RefToID, SerialSound
<1>5. CASE UNCHANGED <<pools, next>>
  BY <1>1, <1>5, BarStutter
<1>6. CASE CreatePool(p)
  <2>1. Block(p) = [cidr |-> e.cidr, parent |-> parent, live |-> TRUE, planned |-> TRUE]
    BY DEF Block, NewPool
  <2>2. Registry!Add([cidr |-> e.cidr, parent |-> parent, live |-> TRUE, planned |-> TRUE])
    BY <1>1, <1>6, <2>1, BarAdd
  <2>3. parent # None => Registry!LiveBlock(parent)
    BY <1>1, <1>4, BarFacts
  <2>4. Registry!Plan(e.cidr, parent)
    BY <2>2, <2>3 DEF Registry!Plan
  <2>5. e.cidr \in CIDRs /\ (parent = None \/ parent \in Registry!BlockIds)
    BY <1>3, <2>3 DEF SchemaEntries, Registry!LiveBlock
  <2> HIDE DEF e, parent
  <2> QED
    BY <2>4, <2>5 DEF Registry!Next
<1> QED
  BY <1>5, <1>6 DEF SchemaStep, StoreFails

LEMMA RegistryDelete ==
  ASSUME SerialInv, NEW S \in SUBSET Ids, Closed(S), \A i \in S : ~ pools[i].deleted,
         pools' = SoftDelete(S), next' = next
  PROVE  [Registry!Next]_blocksBar
<1>1. TypeOK
  BY DEF SerialInv, Integrity
<1> QED
  BY <1>1, BarRelease, BarFacts DEF Registry!Next

LEMMA RegistryRequest ==
  ASSUME SerialInv, NEW c \in Clients, Request(c)
  PROVE  [Registry!Next]_blocksBar
<1>1. TypeOK
  BY DEF SerialInv, Integrity
<1>2. ASSUME UNCHANGED <<pools, next>> PROVE UNCHANGED blocksBar
  BY <1>1, <1>2, BarStutter
<1>3. ASSUME NEW id, NEW account, NEW meta, UpdatePool(id, account, meta)
      PROVE  UNCHANGED blocksBar
  <2>1. next' = next /\ \A i \in Ids : Block(pools[i])' = Block(pools[i])
    BY <1>1, <1>3 DEF UpdatePool, Block, TypeOK, Ids, Pool
  <2> QED
    BY <1>1, <2>1, BarStutter
<1>4. ASSUME NEW id \in Ids, DeletePool(c, id) PROVE [Registry!Next]_blocksBar
  <2>1. Closed({id}) /\ ~ pools[id].deleted
    BY <1>4 DEF DeletePool, Closed, Live
  <2> QED
    BY <1>4, <2>1, RegistryDelete DEF DeletePool
<1>5. ASSUME NEW id \in Ids, DeletePoolCascade(c, id) PROVE [Registry!Next]_blocksBar
  <2> DEFINE S == WithDescendants({id})
  <2>1. \A i \in {id} : ~ pools[i].deleted
    BY <1>5 DEF DeletePoolCascade, Live
  <2>2. S \in SUBSET Ids /\ Closed(S) /\ \A i \in S : ~ pools[i].deleted
    BY <2>1, DescendantsContainRoots, DescendantsClosed, DescendantsLive
  <2>3. pools' = SoftDelete(S) /\ next' = next
    BY <1>5 DEF DeletePoolCascade
  <2> HIDE DEF S
  <2> QED
    BY <2>2, <2>3, RegistryDelete
<1>6. ASSUME NEW a \in AccountIds, DeleteAccountCascade(c, a)
      PROVE  [Registry!Next]_blocksBar
  <2> DEFINE S == WithDescendants(PoolsOf(a))
  <2>1. PoolsOf(a) \in SUBSET Ids /\ \A i \in PoolsOf(a) : ~ pools[i].deleted
    BY DEF PoolsOf
  <2>2. S \in SUBSET Ids /\ Closed(S) /\ \A i \in S : ~ pools[i].deleted
    BY <2>1, DescendantsContainRoots, DescendantsClosed, DescendantsLive
  <2>3. pools' = SoftDelete(S) /\ next' = next
    BY <1>6 DEF DeleteAccountCascade
  <2> HIDE DEF S
  <2> QED
    BY <2>2, <2>3, RegistryDelete
<1> QED
  BY <1>2, <1>3, <1>4, <1>5, <1>6
     DEF Request, CreatePoolStart, PatchWithAccount, PatchRead, CreateAccount,
         UpdateAccount, DeleteAccount, SchemaStart

\* One request at a time, the whole pool API implements the atomic registry.
THEOREM RegistryTheorem == Spec => ImplementsRegistry
<1>1. SerialInv /\ [Next]_vars => [Registry!Next]_blocksBar
  <2> SUFFICES ASSUME SerialInv, [Next]_vars PROVE [Registry!Next]_blocksBar
    OBVIOUS
  <2>1. TypeOK
    BY DEF SerialInv, Integrity
  <2>2. CASE UNCHANGED vars
    BY <2>1, <2>2, BarStutter DEF vars
  <2>3. ASSUME NEW c \in Clients, Request(c) PROVE [Registry!Next]_blocksBar
    BY <2>3, RegistryRequest
  <2>4. ASSUME NEW c \in Clients, Continue(c) PROVE [Registry!Next]_blocksBar
    <3>1. CASE CreatePoolCheck(c)
      BY <2>1, <3>1, BarStutter DEF CreatePoolCheck
    <3>2. CASE PatchWrite(c)
      <4>1. next' = next /\ \A i \in Ids : Block(pools[i])' = Block(pools[i])
        BY <2>1, <3>2 DEF PatchWrite, UpdatePool, Block, TypeOK, Ids, Pool
      <4> QED
        BY <2>1, <4>1, BarStutter
    <3> QED
      BY <2>4, <3>1, <3>2, RegistryInsert, RegistryPlan DEF Continue
  <2> QED
    BY <2>2, <2>3, <2>4 DEF Next
<1> QED
  BY SerialInvariant, RegistryInit, <1>1, PTL DEF Spec, ImplementsRegistry, Registry!Spec
=============================================================================
