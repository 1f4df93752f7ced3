--------------------------- MODULE StreamsProofs ---------------------------
(***************************************************************************)
(* Theorems about SqlStore, for every set of callers, every size of the    *)
(* tables and the connection pool, and any number of calls and failures;   *)
(* about Startup, for every set of replicas, releases, settings and setup  *)
(* requests, and any number of crashes and failing statements; and about   *)
(* SelfUpdate, for every set of administrators and any number of requests. *)
(***************************************************************************)
EXTENDS SqlStore, Startup, SelfUpdate, SequenceTheorems, TLAPS

-----------------------------------------------------------------------------
(* SqlStore. *)
(* Types. *)

Ref == Nat \cup {Nil}

PoolWith == [cidr : SqlCIDRs, parent : Ref, account : Ref]
UpdateWith == [account : Ref]
AccountWith == [key : SqlKeys]

Ops == {"createPool", "updatePool", "deletePool", "cascadePool", "createAccount",
        "updateAccount", "deleteAccount", "cascadeAccount", "stats", "hierarchy"}

Stages == {"parent", "account", "insert", "read", "write", "reread", "count", "delete",
               "deleteTree", "list", "rows", "resolve", "deleteTrees", "lookup",
               "get", "listAll", "direct", "next"}

BusyCall ==
  [op : Ops, pc : Stages, id : Ref, cursors : Int, todo : SUBSET Nat,
   stack : Seq(SUBSET Nat), snap : Seq(Seq(PoolRow)),
   with : {<<>>} \cup PoolWith \cup UpdateWith \cup AccountWith]

IdleCall == [op : {"idle"}, reply : {"none", "ok", "conflict", "notFound", "error"}]

CallState == BusyCall \cup IdleCall

SqlTyped ==
  /\ pools \in Seq(PoolRow)
  /\ accounts \in Seq(AccountRow)
  /\ calls \in [Callers -> CallState]

LEMMA BusyTyped ==
  ASSUME SqlTyped, NEW c \in Callers, Busy(c)
  PROVE  calls[c] \in BusyCall
BY DEF SqlTyped, Busy, CallState, IdleCall

LEMMA IdleTyped ==
  ASSUME NEW r \in {"none", "ok", "conflict", "notFound", "error"}
  PROVE  Idle(r) \in CallState /\ Idle(r).op = "idle"
BY DEF Idle, CallState, IdleCall

\* A call at its first statement
NewCall(w, op, pc, id, with) ==
  /\ w \in BusyCall /\ w.op = op /\ w.pc = pc /\ w.id = id /\ w.todo = {} /\ w.snap = <<>>
  /\ w.with = with

LEMMA CallTyped ==
  ASSUME NEW op \in Ops, NEW pc \in Stages, NEW id \in Ref
  PROVE  NewCall(Call(op, pc, id), op, pc, id, <<>>)
<1>1. <<>> \in Seq(SUBSET Nat) /\ <<>> \in Seq(Seq(PoolRow)) /\ 0 \in Int
  OBVIOUS
<1> QED
  BY <1>1 DEF Call, BusyCall, NewCall

LEMMA CallWith ==
  ASSUME NEW op \in Ops, NEW pc \in Stages, NEW id \in Ref,
         NEW with \in PoolWith \cup UpdateWith \cup AccountWith
  PROVE  NewCall([Call(op, pc, id) EXCEPT !.with = with], op, pc, id, with)
<1>1. PICK w : w = Call(op, pc, id) /\ NewCall(w, op, pc, id, <<>>)
  BY CallTyped
<1>2. NewCall([w EXCEPT !.with = with], op, pc, id, with)
  BY <1>1 DEF NewCall, BusyCall
<1> QED
  BY <1>1, <1>2

LEMMA ContinueStep ==
  ASSUME SqlTyped, NEW c \in Callers, NEW w \in CallState, Continue(c, w)
  PROVE  /\ calls' \in [Callers -> CallState]
         /\ calls'[c] = w /\ \A d \in Callers : d # c => calls'[d] = calls[d]
BY DEF SqlTyped, Continue

-----------------------------------------------------------------------------
(* The rows below a set of rows: live ones, and all of them. *)

LEMMA SubtreeClosed ==
  ASSUME NEW rows, NEW S
  PROVE  /\ SubtreeIn(rows, S) \subseteq DOMAIN rows
         /\ S \cap DOMAIN rows \subseteq SubtreeIn(rows, S)
         /\ ClosedIn(rows, SubtreeIn(rows, S))
<1>1. S \cap DOMAIN rows \subseteq SubtreeIn(rows, S)
  BY DEF SubtreeIn
<1>2. ASSUME NEW j \in DOMAIN rows, rows[j].live, rows[j].parent \in SubtreeIn(rows, S),
             NEW T \in SUBSET DOMAIN rows, S \subseteq T, ClosedIn(rows, T)
      PROVE  j \in T
  BY <1>2 DEF SubtreeIn, ClosedIn
<1>3. ClosedIn(rows, SubtreeIn(rows, S))
  BY <1>2 DEF SubtreeIn, ClosedIn
<1> QED
  BY <1>1, <1>3 DEF SubtreeIn

-----------------------------------------------------------------------------
(* The inductive invariant *)

\* A cascade that deletes row by row: what it found below and has deleted stays
\* deleted, and the rest is still on its list
Walks(w, roots, rows) ==
  /\ w.snap # <<>> /\ DOMAIN Head(w.snap) \subseteq DOMAIN rows
  /\ w.todo \subseteq SubtreeIn(Head(w.snap), roots)
  /\ \A j \in SubtreeIn(Head(w.snap), roots) \ w.todo : ~ rows[j].live

\* What the earlier statements of a call have seen is right of the pools in rows
\* and the accounts in owners
SoundCall(w, rows, owners) ==
  /\ w.op = "createPool" => w.with \in PoolWith
  /\ w.op = "updatePool" => w.id \in DOMAIN rows /\ w.with \in UpdateWith
  /\ w.op = "deletePool" =>
       /\ w.id \in DOMAIN rows
       /\ w.pc = "delete" => w.snap # <<>> /\ ChildrenIn(Head(w.snap), w.id) = {}
  /\ w.op = "cascadePool" =>
       /\ w.id \in DOMAIN rows
       /\ IF w.pc = "rows" THEN Walks(w, {w.id}, rows) ELSE w.snap = <<>>
  /\ w.op = "createAccount" => w.with \in AccountWith
  /\ w.op = "deleteAccount" =>
       /\ w.id \in DOMAIN owners
       /\ w.pc = "delete" => w.snap # <<>> /\ OwnedIn(Head(w.snap), w.id) = {}
  /\ w.op = "cascadeAccount" =>
       /\ w.id \in DOMAIN owners
       /\ CASE w.pc = "rows" -> Walks(w, OwnedIn(Head(w.snap), w.id), rows)
            [] w.pc = "lookup" -> w.snap # <<>> /\ DOMAIN Head(w.snap) \subseteq DOMAIN rows
            [] OTHER -> w.snap = <<>> /\ w.todo = {}
  /\ w.op \in {"stats", "hierarchy"} /\ w.pc = "next" => w.stack # <<>>

SqlInv ==
  /\ SqlTyped
  /\ UniqueIn(pools, backend)
  /\ \A c \in Callers : SoundCall(calls[c], pools, accounts)

LEMMA IdleSound == ASSUME NEW w \in IdleCall, NEW rows, NEW owners PROVE SoundCall(w, rows, owners)
BY DEF SoundCall, IdleCall

-----------------------------------------------------------------------------
(* What a statement does to the tables *)

\* A row keeps its block and its parent, and is never brought back
Grown(rows, after) ==
  /\ DOMAIN rows \subseteq DOMAIN after
  /\ \A i \in DOMAIN rows :
       after[i].cidr = rows[i].cidr /\ after[i].parent = rows[i].parent
       /\ (after[i].live => rows[i].live)

PoolsStep ==
  \/ UNCHANGED pools
  \/ \E S : Kill(S)
  \/ \E i \in DOMAIN pools, a \in Ref : pools' = [pools EXCEPT ![i].account = a]
  \/ \E row \in PoolRow :
       row.live /\ ~ Taken(row.cidr, row.parent) /\ pools' = Append(pools, row)

AccountsStep ==
  \/ UNCHANGED accounts
  \/ \E a \in DOMAIN accounts : KillAccount(a)
  \/ \E row \in AccountRow : accounts' = Append(accounts, row)

LEMMA Killed ==
  ASSUME SqlTyped, NEW S, Kill(S)
  PROVE  /\ pools' \in Seq(PoolRow) /\ DOMAIN pools' = DOMAIN pools
         /\ \A i \in DOMAIN pools :
              /\ pools'[i].cidr = pools[i].cidr /\ pools'[i].parent = pools[i].parent
              /\ pools'[i].account = pools[i].account
              /\ pools'[i].live <=> pools[i].live /\ i \notin S
<1> DEFINE f == [i \in DOMAIN pools |->
                  IF i \in S THEN [pools[i] EXCEPT !.live = FALSE] ELSE pools[i]]
<1>1. DOMAIN pools = 1 .. Len(pools) /\ Len(pools) \in Nat
  BY DEF SqlTyped
<1>2. \A i \in DOMAIN pools : pools[i] \in PoolRow
  BY DEF SqlTyped
<1>3. \A i \in DOMAIN pools :
        /\ f[i] \in PoolRow
        /\ f[i].cidr = pools[i].cidr /\ f[i].parent = pools[i].parent
        /\ f[i].account = pools[i].account
        /\ f[i].live <=> pools[i].live /\ i \notin S
  BY <1>2 DEF PoolRow
<1>4. f \in Seq(PoolRow) /\ DOMAIN f = DOMAIN pools
  <2>1. f \in [1 .. Len(pools) -> PoolRow]
    BY <1>1, <1>3
  <2> HIDE DEF f
  <2> QED
    BY <1>1, <2>1, SeqDef
<1>5. pools' = f
  BY DEF Kill
<1> HIDE DEF f
<1> QED
  BY <1>3, <1>4, <1>5

LEMMA Rewritten ==
  ASSUME SqlTyped, NEW i \in DOMAIN pools, NEW a \in Ref, pools' = [pools EXCEPT ![i].account = a]
  PROVE  /\ pools' \in Seq(PoolRow) /\ DOMAIN pools' = DOMAIN pools
         /\ \A j \in DOMAIN pools :
              /\ pools'[j].cidr = pools[j].cidr /\ pools'[j].parent = pools[j].parent
              /\ pools'[j].live = pools[j].live
<1> DEFINE row == [pools[i] EXCEPT !.account = a]
<1>1. DOMAIN pools = 1 .. Len(pools) /\ Len(pools) \in Nat
  BY DEF SqlTyped
<1>2. \A j \in DOMAIN pools : pools[j] \in PoolRow
  BY DEF SqlTyped
<1>3. /\ row \in PoolRow /\ row.cidr = pools[i].cidr /\ row.parent = pools[i].parent
      /\ row.live = pools[i].live
  BY <1>2 DEF PoolRow, Ref
<1>4. pools' = [pools EXCEPT ![i] = row]
  OBVIOUS
<1> HIDE DEF row
<1>5. pools' \in [1 .. Len(pools) -> PoolRow]
  BY <1>1, <1>2, <1>3, <1>4
<1>6. pools' \in Seq(PoolRow)
  <2> DEFINE f == [pools EXCEPT ![i] = row]
  <2>1. f \in [1 .. Len(pools) -> PoolRow]
    BY <1>4, <1>5
  <2> HIDE DEF f
  <2>2. f \in Seq(PoolRow)
    BY <1>1, <2>1, SeqDef
  <2> QED
    BY <1>4, <2>2 DEF f
<1> QED
  BY <1>3, <1>4, <1>6

LEMMA Added ==
  ASSUME SqlTyped, NEW row \in PoolRow, pools' = Append(pools, row)
  PROVE  /\ pools' \in Seq(PoolRow)
         /\ DOMAIN pools' = DOMAIN pools \cup {Len(pools) + 1} /\ Len(pools) + 1 \notin DOMAIN pools
         /\ \A j \in DOMAIN pools : pools'[j] = pools[j]
         /\ pools'[Len(pools) + 1] = row
<1>1. DOMAIN pools = 1 .. Len(pools) /\ Len(pools) \in Nat
  BY DEF SqlTyped
<1>2. /\ pools' \in Seq(PoolRow) /\ Len(pools') = Len(pools) + 1
      /\ \A j \in 1 .. Len(pools) : pools'[j] = pools[j]
      /\ pools'[Len(pools) + 1] = row
  BY DEF SqlTyped
<1>3. DOMAIN pools' = 1 .. Len(pools) + 1
  BY <1>2
<1> QED
  BY <1>1, <1>2, <1>3

LEMMA PoolsGrow ==
  ASSUME SqlInv, PoolsStep, UNCHANGED backend
  PROVE  /\ pools' \in Seq(PoolRow)
         /\ Grown(pools, pools')
         /\ UniqueIn(pools', backend')
<1> USE DEF SqlInv
<1>1. CASE UNCHANGED pools
  BY <1>1 DEF SqlTyped, Grown
<1>2. ASSUME NEW S, Kill(S)
      PROVE  pools' \in Seq(PoolRow) /\ Grown(pools, pools') /\ UniqueIn(pools', backend')
  BY <1>2, Killed DEF Grown, UniqueIn
<1>3. ASSUME NEW i \in DOMAIN pools, NEW a \in Ref, pools' = [pools EXCEPT ![i].account = a]
      PROVE  pools' \in Seq(PoolRow) /\ Grown(pools, pools') /\ UniqueIn(pools', backend')
  <2>1. pools' \in Seq(PoolRow) /\ Grown(pools, pools')
    BY <1>3, Rewritten DEF Grown
  <2>2. UniqueIn(pools', backend')
    <3>1. /\ DOMAIN pools' = DOMAIN pools
          /\ \A j \in DOMAIN pools :
               /\ pools'[j].cidr = pools[j].cidr /\ pools'[j].parent = pools[j].parent
               /\ pools'[j].live = pools[j].live
      BY <1>3, Rewritten
    <3>2. UniqueIn(pools, backend) /\ backend' = backend
      OBVIOUS
    <3> QED
      BY <3>1, <3>2 DEF UniqueIn
  <2> QED
    BY <2>1, <2>2
<1>4. ASSUME NEW row \in PoolRow, row.live, ~ Taken(row.cidr, row.parent),
             pools' = Append(pools, row)
      PROVE  pools' \in Seq(PoolRow) /\ Grown(pools, pools') /\ UniqueIn(pools', backend')
  <2>1. pools' \in Seq(PoolRow) /\ Grown(pools, pools')
    BY <1>4, Added DEF Grown
  <2>2. UniqueIn(pools', backend')
    BY <1>4, Added DEF UniqueIn, Taken
  <2> QED
    BY <2>1, <2>2
<1> QED
  BY <1>1, <1>2, <1>3, <1>4 DEF PoolsStep

LEMMA AccountsGrow ==
  ASSUME SqlTyped, AccountsStep
  PROVE  accounts' \in Seq(AccountRow) /\ DOMAIN accounts \subseteq DOMAIN accounts'
<1>1. DOMAIN accounts = 1 .. Len(accounts) /\ Len(accounts) \in Nat
  BY DEF SqlTyped
<1>2. CASE UNCHANGED accounts
  BY <1>2 DEF SqlTyped
<1>3. ASSUME NEW a \in DOMAIN accounts, KillAccount(a)
      PROVE  accounts' \in Seq(AccountRow) /\ DOMAIN accounts \subseteq DOMAIN accounts'
  <2> DEFINE row == [accounts[a] EXCEPT !.live = FALSE]
  <2>1. \A b \in DOMAIN accounts : accounts[b] \in AccountRow
    BY DEF SqlTyped
  <2>2. row \in AccountRow
    BY <2>1 DEF AccountRow
  <2>3. accounts' = [accounts EXCEPT ![a] = row]
    BY <1>3 DEF KillAccount
  <2> HIDE DEF row
  <2> DEFINE f == [accounts EXCEPT ![a] = row]
  <2>4. f \in [1 .. Len(accounts) -> AccountRow] /\ DOMAIN f = DOMAIN accounts
    BY <1>1, <2>1, <2>2
  <2> HIDE DEF f
  <2>5. f \in Seq(AccountRow)
    BY <1>1, <2>4, SeqDef
  <2> QED
    BY <2>3, <2>4, <2>5 DEF f
<1>4. ASSUME NEW row \in AccountRow, accounts' = Append(accounts, row)
      PROVE  accounts' \in Seq(AccountRow) /\ DOMAIN accounts \subseteq DOMAIN accounts'
  <2>1. accounts' \in Seq(AccountRow) /\ Len(accounts') = Len(accounts) + 1
    BY <1>4 DEF SqlTyped
  <2> QED
    BY <1>1, <2>1
<1> QED
  BY <1>2, <1>3, <1>4 DEF AccountsStep

\* Whatever a statement of another call does, a call is still right about what
\* it has seen
LEMMA CallsKept ==
  ASSUME Grown(pools, pools'), DOMAIN accounts \subseteq DOMAIN accounts',
         NEW w, SoundCall(w, pools, accounts)
  PROVE  SoundCall(w, pools', accounts')
<1>1. ASSUME NEW roots, Walks(w, roots, pools) PROVE Walks(w, roots, pools')
  <2>1. SubtreeIn(Head(w.snap), roots) \subseteq DOMAIN Head(w.snap)
    BY SubtreeClosed
  <2> QED
    BY <1>1, <2>1 DEF Walks, Grown
<1>2. DOMAIN pools \subseteq DOMAIN pools'
  BY DEF Grown
<1>3. w.op = "cascadePool" /\ w.pc = "rows" => Walks(w, {w.id}, pools')
  BY <1>1 DEF SoundCall
<1>4. w.op = "cascadeAccount" /\ w.pc = "rows" =>
        Walks(w, OwnedIn(Head(w.snap), w.id), pools')
  BY <1>1 DEF SoundCall
<1> QED
  BY <1>2, <1>3, <1>4 DEF SoundCall

\* A step of call c that leaves it at w
Steps(c, w) ==
  /\ PoolsStep /\ AccountsStep /\ UNCHANGED backend
  /\ Continue(c, w) /\ w \in CallState /\ SoundCall(w, pools', accounts')

LEMMA StepSound ==
  ASSUME SqlInv, NEW c \in Callers, NEW w, Steps(c, w)
  PROVE  SqlInv'
<1>1. /\ pools' \in Seq(PoolRow) /\ Grown(pools, pools') /\ UniqueIn(pools', backend')
      /\ accounts' \in Seq(AccountRow) /\ DOMAIN accounts \subseteq DOMAIN accounts'
  BY PoolsGrow, AccountsGrow DEF Steps, SqlInv
<1>2. /\ calls' \in [Callers -> CallState]
      /\ calls'[c] = w /\ \A d \in Callers : d # c => calls'[d] = calls[d]
  BY ContinueStep DEF Steps, SqlInv
<1>3. SoundCall(calls'[c], pools', accounts')
  BY <1>2 DEF Steps
<1>4. ASSUME NEW d \in Callers, d # c PROVE SoundCall(calls'[d], pools', accounts')
  BY <1>1, <1>2, <1>4, CallsKept DEF SqlInv
<1>5. \A d \in Callers : SoundCall(calls'[d], pools', accounts')
  BY <1>3, <1>4
<1> QED
  BY <1>1, <1>2, <1>5 DEF SqlInv, SqlTyped


-----------------------------------------------------------------------------
(* Steps. *)

\* A call begins
LEMMA StartSteps ==
  ASSUME SqlInv, NEW c \in Callers, SqlStart(c)
  PROVE  \E w : Steps(c, w)
<1>0. ASSUME NEW w \in BusyCall, Begin(c, w), SoundCall(w, pools, accounts) PROVE Steps(c, w)
  <2>1. pools' = pools /\ accounts' = accounts
    BY <1>0 DEF Begin
  <2> QED
    BY <1>0, <2>1 DEF Steps, Begin, PoolsStep, AccountsStep, CallState
<1>1. /\ DOMAIN pools \subseteq Nat /\ DOMAIN accounts \subseteq Nat
      /\ PoolRefs \subseteq Ref /\ AccountRefs \subseteq Ref /\ Nil \in Ref
  BY DEF SqlInv, SqlTyped, PoolRefs, AccountRefs, Ref
<1>2. CASE StartCreatePool(c)
  <2>1. PICK cidr \in SqlCIDRs, p \in PoolRefs, a \in AccountRefs :
          Begin(c, [Call("createPool", IF backend = "postgres" THEN "parent" ELSE "insert", Nil)
                      EXCEPT !.with = [cidr |-> cidr, parent |-> p, account |-> a]])
    BY <1>2 DEF StartCreatePool
  <2>2. PICK pc \in Stages :
          Begin(c, [Call("createPool", pc, Nil)
                      EXCEPT !.with = [cidr |-> cidr, parent |-> p, account |-> a]])
    BY <2>1 DEF Stages
  <2>3. PICK with \in PoolWith : with = [cidr |-> cidr, parent |-> p, account |-> a]
    BY <1>1 DEF PoolWith
  <2>4. PICK w : w = [Call("createPool", pc, Nil) EXCEPT !.with = with]
    OBVIOUS
  <2>5. NewCall(w, "createPool", pc, Nil, with)
    BY <1>1, <2>4, CallWith DEF Ops
  <2>6. Begin(c, w)
    BY <2>2, <2>3, <2>4
  <2> QED
    BY <1>0, <2>5, <2>6 DEF NewCall, SoundCall
<1>3. CASE StartUpdatePool(c)
  <2>1. PICK i \in DOMAIN pools, a \in AccountRefs, pc \in Stages :
          Begin(c, [Call("updatePool", pc, i) EXCEPT !.with = [account |-> a]])
    BY <1>3 DEF StartUpdatePool, Stages
  <2>3. PICK with \in UpdateWith : with = [account |-> a]
    BY <1>1 DEF UpdateWith
  <2>4. PICK w : w = [Call("updatePool", pc, i) EXCEPT !.with = with]
    OBVIOUS
  <2>5. NewCall(w, "updatePool", pc, i, with)
    BY <1>1, <2>4, CallWith DEF Ops, Ref
  <2>6. Begin(c, w)
    BY <2>1, <2>3, <2>4
  <2> QED
    BY <1>0, <2>5, <2>6 DEF NewCall, SoundCall
<1>4. CASE StartCreateAccount(c)
  <2>1. PICK k \in SqlKeys : Begin(c, [Call("createAccount", "insert", Nil) EXCEPT !.with = [key |-> k]])
    BY <1>4 DEF StartCreateAccount
  <2>3. PICK with \in AccountWith : with = [key |-> k]
    BY <1>1 DEF AccountWith
  <2>4. PICK w : w = [Call("createAccount", "insert", Nil) EXCEPT !.with = with]
    OBVIOUS
  <2>5. NewCall(w, "createAccount", "insert", Nil, with)
    BY <1>1, <2>4, CallWith DEF Ops, Stages
  <2>6. Begin(c, w)
    BY <2>1, <2>3, <2>4
  <2> QED
    BY <1>0, <2>5, <2>6 DEF NewCall, SoundCall
<1>5. ASSUME NEW op \in {"deletePool", "cascadePool", "stats"}, NEW i \in DOMAIN pools,
             NEW pc \in Stages \ {"delete", "rows", "next"}, Begin(c, Call(op, pc, i))
      PROVE  \E w : Steps(c, w)
  <2>1. NewCall(Call(op, pc, i), op, pc, i, <<>>)
    BY <1>1, <1>5, CallTyped DEF Ops, Ref
  <2>2. PICK w : w = Call(op, pc, i) /\ NewCall(w, op, pc, i, <<>>) /\ Begin(c, w)
    BY <1>5, <2>1
  <2> QED
    BY <1>0, <1>5, <2>2 DEF NewCall, SoundCall
<1>6. ASSUME NEW op \in {"updateAccount", "deleteAccount", "cascadeAccount"},
             NEW a \in DOMAIN accounts,
             NEW pc \in Stages \ {"delete", "rows", "lookup"}, Begin(c, Call(op, pc, a))
      PROVE  \E w : Steps(c, w)
  <2>1. NewCall(Call(op, pc, a), op, pc, a, <<>>)
    BY <1>1, <1>6, CallTyped DEF Ops, Ref
  <2>2. PICK w : w = Call(op, pc, a) /\ NewCall(w, op, pc, a, <<>>) /\ Begin(c, w)
    BY <1>6, <2>1
  <2> QED
    BY <1>0, <1>6, <2>2 DEF NewCall, SoundCall
<1>7. CASE StartHierarchy(c)
  <2>1. PICK i \in PoolRefs, pc \in {"listAll", "list"} : Begin(c, Call("hierarchy", pc, i))
    BY <1>7 DEF StartHierarchy
  <2>2. PICK w : w = Call("hierarchy", pc, i) /\ NewCall(w, "hierarchy", pc, i, <<>>) /\ Begin(c, w)
    BY <1>1, <2>1, CallTyped DEF Ops, Stages
  <2> QED
    BY <1>0, <2>2 DEF NewCall, SoundCall
<1>8. CASE StartDeletePool(c) \/ StartDeletePoolCascade(c) \/ StartStats(c)
  BY <1>5, <1>8 DEF StartDeletePool, StartDeletePoolCascade, StartStats, Stages
<1>9. CASE StartUpdateAccount(c) \/ StartDeleteAccount(c) \/ StartDeleteAccountCascade(c)
  BY <1>6, <1>9 DEF StartUpdateAccount, StartDeleteAccount, StartDeleteAccountCascade, Stages
<1> QED
  BY <1>2, <1>3, <1>4, <1>7, <1>8, <1>9 DEF SqlStart


\* A call returns, whatever its last statement did
LEMMA Returns ==
  ASSUME SqlInv, NEW c \in Callers, PoolsStep, AccountsStep, UNCHANGED backend,
         NEW r \in {"none", "ok", "conflict", "notFound", "error"}, Reply(c, r)
  PROVE  \E w : Steps(c, w)
<1>1. PICK w : w = Idle(r) /\ Continue(c, w)
  BY DEF Reply
<1>2. w \in CallState /\ w.op = "idle"
  BY <1>1, IdleTyped
<1>3. SoundCall(w, pools', accounts')
  BY <1>2 DEF SoundCall
<1> QED
  BY <1>1, <1>2, <1>3 DEF Steps

\* A call that is under way
LEMMA UnderWay ==
  ASSUME SqlInv, NEW c \in Callers, NEW op, NEW pc, AtStatement(c, op, pc)
  PROVE  \E r \in BusyCall : /\ r = calls[c] /\ SoundCall(r, pools, accounts)
                             /\ r.op = op /\ r.pc = pc
BY BusyTyped DEF AtStatement, SqlInv

\* A call goes on, and has only read
LEMMA Reads ==
  ASSUME SqlInv, NEW c \in Callers, UNCHANGED <<backend, pools, accounts>>,
         NEW w \in BusyCall, Continue(c, w), SoundCall(w, pools, accounts)
  PROVE  \E v : Steps(c, v)
<1>1. pools' = pools /\ accounts' = accounts
  OBVIOUS
<1> QED
  BY <1>1 DEF Steps, PoolsStep, AccountsStep, CallState

LEMMA NextStatement ==
  ASSUME NEW r \in BusyCall, NEW pc \in Stages, NEW w, w = [r EXCEPT !.pc = pc]
  PROVE  /\ w \in BusyCall /\ w.op = r.op /\ w.pc = pc /\ w.id = r.id
         /\ w.todo = r.todo /\ w.snap = r.snap /\ w.with = r.with
BY DEF BusyCall

LEMMA ListedTyped ==
  ASSUME SqlTyped
  PROVE  Listed \in Seq(Seq(PoolRow)) /\ Listed # <<>> /\ Head(Listed) = pools
BY DEF SqlTyped, Listed

\* The pools' creation and updates
LEMMA PoolSteps ==
  ASSUME SqlInv, NEW c \in Callers,
         \/ ResolveParent(c) \/ ResolveAccount(c) \/ InsertPool(c)
         \/ ReadPool(c) \/ WritePool(c) \/ RereadPool(c)
  PROVE  \E w : Steps(c, w)
<1>1. CASE ResolveParent(c)
  <2>0. "account" \in Stages
    BY DEF Stages
  <2>1. PICK r \in BusyCall : r = calls[c] /\ SoundCall(r, pools, accounts) /\ r.op = "createPool"
    BY <1>1, UnderWay DEF ResolveParent
  <2>2. UNCHANGED <<backend, pools, accounts>>
    BY <1>1 DEF ResolveParent, Runs
  <2>3. CASE Continue(c, [r EXCEPT !.pc = "account"])
    <3>1. PICK w : w = [r EXCEPT !.pc = "account"]
      OBVIOUS
    <3>2. w \in BusyCall /\ w.op = "createPool" /\ w.with = r.with
      BY <2>0, <2>1, <3>1, NextStatement
    <3> QED
      BY <2>1, <2>2, <2>3, <3>1, <3>2, Reads DEF SoundCall
  <2>4. CASE Reply(c, "notFound")
    BY <2>2, <2>4, Returns DEF PoolsStep, AccountsStep
  <2> QED
    BY <1>1, <2>1, <2>3, <2>4 DEF ResolveParent
<1>2. CASE ResolveAccount(c)
  <2>0. {"insert", "write"} \subseteq Stages
    BY DEF Stages
  <2>1. PICK r \in BusyCall : /\ r = calls[c] /\ SoundCall(r, pools, accounts)
                              /\ r.op \in {"createPool", "updatePool"}
    BY <1>2, UnderWay DEF ResolveAccount
  <2>2. UNCHANGED <<backend, pools, accounts>>
    BY <1>2 DEF ResolveAccount, Runs
  <2>3. ASSUME NEW pc \in {"insert", "write"}, Continue(c, [r EXCEPT !.pc = pc])
        PROVE  \E w : Steps(c, w)
    <3>1. PICK w : w = [r EXCEPT !.pc = pc]
      OBVIOUS
    <3>2. w \in BusyCall /\ w.op = r.op /\ w.with = r.with /\ w.id = r.id
      BY <2>0, <2>1, <3>1, NextStatement
    <3> QED
      BY <2>1, <2>2, <2>3, <3>1, <3>2, Reads DEF SoundCall
  <2>4. CASE Reply(c, "notFound")
    BY <2>2, <2>4, Returns DEF PoolsStep, AccountsStep
  <2> QED
    BY <1>2, <2>1, <2>3, <2>4 DEF ResolveAccount
<1>3. CASE InsertPool(c)
  <2>1. PICK r \in BusyCall : r = calls[c] /\ SoundCall(r, pools, accounts) /\ r.op = "createPool"
    BY <1>3, UnderWay DEF InsertPool
  <2>2. UNCHANGED <<backend, accounts>>
    BY <1>3 DEF InsertPool, Runs
  <2>3. PICK w \in PoolWith : w = r.with
    BY <2>1 DEF SoundCall
  <2>4. PICK row : row = [cidr |-> w.cidr, parent |-> w.parent, account |-> w.account, live |-> TRUE]
    OBVIOUS
  <2>5. row \in PoolRow /\ row.live /\ row.cidr = w.cidr /\ row.parent = w.parent
    BY <2>3, <2>4 DEF PoolWith, PoolRow, Ref
  <2>6. \/ Reply(c, "conflict") /\ UNCHANGED pools
        \/ /\ ~ Taken(row.cidr, row.parent)
           /\ pools' = Append(pools, row) /\ Reply(c, "ok")
    BY <1>3, <2>1, <2>3, <2>4, <2>5 DEF InsertPool
  <2> QED
    BY <2>2, <2>5, <2>6, Returns DEF PoolsStep, AccountsStep
<1>4. CASE ReadPool(c)
  <2>0. "write" \in Stages
    BY DEF Stages
  <2>1. PICK r \in BusyCall : r = calls[c] /\ SoundCall(r, pools, accounts) /\ r.op = "updatePool"
    BY <1>4, UnderWay DEF ReadPool
  <2>2. UNCHANGED <<backend, pools, accounts>>
    BY <1>4 DEF ReadPool, Runs
  <2>3. CASE Continue(c, [r EXCEPT !.pc = "write"])
    <3>1. PICK w : w = [r EXCEPT !.pc = "write"]
      OBVIOUS
    <3>2. w \in BusyCall /\ w.op = "updatePool" /\ w.with = r.with /\ w.id = r.id
      BY <2>0, <2>1, <3>1, NextStatement
    <3> QED
      BY <2>1, <2>2, <2>3, <3>1, <3>2, Reads DEF SoundCall
  <2>4. CASE Reply(c, "notFound")
    BY <2>2, <2>4, Returns DEF PoolsStep, AccountsStep
  <2> QED
    BY <1>4, <2>1, <2>3, <2>4 DEF ReadPool
<1>5. CASE WritePool(c)
  <2>0. "reread" \in Stages
    BY DEF Stages
  <2>1. PICK r \in BusyCall : r = calls[c] /\ SoundCall(r, pools, accounts) /\ r.op = "updatePool"
    BY <1>5, UnderWay DEF WritePool
  <2>2. UNCHANGED <<backend, accounts>>
    BY <1>5 DEF WritePool, Runs
  <2>3. r.id \in DOMAIN pools /\ r.with.account \in Ref
    BY <2>1 DEF SoundCall, UpdateWith
  <2>4. CASE Reply(c, "notFound") /\ UNCHANGED pools
    BY <2>2, <2>4, Returns DEF PoolsStep, AccountsStep
  <2>5. CASE /\ pools' = [pools EXCEPT ![r.id].account = r.with.account]
             /\ Continue(c, [r EXCEPT !.pc = "reread"])
    <3>1. PICK w : w = [r EXCEPT !.pc = "reread"]
      OBVIOUS
    <3>2. w \in BusyCall /\ w.op = "updatePool" /\ w.with = r.with /\ w.id = r.id
      BY <2>0, <2>1, <3>1, NextStatement
    <3>3. DOMAIN pools' = DOMAIN pools
      BY <2>5
    <3>4. SoundCall(w, pools', accounts')
      BY <2>1, <3>2, <3>3 DEF SoundCall
    <3>5. PoolsStep
      BY <2>3, <2>5 DEF PoolsStep
    <3> QED
      BY <2>2, <2>5, <3>1, <3>2, <3>4, <3>5 DEF Steps, CallState, AccountsStep
  <2> QED
    BY <1>5, <2>1, <2>4, <2>5 DEF WritePool
<1>6. CASE RereadPool(c)
  BY <1>6, Returns DEF RereadPool, Runs, PoolsStep, AccountsStep
<1> QED
  BY <1>1, <1>2, <1>3, <1>4, <1>5, <1>6

\* The deletion of one pool
LEMMA DeletePoolSteps ==
  ASSUME SqlInv, NEW c \in Callers, CountChildren(c) \/ DeletePool(c)
  PROVE  \E w : Steps(c, w)
<1>1. CASE CountChildren(c)
  <2>1. PICK r \in BusyCall : r = calls[c] /\ SoundCall(r, pools, accounts) /\ r.op = "deletePool"
    BY <1>1, UnderWay DEF CountChildren
  <2>2. UNCHANGED <<backend, pools, accounts>>
    BY <1>1 DEF CountChildren, Runs
  <2>3. CASE ChildrenIn(pools, r.id) = {} /\ Continue(c, [r EXCEPT !.pc = "delete", !.snap = Listed])
    <3>1. PICK seen \in Seq(Seq(PoolRow)) : seen = Listed /\ seen # <<>> /\ Head(seen) = pools
      BY ListedTyped DEF SqlInv
    <3>2. PICK w : w = [r EXCEPT !.pc = "delete", !.snap = seen]
      OBVIOUS
    <3>3. /\ w \in BusyCall /\ w.op = "deletePool" /\ w.id = r.id /\ w.snap = seen
      BY <2>1, <3>2 DEF BusyCall, Stages
    <3>4. SoundCall(w, pools, accounts)
      BY <2>1, <2>3, <3>1, <3>3 DEF SoundCall
    <3> QED
      BY <2>2, <2>3, <3>1, <3>2, <3>3, <3>4, Reads
  <2>4. CASE Reply(c, "conflict")
    BY <2>2, <2>4, Returns DEF PoolsStep, AccountsStep
  <2> QED
    BY <1>1, <2>1, <2>3, <2>4 DEF CountChildren
<1>2. CASE DeletePool(c)
  <2>1. PoolsStep /\ AccountsStep /\ UNCHANGED backend
    BY <1>2 DEF DeletePool, Runs, PoolsStep, AccountsStep
  <2> QED
    BY <1>2, <2>1, Returns DEF DeletePool
<1> QED
  BY <1>1, <1>2

\* The deletion of a pool and those below it
LEMMA CascadeSteps ==
  ASSUME SqlInv, NEW c \in Callers, DeleteTree(c) \/ ListForCascade(c)
  PROVE  \E w : Steps(c, w)
<1>1. CASE DeleteTree(c)
  <2>1. PoolsStep /\ AccountsStep /\ UNCHANGED backend
    BY <1>1 DEF DeleteTree, Runs, PoolsStep, AccountsStep
  <2> QED
    BY <1>1, <2>1, Returns DEF DeleteTree
<1>2. CASE ListForCascade(c)
  <2>1. PICK r \in BusyCall : r = calls[c] /\ SoundCall(r, pools, accounts) /\ r.op = "cascadePool"
    BY <1>2, UnderWay DEF ListForCascade
  <2>2. UNCHANGED <<backend, pools, accounts>>
    BY <1>2 DEF ListForCascade, Runs
  <2>3. CASE Continue(c, [r EXCEPT !.pc = "rows", !.snap = Listed,
                                   !.todo = SubtreeIn(pools, {r.id})])
    <3>1. PICK seen \in Seq(Seq(PoolRow)) : seen = Listed /\ seen # <<>> /\ Head(seen) = pools
      BY ListedTyped DEF SqlInv
    <3>2. PICK tree \in SUBSET Nat : tree = SubtreeIn(pools, {r.id})
      BY SubtreeClosed DEF SqlInv, SqlTyped
    <3>3. PICK w : w = [r EXCEPT !.pc = "rows", !.snap = seen, !.todo = tree]
      OBVIOUS
    <3>4. /\ w \in BusyCall /\ w.op = "cascadePool" /\ w.pc = "rows" /\ w.id = r.id
          /\ w.snap = seen /\ w.todo = tree
      BY <2>1, <3>3 DEF BusyCall, Stages
    <3>5. Walks(w, {w.id}, pools)
      BY <3>1, <3>2, <3>4 DEF Walks
    <3>6. SoundCall(w, pools, accounts)
      BY <2>1, <3>4, <3>5 DEF SoundCall
    <3> QED
      BY <2>2, <2>3, <3>1, <3>2, <3>3, <3>4, <3>6, Reads
  <2>4. CASE Reply(c, "notFound")
    BY <2>2, <2>4, Returns DEF PoolsStep, AccountsStep
  <2> QED
    BY <1>2, <2>1, <2>3, <2>4 DEF ListForCascade
<1> QED
  BY <1>1, <1>2

\* A cascade that has deleted one row more
LEMMA Walked ==
  ASSUME SqlTyped, NEW w, NEW v, NEW roots, NEW i \in w.todo, Walks(w, roots, pools), Kill({i}),
         v.snap = w.snap, v.todo = w.todo \ {i}
  PROVE  Walks(v, roots, pools')
<1>1. /\ DOMAIN pools' = DOMAIN pools
      /\ \A j \in DOMAIN pools : pools'[j].live <=> pools[j].live /\ j # i
  BY Killed
<1>2. SubtreeIn(Head(w.snap), roots) \subseteq DOMAIN pools
  BY SubtreeClosed DEF Walks
<1> QED
  BY <1>1, <1>2 DEF Walks

LEMMA DeleteNextRowSteps ==
  ASSUME SqlInv, NEW c \in Callers, DeleteNextRow(c)
  PROVE  \E w : Steps(c, w)
<1>1. PICK r \in BusyCall : /\ r = calls[c] /\ SoundCall(r, pools, accounts)
                            /\ r.op \in {"cascadePool", "cascadeAccount"} /\ r.pc = "rows"
  BY UnderWay DEF DeleteNextRow
<1>2. UNCHANGED <<backend, accounts>>
  BY DEF DeleteNextRow, Runs
<1>3. PICK i \in r.todo :
        /\ Kill({i})
        /\ Reply(c, "ok") \/ Continue(c, [r EXCEPT !.todo = r.todo \ {i}])
  BY <1>1 DEF DeleteNextRow, Topmost
<1>4. PoolsStep /\ AccountsStep
  BY <1>2, <1>3 DEF PoolsStep, AccountsStep
<1>5. CASE Continue(c, [r EXCEPT !.todo = r.todo \ {i}])
  <2>1. PICK w : w = [r EXCEPT !.todo = r.todo \ {i}]
    OBVIOUS
  <2>2. /\ w \in BusyCall /\ w.op = r.op /\ w.pc = r.pc /\ w.id = r.id
        /\ w.snap = r.snap /\ w.todo = r.todo \ {i}
    BY <1>1, <2>1 DEF BusyCall
  <2>3. \A roots : Walks(r, roots, pools) => Walks(w, roots, pools')
    BY <1>3, <2>2, Walked DEF SqlInv
  <2>4. DOMAIN pools' = DOMAIN pools /\ accounts' = accounts
    BY <1>2, <1>3, Killed DEF SqlInv
  <2>5. SoundCall(w, pools', accounts')
    BY <1>1, <2>2, <2>3, <2>4 DEF SoundCall
  <2> QED
    BY <1>2, <1>4, <1>5, <2>1, <2>2, <2>5 DEF Steps, CallState
<1> QED
  BY <1>2, <1>3, <1>4, <1>5, Returns

\* The accounts
LEMMA AccountSteps ==
  ASSUME SqlInv, NEW c \in Callers,
         \/ InsertAccount(c) \/ OpenAccount(c) \/ WriteAccount(c) \/ RereadAccount(c)
         \/ CountPools(c) \/ DeleteAccount(c)
  PROVE  \E w : Steps(c, w)
<1>1. CASE InsertAccount(c)
  <2>1. PICK r \in BusyCall : /\ r = calls[c] /\ SoundCall(r, pools, accounts)
                              /\ r.op = "createAccount"
    BY <1>1, UnderWay DEF InsertAccount
  <2>2. UNCHANGED <<backend, pools>>
    BY <1>1 DEF InsertAccount, Runs
  <2>3. PICK row \in AccountRow : row = [key |-> r.with.key, live |-> TRUE]
    BY <2>1 DEF SoundCall, AccountWith, AccountRow
  <2>4. \/ Reply(c, "conflict") /\ UNCHANGED accounts
        \/ accounts' = Append(accounts, row) /\ Reply(c, "ok")
    BY <1>1, <2>1, <2>3 DEF InsertAccount
  <2> QED
    BY <2>2, <2>4, Returns DEF PoolsStep, AccountsStep
<1>2. CASE OpenAccount(c)
  <2>1. PICK r \in BusyCall : /\ r = calls[c] /\ SoundCall(r, pools, accounts)
                              /\ r.op = "updateAccount"
    BY <1>2, UnderWay DEF OpenAccount
  <2>2. UNCHANGED <<backend, pools, accounts>>
    BY <1>2 DEF OpenAccount, Runs
  <2>3. CASE Continue(c, [r EXCEPT !.pc = "write", !.cursors = 1])
    <3>1. PICK w : w = [r EXCEPT !.pc = "write", !.cursors = 1]
      OBVIOUS
    <3>2. w \in BusyCall /\ w.op = "updateAccount"
      <4>1. "write" \in Stages /\ 1 \in Int
        BY DEF Stages
      <4> QED
        BY <2>1, <3>1, <4>1 DEF BusyCall
    <3> QED
      BY <2>2, <2>3, <3>1, <3>2, Reads DEF SoundCall
  <2>4. CASE Reply(c, "notFound")
    BY <2>2, <2>4, Returns DEF PoolsStep, AccountsStep
  <2> QED
    BY <1>2, <2>1, <2>3, <2>4 DEF OpenAccount
<1>3. CASE WriteAccount(c)
  <2>0. "reread" \in Stages
    BY DEF Stages
  <2>1. PICK r \in BusyCall : /\ r = calls[c] /\ SoundCall(r, pools, accounts)
                              /\ r.op = "updateAccount"
    BY <1>3, UnderWay DEF WriteAccount
  <2>2. UNCHANGED <<backend, pools, accounts>>
    BY <1>3 DEF WriteAccount, Runs
  <2>3. CASE Continue(c, [r EXCEPT !.pc = "reread"])
    <3>1. PICK w : w = [r EXCEPT !.pc = "reread"]
      OBVIOUS
    <3>2. w \in BusyCall /\ w.op = "updateAccount"
      BY <2>0, <2>1, <3>1, NextStatement
    <3> QED
      BY <2>2, <2>3, <3>1, <3>2, Reads DEF SoundCall
  <2>4. CASE Reply(c, "notFound") \/ Reply(c, "ok")
    BY <2>2, <2>4, Returns DEF PoolsStep, AccountsStep
  <2> QED
    BY <1>3, <2>1, <2>3, <2>4 DEF WriteAccount
<1>4. CASE RereadAccount(c)
  BY <1>4, Returns DEF RereadAccount, Runs, PoolsStep, AccountsStep
<1>5. CASE CountPools(c)
  <2>1. PICK r \in BusyCall : /\ r = calls[c] /\ SoundCall(r, pools, accounts)
                              /\ r.op = "deleteAccount"
    BY <1>5, UnderWay DEF CountPools
  <2>2. UNCHANGED <<backend, pools, accounts>>
    BY <1>5 DEF CountPools, Runs
  <2>3. CASE OwnedIn(pools, r.id) = {} /\ Continue(c, [r EXCEPT !.pc = "delete", !.snap = Listed])
    <3>1. PICK seen \in Seq(Seq(PoolRow)) : seen = Listed /\ seen # <<>> /\ Head(seen) = pools
      BY ListedTyped DEF SqlInv
    <3>2. PICK w : w = [r EXCEPT !.pc = "delete", !.snap = seen]
      OBVIOUS
    <3>3. /\ w \in BusyCall /\ w.op = "deleteAccount" /\ w.id = r.id /\ w.snap = seen
      BY <2>1, <3>2 DEF BusyCall, Stages
    <3>4. SoundCall(w, pools, accounts)
      BY <2>1, <2>3, <3>1, <3>3 DEF SoundCall
    <3> QED
      BY <2>2, <2>3, <3>1, <3>2, <3>3, <3>4, Reads
  <2>4. CASE Reply(c, "conflict")
    BY <2>2, <2>4, Returns DEF PoolsStep, AccountsStep
  <2> QED
    BY <1>5, <2>1, <2>3, <2>4 DEF CountPools
<1>6. CASE DeleteAccount(c)
  <2>1. PICK r \in BusyCall : /\ r = calls[c] /\ SoundCall(r, pools, accounts)
                              /\ r.op = "deleteAccount"
    BY <1>6, UnderWay DEF DeleteAccount
  <2>2. PoolsStep /\ AccountsStep /\ UNCHANGED backend
    BY <1>6, <2>1 DEF DeleteAccount, Runs, PoolsStep, AccountsStep, SoundCall
  <2> QED
    BY <1>6, <2>2, Returns DEF DeleteAccount
<1> QED
  BY <1>1, <1>2, <1>3, <1>4, <1>5, <1>6

\* The deletion of an account and its pools
LEMMA CascadeAccountSteps ==
  ASSUME SqlInv, NEW c \in Callers,
         \/ ResolveForCascade(c) \/ DeleteTrees(c) \/ ListForAccount(c)
         \/ LookupAccount(c) \/ DeleteOwner(c)
  PROVE  \E w : Steps(c, w)
<1>1. CASE ResolveForCascade(c)
  <2>0. "deleteTrees" \in Stages
    BY DEF Stages
  <2>1. PICK r \in BusyCall : /\ r = calls[c] /\ SoundCall(r, pools, accounts)
                              /\ r.op = "cascadeAccount" /\ r.pc = "resolve"
    BY <1>1, UnderWay DEF ResolveForCascade
  <2>2. UNCHANGED <<backend, pools, accounts>>
    BY <1>1 DEF ResolveForCascade, Runs
  <2>3. CASE Continue(c, [r EXCEPT !.pc = "deleteTrees"])
    <3>1. PICK w : w = [r EXCEPT !.pc = "deleteTrees"]
      OBVIOUS
    <3>2. /\ w \in BusyCall /\ w.op = "cascadeAccount" /\ w.pc = "deleteTrees" /\ w.id = r.id
          /\ w.snap = r.snap /\ w.todo = r.todo
      BY <2>0, <2>1, <3>1, NextStatement
    <3>3. SoundCall(w, pools, accounts)
      BY <2>1, <3>2 DEF SoundCall
    <3> QED
      BY <2>2, <2>3, <3>1, <3>2, <3>3, Reads
  <2>4. CASE Reply(c, "notFound")
    BY <2>2, <2>4, Returns DEF PoolsStep, AccountsStep
  <2> QED
    BY <1>1, <2>1, <2>3, <2>4 DEF ResolveForCascade
<1>2. CASE DeleteTrees(c)
  <2>1. PICK r \in BusyCall : /\ r = calls[c] /\ SoundCall(r, pools, accounts)
                              /\ r.op = "cascadeAccount" /\ r.pc = "deleteTrees"
    BY <1>2, UnderWay DEF DeleteTrees
  <2>2. UNCHANGED <<backend, accounts>>
    BY <1>2 DEF DeleteTrees, Runs
  <2>3. PICK tree : /\ tree = SubtreeIn(pools, OwnedIn(pools, r.id)) /\ Kill(tree)
                    /\ Continue(c, [r EXCEPT !.pc = "rows", !.snap = Listed])
    BY <1>2, <2>1 DEF DeleteTrees
  <2>4. PICK seen \in Seq(Seq(PoolRow)) : seen = Listed /\ seen # <<>> /\ Head(seen) = pools
    BY ListedTyped DEF SqlInv
  <2>5. PICK w : w = [r EXCEPT !.pc = "rows", !.snap = seen]
    OBVIOUS
  <2>6. /\ w \in BusyCall /\ w.op = "cascadeAccount" /\ w.pc = "rows" /\ w.id = r.id
        /\ w.snap = seen /\ w.todo = r.todo
    BY <2>1, <2>5 DEF BusyCall, Stages
  <2>7. r.todo = {} /\ r.id \in DOMAIN accounts
    BY <2>1 DEF SoundCall
  <2>8. /\ DOMAIN pools' = DOMAIN pools
        /\ \A j \in DOMAIN pools : pools'[j].live <=> pools[j].live /\ j \notin tree
    BY <2>3, Killed DEF SqlInv
  <2>9. tree \subseteq DOMAIN pools
    BY <2>3, SubtreeClosed
  <2>10. Walks(w, OwnedIn(Head(w.snap), w.id), pools')
    BY <2>3, <2>4, <2>6, <2>7, <2>8, <2>9 DEF Walks
  <2>11. SoundCall(w, pools', accounts')
    BY <2>2, <2>6, <2>7, <2>10 DEF SoundCall
  <2> QED
    BY <2>2, <2>3, <2>4, <2>5, <2>6, <2>11 DEF Steps, PoolsStep, AccountsStep, CallState
<1>3. CASE ListForAccount(c)
  <2>1. PICK r \in BusyCall : /\ r = calls[c] /\ SoundCall(r, pools, accounts)
                              /\ r.op = "cascadeAccount" /\ r.pc = "list"
    BY <1>3, UnderWay DEF ListForAccount
  <2>2. UNCHANGED <<backend, pools, accounts>>
    BY <1>3 DEF ListForAccount, Runs
  <2>3. PICK seen \in Seq(Seq(PoolRow)) : seen = Listed /\ seen # <<>> /\ Head(seen) = pools
    BY ListedTyped DEF SqlInv
  <2>4. PICK w : w = [r EXCEPT !.pc = "lookup", !.snap = seen]
    OBVIOUS
  <2>5. /\ w \in BusyCall /\ w.op = "cascadeAccount" /\ w.pc = "lookup" /\ w.id = r.id
        /\ w.snap = seen
    BY <2>1, <2>4 DEF BusyCall, Stages
  <2>6. SoundCall(w, pools, accounts)
    BY <2>1, <2>3, <2>5 DEF SoundCall
  <2>7. Continue(c, w)
    BY <1>3, <2>1, <2>3, <2>4 DEF ListForAccount
  <2> QED
    BY <2>2, <2>5, <2>6, <2>7, Reads
<1>4. CASE LookupAccount(c)
  <2>1. PICK r \in BusyCall : /\ r = calls[c] /\ SoundCall(r, pools, accounts)
                              /\ r.op = "cascadeAccount" /\ r.pc = "lookup"
    BY <1>4, UnderWay DEF LookupAccount
  <2>2. UNCHANGED <<backend, pools, accounts>>
    BY <1>4 DEF LookupAccount, Runs
  <2>3. PICK rows : rows = Head(r.snap)
    OBVIOUS
  <2>4. CASE Continue(c, [r EXCEPT !.pc = "rows", !.todo = SubtreeIn(rows, OwnedIn(rows, r.id))])
    <3>1. r.snap # <<>> /\ DOMAIN rows \subseteq DOMAIN pools /\ r.id \in DOMAIN accounts
      BY <2>1, <2>3 DEF SoundCall
    <3>2. DOMAIN pools \subseteq Nat
      BY DEF SqlInv, SqlTyped
    <3>3. PICK tree \in SUBSET Nat : tree = SubtreeIn(rows, OwnedIn(rows, r.id))
      BY <3>1, <3>2, SubtreeClosed
    <3>4. PICK w : w = [r EXCEPT !.pc = "rows", !.todo = tree]
      OBVIOUS
    <3>5. /\ w \in BusyCall /\ w.op = "cascadeAccount" /\ w.pc = "rows" /\ w.id = r.id
          /\ w.snap = r.snap /\ w.todo = tree
      BY <2>1, <3>4 DEF BusyCall, Stages
    <3>6. Walks(w, OwnedIn(Head(w.snap), w.id), pools)
      BY <2>3, <3>1, <3>3, <3>5 DEF Walks
    <3>7. SoundCall(w, pools, accounts)
      BY <3>1, <3>5, <3>6 DEF SoundCall
    <3> QED
      BY <2>2, <2>4, <3>3, <3>4, <3>5, <3>7, Reads
  <2>5. CASE Reply(c, "notFound")
    BY <2>2, <2>5, Returns DEF PoolsStep, AccountsStep
  <2> QED
    BY <1>4, <2>1, <2>3, <2>4, <2>5 DEF LookupAccount
<1>5. CASE DeleteOwner(c)
  <2>1. PICK r \in BusyCall : /\ r = calls[c] /\ SoundCall(r, pools, accounts)
                              /\ r.op = "cascadeAccount"
    BY <1>5, UnderWay DEF DeleteOwner
  <2>2. PoolsStep /\ AccountsStep /\ UNCHANGED backend
    BY <1>5, <2>1 DEF DeleteOwner, Runs, PoolsStep, AccountsStep, SoundCall
  <2> QED
    BY <1>5, <2>2, Returns DEF DeleteOwner
<1> QED
  BY <1>1, <1>2, <1>3, <1>4, <1>5

\* The statistics
LEMMA StatsSteps ==
  ASSUME SqlInv, NEW c \in Callers,
         GetForStats(c) \/ ListForHierarchy(c) \/ ListAll(c) \/ ListDirect(c)
  PROVE  \E w : Steps(c, w)
<1>0. UNCHANGED <<backend, pools, accounts>> /\ PoolsStep /\ AccountsStep
  BY DEF GetForStats, ListForHierarchy, ListAll, ListDirect, Runs, PoolsStep, AccountsStep
<1>1. CASE GetForStats(c)
  <2>1. PICK r \in BusyCall : /\ r = calls[c] /\ SoundCall(r, pools, accounts)
                              /\ r.op = "stats" /\ (LivePool(r.id) => r.id \in Nat)
    BY <1>1, UnderWay DEF GetForStats, LivePool, SqlInv, SqlTyped
  <2>2. PICK pc \in {"listAll", "direct"} :
          pc = IF backend = "postgres" THEN "listAll" ELSE "direct"
    OBVIOUS
  <2>3. CASE LivePool(r.id) /\ Continue(c, [r EXCEPT !.pc = pc, !.todo = {r.id}])
    <3>1. PICK w : w = [r EXCEPT !.pc = pc, !.todo = {r.id}]
      OBVIOUS
    <3>2. w \in BusyCall /\ w.op = "stats" /\ w.pc = pc
      <4>1. pc \in Stages /\ {r.id} \in SUBSET Nat
        BY <2>1, <2>2, <2>3 DEF Stages
      <4> QED
        BY <2>1, <3>1, <4>1 DEF BusyCall
    <3>3. SoundCall(w, pools, accounts)
      BY <3>2 DEF SoundCall
    <3> QED
      BY <1>0, <2>3, <3>1, <3>2, <3>3, Reads
  <2>4. CASE Reply(c, "notFound")
    BY <1>0, <2>4, Returns
  <2> QED
    BY <1>1, <2>1, <2>2, <2>3, <2>4 DEF GetForStats
<1>2. CASE ListForHierarchy(c)
  <2>1. PICK r \in BusyCall : /\ r = calls[c] /\ SoundCall(r, pools, accounts)
                              /\ r.op = "hierarchy"
    BY <1>2, UnderWay DEF ListForHierarchy
  <2>2. PICK S : S = SubtreeIn(pools, IF r.id = Nil THEN ChildrenIn(pools, Nil) ELSE {r.id})
    OBVIOUS
  <2>3. CASE Continue(c, [r EXCEPT !.pc = "direct", !.todo = S])
    <3>1. PICK w : w = [r EXCEPT !.pc = "direct", !.todo = S]
      OBVIOUS
    <3>2. S \in SUBSET Nat
      BY <2>2, SubtreeClosed DEF SqlInv, SqlTyped
    <3>3. w \in BusyCall /\ w.op = "hierarchy" /\ w.pc = "direct"
      BY <2>1, <3>1, <3>2 DEF BusyCall, Stages
    <3>4. SoundCall(w, pools, accounts)
      BY <3>3 DEF SoundCall
    <3> QED
      BY <1>0, <2>3, <3>1, <3>3, <3>4, Reads
  <2>4. CASE Reply(c, "notFound") \/ Reply(c, "ok")
    BY <1>0, <2>4, Returns
  <2> QED
    BY <1>2, <2>1, <2>2, <2>3, <2>4 DEF ListForHierarchy
<1>3. CASE ListAll(c)
  BY <1>0, <1>3, Returns DEF ListAll
<1>4. CASE ListDirect(c)
  <2>0. PICK op \in {"stats", "hierarchy"} : AtStatement(c, op, "direct")
    BY <1>4 DEF ListDirect
  <2>1. PICK r \in BusyCall : /\ r = calls[c] /\ SoundCall(r, pools, accounts)
                              /\ r.op \in {"stats", "hierarchy"}
    BY <2>0, UnderWay
  <2>2. PICK i \in r.todo : Continue(c, [r EXCEPT !.pc = "count", !.id = i, !.todo = r.todo \ {i}])
    BY <1>4, <2>1 DEF ListDirect, Topmost
  <2>3. PICK w : w = [r EXCEPT !.pc = "count", !.id = i, !.todo = r.todo \ {i}]
    OBVIOUS
  <2>4. w \in BusyCall /\ w.op = r.op /\ w.pc = "count"
    BY <2>1, <2>3 DEF BusyCall, Stages, Ref
  <2>5. SoundCall(w, pools, accounts)
    BY <2>1, <2>4 DEF SoundCall
  <2> QED
    BY <1>0, <2>2, <2>3, <2>4, <2>5, Reads
<1> QED
  BY <1>1, <1>2, <1>3, <1>4

\* A call whose innermost result set is read goes on with one or more of them open
LEMMA Counts ==
  ASSUME SqlInv, NEW c \in Callers, UNCHANGED <<backend, pools, accounts>>,
         NEW r \in BusyCall, r.op \in {"stats", "hierarchy"},
         NEW stack \in Seq(SUBSET Nat), stack # <<>>, NEW open \in Int,
         NEW w, w = [r EXCEPT !.pc = "next", !.cursors = open, !.stack = stack], Continue(c, w)
  PROVE  \E v : Steps(c, v)
<1>1. w \in BusyCall /\ w.op = r.op /\ w.stack = stack
  BY DEF BusyCall, Stages
<1>2. SoundCall(w, pools, accounts)
  BY <1>1 DEF SoundCall
<1> QED
  BY <1>1, <1>2, Reads

LEMMA CountSteps ==
  ASSUME SqlInv, NEW c \in Callers,
         OpenDescendants(c) \/ NextDescendant(c) \/ CloseDescendants(c)
  PROVE  \E w : Steps(c, w)
<1>0. UNCHANGED <<backend, pools, accounts>> /\ PoolsStep /\ AccountsStep
  BY DEF OpenDescendants, Descend, NextDescendant, CloseDescendants, Runs, PoolsStep, AccountsStep
<1>1. \A i : ChildrenIn(pools, i) \in SUBSET Nat
  BY DEF SqlInv, SqlTyped, ChildrenIn
<1>2. CASE OpenDescendants(c)
  <2>1. PICK r \in BusyCall : r = calls[c] /\ r.op \in {"stats", "hierarchy"}
    BY <1>2, UnderWay DEF OpenDescendants
  <2>2. r.cursors + 1 \in Int /\ r.stack \in Seq(SUBSET Nat)
    BY <2>1 DEF BusyCall
  <2>3. PICK stack : stack = <<ChildrenIn(pools, r.id)>> \o r.stack
    OBVIOUS
  <2>4. stack \in Seq(SUBSET Nat) /\ stack # <<>>
    BY <1>1, <2>2, <2>3
  <2>5. PICK w : w = [r EXCEPT !.pc = "next", !.cursors = r.cursors + 1, !.stack = stack]
    OBVIOUS
  <2>6. Continue(c, w)
    BY <1>2, <2>1, <2>3, <2>5 DEF OpenDescendants, Descend
  <2> QED
    BY <1>0, <2>1, <2>2, <2>4, <2>5, <2>6, Counts
<1>3. CASE NextDescendant(c)
  <2>0. PICK op \in {"stats", "hierarchy"} : AtStatement(c, op, "next")
    BY <1>3 DEF NextDescendant, Counting
  <2>1. PICK r \in BusyCall : /\ r = calls[c] /\ SoundCall(r, pools, accounts)
                              /\ r.op \in {"stats", "hierarchy"} /\ r.pc = "next"
    BY <2>0, UnderWay
  <2>2. r.cursors + 1 \in Int /\ r.stack \in Seq(SUBSET Nat) /\ r.stack # <<>>
    BY <2>1 DEF BusyCall, SoundCall
  <2>3. Head(r.stack) \in SUBSET Nat /\ Tail(r.stack) \in Seq(SUBSET Nat)
    BY <2>2
  <2>4. PICK i \in Head(r.stack) :
          Continue(c, [r EXCEPT !.cursors = r.cursors + 1,
                         !.stack = <<ChildrenIn(pools, i), Head(r.stack) \ {i}>> \o Tail(r.stack)])
    BY <1>3, <2>1 DEF NextDescendant
  <2>5. PICK stack : stack = <<ChildrenIn(pools, i), Head(r.stack) \ {i}>> \o Tail(r.stack)
    OBVIOUS
  <2>6. stack \in Seq(SUBSET Nat) /\ stack # <<>>
    BY <1>1, <2>3, <2>5
  <2>7. PICK w : w = [r EXCEPT !.cursors = r.cursors + 1, !.stack = stack]
    OBVIOUS
  <2>8. w = [r EXCEPT !.pc = "next", !.cursors = r.cursors + 1, !.stack = stack]
    BY <2>1, <2>7 DEF BusyCall
  <2>9. Continue(c, w)
    BY <2>4, <2>5, <2>7
  <2> QED
    BY <1>0, <2>1, <2>2, <2>6, <2>8, <2>9, Counts
<1>4. CASE CloseDescendants(c)
  <2>0. PICK op \in {"stats", "hierarchy"} : AtStatement(c, op, "next")
    BY <1>4 DEF CloseDescendants, Counting
  <2>1. PICK r \in BusyCall : /\ r = calls[c] /\ SoundCall(r, pools, accounts)
                              /\ r.op \in {"stats", "hierarchy"} /\ r.pc = "next"
    BY <2>0, UnderWay
  <2>2. r.cursors - 1 \in Int /\ r.stack \in Seq(SUBSET Nat) /\ r.stack # <<>>
    BY <2>1 DEF BusyCall, SoundCall
  <2>3. PICK rest \in Seq(SUBSET Nat) : rest = Tail(r.stack)
    <3>1. Tail(r.stack) \in Seq(SUBSET Nat)
      BY <2>2
    <3> QED
      BY <3>1
  <2>4. CASE rest # <<>> /\ Continue(c, [r EXCEPT !.cursors = r.cursors - 1, !.stack = rest])
    <3>1. PICK w : w = [r EXCEPT !.cursors = r.cursors - 1, !.stack = rest]
      OBVIOUS
    <3>2. w = [r EXCEPT !.pc = "next", !.cursors = r.cursors - 1, !.stack = rest]
      BY <2>1, <3>1 DEF BusyCall
    <3> QED
      BY <1>0, <2>1, <2>2, <2>4, <3>1, <3>2, Counts
  <2>5. CASE Continue(c, [r EXCEPT !.pc = "direct", !.cursors = r.cursors - 1, !.stack = rest])
    <3>1. PICK w : w = [r EXCEPT !.pc = "direct", !.cursors = r.cursors - 1, !.stack = rest]
      OBVIOUS
    <3>2. w \in BusyCall /\ w.op = r.op /\ w.pc = "direct"
      BY <2>1, <2>2, <3>1 DEF BusyCall, Stages
    <3>3. SoundCall(w, pools, accounts)
      BY <2>1, <3>2 DEF SoundCall
    <3> QED
      BY <1>0, <2>5, <3>1, <3>2, <3>3, Reads
  <2>6. CASE Reply(c, "ok")
    BY <1>0, <2>6, Returns
  <2> QED
    BY <1>4, <2>1, <2>3, <2>4, <2>5, <2>6 DEF CloseDescendants
<1> QED
  BY <1>2, <1>3, <1>4

-----------------------------------------------------------------------------
(* The invariant *)

LEMMA NextSteps ==
  ASSUME SqlInv, NEW c \in Callers, SqlStart(c) \/ SqlStep(c) \/ StatementFails(c)
  PROVE  \E w : Steps(c, w)
<1>1. CASE SqlStep(c)
  BY <1>1, PoolSteps, DeletePoolSteps, CascadeSteps, DeleteNextRowSteps, AccountSteps,
     CascadeAccountSteps, StatsSteps, CountSteps DEF SqlStep
<1>2. CASE StatementFails(c)
  BY <1>2, Returns DEF StatementFails, PoolsStep, AccountsStep
<1> QED
  BY <1>1, <1>2, StartSteps

LEMMA SqlInvInit == SqlInit => SqlInv
<1> SUFFICES ASSUME SqlInit PROVE SqlInv
  OBVIOUS
<1>1. Idle("none") \in CallState
  BY IdleTyped
<1>2. SqlTyped
  BY <1>1, SqlAssumption DEF SqlInit, SqlTyped
<1>3. UniqueIn(pools, backend)
  BY SqlAssumption DEF SqlInit
<1>4. ASSUME NEW c \in Callers PROVE SoundCall(calls[c], pools, accounts)
  BY IdleTyped DEF SqlInit, SoundCall
<1> QED
  BY <1>2, <1>3, <1>4 DEF SqlInv

LEMMA SqlInvStep == SqlInv /\ [SqlNext]_sqlVars => SqlInv'
<1> SUFFICES ASSUME SqlInv, [SqlNext]_sqlVars PROVE SqlInv'
  OBVIOUS
<1>1. CASE UNCHANGED sqlVars
  BY <1>1 DEF sqlVars, SqlInv, SqlTyped
<1>2. ASSUME NEW c \in Callers, SqlStart(c) \/ SqlStep(c) \/ StatementFails(c)
      PROVE  SqlInv'
  BY <1>2, NextSteps, StepSound
<1> QED
  BY <1>1, <1>2 DEF SqlNext

(***************************************************************************)
(* Whatever calls race, and wherever they fail: what a cascade has found   *)
(* below its pool or account is either deleted or still on its list.       *)
(***************************************************************************)
THEOREM SqlInvariant == SqlSpec => []SqlInv
<1> QED
  BY SqlInvInit, SqlInvStep, PTL DEF SqlSpec

(***************************************************************************)
(* No two live pools of one parent have one block, in either backend:      *)
(* each store's unique index is enough, though they are not the same.      *)
(***************************************************************************)
THEOREM NoTwinsTheorem == SqlSpec => []NoTwins
<1>1. SqlInv => NoTwins
  BY DEF SqlInv, UniqueIn, NoTwins
<1> QED
  BY <1>1, SqlInvariant, PTL

-----------------------------------------------------------------------------
(* What the deletes leave behind *)

\* Excused of SqlStore, for a pool below a pool and a pool of an account
ChildExcused(c, j, i) ==
  /\ calls[c].snap # <<>>
  /\ \/ LET rows == Head(calls[c].snap)
        IN ~ (j \in DOMAIN rows /\ rows[j].live /\ rows[j].parent = i)
     \/ Busy(c)' /\ j \in calls'[c].todo

OwnedExcused(c, j, a) ==
  /\ calls[c].snap # <<>>
  /\ \/ LET rows == Head(calls[c].snap)
        IN ~ (j \in DOMAIN rows /\ rows[j].live /\ rows[j].account = a)
     \/ Busy(c)' /\ j \in calls'[c].todo

\* The step of caller c strands nothing but by a race
StrandsNone(c) ==
  /\ \A i \in DOMAIN pools : pools[i].live /\ ~ pools'[i].live =>
       \A j \in ChildrenIn(pools, i)' : ChildExcused(c, j, i)
  /\ \A a \in DOMAIN accounts : accounts[a].live /\ ~ accounts'[a].live =>
       \A j \in OwnedIn(pools, a)' : OwnedExcused(c, j, a)

Strands == \A c \in Callers : Stepped(c) => StrandsNone(c)

LEMMA DeletePoolStrandsNone ==
  ASSUME SqlInv, NEW c \in Callers, DeletePool(c)
  PROVE  StrandsNone(c)
<1>1. PICK r \in BusyCall : /\ r = calls[c] /\ SoundCall(r, pools, accounts)
                            /\ r.op = "deletePool" /\ r.pc = "delete"
  BY UnderWay DEF DeletePool
<1>2. /\ accounts' = accounts
      /\ \A i \in DOMAIN pools : pools'[i].live <=> pools[i].live /\ i # r.id
  BY <1>1, Killed DEF DeletePool, SqlInv
<1>3. r.snap # <<>> /\ ChildrenIn(Head(r.snap), r.id) = {}
  BY <1>1 DEF SoundCall
<1>4. \A j : ChildExcused(c, j, r.id)
  BY <1>1, <1>3 DEF ChildExcused, ChildrenIn
<1> QED
  BY <1>2, <1>4 DEF StrandsNone

\* A set of pools with all that are below them, deleted at once
LEMMA TreeStrandsNone ==
  ASSUME SqlInv, NEW c \in Callers, NEW S, Kill(SubtreeIn(pools, S)), UNCHANGED accounts
  PROVE  StrandsNone(c)
<1>1. PICK tree : tree = SubtreeIn(pools, S)
  OBVIOUS
<1>2. /\ DOMAIN pools' = DOMAIN pools
      /\ \A i \in DOMAIN pools : pools'[i].parent = pools[i].parent
                                  /\ (pools'[i].live <=> pools[i].live /\ i \notin tree)
  BY <1>1, Killed DEF SqlInv
<1>3. ClosedIn(pools, tree)
  BY <1>1, SubtreeClosed
<1>4. ASSUME NEW i \in DOMAIN pools, pools[i].live, ~ pools'[i].live PROVE ChildrenIn(pools, i)' = {}
  BY <1>2, <1>3, <1>4 DEF ChildrenIn, ClosedIn
<1> QED
  BY <1>4 DEF StrandsNone

LEMMA NextRowStrandsNone ==
  ASSUME SqlInv, NEW c \in Callers, DeleteNextRow(c)
  PROVE  StrandsNone(c)
<1>1. PICK r \in BusyCall : /\ r = calls[c] /\ SoundCall(r, pools, accounts)
                            /\ r.op \in {"cascadePool", "cascadeAccount"} /\ r.pc = "rows"
  BY UnderWay DEF DeleteNextRow
<1>2. PICK i \in r.todo :
        /\ Kill({i})
        /\ \/ r.todo \ {i} = {}
           \/ Continue(c, [r EXCEPT !.todo = r.todo \ {i}])
  BY <1>1 DEF DeleteNextRow, Topmost
<1>3. PICK roots : Walks(r, roots, pools)
  BY <1>1 DEF SoundCall
<1>4. PICK rows : rows = Head(r.snap)
  OBVIOUS
<1>5. /\ DOMAIN pools' = DOMAIN pools
      /\ \A j \in DOMAIN pools : pools'[j].parent = pools[j].parent
                                  /\ (pools'[j].live <=> pools[j].live /\ j # i)
  BY <1>2, Killed DEF SqlInv
<1>6. /\ r.snap # <<>> /\ r.todo \subseteq SubtreeIn(rows, roots)
      /\ \A j \in SubtreeIn(rows, roots) \ r.todo : ~ pools[j].live
      /\ ClosedIn(rows, SubtreeIn(rows, roots))
  BY <1>3, <1>4, SubtreeClosed DEF Walks
<1>7. ASSUME NEW j \in ChildrenIn(pools, i)'
      PROVE  ChildExcused(c, j, i)
  <2>1. pools[j].live /\ j # i
    BY <1>5, <1>7 DEF ChildrenIn
  <2>2. CASE ~ (j \in DOMAIN rows /\ rows[j].live /\ rows[j].parent = i)
    BY <1>1, <1>4, <1>6, <2>2 DEF ChildExcused
  <2>3. CASE j \in DOMAIN rows /\ rows[j].live /\ rows[j].parent = i
    <3>1. j \in r.todo \ {i}
      BY <1>6, <2>1, <2>3 DEF ClosedIn
    <3>2. PICK w : w = [r EXCEPT !.todo = r.todo \ {i}]
      OBVIOUS
    <3>3. w \in BusyCall /\ w.todo = r.todo \ {i}
      BY <3>2 DEF BusyCall
    <3>4. calls'[c] = w
      BY <1>2, <3>1, <3>2, <3>3, ContinueStep DEF SqlInv, CallState
    <3>5. Busy(c)' /\ j \in calls'[c].todo
      BY <3>1, <3>3, <3>4 DEF Busy, BusyCall, Ops
    <3> QED
      BY <1>1, <1>6, <3>5 DEF ChildExcused
  <2> QED
    BY <2>2, <2>3
<1>8. accounts' = accounts
  BY DEF DeleteNextRow
<1> QED
  BY <1>5, <1>7, <1>8 DEF StrandsNone

LEMMA OwnerStrandsNone ==
  ASSUME SqlInv, NEW c \in Callers, DeleteAccount(c) \/ DeleteOwner(c)
  PROVE  StrandsNone(c)
<1>1. PICK r \in BusyCall : /\ r = calls[c] /\ SoundCall(r, pools, accounts)
                            /\ \/ DeleteAccount(c) /\ r.op = "deleteAccount" /\ r.pc = "delete"
                               \/ DeleteOwner(c) /\ r.op = "cascadeAccount" /\ r.pc = "rows"
                                  /\ r.todo = {}
  BY UnderWay DEF DeleteAccount, DeleteOwner
<1>2. /\ pools' = pools
      /\ \A a \in DOMAIN accounts : a # r.id => accounts'[a] = accounts[a]
  BY <1>1 DEF DeleteAccount, DeleteOwner, KillAccount
<1>3. PICK rows : rows = Head(r.snap)
  OBVIOUS
<1>4. /\ r.snap # <<>>
      /\ \A j \in OwnedIn(rows, r.id) : ~ pools[j].live
  <2>1. CASE r.op = "deleteAccount"
    BY <1>1, <1>3, <2>1 DEF SoundCall
  <2>2. CASE r.op = "cascadeAccount"
    <3>1. OwnedIn(rows, r.id) \subseteq SubtreeIn(rows, OwnedIn(rows, r.id))
      BY SubtreeClosed DEF OwnedIn
    <3> QED
      BY <1>1, <1>3, <2>2, <3>1 DEF SoundCall, Walks
  <2> QED
    BY <1>1, <2>1, <2>2
<1>5. ASSUME NEW j \in OwnedIn(pools, r.id)' PROVE OwnedExcused(c, j, r.id)
  BY <1>1, <1>2, <1>3, <1>4, <1>5 DEF OwnedExcused, OwnedIn
<1> QED
  BY <1>2, <1>5 DEF StrandsNone

LEMMA KeepingStrandsNone ==
  ASSUME NEW c \in Callers,
         \A i \in DOMAIN pools : pools[i].live => pools'[i].live,
         \A a \in DOMAIN accounts : accounts[a].live => accounts'[a].live
  PROVE  StrandsNone(c)
BY DEF StrandsNone

LEMMA StepStrandsNone ==
  ASSUME SqlInv, NEW c \in Callers, SqlStart(c) \/ SqlStep(c) \/ StatementFails(c)
  PROVE  StrandsNone(c)
<1>1. CASE UNCHANGED <<pools, accounts>>
  BY <1>1, KeepingStrandsNone
<1>2. SqlStart(c) \/ StatementFails(c) => UNCHANGED <<pools, accounts>>
  BY DEF SqlStart, StartCreatePool, StartUpdatePool, StartDeletePool, StartDeletePoolCascade,
         StartCreateAccount, StartUpdateAccount, StartDeleteAccount, StartDeleteAccountCascade,
         StartStats, StartHierarchy, Begin, StatementFails
<1>3. \/ ResolveParent(c) \/ ResolveAccount(c) \/ ReadPool(c) \/ RereadPool(c)
      \/ CountChildren(c) \/ ListForCascade(c) \/ OpenAccount(c) \/ WriteAccount(c)
      \/ RereadAccount(c) \/ CountPools(c) \/ ResolveForCascade(c) \/ ListForAccount(c)
      \/ LookupAccount(c) \/ GetForStats(c) \/ ListForHierarchy(c) \/ ListAll(c)
      \/ ListDirect(c) \/ OpenDescendants(c) \/ NextDescendant(c) \/ CloseDescendants(c)
      => UNCHANGED <<pools, accounts>>
  BY DEF ResolveParent, ResolveAccount, ReadPool, RereadPool, CountChildren, ListForCascade,
         OpenAccount, WriteAccount, RereadAccount, CountPools, ResolveForCascade, ListForAccount,
         LookupAccount, GetForStats, ListForHierarchy, ListAll, ListDirect, OpenDescendants,
         Descend, NextDescendant, CloseDescendants
<1>4. CASE InsertPool(c)
  <2>1. PICK row : pools' = pools \/ pools' = Append(pools, row)
    BY <1>4 DEF InsertPool
  <2>2. \A i \in DOMAIN pools : pools'[i] = pools[i]
    BY <2>1 DEF SqlInv, SqlTyped
  <2> QED
    BY <1>4, <2>2, KeepingStrandsNone DEF InsertPool
<1>5. CASE WritePool(c)
  <2>1. PICK i, a : pools' = pools \/ pools' = [pools EXCEPT ![i].account = a]
    BY <1>5 DEF WritePool
  <2>2. \A j \in DOMAIN pools : pools[j] \in PoolRow
    BY DEF SqlInv, SqlTyped
  <2>3. \A j \in DOMAIN pools : pools'[j].live = pools[j].live
    BY <2>1, <2>2 DEF PoolRow
  <2> QED
    BY <1>5, <2>3, KeepingStrandsNone DEF WritePool
<1>6. CASE InsertAccount(c)
  <2>1. PICK row : accounts' = accounts \/ accounts' = Append(accounts, row)
    BY <1>6 DEF InsertAccount
  <2>2. \A a \in DOMAIN accounts : accounts'[a] = accounts[a]
    BY <2>1 DEF SqlInv, SqlTyped
  <2> QED
    BY <1>6, <2>2, KeepingStrandsNone DEF InsertAccount
<1>7. CASE DeletePool(c)
  BY <1>7, DeletePoolStrandsNone
<1>8. CASE DeleteTree(c)
  <2>1. pools' = pools \/ Kill(SubtreeIn(pools, {calls[c].id}))
    BY <1>8 DEF DeleteTree
  <2> QED
    BY <1>1, <1>8, <2>1, TreeStrandsNone DEF DeleteTree
<1>9. CASE DeleteTrees(c)
  BY <1>9, TreeStrandsNone DEF DeleteTrees
<1>10. CASE DeleteNextRow(c)
  BY <1>10, NextRowStrandsNone
<1>11. CASE DeleteAccount(c) \/ DeleteOwner(c)
  BY <1>11, OwnerStrandsNone
<1> QED
  BY <1>1, <1>2, <1>3, <1>4, <1>5, <1>6, <1>7, <1>8, <1>9, <1>10, <1>11 DEF SqlStep

\* Only the caller that makes a step is moved by it
LEMMA OneSteps ==
  ASSUME SqlInv, NEW c \in Callers, SqlStart(c) \/ SqlStep(c) \/ StatementFails(c),
         NEW d \in Callers, d # c
  PROVE  calls'[d] = calls[d]
<1>1. PICK w : Steps(c, w)
  BY NextSteps
<1> QED
  BY <1>1, ContinueStep DEF Steps, SqlInv

LEMMA StrandsStep == SqlInv /\ [SqlNext]_sqlVars => Strands
<1> SUFFICES ASSUME SqlInv, [SqlNext]_sqlVars, NEW c \in Callers, Stepped(c)
             PROVE  StrandsNone(c)
  BY DEF Strands
<1>1. CASE UNCHANGED sqlVars
  BY <1>1 DEF sqlVars, Stepped
<1>2. ASSUME NEW d \in Callers, SqlStart(d) \/ SqlStep(d) \/ StatementFails(d)
      PROVE  StrandsNone(c)
  BY <1>2, OneSteps, StepStrandsNone DEF Stepped
<1> QED
  BY <1>1, <1>2 DEF SqlNext

(***************************************************************************)
(* What a cascade that reports success has done                            *)
(***************************************************************************)
Cleared(c) ==
  LET c0 == calls[c]
      rows == IF c0.snap = <<>> THEN pools ELSE Head(c0.snap)
  IN
  Busy(c) /\ calls'[c] = Idle("ok") =>
    /\ c0.op = "cascadePool" =>
         \A j \in SubtreeIn(rows, {c0.id}) : ~ pools'[j].live
    /\ c0.op = "cascadeAccount" =>
         /\ ~ accounts'[c0.id].live
         /\ \A j \in SubtreeIn(rows, OwnedIn(rows, c0.id)) : ~ pools'[j].live

AllCleared == \A c \in Callers : Cleared(c)

LEMMA DeleteTreeClears ==
  ASSUME SqlInv, NEW c \in Callers, DeleteTree(c)
  PROVE  Cleared(c)
<1>1. PICK r \in BusyCall : /\ r = calls[c] /\ SoundCall(r, pools, accounts)
                            /\ r.op = "cascadePool" /\ r.pc = "deleteTree"
  BY UnderWay DEF DeleteTree
<1>2. r.snap = <<>>
  BY <1>1 DEF SoundCall
<1>3. CASE LivePool(r.id)
  <2>1. PICK tree : tree = SubtreeIn(pools, {r.id}) /\ Kill(tree) /\ tree \subseteq DOMAIN pools
    BY <1>1, <1>3, SubtreeClosed DEF DeleteTree
  <2>2. \A j \in tree : ~ pools'[j].live
    BY <2>1, Killed DEF SqlInv
  <2> QED
    BY <1>1, <1>2, <2>1, <2>2 DEF Cleared
<1>4. CASE ~ LivePool(r.id)
  <2>1. Reply(c, "notFound")
    BY <1>1, <1>4 DEF DeleteTree
  <2>2. calls'[c] = Idle("notFound")
    BY <2>1, IdleTyped, ContinueStep DEF Reply, SqlInv
  <2> QED
    BY <2>2 DEF Cleared, Idle
<1> QED
  BY <1>3, <1>4

LEMMA NextRowClears ==
  ASSUME SqlInv, NEW c \in Callers, DeleteNextRow(c)
  PROVE  Cleared(c)
<1>1. PICK r \in BusyCall : /\ r = calls[c] /\ SoundCall(r, pools, accounts)
                            /\ r.op \in {"cascadePool", "cascadeAccount"} /\ r.pc = "rows"
  BY UnderWay DEF DeleteNextRow
<1>2. PICK i \in r.todo :
        /\ Kill({i})
        /\ \/ r.op = "cascadePool" /\ r.todo \ {i} = {}
           \/ Continue(c, [r EXCEPT !.todo = r.todo \ {i}])
  BY <1>1 DEF DeleteNextRow, Topmost
<1>3. CASE r.op = "cascadePool" /\ r.todo \ {i} = {}
  <2>1. Walks(r, {r.id}, pools)
    BY <1>1, <1>3 DEF SoundCall
  <2>2. PICK v : v = [snap |-> r.snap, todo |-> r.todo \ {i}]
    OBVIOUS
  <2>3. Walks(v, {r.id}, pools')
    BY <1>2, <2>1, <2>2, Walked DEF SqlInv
  <2>4. r.snap # <<>> /\ \A j \in SubtreeIn(Head(r.snap), {r.id}) : ~ pools'[j].live
    BY <1>3, <2>1, <2>2, <2>3 DEF Walks
  <2> QED
    BY <1>1, <1>3, <2>4 DEF Cleared
<1>4. CASE Continue(c, [r EXCEPT !.todo = r.todo \ {i}])
  <2>1. PICK w : w = [r EXCEPT !.todo = r.todo \ {i}]
    OBVIOUS
  <2>2. w \in BusyCall /\ w.op # "idle"
    BY <1>1, <2>1 DEF BusyCall
  <2>3. calls'[c] = w
    BY <1>4, <2>1, <2>2, ContinueStep DEF SqlInv, CallState
  <2> QED
    BY <2>2, <2>3 DEF Cleared, Idle
<1> QED
  BY <1>2, <1>3, <1>4

LEMMA DeleteOwnerClears ==
  ASSUME SqlInv, NEW c \in Callers, DeleteOwner(c)
  PROVE  Cleared(c)
<1>1. PICK r \in BusyCall : /\ r = calls[c] /\ SoundCall(r, pools, accounts)
                            /\ r.op = "cascadeAccount" /\ r.pc = "rows" /\ r.todo = {}
  BY UnderWay DEF DeleteOwner
<1>2. /\ r.id \in DOMAIN accounts /\ r.snap # <<>>
      /\ \A j \in SubtreeIn(Head(r.snap), OwnedIn(Head(r.snap), r.id)) : ~ pools[j].live
  BY <1>1 DEF SoundCall, Walks
<1>3. pools' = pools /\ ~ accounts'[r.id].live
  <2>1. accounts[r.id] \in AccountRow /\ accounts' = [accounts EXCEPT ![r.id].live = FALSE]
    BY <1>1, <1>2 DEF DeleteOwner, KillAccount, SqlInv, SqlTyped
  <2> QED
    BY <1>2, <2>1 DEF DeleteOwner, AccountRow
<1> QED
  BY <1>1, <1>2, <1>3 DEF Cleared

\* No other statement ends a cascade with success
LEMMA OthersClear ==
  ASSUME SqlInv, NEW c \in Callers,
         \/ ListForCascade(c) \/ ResolveForCascade(c) \/ DeleteTrees(c) \/ ListForAccount(c)
         \/ LookupAccount(c) \/ StatementFails(c)
  PROVE  calls'[c] # Idle("ok")
<1>1. PICK r \in BusyCall : r = calls[c]
  BY BusyTyped DEF SqlInv, ListForCascade, ResolveForCascade, DeleteTrees, ListForAccount,
     LookupAccount, StatementFails, AtStatement
<1>2. \/ Reply(c, "notFound") \/ Reply(c, "error")
      \/ Continue(c, [r EXCEPT !.pc = "rows", !.snap = Listed, !.todo = SubtreeIn(pools, {r.id})])
      \/ Continue(c, [r EXCEPT !.pc = "deleteTrees"])
      \/ Continue(c, [r EXCEPT !.pc = "rows", !.snap = Listed])
      \/ Continue(c, [r EXCEPT !.pc = "lookup", !.snap = Listed])
      \/ \E S : Continue(c, [r EXCEPT !.pc = "rows", !.todo = S])
  BY <1>1 DEF ListForCascade, ResolveForCascade, DeleteTrees, ListForAccount, LookupAccount,
     StatementFails
<1>3. ASSUME NEW w, w.op # "idle" \/ w = Idle("notFound") \/ w = Idle("error"), Continue(c, w)
      PROVE  calls'[c] # Idle("ok")
  BY <1>3 DEF Continue, Idle, SqlInv, SqlTyped
<1> QED
  BY <1>1, <1>2, <1>3 DEF Reply, BusyCall, Ops

LEMMA StepClears ==
  ASSUME SqlInv, NEW c \in Callers, SqlStart(c) \/ SqlStep(c) \/ StatementFails(c)
  PROVE  Cleared(c)
<1>1. CASE SqlStart(c)
  <2>1. ~ Busy(c)
    BY <1>1 DEF SqlStart, StartCreatePool, StartUpdatePool, StartDeletePool,
       StartDeletePoolCascade, StartCreateAccount, StartUpdateAccount, StartDeleteAccount,
       StartDeleteAccountCascade, StartStats, StartHierarchy, Begin
  <2> QED
    BY <2>1 DEF Cleared
<1>2. CASE calls[c].op \notin {"cascadePool", "cascadeAccount"}
  BY <1>2 DEF Cleared
<1>3. CASE calls'[c] # Idle("ok")
  BY <1>3 DEF Cleared
<1>4. CASE SqlStep(c) /\ calls[c].op \in {"cascadePool", "cascadeAccount"}
  <2>1. \/ DeleteTree(c) \/ DeleteNextRow(c) \/ DeleteOwner(c)
        \/ ListForCascade(c) \/ ResolveForCascade(c) \/ DeleteTrees(c) \/ ListForAccount(c)
        \/ LookupAccount(c)
    BY <1>4 DEF SqlStep, AtStatement, Counting, ResolveParent, ResolveAccount, InsertPool,
       ReadPool, WritePool, RereadPool, CountChildren, DeletePool, InsertAccount, OpenAccount,
       WriteAccount, RereadAccount, CountPools, DeleteAccount, GetForStats, ListForHierarchy,
       ListAll, ListDirect, OpenDescendants, NextDescendant, CloseDescendants
  <2> QED
    BY <1>3, <2>1, DeleteTreeClears, NextRowClears, DeleteOwnerClears, OthersClear
<1> QED
  BY <1>1, <1>2, <1>3, <1>4, OthersClear

LEMMA ClearedStep == SqlInv /\ [SqlNext]_sqlVars => AllCleared
<1> SUFFICES ASSUME SqlInv, [SqlNext]_sqlVars, NEW c \in Callers
             PROVE  Cleared(c)
  BY DEF AllCleared
<1>0. CASE calls'[c] = calls[c]
  BY <1>0 DEF Cleared, Busy, Idle
<1>1. CASE UNCHANGED sqlVars
  BY <1>0, <1>1 DEF sqlVars
<1>2. ASSUME NEW d \in Callers, SqlStart(d) \/ SqlStep(d) \/ StatementFails(d)
      PROVE  Cleared(c)
  BY <1>0, <1>2, OneSteps, StepClears
<1> QED
  BY <1>1, <1>2 DEF SqlNext

(***************************************************************************)
(* No delete of either store leaves a live pool below a pool or an account *)
(* it deletes, but one that another call put there after it looked, and a  *)
(* cascade that reports success has deleted all that it found, whichever   *)
(* calls run beside it and wherever they fail.                             *)
(***************************************************************************)
THEOREM SqlDeletesCleanTheorem == SqlSpec => SqlDeletesClean
<1>1. SqlInv /\ [SqlNext]_sqlVars => [Strands /\ AllCleared]_sqlVars
  BY StrandsStep, ClearedStep
<1>2. SqlSpec => [][Strands /\ AllCleared]_sqlVars
  BY <1>1, SqlInvariant, PTL DEF SqlSpec
<1>3. [Strands /\ AllCleared]_sqlVars => [Strands]_sqlVars /\ [AllCleared]_sqlVars
  OBVIOUS
<1>4. SqlSpec => [][Strands]_sqlVars /\ [][AllCleared]_sqlVars
  BY <1>2, <1>3, PTL
<1> QED
  BY <1>4 DEF SqlDeletesClean, StrandsOnlyByRace, CascadeDeletesAll, Strands, StrandsNone,
     Excused, ChildExcused, OwnedExcused, AllCleared, Cleared

-----------------------------------------------------------------------------
(* Startup. *)
(* Types. *)

Places == {"down", "read", "migrate", "list", "lookup", "create", "serve"}

Replica == [pc : Places, release : Nat, seen : SUBSET Migrations, made : SUBSET Migrations,
            needsSetup : BOOLEAN]

Names == Setups \cup {d.admin : d \in Deployments}

SetupRequest == [pc : {"free", "create", "done"}, at : Replicas \cup {Unset},
                 beside : SUBSET Names, blind : BOOLEAN]

StartTyped ==
  /\ deployed \in Deployments
  /\ ran \in [Migrations -> Nat]
  /\ applied \in SUBSET Migrations
  /\ UsersNow \subseteq Names
  /\ replica \in [Replicas -> Replica]
  /\ \A p \in Replicas : ~ At(p, "down") => replica[p].release \in Releases
  /\ setup \in [Setups -> SetupRequest]

\* The latest release carries the migrations of every other
LEMMA FilesOfRelease ==
  ASSUME NEW r \in Releases
  PROVE  Files(r) \subseteq Migrations /\ r \in Nat
<1>1. Max(Releases) \in Releases /\ \A s \in Releases : Max(Releases) >= s
  BY StartupAssumption DEF Max
<1>2. r \in Nat /\ Max(Releases) \in Nat /\ r <= Max(Releases)
  BY <1>1, StartupAssumption
<1> QED
  BY <1>2 DEF Files, Migrations

\* The migration a replica applies next: all earlier ones it has seen applied, or
\* applied itself
LEMMA NextMigration ==
  ASSUME StartTyped, NEW p \in Replicas, ~ At(p, "down"),
         NEW v \in Pending(p), \A u \in Pending(p) : v <= u
  PROVE  /\ v \in Migrations /\ v \in Nat
         /\ 1 .. v \subseteq replica[p].seen \cup replica[p].made \cup {v}
<1>1. /\ replica[p].release \in Nat
      /\ Pending(p) \subseteq 1 .. replica[p].release
      /\ Pending(p) \subseteq Migrations
  BY FilesOfRelease DEF StartTyped, Pending, Files
<1>2. \A u \in 1 .. v - 1 : u \in 1 .. replica[p].release /\ u \notin Pending(p)
  BY <1>1
<1>3. \A u \in 1 .. v - 1 : u \in replica[p].seen \cup replica[p].made
  BY <1>2 DEF Pending, Files
<1> QED
  BY <1>1, <1>3

LEMMA TypedInit == StartupInit => StartTyped
BY DEF StartupInit, StartTyped, UsersNow, Names, Replica, Places, Down, At, SetupRequest, NoSetup

ReplicaTyped ==
  /\ replica \in [Replicas -> Replica]
  /\ \A p \in Replicas : ~ At(p, "down") => replica[p].release \in Releases

LEMMA ExitType ==
  ASSUME StartTyped, NEW p \in Replicas, Exits(p)
  PROVE  ReplicaTyped'
BY DEF StartTyped, ReplicaTyped, Exits, At, Replica, Places, Down

LEMMA TurnType ==
  ASSUME StartTyped, NEW p \in Replicas, ~ At(p, "down"), NEW pc \in Places, Turns(p, pc)
  PROVE  ReplicaTyped'
BY DEF StartTyped, ReplicaTyped, Turns, At, Replica, Places

LEMMA EditType ==
  ASSUME StartTyped, NEW p, NEW x,
         p \in Replicas =>
           /\ x \in Replica
           /\ x.release = replica[p].release
           /\ x.pc # "down" => ~ At(p, "down"),
         replica' = [replica EXCEPT ![p] = x]
  PROVE  ReplicaTyped'
<1>1. CASE p \in Replicas
  <2>1. \A q \in Replicas : replica'[q] = IF q = p THEN x ELSE replica[q]
    BY <1>1 DEF StartTyped
  <2>2. x \in Replica
    BY <1>1
  <2>3. replica' \in [Replicas -> Replica]
    BY <2>2 DEF StartTyped
  <2>4. ASSUME NEW q \in Replicas, replica'[q].pc # "down"
        PROVE  replica'[q].release \in Releases
    BY <1>1, <2>1, <2>4 DEF StartTyped, At
  <2> QED
    BY <2>3, <2>4 DEF ReplicaTyped, At
<1>2. CASE p \notin Replicas
  <2>1. replica = [q \in Replicas |-> replica[q]]
    BY DEF StartTyped
  <2>2. replica' = [q \in Replicas |-> IF q = p THEN x ELSE replica[q]]
    BY DEF StartTyped
  <2>3. replica' = replica
    BY <1>2, <2>1, <2>2
  <2> QED
    BY <2>3 DEF StartTyped, ReplicaTyped, At
<1> QED
  BY <1>1, <1>2

LEMMA SetupType ==
  ASSUME StartTyped, NEW h \in Setups, NEW r \in SetupRequest, setup' = [setup EXCEPT ![h] = r]
  PROVE  setup' \in [Setups -> SetupRequest]
BY DEF StartTyped

LEMMA HeardType == Heard \in SetupRequest
BY DEF Heard, NoSetup, SetupRequest

\* A user is added under a name that a setting or a request gives
LEMMA AddUserType ==
  ASSUME StartTyped, NEW name \in Names, NEW how, AddUser(name, how)
  PROVE  UsersNow' = UsersNow \cup {name} /\ UsersNow' \subseteq Names
BY DEF StartTyped, AddUser, UsersNow

LEMMA TypedStep == StartTyped /\ [StartupNext]_startupVars => StartTyped'
<1> SUFFICES ASSUME StartTyped, [StartupNext]_startupVars
             PROVE  StartTyped'
  OBVIOUS
<1> USE DEF ReplicaTyped
<1>1. ASSUME NEW p \in Replicas, Start(p)
      PROVE  StartTyped'
  <2>1. PICK r \in Releases :
          replica' = [replica EXCEPT ![p] = [Down EXCEPT !.pc = "read", !.release = r]]
    BY <1>1 DEF Start
  <2>2. [Down EXCEPT !.pc = "read", !.release = r] \in Replica
    BY FilesOfRelease DEF Down, Replica, Places
  <2>3. [Down EXCEPT !.pc = "read", !.release = r].release = r
    BY DEF Down
  <2>4. ReplicaTyped'
    BY <2>1, <2>2, <2>3 DEF StartTyped, At
  <2> QED
    BY <1>1, <2>4 DEF Start, StartTyped, UsersNow
<1>2. ASSUME NEW p \in Replicas, ReadApplied(p)
      PROVE  StartTyped'
  <2>1. CASE Exits(p)
    BY <1>2, <2>1, ExitType DEF ReadApplied, StartTyped, UsersNow
  <2>2. CASE replica' = [replica EXCEPT ![p].pc = "migrate", ![p].seen = applied]
    <3>1. ReplicaTyped'
      BY <1>2, <2>2 DEF ReadApplied, StartTyped, At, Replica, Places
    <3> QED
      BY <1>2, <3>1 DEF ReadApplied, StartTyped, UsersNow
  <2> QED
    BY <1>2, <2>1, <2>2 DEF ReadApplied
<1>3. ASSUME NEW p \in Replicas, ApplyNext(p)
      PROVE  StartTyped'
  <2>1. ~ At(p, "down")
    BY <1>3 DEF ApplyNext, At
  <2>2. PICK v \in Pending(p) :
          /\ \A u \in Pending(p) : v <= u
          /\ \/ /\ Statements(v) /\ applied' = applied \cup {v}
                /\ replica' = [replica EXCEPT ![p].made = @ \cup {v}]
             \/ Exits(p) /\ UNCHANGED <<ran, applied>>
    BY <1>3 DEF ApplyNext, Refused, Rollback
  <2>3. v \in Migrations
    BY <2>1, <2>2, NextMigration
  <2>4. CASE Exits(p) /\ UNCHANGED <<ran, applied>>
    BY <1>3, <2>4, ExitType DEF ApplyNext, StartTyped, UsersNow
  <2>5. CASE /\ Statements(v) /\ applied' = applied \cup {v}
             /\ replica' = [replica EXCEPT ![p].made = @ \cup {v}]
    <3>1. ran' \in [Migrations -> Nat] /\ applied' \in SUBSET Migrations
      BY <2>3, <2>5 DEF Statements, StartTyped
    <3>2. ReplicaTyped'
      BY <2>3, <2>5 DEF StartTyped, At, Replica, Places
    <3> QED
      BY <1>3, <3>1, <3>2 DEF ApplyNext, StartTyped, UsersNow
  <2> QED
    BY <2>2, <2>4, <2>5
<1>4. ASSUME NEW p \in Replicas, WriteInfo(p)
      PROVE  StartTyped'
  <2>1. ReplicaTyped'
    <3> DEFINE x == [replica[p] EXCEPT !.pc = "list", !.seen = {}, !.made = {}]
    <3>1. x \in Replica /\ x.release = replica[p].release
      BY DEF StartTyped, Replica, Places
    <3>2. replica' = [replica EXCEPT ![p] = x] /\ ~ At(p, "down")
      BY <1>4 DEF WriteInfo, At
    <3> HIDE DEF x
    <3> QED
      BY <3>1, <3>2, EditType
  <2> QED
    BY <1>4, <2>1 DEF WriteInfo, StartTyped, UsersNow
<1>5. ASSUME NEW p \in Replicas, ListUsers(p)
      PROVE  StartTyped'
  <2>1. ReplicaTyped'
    BY <1>5 DEF ListUsers, StartTyped, At, Replica, Places
  <2> QED
    BY <1>5, <2>1 DEF ListUsers, StartTyped, UsersNow
<1>6. ASSUME NEW p \in Replicas, LookupAdmin(p)
      PROVE  StartTyped'
  <2>1. ReplicaTyped'
    BY <1>6, TurnType DEF LookupAdmin, At, Places
  <2> QED
    BY <1>6, <2>1 DEF LookupAdmin, StartTyped, UsersNow
<1>7. ASSUME NEW p \in Replicas, CreateAdmin(p)
      PROVE  StartTyped'
  <2>1. ReplicaTyped'
    BY <1>7, TurnType DEF CreateAdmin, At, Places
  <2>2. Admin \in Names
    BY DEF StartTyped, Admin, Names
  <2>3. UsersNow' \subseteq Names
    BY <1>7, <2>2, AddUserType DEF CreateAdmin, StartTyped, UsersNow
  <2> QED
    BY <1>7, <2>1, <2>3 DEF CreateAdmin, StartTyped
<1>8. ASSUME NEW h \in Setups, NEW p \in Replicas, CheckSetup(h, p)
      PROVE  StartTyped'
  <2>1. ReplicaTyped'
    <3> DEFINE x == [replica[p] EXCEPT !.needsSetup = FALSE]
    <3>1. x \in Replica /\ x.release = replica[p].release
      BY DEF StartTyped, Replica, Places
    <3>2. replica' = [replica EXCEPT ![p] = x] \/ UNCHANGED replica
      BY <1>8 DEF CheckSetup
    <3>3. ~ At(p, "down")
      BY <1>8 DEF CheckSetup, At
    <3> HIDE DEF x
    <3>4. CASE UNCHANGED replica
      BY <3>4 DEF StartTyped, At
    <3> QED
      BY <3>1, <3>2, <3>3, <3>4, EditType
  <2>2. setup' \in [Setups -> SetupRequest]
    <3> DEFINE r(blind) == [pc |-> "create", at |-> p, beside |-> UsersNow, blind |-> blind]
    <3>1. r(TRUE) \in SetupRequest /\ r(FALSE) \in SetupRequest
      BY DEF StartTyped, SetupRequest
    <3>2. \/ setup' = [setup EXCEPT ![h] = Heard]
          \/ setup' = [setup EXCEPT ![h] = r(FALSE)]
          \/ setup' = [setup EXCEPT ![h] = r(TRUE)]
      BY <1>8 DEF CheckSetup
    <3> HIDE DEF r
    <3> QED
      BY <3>1, <3>2, SetupType, HeardType
  <2> QED
    BY <1>8, <2>1, <2>2 DEF CheckSetup, StartTyped, UsersNow
<1>9. ASSUME NEW h \in Setups, CreateFirstUser(h)
      PROVE  StartTyped'
  <2>1. ReplicaTyped'
    <3> DEFINE p == setup[h].at
               x == [replica[p] EXCEPT !.needsSetup = FALSE]
    <3>1. p \in Replicas => x \in Replica /\ x.release = replica[p].release
                            /\ x.pc = replica[p].pc
      BY DEF StartTyped, Replica, Places
    <3>2. replica' = [replica EXCEPT ![p] = x] \/ UNCHANGED replica
      BY <1>9 DEF CreateFirstUser
    <3> HIDE DEF x, p
    <3>3. CASE UNCHANGED replica
      BY <3>3 DEF StartTyped, At
    <3> QED
      BY <3>1, <3>2, <3>3, EditType DEF At
  <2>2. setup' \in [Setups -> SetupRequest]
    BY <1>9 DEF CreateFirstUser, StartTyped, SetupRequest, Heard, NoSetup
  <2>3. h \in Names
    BY DEF Names
  <2>4. UsersNow' \subseteq Names
    BY <1>9, <2>3, AddUserType DEF CreateFirstUser, StartTyped, UsersNow
  <2> QED
    BY <1>9, <2>1, <2>2, <2>4 DEF CreateFirstUser, StartTyped
<1>10. ASSUME NEW p \in Replicas, Stop(p)
       PROVE  StartTyped'
  <2>1. ReplicaTyped'
    BY <1>10, ExitType DEF Stop
  <2>2. setup' \in [Setups -> SetupRequest]
    BY <1>10 DEF Stop, StartTyped, SetupRequest, Heard, NoSetup
  <2> QED
    BY <1>10, <2>1, <2>2 DEF Stop, StartTyped, UsersNow
<1>11. CASE UNCHANGED startupVars
  BY <1>11 DEF startupVars, StartTyped, At, UsersNow
<1> QED
  BY <1>1, <1>2, <1>3, <1>4, <1>5, <1>6, <1>7, <1>8, <1>9, <1>10, <1>11
  DEF StartupNext, StartupStep

-----------------------------------------------------------------------------
(* Migrations. *)

\* What a replica remembers as applied is applied, whatever became of the others
SeenApplied ==
  \A p \in Replicas : replica[p].seen \cup replica[p].made \subseteq applied

MigrateInv == StartTyped /\ SeenApplied /\ MigratedOnce

Done(p) == replica[p].pc \in {"list", "lookup", "create", "serve"}

\* Replicas come and go, move on and forget, but take up nothing new
LEMMA QuietStep ==
  ASSUME MigrateInv, UNCHANGED <<ran, applied>>,
         \A p \in Replicas :
           /\ replica'[p].seen \cup replica'[p].made \subseteq applied
           /\ Done(p)' => Files(replica'[p].release) \subseteq applied
  PROVE  SeenApplied' /\ MigratedOnce'
BY DEF MigrateInv, SeenApplied, MigratedOnce, Done

LEMMA MigrateInit == StartupInit => MigrateInv
BY TypedInit DEF StartupInit, MigrateInv, SeenApplied, MigratedOnce, Down

LEMMA ExitQuiet ==
  ASSUME MigrateInv, NEW p \in Replicas, Exits(p), UNCHANGED <<ran, applied>>
  PROVE  SeenApplied' /\ MigratedOnce'
<1>1. \A q \in Replicas : replica'[q] = IF q = p THEN Down ELSE replica[q]
  BY DEF MigrateInv, StartTyped, Exits
<1> QED
  BY <1>1, QuietStep DEF MigrateInv, SeenApplied, MigratedOnce, Done, Down

\* A step that changes neither snapshot nor release, of a replica that is past
LEMMA EditQuiet ==
  ASSUME MigrateInv, UNCHANGED <<ran, applied>>,
         \A q \in Replicas : /\ replica'[q].seen = replica[q].seen
                             /\ replica'[q].made = replica[q].made
                             /\ replica'[q].release = replica[q].release
                             /\ Done(q)' => Done(q)
  PROVE  SeenApplied' /\ MigratedOnce'
BY QuietStep DEF MigrateInv, SeenApplied, MigratedOnce, Done

\* One replica commits a migration, and the others lose nothing
LEMMA ApplyQuiet ==
  ASSUME MigrateInv, NEW p \in Replicas, ApplyNext(p)
  PROVE  SeenApplied' /\ MigratedOnce'
<1>1. PICK v \in Pending(p) :
        /\ \A u \in Pending(p) : v <= u
        /\ \/ /\ ran[v] = 0 /\ v \notin applied
              /\ Statements(v) /\ applied' = applied \cup {v}
              /\ replica' = [replica EXCEPT ![p].made = @ \cup {v}]
           \/ Exits(p) /\ UNCHANGED <<ran, applied>>
  BY DEF ApplyNext, Refused, Rollback
<1>2. v \in Migrations /\ v \in Nat
      /\ 1 .. v \subseteq replica[p].seen \cup replica[p].made \cup {v}
  BY <1>1, NextMigration DEF ApplyNext, At, MigrateInv
<1>3. CASE /\ ran[v] = 0 /\ v \notin applied
           /\ Statements(v) /\ applied' = applied \cup {v}
           /\ replica' = [replica EXCEPT ![p].made = @ \cup {v}]
  <2>1. \A u \in Migrations : ran'[u] = IF u = v THEN 1 ELSE ran[u]
    BY <1>2, <1>3 DEF Statements, MigrateInv, StartTyped
  <2>2. \A q \in Replicas :
          /\ replica'[q].seen = replica[q].seen
          /\ replica'[q].made = IF q = p THEN replica[q].made \cup {v} ELSE replica[q].made
          /\ replica'[q].pc = replica[q].pc
          /\ replica'[q].release = replica[q].release
    BY <1>3 DEF MigrateInv, StartTyped, Replica
  <2>3. SeenApplied'
    BY <1>3, <2>2 DEF MigrateInv, SeenApplied
  <2>4. 1 .. v \subseteq applied'
    BY <1>2, <1>3 DEF MigrateInv, SeenApplied
  <2>5. \A u \in applied' : 1 .. u \subseteq applied'
    BY <1>3, <2>4 DEF MigrateInv, MigratedOnce
  <2>6. \A u \in Migrations : ran'[u] = IF u \in applied' THEN 1 ELSE 0
    BY <1>3, <2>1 DEF MigrateInv, MigratedOnce
  <2>7. \A q \in Replicas : Done(q)' => Files(replica'[q].release) \subseteq applied'
    BY <1>3, <2>2 DEF MigrateInv, MigratedOnce, Done
  <2> QED
    BY <2>3, <2>5, <2>6, <2>7 DEF MigratedOnce, Done
<1>4. CASE Exits(p) /\ UNCHANGED <<ran, applied>>
  BY <1>4, ExitQuiet
<1> QED
  BY <1>1, <1>3, <1>4

LEMMA MigrateStep == MigrateInv /\ [StartupNext]_startupVars => MigrateInv'
<1> SUFFICES ASSUME MigrateInv, [StartupNext]_startupVars
             PROVE  SeenApplied' /\ MigratedOnce'
  BY TypedStep DEF MigrateInv
<1>1. ASSUME NEW p \in Replicas, Start(p)
      PROVE  SeenApplied' /\ MigratedOnce'
  <2>1. \A q \in Replicas \ {p} : replica'[q] = replica[q]
    BY <1>1 DEF Start, MigrateInv, StartTyped
  <2>2. replica'[p].seen = {} /\ replica'[p].made = {} /\ replica'[p].pc = "read"
    BY <1>1 DEF Start, MigrateInv, StartTyped, Down
  <2> QED
    BY <1>1, <2>1, <2>2, QuietStep DEF Start, MigrateInv, SeenApplied, MigratedOnce, Done
<1>2. ASSUME NEW p \in Replicas, ReadApplied(p)
      PROVE  SeenApplied' /\ MigratedOnce'
  <2>1. CASE Exits(p)
    BY <1>2, <2>1, ExitQuiet DEF ReadApplied
  <2>2. CASE replica' = [replica EXCEPT ![p].pc = "migrate", ![p].seen = applied]
    <3>1. \A q \in Replicas \ {p} : replica'[q] = replica[q]
      BY <2>2 DEF MigrateInv, StartTyped
    <3>2. replica'[p] = [replica[p] EXCEPT !.pc = "migrate", !.seen = applied]
      BY <2>2 DEF MigrateInv, StartTyped
    <3>3. replica'[p].seen = applied /\ replica'[p].made = replica[p].made
          /\ replica'[p].pc = "migrate"
      BY <3>2 DEF MigrateInv, StartTyped, Replica
    <3> QED
      BY <1>2, <3>1, <3>3, QuietStep DEF ReadApplied, MigrateInv, SeenApplied, MigratedOnce, Done
  <2> QED
    BY <1>2, <2>1, <2>2 DEF ReadApplied
<1>3. ASSUME NEW p \in Replicas, ApplyNext(p)
      PROVE  SeenApplied' /\ MigratedOnce'
  BY <1>3, ApplyQuiet
<1>4. ASSUME NEW p \in Replicas, WriteInfo(p)
      PROVE  SeenApplied' /\ MigratedOnce'
  <2>1. Files(replica[p].release) \subseteq applied
    BY <1>4 DEF WriteInfo, Pending, MigrateInv, SeenApplied
  <2>2. \A q \in Replicas \ {p} : replica'[q] = replica[q]
    BY <1>4 DEF WriteInfo, MigrateInv, StartTyped
  <2>3. replica'[p] = [replica[p] EXCEPT !.pc = "list", !.seen = {}, !.made = {}]
    BY <1>4 DEF WriteInfo, MigrateInv, StartTyped
  <2>4. replica'[p].seen = {} /\ replica'[p].made = {}
        /\ replica'[p].release = replica[p].release
    BY <2>3 DEF MigrateInv, StartTyped, Replica
  <2> QED
    BY <1>4, <2>1, <2>2, <2>4, QuietStep
    DEF WriteInfo, MigrateInv, SeenApplied, MigratedOnce, Done
<1>5. ASSUME NEW p \in Replicas, ListUsers(p) \/ LookupAdmin(p) \/ CreateAdmin(p)
      PROVE  SeenApplied' /\ MigratedOnce'
  <2>1. Done(p)
    BY <1>5 DEF ListUsers, LookupAdmin, CreateAdmin, At, Done
  <2>2. \A q \in Replicas : /\ replica'[q].seen = replica[q].seen
                            /\ replica'[q].made = replica[q].made
                            /\ replica'[q].release = replica[q].release
                            /\ q # p => replica'[q] = replica[q]
    <3>1. CASE ListUsers(p)
      <4>1. PICK empty \in BOOLEAN, pc \in Places :
              replica' = [replica EXCEPT ![p].needsSetup = empty, ![p].pc = pc]
        BY <3>1 DEF ListUsers, Places
      <4> QED
        BY <4>1 DEF MigrateInv, StartTyped, Replica
    <3>2. CASE LookupAdmin(p) \/ CreateAdmin(p)
      <4>1. PICK pc \in Places : replica' = [replica EXCEPT ![p].pc = pc]
        BY <3>2 DEF LookupAdmin, CreateAdmin, Turns, Places
      <4> QED
        BY <4>1 DEF MigrateInv, StartTyped, Replica
    <3> QED
      BY <1>5, <3>1, <3>2
  <2>3. UNCHANGED <<ran, applied>>
    BY <1>5 DEF ListUsers, LookupAdmin, CreateAdmin
  <2> QED
    BY <2>1, <2>2, <2>3, EditQuiet DEF Done
<1>6. ASSUME NEW h \in Setups,
             CreateFirstUser(h) \/ \E p \in Replicas : CheckSetup(h, p)
      PROVE  SeenApplied' /\ MigratedOnce'
  <2>1. (\E p : replica' = [replica EXCEPT ![p].needsSetup = FALSE]) \/ UNCHANGED replica
    BY <1>6 DEF CheckSetup, CreateFirstUser
  <2>2. \A q \in Replicas : /\ replica'[q].seen = replica[q].seen
                            /\ replica'[q].made = replica[q].made
                            /\ replica'[q].release = replica[q].release
                            /\ replica'[q].pc = replica[q].pc
    BY <2>1 DEF MigrateInv, StartTyped, Replica
  <2>3. UNCHANGED <<ran, applied>>
    BY <1>6 DEF CheckSetup, CreateFirstUser
  <2> QED
    BY <2>2, <2>3, EditQuiet DEF Done
<1>7. ASSUME NEW p \in Replicas, Stop(p)
      PROVE  SeenApplied' /\ MigratedOnce'
  BY <1>7, ExitQuiet DEF Stop
<1>8. CASE UNCHANGED startupVars
  BY <1>8 DEF startupVars, MigrateInv, SeenApplied, MigratedOnce
<1> QED
  BY <1>1, <1>2, <1>3, <1>4, <1>5, <1>6, <1>7, <1>8 DEF StartupNext, StartupStep

\* However many replicas of whatever releases start together, stop and fail: a recorded
\* migration ran once, in order, and a replica that serves has all of its own
\* (runMigrations on both backends).
THEOREM MigratedTheorem == StartupSpec => []MigratedOnce
<1>1. MigrateInv => MigratedOnce
  BY DEF MigrateInv
<1> QED
  BY <1>1, MigrateInit, MigrateStep, PTL DEF StartupSpec

-----------------------------------------------------------------------------
(* The first user. *)

\* A setup request that is past its check found no user, or could not read the table
ChecksSound ==
  \A h \in Setups : setup[h].pc = "create" => setup[h].beside = {} \/ setup[h].blind

SetupInv == StartTyped /\ ChecksSound /\ SetupByRaceOnly

LEMMA SetupInit == StartupInit => SetupInv
<1> SUFFICES ASSUME StartupInit PROVE SetupInv
  OBVIOUS
<1>1. UsersNow = {}
  BY DEF StartupInit, UsersNow
<1>2. \A h \in Setups : setup[h].pc = "free"
  BY DEF StartupInit, NoSetup
<1> QED
  BY <1>1, <1>2, TypedInit DEF SetupInv, ChecksSound, SetupByRaceOnly

\* A user that bootstrap made, or a setup request whose check was sound, may be added
LEMMA AddedSound ==
  ASSUME SetupByRaceOnly, NEW name, NEW how, AddUser(name, how),
         how.by = "setup" => how.beside = {} \/ how.blind
  PROVE  SetupByRaceOnly'
<1>1. UsersNow' = UsersNow \cup {name}
  BY DEF AddUser, UsersNow
<1>2. \A u \in UsersNow' : users'[u] = IF u = name THEN how ELSE users[u]
  BY <1>1 DEF AddUser
<1>3. \A u \in UsersNow' : u = name \/ u \in UsersNow
  BY <1>1
<1> QED
  BY <1>2, <1>3 DEF SetupByRaceOnly

\* A request forgets, or passes its check
LEMMA ChecksStay ==
  ASSUME SetupInv, NEW h \in Setups, NEW r, setup' = [setup EXCEPT ![h] = r],
         r.pc = "create" => r.beside = {} \/ r.blind
  PROVE  ChecksSound'
BY DEF SetupInv, ChecksSound, StartTyped

LEMMA SetupStep == SetupInv /\ [StartupNext]_startupVars => SetupInv'
<1> SUFFICES ASSUME SetupInv, [StartupNext]_startupVars
             PROVE  ChecksSound' /\ SetupByRaceOnly'
  BY TypedStep DEF SetupInv
<1>1. CASE UNCHANGED <<users, setup>>
  BY <1>1 DEF SetupInv, ChecksSound, SetupByRaceOnly, UsersNow
<1>2. ASSUME NEW p \in Replicas, CreateAdmin(p)
      PROVE  ChecksSound' /\ SetupByRaceOnly'
  <2>1. UNCHANGED setup
    BY <1>2 DEF CreateAdmin
  <2>2. CASE UNCHANGED users
    BY <1>1, <2>1, <2>2
  <2>3. CASE AddUser(Admin, [by |-> "bootstrap", beside |-> {}, blind |-> FALSE])
    <3>1. SetupByRaceOnly'
      BY <2>3, AddedSound DEF SetupInv
    <3> QED
      BY <2>1, <3>1 DEF SetupInv, ChecksSound
  <2> QED
    BY <1>2, <2>2, <2>3 DEF CreateAdmin
<1>3. ASSUME NEW h \in Setups, NEW p \in Replicas, CheckSetup(h, p)
      PROVE  ChecksSound' /\ SetupByRaceOnly'
  <2>1. SetupByRaceOnly'
    BY <1>3 DEF CheckSetup, SetupInv, SetupByRaceOnly, UsersNow
  <2> DEFINE passed(blind) == [pc |-> "create", at |-> p, beside |-> UsersNow, blind |-> blind]
  <2>2. PICK r \in {Heard, passed(TRUE), passed(FALSE)} :
          /\ setup' = [setup EXCEPT ![h] = r]
          /\ r = passed(FALSE) => ~ Occupied
    BY <1>3 DEF CheckSetup, Heard, NoSetup
  <2>3. Heard.pc # "create" /\ passed(TRUE).blind /\ passed(FALSE).beside = UsersNow
    BY DEF Heard, NoSetup
  <2> HIDE DEF passed
  <2>4. r.pc = "create" => r.beside = {} \/ r.blind
    BY <2>2, <2>3 DEF Occupied
  <2> QED
    BY <2>1, <2>2, <2>4, ChecksStay
<1>4. ASSUME NEW h \in Setups, CreateFirstUser(h)
      PROVE  ChecksSound' /\ SetupByRaceOnly'
  <2>1. ChecksSound'
    BY <1>4, ChecksStay DEF CreateFirstUser, Heard, NoSetup
  <2>2. CASE UNCHANGED users
    BY <2>1, <2>2 DEF SetupInv, SetupByRaceOnly, UsersNow
  <2>3. CASE AddUser(h, [by |-> "setup", beside |-> setup[h].beside, blind |-> setup[h].blind])
    <3>1. setup[h].beside = {} \/ setup[h].blind
      BY <1>4 DEF CreateFirstUser, SetupInv, ChecksSound
    <3> QED
      BY <2>1, <2>3, <3>1, AddedSound DEF SetupInv
  <2> QED
    BY <1>4, <2>2, <2>3 DEF CreateFirstUser
<1>5. ASSUME NEW p \in Replicas, Stop(p)
      PROVE  ChecksSound' /\ SetupByRaceOnly'
  <2>1. \A h \in Setups : setup'[h] = Heard \/ setup'[h] = setup[h]
    BY <1>5 DEF Stop
  <2>2. ChecksSound'
    BY <2>1 DEF SetupInv, ChecksSound, Heard, NoSetup
  <2>3. SetupByRaceOnly'
    BY <1>5 DEF Stop, SetupInv, SetupByRaceOnly, UsersNow
  <2> QED
    BY <2>2, <2>3
<1> QED
  BY <1>1, <1>2, <1>3, <1>4, <1>5
  DEF StartupNext, StartupStep, Start, ReadApplied, ApplyNext, WriteInfo, ListUsers,
      LookupAdmin, startupVars

\* However stale needsSetup is in a replica, POST /auth/setup adds a user to others only
\* where its second check came before them or could not read the table (handleSetup).
THEOREM SetupTheorem == StartupSpec => []SetupByRaceOnly
<1>1. SetupInv => SetupByRaceOnly
  BY DEF SetupInv
<1> QED
  BY <1>1, SetupInit, SetupStep, PTL DEF StartupSpec

-----------------------------------------------------------------------------
(* SelfUpdate. *)

Request == [inode : Nat, id : Nat, whole : BOOLEAN, risky : BOOLEAN]

Script ==
  [pc : {"readId", "readTarget", "open", "write", "pull", "restart", "health", "cleanup"},
   id : Nat \cup {Missing}, say : {"running", "completed", "failed"}, then : {"pull", "restart", "health", "cleanup"}]

Triggering(h) == h # Missing /\ h.pc \in {"create", "encode"}

TriggerTyped(h) ==
  /\ h \in [pc : {"create", "encode"}, id : Nat, inode : Nat \cup {Missing}, risky : BOOLEAN]
  /\ h.pc = "encode" => h.inode \in Nat

UpdateTyped ==
  /\ request \in Request \cup {Missing}
  /\ script \in Script \cup {Missing}
  /\ triggers \in Nat
  /\ handler = [a \in Admins |-> handler[a]]
  /\ \A a \in Admins : Triggering(handler[a]) => TriggerTyped(handler[a])

\* Whoever triggers while the script runs is at risk
TriggersRisky ==
  script # Missing => \A a \in Admins : Triggering(handler[a]) => handler[a].risky

\* What the script has not read was written by one of those
UnreadRisky ==
  /\ script # Missing /\ script.pc # "readId"
  /\ request # Missing /\ request.whole /\ request.id # script.id
  => request.risky

UpdateInv == UpdateTyped /\ TriggersRisky /\ UnreadRisky

\* A handler goes on as h, and may write the request
LEMMA HandlerGoes ==
  ASSUME UpdateInv, NEW a \in Admins, NEW h, Handles(a, h),
         Triggering(h) => TriggerTyped(h) /\ (script # Missing => h.risky),
         triggers' \in Nat, UNCHANGED script,
         \/ UNCHANGED request
         \/ request' \in Request /\ (request'.whole /\ script # Missing => request'.risky)
  PROVE  UpdateInv'
<1>1. handler' = [b \in Admins |-> IF b = a THEN h ELSE handler[b]]
  BY DEF Handles, UpdateInv, UpdateTyped
<1>2. \A b \in Admins : Triggering(handler'[b]) =>
        TriggerTyped(handler'[b]) /\ (script # Missing => handler'[b].risky)
  BY <1>1 DEF UpdateInv, UpdateTyped, TriggersRisky
<1>3. UpdateTyped' /\ TriggersRisky'
  BY <1>1, <1>2 DEF UpdateInv, UpdateTyped, TriggersRisky
<1>4. UnreadRisky'
  BY DEF UpdateInv, UnreadRisky
<1> QED
  BY <1>3, <1>4 DEF UpdateInv

\* The script goes on and keeps what it has read
LEMMA ScriptGoes ==
  ASSUME UpdateInv, script # Missing, script.pc # "readId",
         script' \in Script, script'.id = script.id,
         handler' = handler \/ handler' = [a \in Admins |-> Missing],
         UNCHANGED <<request, triggers>>
  PROVE  UpdateInv'
<1>1. \A a \in Admins : handler'[a] = handler[a] \/ handler'[a] = Missing
  OBVIOUS
<1>2. handler' = [a \in Admins |-> handler'[a]]
  BY DEF UpdateInv, UpdateTyped
<1> QED
  BY <1>1, <1>2 DEF UpdateInv, UpdateTyped, TriggersRisky, UnreadRisky, Triggering

LEMMA UpdateStep ==
  ASSUME UpdateInv, UpdateNext
  PROVE  UpdateInv'
<1>1. ASSUME NEW a \in Admins, TriggerUpgrade(a) PROVE UpdateInv'
  <2> DEFINE risk == script # Missing /\ ~ StatusIs("running")
             h == [pc |-> "create", id |-> triggers + 1, inode |-> Missing, risky |-> risk]
  <2>1. /\ Handles(a, h) /\ triggers' = triggers + 1 /\ UNCHANGED <<request, script>>
        /\ ~ StatusIs("running")
    BY <1>1 DEF TriggerUpgrade, NotRunning
  <2>2. risk \in BOOLEAN /\ (script # Missing => risk = TRUE)
    BY <2>1
  <2> HIDE DEF risk
  <2>3. TriggerTyped(h) /\ (script # Missing => h.risky) /\ triggers' \in Nat
    BY <2>1, <2>2 DEF UpdateInv, UpdateTyped, TriggerTyped
  <2> QED
    BY <2>1, <2>3, HandlerGoes
<1>2. ASSUME NEW a \in Admins, CreateRequest(a) PROVE UpdateInv'
  <2>1. Triggering(handler[a]) /\ TriggerTyped(handler[a])
    BY <1>2 DEF CreateRequest, Triggering, UpdateInv, UpdateTyped
  <2>2. CASE Replies(a) /\ UNCHANGED request
    BY <1>2, <2>2, HandlerGoes DEF CreateRequest, Replies, Triggering, UpdateInv, UpdateTyped
  <2>3. CASE ~ (Replies(a) /\ UNCHANGED request)
    <3> DEFINE inode == IF request = Missing THEN handler[a].id ELSE request.inode
               h == [handler[a] EXCEPT !.pc = "encode", !.inode = inode]
    <3>1. /\ request' = [inode |-> inode, id |-> handler[a].id, whole |-> FALSE,
                         risky |-> handler[a].risky]
          /\ Handles(a, h) /\ UNCHANGED <<script, triggers>>
      BY <1>2, <2>3 DEF CreateRequest
    <3>2. inode \in Nat
      BY <2>1 DEF TriggerTyped, UpdateInv, UpdateTyped, Request
    <3>3. TriggerTyped(h) /\ h.risky = handler[a].risky
      BY <2>1, <3>2 DEF TriggerTyped
    <3>4. request' \in Request /\ ~ request'.whole
      BY <2>1, <3>1, <3>2 DEF TriggerTyped, Request
    <3>5. script # Missing => handler[a].risky
      BY <2>1 DEF UpdateInv, TriggersRisky
    <3> HIDE DEF h
    <3> QED
      BY <3>1, <3>3, <3>4, <3>5, HandlerGoes DEF UpdateInv, UpdateTyped
  <2> QED
    BY <2>2, <2>3
<1>3. ASSUME NEW a \in Admins, EncodeRequest(a) PROVE UpdateInv'
  <2>1. /\ TriggerTyped(handler[a]) /\ (script # Missing => handler[a].risky)
        /\ Handles(a, Missing) /\ UNCHANGED <<script, triggers>>
    BY <1>3 DEF EncodeRequest, Replies, Triggering, UpdateInv, UpdateTyped, TriggersRisky
  <2>2. \/ UNCHANGED request
        \/ request \in Request /\ \E whole \in BOOLEAN :
             request' = [request EXCEPT !.id = handler[a].id, !.whole = whole,
                                        !.risky = handler[a].risky]
    BY <1>3 DEF EncodeRequest, UpdateInv, UpdateTyped
  <2>3. \/ UNCHANGED request
        \/ request' \in Request /\ request'.risky = handler[a].risky
    BY <2>1, <2>2 DEF Request, TriggerTyped
  <2> QED
    BY <2>1, <2>3, HandlerGoes DEF UpdateInv, UpdateTyped, Triggering
<1>4. ASSUME NEW a \in Admins, ReadForAck(a) \/ WriteAck(a) PROVE UpdateInv'
  <2>1. PICK h : Handles(a, h) /\ ~ Triggering(h)
    BY <1>4 DEF ReadForAck, WriteAck, Replies, Triggering
  <2>2. UNCHANGED <<request, script, triggers>>
    BY <1>4 DEF ReadForAck, WriteAck
  <2> QED
    BY <2>1, <2>2, HandlerGoes DEF UpdateInv, UpdateTyped
<1>5. CASE PathExists
  <2>1. /\ script' \in Script /\ script'.pc = "readId" /\ UNCHANGED <<request, triggers>>
        /\ handler' = [a \in Admins |-> IF handler[a] = Missing THEN Missing
                                        ELSE [handler[a] EXCEPT !.risky = TRUE]]
    <3>1. [pc |-> "readId", id |-> Missing, say |-> "running", then |-> "pull"] \in Script
      BY DEF Script
    <3> QED
      BY <1>5, <3>1 DEF PathExists
  <2>2. ASSUME NEW a \in Admins, Triggering(handler'[a])
        PROVE  TriggerTyped(handler'[a]) /\ handler'[a].risky
    <3>1. handler'[a] = [handler[a] EXCEPT !.risky = TRUE] /\ handler[a] # Missing
      BY <2>1, <2>2 DEF Triggering
    <3>2. CASE Triggering(handler[a])
      BY <3>1, <3>2 DEF TriggerTyped, UpdateInv, UpdateTyped
    <3>3. handler'[a].pc = handler[a].pc
      BY <3>1
    <3> QED
      BY <2>2, <3>1, <3>2, <3>3 DEF Triggering
  <2> QED
    BY <2>1, <2>2 DEF UpdateInv, UpdateTyped, TriggersRisky, UnreadRisky
<1>6. CASE ReadId
  <2>1. /\ script' = [script EXCEPT !.pc = "readTarget",
                                    !.id = IF Readable THEN request.id ELSE Missing]
        /\ script \in Script /\ UNCHANGED <<request, handler, triggers>>
    BY <1>6 DEF ReadId, ScriptAt, UpdateInv, UpdateTyped
  <2>2. /\ script' \in Script
        /\ request # Missing /\ request.whole => request.id = script'.id
    BY <2>1 DEF Script, Readable, Request, UpdateInv, UpdateTyped
  <2> QED
    BY <1>6, <2>1, <2>2 DEF UpdateInv, UpdateTyped, TriggersRisky, UnreadRisky, ScriptAt, ReadId
<1>7. CASE ReadTarget \/ OpenStatus \/ WriteStatus \/ PodmanPull \/ RestartService \/ CheckHealth
  <2>1. /\ script \in Script /\ script # Missing /\ script.pc # "readId"
        /\ UNCHANGED <<request, triggers>>
        /\ handler' = handler \/ handler' = [a \in Admins |-> Missing]
    BY <1>7 DEF ReadTarget, OpenStatus, WriteStatus, PodmanPull, RestartService, CheckHealth,
                ScriptAt, UpdateInv, UpdateTyped
  <2>2. \/ \E state \in {"running", "completed", "failed"},
              then \in {"pull", "restart", "health", "cleanup"} : Announces(state, then)
        \/ \E pc \in {"write", script.then} : Goes(pc)
    BY <1>7 DEF ReadTarget, OpenStatus, WriteStatus, PodmanPull, RestartService, CheckHealth, Fails
  <2>3. ASSUME NEW state \in {"running", "completed", "failed"},
               NEW then \in {"pull", "restart", "health", "cleanup"}, Announces(state, then)
        PROVE  script' \in Script /\ script'.id = script.id
    BY <2>1, <2>3 DEF Announces, Script
  <2>4. ASSUME NEW pc \in {"write", script.then}, Goes(pc)
        PROVE  script' \in Script /\ script'.id = script.id
    BY <2>1, <2>4 DEF Goes, Script
  <2> QED
    BY <2>1, <2>2, <2>3, <2>4, ScriptGoes
<1>8. CASE Cleanup
  BY <1>8 DEF Cleanup, UpdateInv, UpdateTyped, TriggersRisky, UnreadRisky
<1>9. CASE ScriptStops \/ ServerStops \/ HostStops
  BY <1>9 DEF ScriptStops, ServerStops, HostStops, UpdateInv, UpdateTyped, TriggersRisky, UnreadRisky, Triggering
<1> QED
  BY <1>1, <1>2, <1>3, <1>4, <1>5, <1>6, <1>7, <1>8, <1>9
  DEF UpdateNext, ScriptStep

\* A whole request is removed unread only at its own risk (cloudpam-upgrade.sh
\* removes the file at its end, handleTriggerUpgrade writes it in place), whatever
\* stops the script, the server or the host, and however many trigger at a time.
THEOREM RequestTheorem == UpdateSpec => RequestLostOnlyByRace
<1>1. UpdateInit => UpdateInv
  BY DEF UpdateInit, UpdateInv, UpdateTyped, TriggersRisky, UnreadRisky, Triggering
<1>2. UpdateInv /\ [UpdateNext]_updateVars => UpdateInv'
  <2>1. UpdateInv /\ UNCHANGED updateVars => UpdateInv'
    BY DEF updateVars, UpdateInv, UpdateTyped, TriggersRisky, UnreadRisky, Triggering
  <2> QED
    BY <2>1, UpdateStep
<1>3. ASSUME UpdateInv, UpdateNext, request # Missing, request' = Missing,
             request.whole, request.id # script.id
      PROVE  request.risky
  <2>1. ASSUME NEW a \in Admins, CreateRequest(a) \/ EncodeRequest(a)
        PROVE  request' \in Request \/ request' = request
    <3>1. TriggerTyped(handler[a]) /\ request \in Request
      BY <1>3, <2>1 DEF CreateRequest, EncodeRequest, Triggering, UpdateInv, UpdateTyped
    <3>2. \/ request' = request
          \/ request' = [inode |-> request.inode, id |-> handler[a].id, whole |-> FALSE,
                         risky |-> handler[a].risky]
          \/ \E whole \in BOOLEAN :
               request' = [request EXCEPT !.id = handler[a].id, !.whole = whole,
                                          !.risky = handler[a].risky]
      BY <1>3, <2>1 DEF CreateRequest, EncodeRequest
    <3>3. CASE \E whole \in BOOLEAN :
               request' = [request EXCEPT !.id = handler[a].id, !.whole = whole,
                                          !.risky = handler[a].risky]
      BY <3>1, <3>3 DEF TriggerTyped, Request
    <3>4. CASE request' = [inode |-> request.inode, id |-> handler[a].id, whole |-> FALSE,
                           risky |-> handler[a].risky]
      <4>1. handler[a].id \in Nat /\ handler[a].risky \in BOOLEAN /\ request.inode \in Nat
        BY <3>1 DEF TriggerTyped, Request
      <4> QED
        BY <3>4, <4>1 DEF Request
    <3> QED
      BY <3>2, <3>3, <3>4
  <2>2. ASSUME Cleanup PROVE request.risky
    BY <1>3, <2>2 DEF Cleanup, ScriptAt, UpdateInv, UnreadRisky
  <2>3. Missing \notin Request
    BY UpdateAssumption DEF Request
  <2> QED
    BY <1>3, <2>1, <2>2, <2>3
    DEF UpdateNext, ScriptStep, TriggerUpgrade, ReadForAck, WriteAck, PathExists, ReadId,
        ReadTarget, OpenStatus, WriteStatus, PodmanPull, RestartService, CheckHealth,
        ScriptStops, ServerStops, HostStops
<1> QED
  BY <1>1, <1>2, <1>3, PTL DEF UpdateSpec, RequestLostOnlyByRace
=============================================================================
