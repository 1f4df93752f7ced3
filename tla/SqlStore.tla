------------------------------ MODULE SqlStore ------------------------------
(***************************************************************************)
(* The pools and accounts of the SQLite and PostgreSQL stores, one SQL     *)
(* statement a step.  A method takes a connection for each statement and   *)
(* keeps one for as long as it has a result set open, so methods that      *)
(* query while they iterate hold several; the statements of concurrent     *)
(* calls interleave, and any of them may fail.  Rows are soft-deleted and  *)
(* never leave their tables.  Names, metadata and timestamps are left out. *)
(***************************************************************************)
EXTENDS Naturals, Sequences, FiniteSets, Functions

CONSTANTS Callers,      \* requests that use the store at the same time
          SqlCIDRs,     \* blocks a pool may have
          SqlKeys,      \* keys an account may have
          SeedPools,    \* rows of the database the model starts with
          SeedAccounts,
          Connections,  \* backend -> size of its connection pool
          MaxRows,      \* rows a table may grow to
          MaxStarts,    \* calls made in a behaviour
          MaxErrors,    \* statements that fail in a behaviour
          Nil

\* A row of pools, and one of accounts
PoolRow == [cidr : SqlCIDRs, parent : Nat \cup {Nil}, account : Nat \cup {Nil}, live : BOOLEAN]
AccountRow == [key : SqlKeys, live : BOOLEAN]

\* uniq_pools_parent_cidr of SQLite, which takes a missing parent for -1 and has
\* deleted rows too; in PostgreSQL one block of live pools per organization
UniqueIn(rows, b) ==
  \A i, j \in DOMAIN rows :
    i # j /\ rows[i].cidr = rows[j].cidr =>
      IF b = "sqlite" THEN rows[i].parent # rows[j].parent
      ELSE ~ (rows[i].live /\ rows[j].live)

ASSUME SqlAssumption ==
  /\ SeedPools \in Seq(PoolRow) /\ SeedAccounts \in Seq(AccountRow)
  /\ \A b \in DOMAIN Connections : UniqueIn(SeedPools, b)

VARIABLES backend,      \* the store the server was built and configured with
          pools,        \* id -> [cidr, parent, account, live]
          accounts,     \* id -> [key, live]
          calls,        \* caller -> the call it is in, or its last reply
          starts, errors

sqlVars == <<backend, pools, accounts, calls, starts, errors>>

Idle(r) == [op |-> "idle", reply |-> r]

Busy(c) == calls[c].op # "idle"

LivePool(i) == i \in DOMAIN pools /\ pools[i].live

LiveAccount(a) == a \in DOMAIN accounts /\ accounts[a].live

(***************************************************************************)
(* Connections.  An open result set holds one until it is closed; a        *)
(* statement that is read to its end takes one and gives it back at once.  *)
(***************************************************************************)
Held(c) == IF Busy(c) THEN calls[c].cursors ELSE 0

InUse == SumFunction([c \in Callers |-> Held(c)])

ConnectionFree == InUse < Connections[backend]

(***************************************************************************)
(* The rows below a pool, as a list of live rows shows them.               *)
(***************************************************************************)
ChildrenIn(rows, i) == {j \in DOMAIN rows : rows[j].live /\ rows[j].parent = i}

\* S and every live row whose parent is already in the set
ClosedIn(rows, S) == \A j \in DOMAIN rows : rows[j].live /\ rows[j].parent \in S => j \in S

SubtreeIn(rows, S) ==
  {i \in DOMAIN rows : \A T \in SUBSET DOMAIN rows : S \subseteq T /\ ClosedIn(rows, T) => i \in T}

OwnedIn(rows, a) == {j \in DOMAIN rows : rows[j].live /\ rows[j].account = a}

\* Rows a walk may visit next: it comes to a pool before the pools below it.
Topmost(S) == {i \in S : pools[i].parent \notin S}

(***************************************************************************)
(* Moves of a caller                                                       *)
(***************************************************************************)
Continue(c, r) == calls' = [calls EXCEPT ![c] = r]

\* The deferred Close of every result set runs when the method returns.
Reply(c, r) == Continue(c, Idle(r))

AtStatement(c, op, pc) == Busy(c) /\ calls[c].op = op /\ calls[c].pc = pc

Call(op, pc, id) ==
  [op |-> op, pc |-> pc, id |-> id, cursors |-> 0, todo |-> {}, stack |-> <<>>,
   snap |-> <<>>, with |-> <<>>]

\* snap of a caller that has read the table: all of it, as it was then
Listed == <<pools>>

Kill(S) == pools' = [i \in DOMAIN pools |->
                       IF i \in S THEN [pools[i] EXCEPT !.live = FALSE] ELSE pools[i]]

KillAccount(a) == accounts' = [accounts EXCEPT ![a].live = FALSE]

Begin(c, r) ==
  /\ ~ Busy(c) /\ starts < MaxStarts
  /\ starts' = starts + 1
  /\ Continue(c, r)
  /\ UNCHANGED <<backend, pools, accounts, errors>>

\* A statement of c runs: there is a connection for it.
Runs(c) == ConnectionFree /\ UNCHANGED <<backend, starts, errors>>

(***************************************************************************)
(* Pools                                                                   *)
(***************************************************************************)
\* A request names a parent and an account it has seen live, and by the time
\* the store acts on it they may be gone.
PoolRefs == DOMAIN pools \cup {Nil}
AccountRefs == DOMAIN accounts \cup {Nil}

\* A bound of the model: calls in progress never outgrow a table.
Room(rows, op) == Len(rows) + Cardinality({c \in Callers : calls[c].op = op}) < MaxRows

StartCreatePool(c) ==
  Room(pools, "createPool") /\ \E cidr \in SqlCIDRs, p \in PoolRefs, a \in AccountRefs :
    Begin(c, [Call("createPool", IF backend = "postgres" THEN "parent" ELSE "insert", Nil)
                EXCEPT !.with = [cidr |-> cidr, parent |-> p, account |-> a]])

\* PostgreSQL resolves the parent and the account among the live rows first.
ResolveParent(c) ==
  /\ AtStatement(c, "createPool", "parent") /\ Runs(c)
  /\ LET p == calls[c].with.parent IN
     IF p = Nil \/ LivePool(p)
     THEN Continue(c, [calls[c] EXCEPT !.pc = "account"])
     ELSE Reply(c, "notFound")
  /\ UNCHANGED <<pools, accounts>>

ResolveAccount(c) ==
  /\ \E op \in {"createPool", "updatePool"} : AtStatement(c, op, "account")
  /\ Runs(c)
  /\ LET a == calls[c].with.account IN
     IF a = Nil \/ LiveAccount(a)
     THEN Continue(c, [calls[c] EXCEPT
                     !.pc = IF calls[c].op = "createPool" THEN "insert" ELSE "write"])
     ELSE Reply(c, "notFound")
  /\ UNCHANGED <<pools, accounts>>

\* A unique index over a nullable column never sees two missing parents as equal.
TakenBelowParent(cidr, parent) ==
  \E i \in DOMAIN pools : pools[i].cidr = cidr /\ parent # Nil /\ pools[i].parent = parent

\* SQLite's index spans deleted rows and takes a missing parent for -1;
\* PostgreSQL's holds live rows only, of the whole organization.
Taken(cidr, parent) ==
  IF backend = "sqlite"
  THEN \E i \in DOMAIN pools : pools[i].cidr = cidr /\ pools[i].parent = parent
  ELSE \E i \in DOMAIN pools : pools[i].cidr = cidr /\ pools[i].live

InsertPool(c) ==
  /\ AtStatement(c, "createPool", "insert") /\ Runs(c)
  /\ LET w == calls[c].with IN
     IF Taken(w.cidr, w.parent)
     THEN Reply(c, "conflict") /\ UNCHANGED pools
     ELSE /\ pools' = Append(pools, [cidr |-> w.cidr, parent |-> w.parent,
                                     account |-> w.account, live |-> TRUE])
          /\ Reply(c, "ok")
  /\ UNCHANGED accounts

\* UpdatePoolMeta and UpdatePool read the pool in SQLite, UpdatePoolAccount does
\* not, and all three write by id alone; in PostgreSQL they resolve the account
\* and write a live row.
StartUpdatePool(c) ==
  \E i \in DOMAIN pools, a \in AccountRefs,
     first \in IF backend = "postgres" THEN {"account"} ELSE {"read", "write"} :
    Begin(c, [Call("updatePool", first, i) EXCEPT !.with = [account |-> a]])

ReadPool(c) ==
  /\ AtStatement(c, "updatePool", "read") /\ Runs(c)
  /\ IF LivePool(calls[c].id)
     THEN Continue(c, [calls[c] EXCEPT !.pc = "write"])
     ELSE Reply(c, "notFound")
  /\ UNCHANGED <<pools, accounts>>

WritePool(c) ==
  /\ AtStatement(c, "updatePool", "write") /\ Runs(c)
  /\ LET i == calls[c].id IN
     IF backend = "postgres" /\ ~ pools[i].live
     THEN Reply(c, "notFound") /\ UNCHANGED pools
     ELSE /\ pools' = [pools EXCEPT ![i].account = calls[c].with.account]
          /\ Continue(c, [calls[c] EXCEPT !.pc = "reread"])
  /\ UNCHANGED accounts

\* The reply is the pool as the store has it then, if it is still live.
RereadPool(c) ==
  /\ AtStatement(c, "updatePool", "reread") /\ Runs(c)
  /\ Reply(c, IF LivePool(calls[c].id) THEN "ok" ELSE "notFound")
  /\ UNCHANGED <<pools, accounts>>

StartDeletePool(c) ==
  \E i \in DOMAIN pools : Begin(c, Call("deletePool", "count", i))

CountChildren(c) ==
  /\ AtStatement(c, "deletePool", "count") /\ Runs(c)
  /\ IF ChildrenIn(pools, calls[c].id) # {}
     THEN Reply(c, "conflict")
     ELSE Continue(c, [calls[c] EXCEPT !.pc = "delete", !.snap = Listed])
  /\ UNCHANGED <<pools, accounts>>

DeletePool(c) ==
  /\ AtStatement(c, "deletePool", "delete") /\ Runs(c)
  /\ Reply(c, IF LivePool(calls[c].id) THEN "ok" ELSE "notFound")
  /\ Kill({calls[c].id})
  /\ UNCHANGED accounts

StartDeletePoolCascade(c) ==
  \E i \in DOMAIN pools :
    Begin(c, Call("cascadePool", IF backend = "postgres" THEN "deleteTree" ELSE "list", i))

\* PostgreSQL: one statement collects the tree and deletes it.
DeleteTree(c) ==
  /\ AtStatement(c, "cascadePool", "deleteTree") /\ Runs(c)
  /\ LET i == calls[c].id IN
     IF LivePool(i)
     THEN Kill(SubtreeIn(pools, {i})) /\ Reply(c, "ok")
     ELSE Reply(c, "notFound") /\ UNCHANGED pools
  /\ UNCHANGED accounts

\* The tree taken for a pool and its direct children.
ListForCascadeChildren(c) ==
  /\ AtStatement(c, "cascadePool", "list") /\ Runs(c)
  /\ IF LivePool(calls[c].id)
     THEN Continue(c, [calls[c] EXCEPT !.pc = "rows", !.snap = Listed,
                         !.todo = {calls[c].id} \cup ChildrenIn(pools, calls[c].id)])
     ELSE Reply(c, "notFound")
  /\ UNCHANGED <<pools, accounts>>

\* SQLite: the tree is collected from a list of the live pools, and deleted row
\* by row from the top, each in a statement and a transaction of its own.
ListForCascade(c) ==
  /\ AtStatement(c, "cascadePool", "list") /\ Runs(c)
  /\ IF LivePool(calls[c].id)
     THEN Continue(c, [calls[c] EXCEPT !.pc = "rows", !.snap = Listed,
                                   !.todo = SubtreeIn(pools, {calls[c].id})])
     ELSE Reply(c, "notFound")
  /\ UNCHANGED <<pools, accounts>>

DeleteNextRow(c) ==
  /\ \E op \in {"cascadePool", "cascadeAccount"} : AtStatement(c, op, "rows")
  /\ calls[c].todo # {} /\ Runs(c)
  /\ \E i \in IF calls[c].op = "cascadePool" THEN Topmost(calls[c].todo) ELSE calls[c].todo :
       LET rest == calls[c].todo \ {i} IN
       /\ Kill({i})
       /\ IF rest = {} /\ calls[c].op = "cascadePool"
          THEN Reply(c, "ok")
          ELSE Continue(c, [calls[c] EXCEPT !.todo = rest])
  /\ UNCHANGED accounts

(***************************************************************************)
(* Accounts                                                                *)
(***************************************************************************)
StartCreateAccount(c) ==
  Room(accounts, "createAccount") /\ \E k \in SqlKeys :
    Begin(c, [Call("createAccount", "insert", Nil) EXCEPT !.with = [key |-> k]])

KeyTaken(k) ==
  \E a \in DOMAIN accounts :
    accounts[a].key = k /\ (backend = "sqlite" \/ accounts[a].live)

InsertAccount(c) ==
  /\ AtStatement(c, "createAccount", "insert") /\ Runs(c)
  /\ LET k == calls[c].with.key IN
     IF KeyTaken(k)
     THEN Reply(c, "conflict") /\ UNCHANGED accounts
     ELSE accounts' = Append(accounts, [key |-> k, live |-> TRUE]) /\ Reply(c, "ok")
  /\ UNCHANGED pools

StartUpdateAccount(c) ==
  \E a \in DOMAIN accounts :
    Begin(c, Call("updateAccount", IF backend = "postgres" THEN "write" ELSE "read", a))

\* SQLite: one Next of the result set; it stays open for the rest of the method.
OpenAccount(c) ==
  /\ AtStatement(c, "updateAccount", "read") /\ Runs(c)
  /\ IF LiveAccount(calls[c].id)
     THEN Continue(c, [calls[c] EXCEPT !.pc = "write", !.cursors = 1])
     ELSE Reply(c, "notFound")
  /\ UNCHANGED <<pools, accounts>>

\* The columns it writes are left out.
WriteAccount(c) ==
  /\ AtStatement(c, "updateAccount", "write") /\ Runs(c)
  /\ IF backend = "sqlite" THEN Reply(c, "ok")
     ELSE IF LiveAccount(calls[c].id)
     THEN Continue(c, [calls[c] EXCEPT !.pc = "reread"])
     ELSE Reply(c, "notFound")
  /\ UNCHANGED <<pools, accounts>>

RereadAccount(c) ==
  /\ AtStatement(c, "updateAccount", "reread") /\ Runs(c)
  /\ Reply(c, IF LiveAccount(calls[c].id) THEN "ok" ELSE "notFound")
  /\ UNCHANGED <<pools, accounts>>

StartDeleteAccount(c) ==
  \E a \in DOMAIN accounts : Begin(c, Call("deleteAccount", "count", a))

CountPools(c) ==
  /\ AtStatement(c, "deleteAccount", "count") /\ Runs(c)
  /\ IF OwnedIn(pools, calls[c].id) # {}
     THEN Reply(c, "conflict")
     ELSE Continue(c, [calls[c] EXCEPT !.pc = "delete", !.snap = Listed])
  /\ UNCHANGED <<pools, accounts>>

DeleteAccount(c) ==
  /\ AtStatement(c, "deleteAccount", "delete") /\ Runs(c)
  /\ Reply(c, IF LiveAccount(calls[c].id) THEN "ok" ELSE "notFound")
  /\ KillAccount(calls[c].id)
  /\ UNCHANGED pools

StartDeleteAccountCascade(c) ==
  \E a \in DOMAIN accounts :
    Begin(c, Call("cascadeAccount", IF backend = "postgres" THEN "resolve" ELSE "list", a))

\* PostgreSQL: the account, then its pools in one statement, then the account.
ResolveForCascade(c) ==
  /\ AtStatement(c, "cascadeAccount", "resolve") /\ Runs(c)
  /\ IF LiveAccount(calls[c].id)
     THEN Continue(c, [calls[c] EXCEPT !.pc = "deleteTrees"])
     ELSE Reply(c, "notFound")
  /\ UNCHANGED <<pools, accounts>>

\* The account's pools deleted without those below them.
DeleteTreesOwned(c) ==
  /\ AtStatement(c, "cascadeAccount", "deleteTrees") /\ Runs(c)
  /\ Kill(OwnedIn(pools, calls[c].id))
  /\ Continue(c, [calls[c] EXCEPT !.pc = "rows", !.snap = Listed])
  /\ UNCHANGED accounts

DeleteTrees(c) ==
  /\ AtStatement(c, "cascadeAccount", "deleteTrees") /\ Runs(c)
  /\ Kill(SubtreeIn(pools, OwnedIn(pools, calls[c].id)))
  /\ Continue(c, [calls[c] EXCEPT !.pc = "rows", !.snap = Listed])
  /\ UNCHANGED accounts

\* SQLite: the pools are listed before the account is looked up, and deleted in
\* the order of a Go map.
ListForAccount(c) ==
  /\ AtStatement(c, "cascadeAccount", "list") /\ Runs(c)
  /\ Continue(c, [calls[c] EXCEPT !.pc = "lookup", !.snap = Listed])
  /\ UNCHANGED <<pools, accounts>>

LookupAccount(c) ==
  /\ AtStatement(c, "cascadeAccount", "lookup") /\ Runs(c)
  /\ LET a == calls[c].id  rows == Head(calls[c].snap) IN
     IF LiveAccount(a)
     THEN Continue(c, [calls[c] EXCEPT !.pc = "rows",
                                   !.todo = SubtreeIn(rows, OwnedIn(rows, a))])
     ELSE Reply(c, "notFound")
  /\ UNCHANGED <<pools, accounts>>

\* PostgreSQL reports whether this statement deleted the account.
DeleteOwner(c) ==
  /\ AtStatement(c, "cascadeAccount", "rows") /\ calls[c].todo = {} /\ Runs(c)
  /\ Reply(c, IF backend = "sqlite" \/ LiveAccount(calls[c].id) THEN "ok" ELSE "notFound")
  /\ KillAccount(calls[c].id)
  /\ UNCHANGED pools

(***************************************************************************)
(* Statistics.  The SQLite store counts the pools below a pool with a      *)
(* query for each of them, made while the result set of the pool above is  *)
(* still open; stack holds the children each open result set has left.     *)
(***************************************************************************)
\* CalculatePoolUtilization and GetPoolWithStats of one pool
StartStats(c) == \E i \in DOMAIN pools : Begin(c, Call("stats", "get", i))

GetForStats(c) ==
  /\ AtStatement(c, "stats", "get") /\ Runs(c)
  /\ IF LivePool(calls[c].id)
     THEN Continue(c, [calls[c] EXCEPT !.pc = IF backend = "postgres" THEN "listAll" ELSE "direct",
                                   !.todo = {calls[c].id}])
     ELSE Reply(c, "notFound")
  /\ UNCHANGED <<pools, accounts>>

\* GetPoolHierarchy, below one pool or of everything: all pools in one list, and
\* in SQLite the statistics of one pool after the other.
StartHierarchy(c) ==
  \E i \in PoolRefs :
    Begin(c, Call("hierarchy", IF backend = "postgres" THEN "listAll" ELSE "list", i))

ListForHierarchy(c) ==
  /\ AtStatement(c, "hierarchy", "list") /\ Runs(c)
  /\ LET i == calls[c].id
         S == SubtreeIn(pools, IF i = Nil THEN ChildrenIn(pools, Nil) ELSE {i})
     IN  IF i # Nil /\ ~ LivePool(i) THEN Reply(c, "notFound")
         ELSE IF S = {} THEN Reply(c, "ok")
         ELSE Continue(c, [calls[c] EXCEPT !.pc = "direct", !.todo = S])
  /\ UNCHANGED <<pools, accounts>>

\* PostgreSQL computes everything from one list.
ListAll(c) ==
  /\ \E op \in {"stats", "hierarchy"} : AtStatement(c, op, "listAll")
  /\ Runs(c)
  /\ Reply(c, IF calls[c].op = "hierarchy" /\ calls[c].id # Nil /\ ~ LivePool(calls[c].id)
              THEN "notFound" ELSE "ok")
  /\ UNCHANGED <<pools, accounts>>

\* The result set of the direct children left open while the others are counted.
ListDirectOpen(c) ==
  /\ \E op \in {"stats", "hierarchy"} : AtStatement(c, op, "direct")
  /\ Runs(c)
  /\ \E i \in Topmost(calls[c].todo) :
       Continue(c, [calls[c] EXCEPT !.pc = "count", !.id = i, !.todo = @ \ {i},
                                    !.cursors = @ + 1])
  /\ UNCHANGED <<pools, accounts>>

\* The direct children of the next pool: read to the end before anything else.
ListDirect(c) ==
  /\ \E op \in {"stats", "hierarchy"} : AtStatement(c, op, "direct")
  /\ Runs(c)
  /\ \E i \in Topmost(calls[c].todo) :
       Continue(c, [calls[c] EXCEPT !.pc = "count", !.id = i, !.todo = @ \ {i}])
  /\ UNCHANGED <<pools, accounts>>

\* countDescendants(i): a result set of the children of i is opened.
Descend(c, i) ==
  /\ Runs(c)
  /\ Continue(c, [calls[c] EXCEPT !.pc = "next", !.cursors = @ + 1,
                              !.stack = <<ChildrenIn(pools, i)>> \o @])
  /\ UNCHANGED <<pools, accounts>>

OpenDescendants(c) ==
  /\ \E op \in {"stats", "hierarchy"} : AtStatement(c, op, "count")
  /\ Descend(c, calls[c].id)

Counting(c) == \E op \in {"stats", "hierarchy"} : AtStatement(c, op, "next")

\* Next of the innermost result set gives a child, and the query for that
\* child's own children asks for another connection.
NextDescendant(c) ==
  /\ Counting(c) /\ Head(calls[c].stack) # {}
  /\ Runs(c)
  /\ \E i \in Head(calls[c].stack) :
       Continue(c, [calls[c] EXCEPT !.cursors = @ + 1,
                  !.stack = <<ChildrenIn(pools, i), Head(@) \ {i}>> \o Tail(@)])
  /\ UNCHANGED <<pools, accounts>>

\* Next finds no more rows: that closes the result set.
CloseDescendants(c) ==
  /\ Counting(c) /\ Head(calls[c].stack) = {}
  /\ LET rest == Tail(calls[c].stack) IN
     IF rest # <<>>
     THEN Continue(c, [calls[c] EXCEPT !.cursors = @ - 1, !.stack = rest])
     ELSE IF calls[c].todo # {}
     THEN Continue(c, [calls[c] EXCEPT !.pc = "direct", !.cursors = @ - 1, !.stack = rest])
     ELSE Reply(c, "ok")
  /\ UNCHANGED <<backend, pools, accounts, starts, errors>>

(***************************************************************************)
(* A statement fails, or the client goes away and cancels the context that *)
(* every statement and every wait for a connection takes: the method       *)
(* returns at once.  What its earlier statements did stays done.           *)
(* PostgreSQL takes a failure to resolve a row for a row that is missing.  *)
(***************************************************************************)
StatementFails(c) ==
  /\ Busy(c) /\ errors < MaxErrors
  /\ errors' = errors + 1
  /\ Reply(c, IF calls[c].pc \in {"parent", "account", "resolve"} THEN "notFound" ELSE "error")
  /\ UNCHANGED <<backend, pools, accounts, starts>>

SqlInit ==
  /\ backend \in DOMAIN Connections
  /\ pools = SeedPools /\ accounts = SeedAccounts
  /\ calls = [c \in Callers |-> Idle("none")]
  /\ starts = 0 /\ errors = 0

SqlStart(c) ==
  \/ StartCreatePool(c) \/ StartUpdatePool(c) \/ StartDeletePool(c)
  \/ StartDeletePoolCascade(c) \/ StartCreateAccount(c) \/ StartUpdateAccount(c)
  \/ StartDeleteAccount(c) \/ StartDeleteAccountCascade(c)
  \/ StartStats(c) \/ StartHierarchy(c)

SqlStep(c) ==
  \/ ResolveParent(c) \/ ResolveAccount(c) \/ InsertPool(c)
  \/ ReadPool(c) \/ WritePool(c) \/ RereadPool(c)
  \/ CountChildren(c) \/ DeletePool(c)
  \/ DeleteTree(c) \/ ListForCascade(c) \/ DeleteNextRow(c)
  \/ InsertAccount(c) \/ OpenAccount(c) \/ WriteAccount(c) \/ RereadAccount(c)
  \/ CountPools(c) \/ DeleteAccount(c)
  \/ ResolveForCascade(c) \/ DeleteTrees(c) \/ ListForAccount(c)
  \/ LookupAccount(c) \/ DeleteOwner(c)
  \/ GetForStats(c) \/ ListForHierarchy(c) \/ ListAll(c)
  \/ ListDirect(c) \/ OpenDescendants(c) \/ NextDescendant(c) \/ CloseDescendants(c)

SqlNext == \E c \in Callers : SqlStart(c) \/ SqlStep(c) \/ StatementFails(c)

SqlSpec == SqlInit /\ [][SqlNext]_sqlVars

\* A call that is able to run its next statement gets to run it in the end.
SqlFairness == \A c \in Callers : SF_sqlVars(SqlStep(c))

-----------------------------------------------------------------------------
(***************************************************************************)
(* Equal blocks are not overlap to the handlers, which leave them to the   *)
(* store's unique index: no two live pools of one parent have one block,   *)
(* whatever requests race.                                                 *)
(***************************************************************************)
NoTwins ==
  \A i, j \in DOMAIN pools :
    i # j /\ pools[i].live /\ pools[j].live /\ pools[i].parent = pools[j].parent
      => pools[i].cidr # pools[j].cidr

(***************************************************************************)
(* A statement that deletes a pool or an account leaves a live pool below  *)
(* it only when another call put that pool there after this one looked, or *)
(* when this one has still to delete it.                                   *)
(***************************************************************************)
Stepped(c) == calls'[c] # calls[c]

Excused(c, j, tied(_)) ==
  /\ calls[c].snap # <<>>
  /\ \/ LET rows == Head(calls[c].snap)
        IN ~ (j \in DOMAIN rows /\ rows[j].live /\ tied(rows[j]))
     \/ Busy(c)' /\ j \in calls'[c].todo

StrandsOnlyByRace ==
  [][\A c \in Callers : Stepped(c) =>
       /\ \A i \in DOMAIN pools : pools[i].live /\ ~ pools'[i].live =>
            \A j \in ChildrenIn(pools, i)' : Excused(c, j, LAMBDA row : row.parent = i)
       /\ \A a \in DOMAIN accounts : accounts[a].live /\ ~ accounts'[a].live =>
            \A j \in OwnedIn(pools, a)' : Excused(c, j, LAMBDA row : row.account = a)
    ]_sqlVars

(***************************************************************************)
(* A cascade that reports success has deleted the pool or account and      *)
(* every pool it found below, whichever calls ran beside it.               *)
(***************************************************************************)
CascadeDeletesAll ==
  [][\A c \in Callers :
       LET c0 == calls[c]
           rows == IF c0.snap = <<>> THEN pools ELSE Head(c0.snap)
       IN
       Busy(c) /\ calls'[c] = Idle("ok") =>
         /\ c0.op = "cascadePool" =>
              \A j \in SubtreeIn(rows, {c0.id}) : ~ pools'[j].live
         /\ c0.op = "cascadeAccount" =>
              /\ ~ accounts'[c0.id].live
              /\ \A j \in SubtreeIn(rows, OwnedIn(rows, c0.id)) : ~ pools'[j].live
    ]_sqlVars

(***************************************************************************)
(* No delete of the SQL stores leaves a child or a pool behind, but for a  *)
(* race, and a cascade that says so has deleted everything.                *)
(***************************************************************************)
SqlDeletesClean == StrandsOnlyByRace /\ CascadeDeletesAll

(***************************************************************************)
(* Every call returns: no set of calls holds all the connections while     *)
(* each of them waits for one more.                                        *)
(***************************************************************************)
CallsReturn == \A c \in Callers : Busy(c) ~> ~ Busy(c)

=============================================================================
