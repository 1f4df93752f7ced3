------------------------------ MODULE Transfer ------------------------------
(***************************************************************************)
(* Pools made many at a time: the export of an installation and the CSV    *)
(* imports (internal/api/export_handlers.go), and the plan of a            *)
(* conversation that is applied (internal/api/ai_handlers.go).             *)
(*                                                                         *)
(* A request handles its rows one after the other, each with store calls   *)
(* of its own: a row that fails is reported and the next one follows, and  *)
(* others write in between.  People rearrange the rows of a file before    *)
(* they import it.  0 stands for no parent and no account, as in the code; *)
(* CIDRs, names and the column parsing are left out.                       *)
(***************************************************************************)
EXTENDS Integers, Sequences, FiniteSets, Functions

CONSTANTS Installations,   \* stores a behaviour may start on, or import to
          Plans,           \* parent of each entry of a plan, by position
          MaxFile,         \* bound: pools in a file that is imported
          MaxBulk,         \* bound: requests
          MaxOthers        \* bound: writes of others

VARIABLES blocks,    \* pools: id -> [parent, owner, live]
          owners,    \* accounts: id -> [key, live]
          file,      \* the export: [accounts : keys, pools : rows]
          bulk,      \* the request under way, or the last one
          bulks, others

Block == [parent : Nat, owner : Nat, live : BOOLEAN]

OwnerKeys ==
  UNION {{place.owners[a].key : a \in DOMAIN place.owners} : place \in Installations}

Owner == [key : OwnerKeys, live : BOOLEAN]

\* A parent is older than its children; a plan refers to entries by position
ASSUME TransferAssumption ==
  /\ \A place \in Installations :
       /\ place.blocks \in Seq(Block) /\ place.owners \in Seq(Owner)
       /\ \A i \in DOMAIN place.blocks : place.blocks[i].parent < i
  /\ Plans \subseteq Seq(Nat)

transferVars == <<blocks, owners, file, bulk, bulks, others>>

InStore(i) == i \in DOMAIN blocks /\ blocks[i].live

OwnerKnown(a) == a \in DOMAIN owners /\ owners[a].live

\* The members of S, by how many come before
Ordered(S, before) ==
  [n \in 1 .. Cardinality(S) |->
     CHOOSE k \in S : Cardinality({j \in S : <<j, k>> \in before}) = n - 1]

ListOf(store) ==
  LET alive == {i \in DOMAIN store : store[i].live}
  IN Ordered(alive, {p \in alive \X alive : p[1] < p[2]})

Over == bulk.at > Len(bulk.rows)

Takes(op, rows, keys) ==
  /\ Over /\ bulks < MaxBulk
  /\ bulks' = bulks + 1
  /\ bulk' = [op |-> op, rows |-> rows, keys |-> keys, at |-> 1, made |-> <<>>,
              pc |-> "resolve", parent |-> 0, owner |-> 0]
  /\ UNCHANGED <<blocks, owners, file, others>>

\* The row is done with: made says which id it got, 0 for none
RowDone(id) ==
  bulk' = [bulk EXCEPT !.at = @ + 1, !.made = Append(@, id), !.pc = "resolve"]

Skipped == RowDone(0) /\ UNCHANGED <<blocks, owners, file, bulks, others>>

\* CreatePool fails, for a conflict or otherwise, or the next id is given out
CreateBlock(parent, owner) ==
  \/ Skipped
  \/ /\ blocks' = Append(blocks, [parent |-> parent, owner |-> owner, live |-> TRUE])
     /\ RowDone(Len(blocks) + 1)
     /\ UNCHANGED <<owners, file, bulks, others>>

-----------------------------------------------------------------------------
(* handleExport: accounts and pools are listed in two calls.               *)

ExportAccounts ==
  /\ file.accounts = <<>> /\ file.pools = <<>>
  /\ LET ids == ListOf(owners)
     IN file' = [file EXCEPT !.accounts = [n \in DOMAIN ids |-> owners[ids[n]].key]]
  /\ UNCHANGED <<blocks, owners, bulk, bulks, others>>

ExportPools ==
  /\ file.pools = <<>>
  /\ LET ids == ListOf(blocks)
     IN file' = [file EXCEPT !.pools =
          [n \in DOMAIN ids |->
             [id |-> ids[n], parent |-> blocks[ids[n]].parent,
              owner |-> blocks[ids[n]].owner,
              key |-> IF OwnerKnown(blocks[ids[n]].owner)
                      THEN owners[blocks[ids[n]].owner].key ELSE ""]]]
  /\ UNCHANGED <<blocks, owners, bulk, bulks, others>>

\* The file is taken to another installation
TakeTo(place) ==
  /\ Over /\ file.pools # <<>>
  /\ blocks' = place.blocks /\ owners' = place.owners
  /\ bulk' = [bulk EXCEPT !.rows = <<>>, !.made = <<>>]
  /\ UNCHANGED <<file, bulks, others>>

-----------------------------------------------------------------------------
(* handleImportAccounts                                                    *)

ImportAccounts == file.accounts # <<>> /\ Takes("accounts", file.accounts, <<>>)

ImportAccount ==
  /\ ~ Over /\ bulk.op = "accounts"
  /\ \/ Skipped
     \/ /\ owners' = Append(owners, [key |-> bulk.rows[bulk.at], live |-> TRUE])
        /\ RowDone(Len(owners) + 1)
        /\ UNCHANGED <<blocks, file, bulks, others>>

-----------------------------------------------------------------------------
(* handleImportPools                                                       *)

AsGiven(rows) == rows                    \* mutant: rows stay in the order of the file

\* The stable sort: rows without a parent, then by the parent's number
ParentsFirst(rows) ==
  LET Before(j, k) == \/ rows[j].parent < rows[k].parent
                      \/ rows[j].parent = rows[k].parent /\ j < k
      order == Ordered(DOMAIN rows,
                       {p \in (DOMAIN rows) \X (DOMAIN rows) : Before(p[1], p[2])})
  IN [n \in DOMAIN rows |-> rows[order[n]]]

\* Accounts are told by an account_key column, or by the ids of the export
ImportPools(byKey) ==
  /\ file.pools # <<>> /\ Len(file.pools) <= MaxFile
  /\ Over
  /\ \E order \in Bijection(DOMAIN file.pools, DOMAIN file.pools) :
     LET known == ListOf(owners)
         given == [n \in DOMAIN order |->
                     [file.pools[order[n]] EXCEPT !.key = IF byKey THEN @ ELSE ""]]
     IN Takes("pools", ParentsFirst(given),
              [n \in DOMAIN known |-> [key |-> owners[known[n]].key, id |-> known[n]]])

Row == bulk.rows[bulk.at]

\* accountKeyToID: of accounts with one key the last listed, as at the start
ByKey(key) ==
  LET named == {n \in DOMAIN bulk.keys : bulk.keys[n].key = key}
  IN {bulk.keys[n].id : n \in {m \in named : \A l \in named : l <= m}}

RowOwner ==
  CASE Row.key # "" -> ByKey(Row.key)
    [] Row.key = "" /\ Row.owner # 0 -> {a \in {Row.owner} : OwnerKnown(a)}
    [] OTHER -> {0}

\* oldToNewID
Renumbered(parent) ==
  {bulk.made[n] : n \in {m \in 1 .. bulk.at - 1 :
                           bulk.rows[m].id = parent /\ bulk.made[m] # 0}}

\* The parent made for its row, or else the pool that has that number here
RowParent ==
  IF Row.parent = 0 THEN {0}
  ELSE IF Renumbered(Row.parent) # {} THEN Renumbered(Row.parent)
  ELSE {i \in {Row.parent} : InStore(i)}

ResolveRow ==
  /\ ~ Over /\ bulk.op = "pools" /\ bulk.pc = "resolve"
  /\ IF RowOwner = {} \/ RowParent = {} THEN Skipped
     ELSE \E a \in RowOwner, p \in RowParent :
            /\ bulk' = [bulk EXCEPT !.pc = "create", !.parent = p, !.owner = a]
            /\ UNCHANGED <<blocks, owners, file, bulks, others>>

CreateRow ==
  /\ ~ Over /\ bulk.op = "pools" /\ bulk.pc = "create"
  /\ CreateBlock(bulk.parent, bulk.owner)

-----------------------------------------------------------------------------
(* handleApplyPlan                                                         *)

PrecedingOnly(plan) == \A n \in DOMAIN plan : plan[n] < n

ApplyPlan(plan) == plan # <<>> /\ PrecedingOnly(plan) /\ Takes("plan", plan, <<>>)

ApplyEntry ==
  /\ ~ Over /\ bulk.op = "plan"
  /\ LET ref == bulk.rows[bulk.at]
     IN IF ref = 0 THEN CreateBlock(0, 0)
        ELSE IF bulk.made[ref] = 0 THEN Skipped
        ELSE CreateBlock(bulk.made[ref], 0)

-----------------------------------------------------------------------------
(* Other requests, by what they write.                                     *)

Other == others < MaxOthers /\ others' = others + 1 /\ UNCHANGED <<file, bulk, bulks>>

\* A delete, which leaves the children of a pool that has some alone only in races
OtherDeletes(i) ==
  /\ InStore(i)
  /\ Other
  /\ blocks' = [blocks EXCEPT ![i].live = FALSE]
  /\ UNCHANGED owners

OtherDeletesAccount(a) ==
  /\ OwnerKnown(a)
  /\ Other
  /\ owners' = [owners EXCEPT ![a].live = FALSE]
  /\ UNCHANGED blocks

OtherCreates(parent) ==
  /\ parent = 0 \/ InStore(parent)
  /\ Other
  /\ blocks' = Append(blocks, [parent |-> parent, owner |-> 0, live |-> TRUE])
  /\ UNCHANGED owners

-----------------------------------------------------------------------------
TransferInit ==
  /\ \E place \in Installations : blocks = place.blocks /\ owners = place.owners
  /\ file = [accounts |-> <<>>, pools |-> <<>>]
  /\ bulk = [op |-> "none", rows |-> <<>>, keys |-> <<>>, at |-> 1, made |-> <<>>,
             pc |-> "resolve", parent |-> 0, owner |-> 0]
  /\ bulks = 0 /\ others = 0

TransferNext ==
  \/ ExportAccounts \/ ExportPools
  \/ \E place \in Installations : TakeTo(place)
  \/ ImportAccounts \/ ImportAccount
  \/ \E byKey \in BOOLEAN : ImportPools(byKey)
  \/ ResolveRow \/ CreateRow
  \/ \E plan \in Plans : ApplyPlan(plan)
  \/ ApplyEntry
  \/ \E i \in DOMAIN blocks : OtherDeletes(i)
  \/ \E a \in DOMAIN owners : OtherDeletesAccount(a)
  \/ \E parent \in {0} \cup DOMAIN blocks : OtherCreates(parent)

TransferSpec == TransferInit /\ [][TransferNext]_transferVars

-----------------------------------------------------------------------------
ParentRow(j, k) ==
  IF bulk.op = "plan" THEN bulk.rows[k] = j
  ELSE bulk.rows[k].parent = bulk.rows[j].id

\* What a file or a plan nests stays nested: whatever order the rows were given
\* in, which of them failed and what others wrote meanwhile, two pools made for
\* a parent and its child are parent and child, and a child of a plan is not
\* made without its parent.  An account named by its key is one with that key.
TreeCopied ==
  bulk.op \in {"plan", "pools"} =>
    \A k \in DOMAIN bulk.made : bulk.made[k] # 0 =>
      /\ \A j \in DOMAIN bulk.made :
           ParentRow(j, k) =>
             \/ bulk.made[j] = 0 /\ bulk.op = "pools"
             \/ blocks[bulk.made[k]].parent = bulk.made[j] /\ bulk.made[j] # 0
      /\ bulk.op = "pools" /\ bulk.rows[k].key # "" =>
           owners[blocks[bulk.made[k]].owner].key = bulk.rows[k].key
=============================================================================
