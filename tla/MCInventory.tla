---------------------------- MODULE MCInventory -----------------------------
(* Parts that share no state here: the pool API over the store in memory;   *)
(* the Terraform provider with the server it calls, on a SQL backend;       *)
(* network objects and relationships, on each backend.  A behaviour is      *)
(* about one of them, and the others do nothing.                            *)
EXTENDS MCPools, Terraform, NetworkObjects

Acc(key, force) ==
  [kind |-> "account", fixed |-> key, up |-> Nothing, owner |-> Nothing, name |-> "n",
   force |-> force]

Po(cidr, up, owner, name) ==
  [kind |-> "pool", fixed |-> cidr, up |-> up, owner |-> owner, name |-> name,
   force |-> FALSE]

\* A pool in an account and one below it; the account moved from the one to the
\* other; a new key and a new CIDR, which replace the account and the pool
MCConfigs ==
  {"A" :> Acc("k", FALSE) @@ "P" :> Po("c", Nothing, "A", "n") @@ "C" :> Po("d", "P", Nothing, "n"),
   "A" :> Acc("k", FALSE) @@ "P" :> Po("c", Nothing, Nothing, "m") @@ "C" :> Po("d", "P", "A", "n"),
   "A" :> Acc("l", TRUE) @@ "P" :> Po("e", Nothing, "A", "n")}

MCThings == <<[name |-> "a", pool |-> 0, source |-> TRUE]>>
MCCreations == {[name |-> "b", pool |-> 1, source |-> FALSE]}
MCPatches == {"name" :> "c", "pool" :> 1}

InventorySymmetry ==
  Symmetry \cup Permutations(ObjectHandlers)

VARIABLE focus

inventoryVars == <<vars, terraformVars, objectVars, focus>>

OnPools == focus = "pools" /\ UNCHANGED <<terraformVars, objectVars, focus>>
OnTerraform == focus = "terraform" /\ UNCHANGED <<vars, objectVars, focus>>
OnObjects == focus = "objects" /\ UNCHANGED <<vars, terraformVars, focus>>

\* The parts that do nothing start in one state each
InventoryInit ==
  /\ focus \in {"pools", "terraform", "objects"}
  /\ Init /\ TerraformInit /\ ObjectsInit
  /\ focus = "objects" \/ objectBackend = "memory"

InventoryNext ==
  \/ Next /\ OnPools
  \/ StartApply /\ OnTerraform
  \/ ReadFails /\ OnTerraform
  \/ Plan /\ OnTerraform
  \/ EndApply /\ OnTerraform
  \/ \E a \in Addresses :
       \/ Read(a) /\ OnTerraform
       \/ Send(a) /\ OnTerraform
       \/ Skip(a) /\ OnTerraform
       \/ Serve(a) /\ OnTerraform
       \/ NotFound(a) /\ OnTerraform
       \/ Refuse(a) /\ OnTerraform
       \/ GiveUp(a) /\ OnTerraform
       \/ \E i \in DOMAIN objects : ImportState(a, i) /\ OnTerraform
  \/ \E l \in late : ServeLate(l) /\ OnTerraform
  \/ \E r \in OtherRequests : OtherWrites(r) /\ OnTerraform
  \/ \E h \in ObjectHandlers :
       \/ \E new \in Creations : AskCreate(h, new) /\ OnObjects
       \/ \E i \in DOMAIN things, asked \in Patches : AskPatch(h, i, asked) /\ OnObjects
       \/ ReadRow(h) /\ OnObjects
       \/ validateRefs(h) /\ OnObjects
       \/ CreateNetworkObject(h) /\ OnObjects
       \/ UpdateNetworkObject(h) /\ OnObjects
       \/ ObjectFails(h) /\ OnObjects
       \/ \E op \in {"view", "link", "placeholder"}, c \in ConflictIds :
            AskView(h, op, c) /\ OnObjects
       \/ ListConflicts(h) /\ OnObjects
       \/ \E c \in ConflictIds : PersistComputed(h, c) /\ OnObjects
       \/ ViewDone(h) /\ OnObjects
       \/ LinkAction(h) /\ OnObjects
       \/ PlaceholderAction(h) /\ OnObjects
       \/ NameState(h) /\ OnObjects
  \/ OnObjects /\ \E r \in Relations, s \in {"", "open", "resolved"} :
       PostRelationship(r, s)
  \/ OnObjects /\ \E r \in Relations, s \in {"open", "resolved"} :
       ResolveRelationship(r, s)
  \/ \E c \in ConflictIds : ConflictComes(c) /\ OnObjects
  \/ \E p \in poolsThere : PoolGoes(p) /\ OnObjects

InventorySpec == InventoryInit /\ [][InventoryNext]_inventoryVars

=============================================================================
