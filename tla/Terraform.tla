----------------------------- MODULE Terraform -----------------------------
(***************************************************************************)
(* The Terraform provider (terraform-provider-cloudpam): accounts and      *)
(* pools that are declared in a configuration, created, updated, replaced  *)
(* and deleted by calls of the API, beside other users of the API.  A call *)
(* may fail, and its answer may be lost while the server goes on with it.  *)
(*                                                                         *)
(* The server is one of the SQL backends and a request is one step of it   *)
(* (SqlStore has its statements).  The provider and its client are those   *)
(* of the code; Terraform itself, which refreshes, plans and orders the    *)
(* calls, is external.  An account's key and a pool's CIDR, which cannot   *)
(* be changed, are `fixed`; every attribute that can be is in `name`.      *)
(***************************************************************************)
EXTENDS Naturals, Sequences

CONSTANTS Configs,     \* configurations: address -> declaration
          Addresses,   \* of resources
          Untracked,   \* no such resource in the state
          Nothing,     \* no parent, no account
          MaxObjects, MaxApplies, MaxForeign, MaxLost   \* bounds

VARIABLES objects,     \* the server's rows: <<[kind, fixed, up, owner, name, live, by, late]>>
          tracked,     \* Terraform's state: address -> [id, fixed, up, owner, name, force]
          declared,    \* address -> [kind, fixed, up, owner, name, force]
          phase,       \* "idle", "refresh" or "apply"
          unread,      \* addresses still to be refreshed
          walk,        \* address -> calls still to be made, or <<"failed">>
          calls,       \* addresses whose call is under way -> its request
          late,        \* requests whose client has given up
          quiet,       \* nobody else wrote since the apply began
          applies, foreign, lost

Kinds == {"account", "pool"}
Fixes == UNION {{c[a].fixed : a \in DOMAIN c} : c \in Configs}
Labels == (UNION {{c[a].name : a \in DOMAIN c} : c \in Configs}) \cup {"other"}
Numbers == Nat \cup {Nothing}

Resource == [kind : Kinds, fixed : Fixes, up : Addresses \cup {Nothing},
             owner : Addresses \cup {Nothing}, name : Labels, force : BOOLEAN]

Row == [kind : Kinds, fixed : Fixes, up : Numbers, owner : Numbers, name : Labels, live : BOOLEAN,
        by : Addresses \cup {"other"}, late : BOOLEAN]

Attributes == [id : Nat, fixed : Fixes, up : Numbers, owner : Numbers, name : Labels, force : BOOLEAN]

Requests ==
  [op : {"create"}, kind : Kinds, fixed : Fixes, up : Numbers, owner : Numbers, name : Labels]
  \cup [op : {"update"}, id : Nat, name : Labels, owner : Numbers]
  \cup [op : {"delete"}, id : Nat, force : BOOLEAN]

\* A configuration refers to what it declares, and an address names its type
ASSUME TerraformAssumption ==
  /\ "other" \notin Addresses
  /\ Nothing \notin Nat \cup Addresses
  /\ Untracked \notin Attributes
  /\ \A c \in Configs : \A a \in DOMAIN c :
       /\ a \in Addresses /\ c[a] \in Resource
       /\ {c[a].up, c[a].owner} \subseteq DOMAIN c \cup {Nothing}
       /\ \A d \in Configs : a \in DOMAIN d => d[a].kind = c[a].kind

terraformVars == <<objects, tracked, declared, phase, unread, walk, calls, late,
                   quiet, applies, foreign, lost>>

Alive(i) == i \in DOMAIN objects /\ objects[i].live

Tracks(a) == tracked[a] # Untracked

Declares(a) == a \in DOMAIN declared

\* applyPoolToModel, applyAccountToModel: force_destroy is Terraform's own
Known(i, o, force) ==
  [id |-> i, fixed |-> o.fixed, up |-> o.up, owner |-> o.owner, name |-> o.name,
   force |-> force]

-----------------------------------------------------------------------------
(* The API.  Children of a pool and pools of an account keep it, unless    *)
(* the delete is forced.                                                   *)

Below(roots) ==
  {i \in DOMAIN objects : Alive(i) /\ {objects[i].up, objects[i].owner} \cap roots # {}}

\* Pools of an account, and pools below pools
Subtree(i) ==
  {j \in DOMAIN objects :
     \A S \in SUBSET DOMAIN objects : {i} \cup Below(S) \subseteq S => j \in S}

Taken(r) ==
  \E i \in DOMAIN objects :
    Alive(i) /\ objects[i].kind = r.kind /\ objects[i].fixed = r.fixed /\ objects[i].up = r.up

InsertedBare(r, by, isLate) ==       \* mutant: the create leaves account_id out
  Append(objects, [kind |-> r.kind, fixed |-> r.fixed, up |-> r.up, owner |-> Nothing,
                   name |-> r.name, live |-> TRUE, by |-> by, late |-> isLate])

Inserted(r, by, isLate) ==
  Append(objects, [kind |-> r.kind, fixed |-> r.fixed, up |-> r.up, owner |-> r.owner,
                   name |-> r.name, live |-> TRUE, by |-> by, late |-> isLate])

Patched(r) == [objects EXCEPT ![r.id].name = r.name, ![r.id].owner = r.owner]

Deleted(r) ==
  [i \in DOMAIN objects |->
     [objects[i] EXCEPT !.live = @ /\ i \notin (IF r.force THEN Subtree(r.id) ELSE {r.id})]]

Accepted(r) ==
  CASE r.op = "create" -> ~ Taken(r) /\ Len(objects) < MaxObjects
    [] r.op = "update" -> Alive(r.id)
    [] r.op = "delete" -> Alive(r.id) /\ (r.force \/ Below({r.id}) = {})

Done(r, by, isLate) ==
  CASE r.op = "create" -> Inserted(r, by, isLate)
    [] r.op = "update" -> Patched(r)
    [] r.op = "delete" -> Deleted(r)

-----------------------------------------------------------------------------
(* Terraform: refresh, plan, and the order of the calls (external).        *)

StartApply ==
  /\ phase = "idle" /\ applies < MaxApplies
  /\ \E c \in Configs : declared' = c
  /\ phase' = "refresh" /\ unread' = {a \in Addresses : Tracks(a)}
  /\ walk' = [a \in Addresses |-> <<>>]
  /\ quiet' = TRUE /\ applies' = applies + 1
  /\ UNCHANGED <<objects, tracked, calls, late, foreign, lost>>

\* Read: a row that is gone is dropped from the state, to be made again
Read(a) ==
  /\ phase = "refresh" /\ a \in unread
  /\ LET i == tracked[a].id
     IN tracked' = [tracked EXCEPT ![a] =
          IF Alive(i) THEN Known(i, objects[i], @.force) ELSE Untracked]
  /\ unread' = unread \ {a}
  /\ UNCHANGED <<objects, declared, phase, walk, calls, late, quiet, applies, foreign, lost>>

\* Any other answer ends the run
ReadFails ==
  /\ phase = "refresh" /\ unread # {}
  /\ phase' = "idle" /\ quiet' = FALSE /\ unread' = {}
  /\ UNCHANGED <<objects, tracked, declared, walk, calls, late, applies, foreign, lost>>

IdOf(ref) == IF ref = Nothing THEN Nothing ELSE tracked[ref].id

\* RequiresReplace of cidr, parent_id and key; the id of a parent that is yet
\* to be made is not known, and differs from any
Renewed ==
  LET Itself(a) == ~ Tracks(a) \/ tracked[a].fixed # declared[a].fixed
      Moved(a) == /\ ~ Itself(a)
                  /\ declared[a].up = Nothing \/ Tracks(declared[a].up)
                  /\ tracked[a].up # IdOf(declared[a].up)
      Forced(S) == {a \in DOMAIN declared : Itself(a) \/ Moved(a) \/ declared[a].up \in S}
  IN {a \in DOMAIN declared :
        \A S \in SUBSET DOMAIN declared : Forced(S) \subseteq S => a \in S}

Differs(a) ==
  \/ tracked[a].name # declared[a].name \/ tracked[a].force # declared[a].force
  \/ declared[a].owner \in Renewed \/ tracked[a].owner # IdOf(declared[a].owner)

Planned(a) ==
  CASE ~ Declares(a) -> IF Tracks(a) THEN <<"delete">> ELSE <<>>
    [] Declares(a) /\ ~ Tracks(a) -> <<"create">>
    [] Declares(a) /\ Tracks(a) /\ a \in Renewed -> <<"delete", "create">>
    [] OTHER -> IF Differs(a) THEN <<"update">> ELSE <<>>

Plan ==
  /\ phase = "refresh" /\ unread = {}
  /\ phase' = "apply"
  /\ walk' = [a \in Addresses |-> Planned(a)]
  /\ UNCHANGED <<objects, tracked, declared, unread, calls, late, quiet, applies, foreign, lost>>

Pending(a) == phase = "apply" /\ a \notin DOMAIN calls /\ walk[a] # <<>>

Uses(a, b) == b # Nothing /\ (declared[a].up = b \/ declared[a].owner = b)

\* What a resource refers to is made first; what refers to it is deleted first
Reached(a) ==
  IF walk[a][1] = "delete"
  THEN \A b \in Addresses : Tracks(b) /\ tracked[a].id \in {tracked[b].up, tracked[b].owner} =>
         walk[b] = <<>> \/ walk[b][1] \notin {"delete", "failed"}
  ELSE \A b \in Addresses : Uses(a, b) => walk[b] = <<>>

\* A resource is left alone when one it waits for has failed
Hopeless(a) ==
  IF walk[a][1] = "delete"
  THEN \E b \in Addresses : Tracks(b) /\ tracked[a].id \in {tracked[b].up, tracked[b].owner}
                            /\ walk[b] = <<"failed">>
  ELSE \E b \in Addresses : Uses(a, b) /\ walk[b] = <<"failed">>

Skip(a) ==
  /\ Pending(a) /\ walk[a] # <<"failed">> /\ Hopeless(a)
  /\ walk' = [walk EXCEPT ![a] = <<"failed">>]
  /\ UNCHANGED <<objects, tracked, declared, phase, unread, calls, late, quiet, applies,
                 foreign, lost>>

EndApply ==
  /\ phase = "apply"
  /\ \A a \in Addresses : walk[a] \in {<<>>, <<"failed">>}
  /\ phase' = "idle"
  /\ UNCHANGED <<objects, tracked, declared, unread, walk, calls, late, quiet, applies,
                 foreign, lost>>

-----------------------------------------------------------------------------
(* Create, Update and Delete of the two resources.                         *)

\* account_id is always sent, null to clear it
PatchOf(a) ==
  [op |-> "update", id |-> tracked[a].id, name |-> declared[a].name,
   owner |-> IdOf(declared[a].owner)]

RequestOf(a) ==
  CASE walk[a][1] = "create" ->
         [op |-> "create", kind |-> declared[a].kind, fixed |-> declared[a].fixed,
          up |-> IdOf(declared[a].up), owner |-> IdOf(declared[a].owner),
          name |-> declared[a].name]
    [] walk[a][1] = "update" -> PatchOf(a)
    [] walk[a][1] = "delete" ->
         [op |-> "delete", id |-> tracked[a].id, force |-> tracked[a].force]

Send(a) ==
  /\ Pending(a) /\ walk[a] # <<"failed">> /\ Reached(a)
  /\ calls' = [b \in DOMAIN calls \cup {a} |-> IF b = a THEN RequestOf(a) ELSE calls[b]]
  /\ UNCHANGED <<objects, tracked, declared, phase, unread, walk, late, quiet, applies,
                 foreign, lost>>

Returned(a) == calls' = [b \in DOMAIN calls \ {a} |-> calls[b]]

\* Only the answer of a success changes the state
Answered(a) ==
  LET r == calls[a]
      i == IF r.op = "create" THEN Len(objects) + 1 ELSE r.id
  IN tracked' = [tracked EXCEPT ![a] =
       IF r.op = "delete" THEN Untracked
       ELSE Known(i, objects'[i], declared[a].force)]

Serve(a) ==
  /\ a \in DOMAIN calls
  /\ Accepted(calls[a])
  /\ objects' = Done(calls[a], a, FALSE)
  /\ Answered(a) /\ Returned(a)
  /\ walk' = [walk EXCEPT ![a] = Tail(@)]
  /\ UNCHANGED <<declared, phase, unread, late, quiet, applies, foreign, lost>>

GoneOrKept(r) == r.op = "delete"     \* mutant: whatever the server answers

\* A delete that finds nothing has done its work
Gone(r) == r.op = "delete" /\ ~ Alive(r.id)

NotFound(a) ==
  /\ a \in DOMAIN calls /\ Gone(calls[a])
  /\ tracked' = [tracked EXCEPT ![a] = Untracked]
  /\ Returned(a)
  /\ walk' = [walk EXCEPT ![a] = Tail(@)]
  /\ UNCHANGED <<objects, declared, phase, unread, late, quiet, applies, foreign, lost>>

\* Refused with 404 or 409, or failed: the state is left as it is
Refuse(a) ==
  /\ a \in DOMAIN calls
  /\ walk' = [walk EXCEPT ![a] = <<"failed">>]
  /\ Returned(a)
  /\ UNCHANGED <<objects, tracked, declared, phase, unread, late, quiet, applies, foreign, lost>>

\* 30 seconds pass, or the connection breaks, and the server goes on
GiveUp(a) ==
  /\ a \in DOMAIN calls /\ lost < MaxLost
  /\ lost' = lost + 1
  /\ late' = late \cup {[by |-> a, request |-> calls[a]]}
  /\ walk' = [walk EXCEPT ![a] = <<"failed">>]
  /\ Returned(a)
  /\ UNCHANGED <<objects, tracked, declared, phase, unread, quiet, applies, foreign>>

ServeLate(l) ==
  /\ Accepted(l.request)
  /\ objects' = Done(l.request, l.by, TRUE)
  /\ late' = late \ {l} /\ quiet' = FALSE
  /\ UNCHANGED <<tracked, declared, phase, unread, walk, calls, applies, foreign, lost>>

-----------------------------------------------------------------------------
\* terraform import, of a row no address has: the id alone, then a read
ImportState(a, i) ==
  /\ phase = "idle" /\ foreign < MaxForeign
  /\ Declares(a) /\ ~ Tracks(a) /\ Alive(i) /\ objects[i].kind = declared[a].kind
  /\ \A b \in Addresses : Tracks(b) => tracked[b].id # i
  /\ tracked' = [tracked EXCEPT ![a] = Known(i, objects[i], FALSE)]
  /\ foreign' = foreign + 1 /\ quiet' = FALSE
  /\ UNCHANGED <<objects, declared, phase, unread, walk, calls, late, applies, lost>>

Foreign ==
  /\ foreign < MaxForeign
  /\ foreign' = foreign + 1 /\ quiet' = FALSE
  /\ UNCHANGED <<tracked, declared, phase, unread, walk, calls, late, applies, lost>>

OtherWrites(r) == Accepted(r) /\ objects' = Done(r, "other", FALSE) /\ Foreign

OtherRequests ==
  [op : {"create"}, kind : {"pool"}, fixed : {declared[a].fixed : a \in DOMAIN declared},
   up : {Nothing}, owner : {Nothing}, name : {"other"}]
  \cup [op : {"update"}, id : DOMAIN objects, name : {"other"}, owner : {Nothing}]
  \cup [op : {"delete"}, id : DOMAIN objects, force : BOOLEAN]

TerraformInit ==
  /\ objects = <<>> /\ tracked = [a \in Addresses |-> Untracked]
  /\ declared = <<>> /\ phase = "idle" /\ unread = {}
  /\ walk = [a \in Addresses |-> <<>>] /\ calls = <<>> /\ late = {}
  /\ quiet = FALSE /\ applies = 0 /\ foreign = 0 /\ lost = 0

TerraformNext ==
  \/ StartApply \/ ReadFails \/ Plan \/ EndApply
  \/ \E a \in Addresses :
       \/ Read(a) \/ Send(a) \/ Skip(a)
       \/ Serve(a) \/ NotFound(a) \/ Refuse(a) \/ GiveUp(a)
       \/ \E i \in DOMAIN objects : ImportState(a, i)
  \/ \E l \in late : ServeLate(l)
  \/ \E r \in OtherRequests : OtherWrites(r)

TerraformSpec == TerraformInit /\ [][TerraformNext]_terraformVars

-----------------------------------------------------------------------------
\* The attributes and references of address a are those of its row
Matches(a) ==
  LET o == objects[tracked[a].id]
  IN /\ o.live /\ o.kind = declared[a].kind
     /\ o.fixed = declared[a].fixed /\ o.up = IdOf(declared[a].up)
     /\ o.owner = IdOf(declared[a].owner) /\ o.name = declared[a].name

\* An apply that succeeds while nobody else writes leaves the server as declared,
\* whatever runs before it failed half way, lost answers or met other users.
AppliedExact ==
  quiet /\ phase = "idle" /\ (\A a \in Addresses : walk[a] = <<>>) =>
    \A a \in Addresses : IF Declares(a) THEN Tracks(a) /\ Matches(a) ELSE ~ Tracks(a)

\* A row that Terraform made and no longer tracks is dead, or was made by a
\* request whose answer was lost.
UntrackedOnlyByLoss ==
  \A i \in DOMAIN objects :
    objects[i].live /\ objects[i].by \in Addresses =>
      objects[i].late \/ \E a \in Addresses : Tracks(a) /\ tracked[a].id = i
=============================================================================
