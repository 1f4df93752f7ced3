--------------------------- MODULE NetworkObjects ---------------------------
(***************************************************************************)
(* Network objects and relationships: their API and the conflict actions   *)
(* and views that write them (internal/api/network_handlers.go), on each   *)
(* backend of the network store.                                           *)
(*                                                                         *)
(* Memory does a store call under one lock.  The SQL stores read a row and *)
(* write it back whole, in two statements, and PostgreSQL looks its        *)
(* references up in between.  SQLite cannot read back a row that has no    *)
(* source: it scans NULL into a string.  Every view computes the conflicts *)
(* anew and upserts a relationship for each; which conflicts there are is  *)
(* Drift's and Network's, and changes under it.                            *)
(***************************************************************************)
EXTENDS Naturals, Sequences, FiniteSets

CONSTANTS ObjectHandlers,  \* request goroutines
          FirstThings,     \* objects there at first
          Creations,       \* bodies of POST: [name, pool, source]
          Patches,         \* bodies of PATCH: functions on some of these
          ConflictIds,       \* ids, which depend on what conflicts
          MaxThings, MaxTasks, MaxChanges     \* bounds

ASSUME ObjectsAssumption ==
  /\ FirstThings \in Seq([name : STRING, pool : Nat, source : BOOLEAN])

VARIABLES objectBackend,   \* "memory", "sqlite" or "postgres"
          things,          \* network objects: id -> [name, pool, source]
          relations,       \* id -> resolution state
          openConflicts,   \* what a view finds now
          poolsThere,      \* pools not deleted
          tasks,           \* locals of each goroutine
          tasksDone, changes

objectVars == <<objectBackend, things, relations, openConflicts, poolsThere, tasks,
                tasksDone, changes>>

NoTask == [op |-> "none"]

Readable(i) == objectBackend = "sqlite" => things[i].source

AllReadable == \A i \in DOMAIN things : Readable(i)

Merged(row, asked) == [f \in DOMAIN row |-> IF f \in DOMAIN asked THEN asked[f] ELSE row[f]]

Takes(h, task) ==
  /\ tasks[h] = NoTask /\ tasksDone < MaxTasks
  /\ tasksDone' = tasksDone + 1
  /\ tasks' = [tasks EXCEPT ![h] = task]
  /\ UNCHANGED <<objectBackend, things, relations, openConflicts, poolsThere, changes>>

\* A request of one step, or a change of others
Change == changes < MaxChanges /\ changes' = changes + 1 /\ UNCHANGED tasksDone

Proceeds(h, task) ==
  /\ tasks' = [tasks EXCEPT ![h] = task]
  /\ UNCHANGED <<objectBackend, openConflicts, poolsThere, tasksDone, changes>>

-----------------------------------------------------------------------------
(* Objects.                                                                *)

Checked == IF objectBackend = "postgres" THEN "check" ELSE "write"

AskCreate(h, new) ==
  Takes(h, [op |-> "create", id |-> 0, asked |-> new, row |-> new, stale |-> FALSE,
            pc |-> Checked])

AskPatch(h, i, asked) ==
  Takes(h, [op |-> "patch", id |-> i, asked |-> asked, row |-> things[i], stale |-> FALSE,
            pc |-> IF objectBackend = "memory" THEN "write" ELSE "read"])

OnObject(h, pc) == tasks[h].op \in {"create", "patch"} /\ tasks[h].pc = pc

ReadRow(h) ==
  /\ OnObject(h, "read") /\ Readable(tasks[h].id)
  /\ Proceeds(h, [tasks[h] EXCEPT !.row = Merged(things[tasks[h].id], tasks[h].asked),
                                  !.pc = Checked])
  /\ UNCHANGED <<things, relations>>

\* validateNetworkObjectRefs, of the whole row
validateRefs(h) ==
  /\ OnObject(h, "check") /\ tasks[h].row.pool \in poolsThere \cup {0}
  /\ Proceeds(h, [tasks[h] EXCEPT !.pc = "write"])
  /\ UNCHANGED <<things, relations>>

\* SQLite stores a row without a source and answers with an error
CreateNetworkObject(h) ==
  /\ OnObject(h, "write") /\ tasks[h].op = "create" /\ Len(things) < MaxThings
  /\ things' = Append(things, tasks[h].row)
  /\ Proceeds(h, NoTask) /\ UNCHANGED relations

WrittenFromRow(h) == Merged(tasks[h].row, tasks[h].asked)   \* mutant: memory, too

Written(h) ==
  IF objectBackend = "memory" THEN Merged(things[tasks[h].id], tasks[h].asked)
  ELSE tasks[h].row

\* stale is history: the row was written after it was read
UpdateNetworkObject(h) ==
  /\ OnObject(h, "write") /\ tasks[h].op = "patch"
  /\ things' = [things EXCEPT ![tasks[h].id] = Written(h)]
  /\ tasks' = [g \in ObjectHandlers |->
       IF g = h THEN NoTask
       ELSE IF tasks[g].op = "patch" /\ tasks[g].id = tasks[h].id /\ tasks[g].pc # "read"
         THEN [tasks[g] EXCEPT !.stale = objectBackend # "memory"]
       ELSE tasks[g]]
  /\ UNCHANGED <<objectBackend, relations, openConflicts, poolsThere, tasksDone, changes>>

\* A statement fails, the row cannot be read, or a reference is not found
ObjectFails(h) ==
  /\ objectBackend # "memory"
  /\ \E pc \in {"read", "check", "write"} : OnObject(h, pc)
  /\ Proceeds(h, NoTask) /\ UNCHANGED <<things, relations>>

-----------------------------------------------------------------------------
(* Relationships.  "found" is the one of a conflict's ends, "made" the one *)
(* to a placeholder.                                                       *)

Relations == ConflictIds \X {"found", "made"}

WithUpserted(r, state) ==
  [s \in DOMAIN relations \cup {r} |-> IF s = r THEN state ELSE relations[s]]

UpsertedOpen(r, state) ==                 \* mutant: no state is "open"
  WithUpserted(r, IF state = "" THEN "open" ELSE state)

\* No state keeps the one there is
Upserted(r, state) ==
  WithUpserted(r, IF state # "" THEN state
                  ELSE IF r \in DOMAIN relations THEN relations[r] ELSE "open")

PostRelationship(r, state) ==
  /\ Change
  /\ relations' = Upserted(r, state)
  /\ UNCHANGED <<objectBackend, things, openConflicts, poolsThere, tasks>>

ResolveRelationship(r, state) ==
  /\ Change
  /\ r \in DOMAIN relations
  /\ relations' = [relations EXCEPT ![r] = state]
  /\ UNCHANGED <<objectBackend, things, openConflicts, poolsThere, tasks>>

\* GET /network/view, and the conflict actions, which begin and end with a view
AskView(h, op, c) ==
  Takes(h, [op |-> op, conflict |-> c, seen |-> {}, todo |-> {}, pc |-> "list"])

OnView(h, pc) == tasks[h].op \in {"view", "link", "placeholder"} /\ tasks[h].pc = pc

\* buildNetworkView lists the objects too
ListConflicts(h) ==
  /\ OnView(h, "list")
  /\ Proceeds(h, IF AllReadable
                 THEN [tasks[h] EXCEPT !.seen = openConflicts, !.todo = openConflicts,
                                       !.pc = "computed"]
                 ELSE NoTask)
  /\ UNCHANGED <<things, relations>>

\* persistComputedNetworkRelationships: errors are ignored
PersistComputed(h, c) ==
  /\ OnView(h, "computed") /\ c \in tasks[h].todo
  /\ relations' \in {relations, Upserted(<<c, "found">>, "")}
  /\ Proceeds(h, [tasks[h] EXCEPT !.todo = @ \ {c}])
  /\ UNCHANGED things

ViewDone(h) ==
  /\ OnView(h, "computed") /\ tasks[h].todo = {}
  /\ Proceeds(h, IF tasks[h].op # "view" /\ tasks[h].conflict \in tasks[h].seen
                 THEN [tasks[h] EXCEPT !.pc = "act"] ELSE NoTask)
  /\ UNCHANGED <<things, relations>>

\* The link is made, or the action fails
LinkAction(h) ==
  /\ OnView(h, "act") /\ tasks[h].op = "link"
  /\ \/ openConflicts' = openConflicts \ {tasks[h].conflict}
        /\ tasks' = [tasks EXCEPT ![h].pc = "name"]
     \/ UNCHANGED openConflicts /\ tasks' = [tasks EXCEPT ![h] = NoTask]
  /\ UNCHANGED <<objectBackend, things, relations, poolsThere, tasksDone, changes>>

Placeholder(c) == [name |-> c, pool |-> 0, source |-> FALSE]

\* The parent is made, if it was not before; on SQLite that fails
PlaceholderAction(h) ==
  LET new == Placeholder(tasks[h].conflict)
      found == \E i \in DOMAIN things : things[i].name = new.name
  IN
  /\ OnView(h, "act") /\ tasks[h].op = "placeholder"
  /\ found \/ Len(things) < MaxThings
  /\ things' = IF found \/ ~ AllReadable THEN things ELSE Append(things, new)
  /\ \E next \in {NoTask, [tasks[h] EXCEPT !.pc = "name"]} :
       /\ objectBackend = "sqlite" /\ ~ (found /\ AllReadable) => next = NoTask
       /\ Proceeds(h, next)
  /\ UNCHANGED relations

\* persistNetworkConflictActionRelationships: errors are ignored
NameState(h) ==
  /\ OnView(h, "name")
  /\ relations' \in
       {relations,
        IF tasks[h].op = "link" THEN Upserted(<<tasks[h].conflict, "found">>, "resolved")
        ELSE Upserted(<<tasks[h].conflict, "made">>, "open")}
  /\ Proceeds(h, [tasks[h] EXCEPT !.op = "view", !.pc = "list"])
  /\ UNCHANGED things

-----------------------------------------------------------------------------
(* Other requests, by what they change.                                    *)

ConflictComes(c) ==
  /\ Change
  /\ openConflicts' = openConflicts \cup {c}
  /\ UNCHANGED <<objectBackend, things, relations, poolsThere, tasks>>

PoolGoes(p) ==
  /\ Change
  /\ poolsThere' = poolsThere \ {p}
  /\ UNCHANGED <<objectBackend, things, relations, openConflicts, tasks>>

ObjectsInit ==
  /\ objectBackend \in {"memory", "sqlite", "postgres"}
  /\ things = FirstThings /\ relations = <<>> /\ openConflicts = ConflictIds /\ poolsThere = {1}
  /\ tasks = [h \in ObjectHandlers |-> NoTask]
  /\ tasksDone = 0 /\ changes = 0

ObjectsNext ==
  \/ \E h \in ObjectHandlers :
       \/ \E new \in Creations : AskCreate(h, new)
       \/ \E i \in DOMAIN things, asked \in Patches : AskPatch(h, i, asked)
       \/ ReadRow(h) \/ validateRefs(h) \/ CreateNetworkObject(h) \/ UpdateNetworkObject(h)
       \/ ObjectFails(h)
       \/ \E op \in {"view", "link", "placeholder"}, c \in ConflictIds : AskView(h, op, c)
       \/ ListConflicts(h) \/ ViewDone(h) \/ LinkAction(h) \/ PlaceholderAction(h)
       \/ NameState(h)
       \/ \E c \in ConflictIds : PersistComputed(h, c)
  \/ \E r \in Relations, s \in {"", "open", "resolved"} : PostRelationship(r, s)
  \/ \E r \in Relations, s \in {"open", "resolved"} : ResolveRelationship(r, s)
  \/ \E c \in ConflictIds : ConflictComes(c)
  \/ \E p \in poolsThere : PoolGoes(p)

ObjectsSpec == ObjectsInit /\ [][ObjectsNext]_objectVars

-----------------------------------------------------------------------------
\* What was asked stands.  An attribute of an object changes only by a PATCH that
\* names it, or by one that had read the object before it was written by another;
\* and the state of a relationship is left alone by the views, however old the
\* conflicts they computed are.
AskedStands ==
  [][/\ \A i \in DOMAIN things : \A f \in DOMAIN things[i] :
          things'[i][f] # things[i][f] =>
            \E h \in ObjectHandlers :
              /\ tasks'[h] # tasks[h] /\ tasks[h].op = "patch" /\ tasks[h].id = i
              /\ f \in DOMAIN tasks[h].asked \/ tasks[h].stale
     /\ \A r \in DOMAIN relations :
          relations'[r] # relations[r] =>
            \A h \in ObjectHandlers : tasks'[h] = tasks[h] \/ OnView(h, "name")
    ]_objectVars
=============================================================================
