-------------------------- MODULE InventoryProofs --------------------------
(***************************************************************************)
(* Theorems about NetworkObjects, for every set of handlers, objects and   *)
(* requests; and about Terraform, for every set of addresses and           *)
(* configurations, and any number of applies, losses and other writes.     *)
(***************************************************************************)
EXTENDS NetworkObjects, Terraform, SequenceTheorems, TLAPS

-----------------------------------------------------------------------------
(* NetworkObjects. *)

EditShape(t) ==
  t \in [op : {"create", "patch"}, id : {t.id}, asked : {t.asked}, row : {t.row},
         stale : BOOLEAN, pc : {"read", "check", "write"}]

ViewShape(t) ==
  t \in [op : {"view", "link", "placeholder"}, conflict : {t.conflict}, seen : {t.seen},
         todo : {t.todo}, pc : {"list", "computed", "act", "name"}]

TaskShape(t) == t = NoTask \/ EditShape(t) \/ ViewShape(t)

\* A PATCH is of an object, and has read it as it is unless it knows better
SoundPatch(t) ==
  t.op = "patch" =>
    /\ t.id \in DOMAIN things
    /\ objectBackend # "memory" /\ t.pc # "read" /\ ~ t.stale =>
         t.row = Merged(things[t.id], t.asked)

ObjectsInv ==
  /\ \E S : things \in Seq(S)
  /\ tasks = [h \in ObjectHandlers |-> tasks[h]]
  /\ \A h \in ObjectHandlers : TaskShape(tasks[h]) /\ SoundPatch(tasks[h])

\* What op says of a task
LEMMA TaskKinds ==
  ASSUME NEW t, TaskShape(t)
  PROVE  /\ t.op \in {"create", "patch"} => EditShape(t)
         /\ t.op \in {"view", "link", "placeholder"} => ViewShape(t)
         /\ t = NoTask => t.op = "none"
BY DEF TaskShape, EditShape, ViewShape, NoTask

LEMMA NoTaskSound == TaskShape(NoTask) /\ SoundPatch(NoTask)
BY DEF TaskShape, SoundPatch, NoTask

\* A handler goes on as t, while the objects there stay as they are
LEMMA TaskPut ==
  ASSUME ObjectsInv, NEW h \in ObjectHandlers, NEW t, tasks' = [tasks EXCEPT ![h] = t],
         TaskShape(t), SoundPatch(t), UNCHANGED objectBackend,
         things' = things \/ \E new : things' = Append(things, new)
  PROVE  /\ ObjectsInv'
         /\ \A g \in ObjectHandlers \ {h} : tasks'[g] = tasks[g]
         /\ \A i \in DOMAIN things : things'[i] = things[i]
<1>1. /\ \E S : things' \in Seq(S)
      /\ DOMAIN things \subseteq DOMAIN things'
      /\ \A i \in DOMAIN things : things'[i] = things[i]
  <2>1. PICK S : things \in Seq(S)
    BY DEF ObjectsInv
  <2>2. CASE things' = things
    BY <2>1, <2>2
  <2>3. ASSUME NEW new, things' = Append(things, new)
        PROVE  <1>1!1 /\ <1>1!2 /\ <1>1!3
    <3>1. things \in Seq(S \cup {new}) /\ new \in S \cup {new}
      BY <2>1
    <3>2. /\ things' \in Seq(S \cup {new}) /\ Len(things) \in Nat /\ Len(things') = Len(things) + 1
          /\ \A i \in 1 .. Len(things) : things'[i] = things[i]
      BY <2>3, <3>1, AppendProperties
    <3>3. DOMAIN things = 1 .. Len(things) /\ DOMAIN things' = 1 .. Len(things')
      BY <3>1, <3>2
    <3> QED
      BY <3>2, <3>3
  <2> QED
    BY <2>2, <2>3
<1>2. \A g \in ObjectHandlers : tasks'[g] = IF g = h THEN t ELSE tasks[g]
  BY DEF ObjectsInv
<1>3. tasks' = [g \in ObjectHandlers |-> tasks'[g]]
  BY DEF ObjectsInv
<1>4. ASSUME NEW g \in ObjectHandlers PROVE TaskShape(tasks'[g]) /\ SoundPatch(tasks[g])'
  BY <1>1, <1>2 DEF ObjectsInv, SoundPatch
<1> QED
  BY <1>1, <1>2, <1>3, <1>4 DEF ObjectsInv

ObjectKept ==
  \A i \in DOMAIN things : \A f \in DOMAIN things[i] :
    things'[i][f] # things[i][f] =>
      \E h \in ObjectHandlers :
        /\ tasks'[h] # tasks[h] /\ tasks[h].op = "patch" /\ tasks[h].id = i
        /\ f \in DOMAIN tasks[h].asked \/ tasks[h].stale

StateKept ==
  \A r \in DOMAIN relations :
    relations'[r] # relations[r] =>
      \A h \in ObjectHandlers : tasks'[h] = tasks[h] \/ OnView(h, "name")

Kept == ObjectsInv' /\ ObjectKept /\ StateKept

\* A step of a handler that writes no object there, and no state but by its name
LEMMA PutKept ==
  ASSUME ObjectsInv, NEW h \in ObjectHandlers, NEW t, tasks' = [tasks EXCEPT ![h] = t],
         TaskShape(t), SoundPatch(t), UNCHANGED objectBackend,
         things' = things \/ \E new : things' = Append(things, new),
         \/ \A r \in DOMAIN relations : relations'[r] = relations[r]
         \/ OnView(h, "name")
  PROVE  Kept
<1>1. /\ ObjectsInv'
      /\ \A g \in ObjectHandlers \ {h} : tasks'[g] = tasks[g]
      /\ \A i \in DOMAIN things : things'[i] = things[i]
  BY TaskPut
<1> QED
  BY <1>1 DEF Kept, ObjectKept, StateKept

\* A step that is no handler's
LEMMA RestKept ==
  ASSUME ObjectsInv, UNCHANGED <<tasks, things, objectBackend>>
  PROVE  Kept
BY DEF Kept, ObjectKept, StateKept, ObjectsInv, SoundPatch

LEMMA EditKept ==
  ASSUME ObjectsInv, NEW h \in ObjectHandlers,
         \/ ReadRow(h) \/ validateRefs(h) \/ CreateNetworkObject(h) \/ ObjectFails(h)
         \/ \E new \in Creations : AskCreate(h, new)
         \/ \E i \in DOMAIN things, asked \in Patches : AskPatch(h, i, asked)
  PROVE  Kept
<1>1. ASSUME OnObject(h, "read") \/ OnObject(h, "check") \/ OnObject(h, "write")
      PROVE  EditShape(tasks[h]) /\ SoundPatch(tasks[h])
  BY <1>1, TaskKinds DEF OnObject, ObjectsInv
<1>2. Checked \in {"check", "write"}
  BY DEF Checked
<1>3. ASSUME NEW new \in Creations, AskCreate(h, new) PROVE Kept
  <2> DEFINE t == [op |-> "create", id |-> 0, asked |-> new, row |-> new, stale |-> FALSE,
                   pc |-> Checked]
  <2>1. TaskShape(t) /\ SoundPatch(t)
    BY <1>2 DEF TaskShape, EditShape, SoundPatch
  <2> QED
    BY <1>3, <2>1, PutKept DEF AskCreate, Takes
<1>4. ASSUME NEW i \in DOMAIN things, NEW asked \in Patches, AskPatch(h, i, asked) PROVE Kept
  <2> DEFINE t == [op |-> "patch", id |-> i, asked |-> asked, row |-> things[i], stale |-> FALSE,
                   pc |-> IF objectBackend = "memory" THEN "write" ELSE "read"]
  <2>1. TaskShape(t) /\ SoundPatch(t)
    BY DEF TaskShape, EditShape, SoundPatch
  <2> QED
    BY <1>4, <2>1, PutKept DEF AskPatch, Takes
<1>5. CASE ReadRow(h)
  <2> DEFINE t == [tasks[h] EXCEPT !.row = Merged(things[tasks[h].id], tasks[h].asked),
                                   !.pc = Checked]
  <2>1. EditShape(tasks[h]) /\ SoundPatch(tasks[h])
    BY <1>1, <1>5 DEF ReadRow
  <2>2. TaskShape(t) /\ SoundPatch(t)
    BY <1>2, <2>1 DEF TaskShape, EditShape, SoundPatch
  <2> QED
    BY <1>5, <2>2, PutKept DEF ReadRow, Proceeds
<1>6. CASE validateRefs(h)
  <2> DEFINE t == [tasks[h] EXCEPT !.pc = "write"]
  <2>1. EditShape(tasks[h]) /\ SoundPatch(tasks[h]) /\ tasks[h].pc = "check"
    BY <1>1, <1>6 DEF validateRefs, OnObject
  <2>2. TaskShape(t) /\ SoundPatch(t)
    BY <2>1 DEF TaskShape, EditShape, SoundPatch
  <2> QED
    BY <1>6, <2>2, PutKept DEF validateRefs, Proceeds
<1>7. CASE CreateNetworkObject(h) \/ ObjectFails(h)
  BY <1>7, NoTaskSound, PutKept DEF CreateNetworkObject, ObjectFails, Proceeds
<1> QED
  BY <1>3, <1>4, <1>5, <1>6, <1>7

LEMMA ViewKept ==
  ASSUME ObjectsInv, NEW h \in ObjectHandlers,
         \/ \E op \in {"view", "link", "placeholder"}, c \in ConflictIds : AskView(h, op, c)
         \/ ListConflicts(h) \/ ViewDone(h) \/ LinkAction(h) \/ PlaceholderAction(h)
         \/ NameState(h)
         \/ \E c \in ConflictIds : PersistComputed(h, c)
  PROVE  Kept
<1>1. ASSUME NEW t, ViewShape(t) PROVE TaskShape(t) /\ SoundPatch(t)
  BY <1>1 DEF TaskShape, ViewShape, SoundPatch
<1>2. ASSUME NEW pc, OnView(h, pc) PROVE ViewShape(tasks[h])
  BY <1>2, TaskKinds DEF OnView, ObjectsInv
<1>3. ASSUME NEW op \in {"view", "link", "placeholder"}, NEW c \in ConflictIds, AskView(h, op, c)
      PROVE  Kept
  <2>1. ViewShape([op |-> op, conflict |-> c, seen |-> {}, todo |-> {}, pc |-> "list"])
    BY DEF ViewShape
  <2> QED
    BY <1>1, <1>3, <2>1, PutKept DEF AskView, Takes
<1>4. CASE ListConflicts(h)
  <2>1. ViewShape([tasks[h] EXCEPT !.seen = openConflicts, !.todo = openConflicts,
                                   !.pc = "computed"])
    BY <1>2, <1>4 DEF ListConflicts, ViewShape
  <2> QED
    BY <1>1, <1>4, <2>1, NoTaskSound, PutKept DEF ListConflicts, Proceeds
<1>5. ASSUME NEW c \in ConflictIds, PersistComputed(h, c) PROVE Kept
  <2>1. ViewShape([tasks[h] EXCEPT !.todo = @ \ {c}])
    BY <1>2, <1>5 DEF PersistComputed, ViewShape
  <2>2. \A r \in DOMAIN relations : relations'[r] = relations[r]
    BY <1>5 DEF PersistComputed, Upserted, WithUpserted
  <2> QED
    BY <1>1, <1>5, <2>1, <2>2, PutKept DEF PersistComputed, Proceeds
<1>6. CASE ViewDone(h)
  <2>1. ViewShape([tasks[h] EXCEPT !.pc = "act"])
    BY <1>2, <1>6 DEF ViewDone, ViewShape
  <2> QED
    BY <1>1, <1>6, <2>1, NoTaskSound, PutKept DEF ViewDone, Proceeds
<1>7. CASE LinkAction(h)
  <2>1. ViewShape([tasks[h] EXCEPT !.pc = "name"])
    BY <1>2, <1>7 DEF LinkAction, ViewShape
  <2> QED
    BY <1>1, <1>7, <2>1, NoTaskSound, PutKept DEF LinkAction
<1>8. CASE PlaceholderAction(h)
  <2>1. ViewShape([tasks[h] EXCEPT !.pc = "name"])
    BY <1>2, <1>8 DEF PlaceholderAction, ViewShape
  <2> QED
    BY <1>1, <1>8, <2>1, NoTaskSound, PutKept DEF PlaceholderAction, Proceeds
<1>9. CASE NameState(h)
  <2>1. ViewShape([tasks[h] EXCEPT !.op = "view", !.pc = "list"])
    BY <1>2, <1>9 DEF NameState, ViewShape
  <2> QED
    BY <1>1, <1>9, <2>1, PutKept DEF NameState, Proceeds
<1> QED
  BY <1>3, <1>4, <1>5, <1>6, <1>7, <1>8, <1>9

\* A row that is written from what was read before another write says so
LEMMA UpdateKept ==
  ASSUME ObjectsInv, NEW h \in ObjectHandlers, UpdateNetworkObject(h)
  PROVE  Kept
<1> DEFINE i == tasks[h].id
           Crossed(g) == tasks[g].op = "patch" /\ tasks[g].id = i /\ tasks[g].pc # "read"
<1>1. /\ EditShape(tasks[h]) /\ SoundPatch(tasks[h])
      /\ tasks[h].op = "patch" /\ tasks[h].pc = "write" /\ i \in DOMAIN things
  BY TaskKinds DEF UpdateNetworkObject, OnObject, ObjectsInv, SoundPatch
<1>2. /\ things' = [things EXCEPT ![i] = Written(h)]
      /\ UNCHANGED <<objectBackend, relations>>
      /\ tasks' = [g \in ObjectHandlers |->
                    IF g = h THEN NoTask
                    ELSE IF Crossed(g) THEN [tasks[g] EXCEPT !.stale = objectBackend # "memory"]
                    ELSE tasks[g]]
  BY DEF UpdateNetworkObject
<1>3. /\ \E S : things' \in Seq(S)
      /\ DOMAIN things' = DOMAIN things
      /\ \A k \in DOMAIN things \ {i} : things'[k] = things[k]
      /\ things'[i] = Written(h)
  <2>1. PICK S : things \in Seq(S)
    BY DEF ObjectsInv
  <2>2. things \in Seq(S \cup {Written(h)}) /\ i \in 1 .. Len(things)
    BY <1>1, <2>1
  <2>3. things' \in Seq(S \cup {Written(h)})
    BY <1>2, <2>2, ExceptSeq
  <2>4. DOMAIN things = 1 .. Len(things)
    BY <2>1
  <2> QED
    BY <1>2, <2>2, <2>3, <2>4
<1>4. ASSUME NEW g \in ObjectHandlers PROVE TaskShape(tasks'[g]) /\ SoundPatch(tasks[g])'
  <2>1. CASE g = h
    BY <1>2, <2>1, NoTaskSound DEF SoundPatch, NoTask
  <2>2. CASE g # h /\ Crossed(g)
    <3>1. EditShape(tasks[g]) /\ SoundPatch(tasks[g])
      BY <2>2, TaskKinds DEF ObjectsInv
    <3>2. tasks'[g] = [tasks[g] EXCEPT !.stale = objectBackend # "memory"]
      BY <1>2, <2>2
    <3>3. (objectBackend # "memory") \in BOOLEAN
      OBVIOUS
    <3>4. /\ EditShape(tasks'[g]) /\ tasks'[g].id = tasks[g].id
          /\ tasks'[g].stale = (objectBackend # "memory")
      BY <3>1, <3>2, <3>3 DEF EditShape
    <3> QED
      BY <1>2, <1>3, <2>2, <3>1, <3>4 DEF TaskShape, SoundPatch
  <2>3. CASE g # h /\ ~ Crossed(g)
    <3>1. tasks'[g] = tasks[g]
      BY <1>2, <2>3
    <3> QED
      BY <1>2, <1>3, <2>3, <3>1 DEF ObjectsInv, SoundPatch
  <2> QED
    BY <2>1, <2>2, <2>3
<1>5. ObjectsInv'
  BY <1>2, <1>3, <1>4 DEF ObjectsInv
<1>6. ASSUME NEW f \in DOMAIN things[i], things'[i][f] # things[i][f]
      PROVE  f \in DOMAIN tasks[h].asked \/ tasks[h].stale
  BY <1>1, <1>3, <1>6 DEF Written, SoundPatch, Merged
<1>7. tasks'[h] # tasks[h]
  BY <1>1, <1>2 DEF NoTask
<1> QED
  BY <1>1, <1>2, <1>3, <1>5, <1>6, <1>7 DEF Kept, ObjectKept, StateKept

LEMMA StepKept == ASSUME ObjectsInv, [ObjectsNext]_objectVars PROVE Kept
<1>1. ASSUME \/ \E r \in Relations, s \in {"", "open", "resolved"} : PostRelationship(r, s)
             \/ \E r \in Relations, s \in {"open", "resolved"} : ResolveRelationship(r, s)
             \/ \E c \in ConflictIds : ConflictComes(c)
             \/ \E p \in poolsThere : PoolGoes(p)
             \/ UNCHANGED objectVars
      PROVE  Kept
  <2>1. UNCHANGED <<tasks, things, objectBackend>>
    BY <1>1 DEF PostRelationship, ResolveRelationship, ConflictComes, PoolGoes, objectVars
  <2> QED
    BY <2>1, RestKept
<1> QED
  BY <1>1, EditKept, ViewKept, UpdateKept DEF ObjectsNext

\* What was asked of an object stands until another asks, or a row read before is
\* written back (PATCH on the SQL backends), and no view touches the state of a
\* relationship (persistComputedNetworkRelationships): for any number of handlers,
\* objects and conflicts, and on each backend.
THEOREM AskedTheorem == ObjectsSpec => AskedStands
<1>1. ObjectsInit => ObjectsInv
  BY ObjectsAssumption, NoTaskSound DEF ObjectsInit, ObjectsInv
<1>2. ObjectsInv /\ [ObjectsNext]_objectVars => ObjectsInv' /\ ObjectKept /\ StateKept
  BY StepKept DEF Kept
<1> QED
  BY <1>1, <1>2, PTL DEF ObjectsSpec, AskedStands, ObjectKept, StateKept

-----------------------------------------------------------------------------
(* Terraform. *)

Walks ==
  {<<>>, <<"failed">>, <<"create">>, <<"update">>, <<"delete">>, <<"delete", "create">>}

TerraformTyped ==
  /\ objects \in Seq(Row)
  /\ tracked \in [Addresses -> Attributes \cup {Untracked}]
  /\ walk \in [Addresses -> Walks]
  /\ late \subseteq [by : Addresses, request : Requests]
  /\ declared \in Configs \/ (~ quiet /\ phase = "idle" /\ DOMAIN declared = {})

\* No two addresses are one row, and an address's row is of its type
TrackedRows ==
  \A a \in Addresses : Tracks(a) =>
    /\ tracked[a].id \in DOMAIN objects
    /\ \A c \in Configs : a \in DOMAIN c => objects[tracked[a].id].kind = c[a].kind
    /\ \A b \in Addresses : Tracks(b) /\ tracked[b].id = tracked[a].id => b = a

\* What is to be done with an address, and whether it is tracked and declared
Walking(a) ==
  /\ walk[a] = <<>> => (Tracks(a) <=> Declares(a))
  /\ walk[a] = <<"create">> => Declares(a) /\ ~ Tracks(a)
  /\ walk[a] \in {<<"update">>, <<"delete", "create">>} => Declares(a) /\ Tracks(a)
  /\ walk[a] = <<"delete">> => ~ Declares(a) /\ Tracks(a)

\* A request under way is what it would be if it were sent now
Calling(a) ==
  /\ a \in Addresses /\ phase = "apply" /\ walk[a] \notin {<<>>, <<"failed">>}
  /\ calls[a] = RequestOf(a)
  /\ walk[a][1] # "delete" => \A b \in Addresses : Uses(a, b) => walk[b] = <<>>

CallsInv ==
  /\ phase = "apply" => \A a \in Addresses : Walking(a)
  /\ \A a \in DOMAIN calls : Calling(a)

\* What is unread is tracked, and what has been read is as it was read
Fresh ==
  phase = "refresh" =>
    /\ \A a \in unread : Tracks(a)
    /\ quiet => \A a \in Addresses \ unread : Tracks(a) =>
         LET i == tracked[a].id
         IN Alive(i) /\ tracked[a] = Known(i, objects[i], tracked[a].force)

\* An address whose row stays
Steady(a) == Tracks(a) /\ walk[a] \in {<<>>, <<"update">>}

\* No step has failed, or is bound to
Good ==
  \A a \in Addresses :
    walk[a] # <<"failed">> /\ (walk[a] = <<"update">> => Alive(tracked[a].id))

\* a's row stands where it is declared, and so does what it refers to
Placed(a) ==
  LET o == objects[tracked[a].id]
  IN /\ o.fixed = declared[a].fixed /\ o.up = IdOf(declared[a].up)
     /\ declared[a].up # Nothing => Steady(declared[a].up)

Settled(a) ==
  LET o == objects[tracked[a].id]
  IN /\ o.live /\ o.name = declared[a].name /\ o.owner = IdOf(declared[a].owner)
     /\ declared[a].owner # Nothing => Steady(declared[a].owner)

Exact ==
  quiet /\ phase # "refresh" /\ Good =>
    \A a \in Addresses :
      /\ walk[a] = <<>> => (Tracks(a) <=> Declares(a))
      /\ Steady(a) => Placed(a)
      /\ Steady(a) /\ walk[a] = <<>> => Settled(a)

TerraformInv ==
  TerraformTyped /\ TrackedRows /\ CallsInv /\ UntrackedOnlyByLoss /\ Fresh /\ Exact

Heads ==
  /\ <<>> # <<"failed">> /\ <<>> # <<"create">> /\ <<>> # <<"update">> /\ <<>> # <<"delete">>
  /\ <<>> # <<"delete", "create">> /\ <<"failed">> # <<"create">>
  /\ <<"failed">> # <<"update">> /\ <<"failed">> # <<"delete">>
  /\ <<"failed">> # <<"delete", "create">> /\ <<"create">> # <<"update">>
  /\ <<"create">> # <<"delete">> /\ <<"create">> # <<"delete", "create">>
  /\ <<"update">> # <<"delete">> /\ <<"update">> # <<"delete", "create">>
  /\ <<"delete">> # <<"delete", "create">>
  /\ <<"failed">>[1] = "failed" /\ <<"create">>[1] = "create" /\ <<"update">>[1] = "update"
  /\ <<"delete">>[1] = "delete" /\ <<"delete", "create">>[1] = "delete"
  /\ Tail(<<"create">>) = <<>> /\ Tail(<<"update">>) = <<>> /\ Tail(<<"delete">>) = <<>>
  /\ Tail(<<"delete", "create">>) = <<"create">>

LEMMA WalkHeads == Heads
BY DEF Heads

\* What a request that is accepted does to the rows
RowsKept ==
  /\ objects' \in Seq(Row) /\ DOMAIN objects \subseteq DOMAIN objects'
  /\ \A i \in DOMAIN objects :
       /\ objects'[i].kind = objects[i].kind /\ objects'[i].fixed = objects[i].fixed
       /\ objects'[i].up = objects[i].up /\ objects'[i].by = objects[i].by
       /\ objects'[i].late = objects[i].late /\ (objects'[i].live => objects[i].live)

RowAdded(r, by, isLate) ==
  LET n == Len(objects) + 1
  IN /\ n \notin DOMAIN objects /\ DOMAIN objects' = DOMAIN objects \cup {n} /\ n \in Nat
     /\ objects'[n] = [kind |-> r.kind, fixed |-> r.fixed, up |-> r.up, owner |-> r.owner,
                       name |-> r.name, live |-> TRUE, by |-> by, late |-> isLate]
     /\ \A i \in DOMAIN objects : objects'[i] = objects[i]

RowPatched(r) ==
  /\ DOMAIN objects' = DOMAIN objects
  /\ \A i \in DOMAIN objects :
       objects'[i] = IF i = r.id THEN [objects[i] EXCEPT !.name = r.name, !.owner = r.owner]
                     ELSE objects[i]

RowsDeleted(r) ==
  /\ DOMAIN objects' = DOMAIN objects
  /\ \A i \in DOMAIN objects :
       objects'[i] = [objects[i] EXCEPT
         !.live = @ /\ i \notin (IF r.force THEN Subtree(r.id) ELSE {r.id})]

LEMMA RequestDone ==
  ASSUME TerraformTyped, NEW r \in Requests, NEW by \in Addresses \cup {"other"},
         NEW isLate \in BOOLEAN, Accepted(r), objects' = Done(r, by, isLate)
  PROVE  /\ RowsKept
         /\ r.op = "create" => RowAdded(r, by, isLate)
         /\ r.op = "update" => RowPatched(r)
         /\ r.op = "delete" => RowsDeleted(r)
         /\ r.op # "create" => DOMAIN objects' = DOMAIN objects
<1>1. objects \in Seq(Row) /\ Len(objects) \in Nat /\ DOMAIN objects = 1 .. Len(objects)
  BY DEF TerraformTyped
<1>2. CASE r.op = "create"
  <2>1. r \in [op : {"create"}, kind : Kinds, fixed : Fixes, up : Numbers, owner : Numbers,
               name : Labels]
    BY <1>2 DEF Requests
  <2> DEFINE new == [kind |-> r.kind, fixed |-> r.fixed, up |-> r.up, owner |-> r.owner,
                     name |-> r.name, live |-> TRUE, by |-> by, late |-> isLate]
  <2>2. new \in Row
    BY <2>1 DEF Row
  <2>3. objects' = Append(objects, new)
    BY <1>2 DEF Done, Inserted
  <2>4. RowAdded(r, by, isLate) /\ objects' \in Seq(Row)
    <3> HIDE DEF new
    <3>1. /\ objects' \in Seq(Row) /\ Len(objects') = Len(objects) + 1
          /\ \A i \in 1 .. Len(objects) : objects'[i] = objects[i]
          /\ objects'[Len(objects) + 1] = new
      BY <1>1, <2>2, <2>3, AppendProperties
    <3>2. DOMAIN objects' = 1 .. Len(objects')
      BY <3>1
    <3> QED
      BY <1>1, <3>1, <3>2 DEF RowAdded, new
  <2> QED
    BY <1>2, <2>4 DEF RowsKept, RowAdded
<1>3. CASE r.op = "update"
  <2>1. r \in [op : {"update"}, id : Nat, name : Labels, owner : Numbers]
    BY <1>3 DEF Requests
  <2>2. r.id \in DOMAIN objects
    BY <1>3 DEF Accepted, Alive
  <2>3. objects' = Patched(r)
    BY <1>3 DEF Done
  <2> DEFINE new(i) == IF i = r.id THEN [objects[i] EXCEPT !.name = r.name, !.owner = r.owner]
                       ELSE objects[i]
  <2>4. objects' = [i \in 1 .. Len(objects) |-> new(i)]
    BY <1>1, <2>2, <2>3 DEF Patched
  <2>5. ASSUME NEW i \in 1 .. Len(objects)
        PROVE  /\ new(i) \in Row
               /\ new(i).kind = objects[i].kind /\ new(i).fixed = objects[i].fixed
               /\ new(i).up = objects[i].up /\ new(i).by = objects[i].by
               /\ new(i).late = objects[i].late /\ new(i).live = objects[i].live
    <3>1. objects[i] \in Row
      BY <1>1
    <3> QED
      BY <2>1, <3>1 DEF Row
  <2>6. RowPatched(r)
    BY <1>1, <2>4 DEF RowPatched
  <2> HIDE DEF new
  <2>7. objects' \in Seq(Row) /\ DOMAIN objects' = 1 .. Len(objects)
    BY <1>1, <2>4, <2>5
  <2> QED
    BY <1>1, <1>3, <2>4, <2>5, <2>6, <2>7 DEF RowsKept
<1>4. CASE r.op = "delete"
  <2> DEFINE dead == IF r.force THEN Subtree(r.id) ELSE {r.id}
             new(i) == [objects[i] EXCEPT !.live = @ /\ i \notin dead]
  <2>1. objects' = [i \in 1 .. Len(objects) |-> new(i)]
    BY <1>1, <1>4 DEF Done, Deleted
  <2>2. RowsDeleted(r)
    BY <1>1, <2>1 DEF RowsDeleted
  <2> HIDE DEF dead
  <2>3. ASSUME NEW i \in 1 .. Len(objects)
        PROVE  /\ new(i) \in Row
               /\ new(i).kind = objects[i].kind /\ new(i).fixed = objects[i].fixed
               /\ new(i).up = objects[i].up /\ new(i).by = objects[i].by
               /\ new(i).late = objects[i].late /\ (new(i).live => objects[i].live)
    <3> DEFINE b == objects[i].live /\ i \notin dead
    <3>1. objects[i] \in Row
      BY <1>1
    <3>2. b \in BOOLEAN /\ (b => objects[i].live)
      BY DEF b
    <3>3. new(i) = [objects[i] EXCEPT !.live = b]
      OBVIOUS
    <3> HIDE DEF b, new
    <3>4. new(i) \in Row
      BY <3>1, <3>2, <3>3 DEF Row
    <3> QED
      BY <3>1, <3>2, <3>3, <3>4 DEF Row
  <2> HIDE DEF new
  <2>4. objects' \in Seq(Row) /\ DOMAIN objects' = 1 .. Len(objects)
    BY <1>1, <2>1, <2>3
  <2> QED
    BY <1>1, <1>4, <2>1, <2>2, <2>3, <2>4 DEF RowsKept
<1>5. r.op \in {"create", "update", "delete"}
  BY DEF Requests
<1> QED
  BY <1>2, <1>3, <1>4, <1>5

LEMMA Declaration ==
  ASSUME TerraformTyped, NEW a, Declares(a)
  PROVE  /\ declared \in Configs /\ a \in Addresses /\ declared[a] \in Resource
         /\ declared[a].up \in DOMAIN declared \cup {Nothing}
         /\ declared[a].owner \in DOMAIN declared \cup {Nothing}
         /\ \A c \in Configs : a \in DOMAIN c => c[a].kind = declared[a].kind
         /\ declared[a].fixed \in Fixes /\ declared[a].name \in Labels
         /\ declared[a].kind \in Kinds /\ declared[a].force \in BOOLEAN
<1>1. declared \in Configs
  BY DEF TerraformTyped, Declares
<1> QED
  BY <1>1, TerraformAssumption DEF Declares, Resource

LEMMA Tracking ==
  ASSUME TerraformTyped, TrackedRows, NEW a \in Addresses, Tracks(a)
  PROVE  /\ tracked[a] \in Attributes /\ tracked[a].id \in Nat
         /\ tracked[a].id \in DOMAIN objects /\ objects[tracked[a].id] \in Row
         /\ tracked[a].force \in BOOLEAN
<1>1. tracked[a] \in Attributes
  BY DEF TerraformTyped, Tracks
<1>2. tracked[a].id \in DOMAIN objects
  BY DEF TrackedRows
<1>3. objects[tracked[a].id] \in Row
  BY <1>2 DEF TerraformTyped
<1> QED
  BY <1>1, <1>2, <1>3 DEF Attributes

\* What a create or an update refers to is there
LEMMA Referred ==
  ASSUME TerraformTyped, TrackedRows, CallsInv, phase = "apply", NEW a, Declares(a),
         NEW b \in {declared[a].up, declared[a].owner}, b # Nothing => walk[b] = <<>>
  PROVE  /\ IdOf(b) \in Numbers
         /\ b # Nothing => b \in Addresses /\ Declares(b) /\ Tracks(b) /\ IdOf(b) = tracked[b].id
<1>1. CASE b = Nothing
  BY <1>1 DEF IdOf, Numbers
<1>2. CASE b # Nothing
  <2>1. Declares(b) /\ b \in Addresses
    <3>1. Declares(b)
      BY <1>2, Declaration DEF Declares
    <3> QED
      BY <3>1, Declaration
  <2>2. Tracks(b)
    BY <1>2, <2>1 DEF CallsInv, Walking
  <2>3. tracked[b].id \in Nat
    BY <2>1, <2>2, Tracking
  <2> QED
    BY <1>2, <2>1, <2>2, <2>3 DEF IdOf, Numbers
<1> QED
  BY <1>1, <1>2

\* The request of an address, by what is to be done with it
LEMMA RequestFor ==
  ASSUME TerraformTyped, TrackedRows, CallsInv, phase = "apply", NEW a \in Addresses,
         walk[a] \notin {<<>>, <<"failed">>},
         walk[a][1] # "delete" => \A b \in Addresses : Uses(a, b) => walk[b] = <<>>
  PROVE  /\ RequestOf(a) \in Requests
         /\ walk[a] = <<"create">> =>
              /\ RequestOf(a) = [op |-> "create", kind |-> declared[a].kind,
                   fixed |-> declared[a].fixed, up |-> IdOf(declared[a].up),
                   owner |-> IdOf(declared[a].owner), name |-> declared[a].name]
              /\ Declares(a) /\ ~ Tracks(a)
         /\ walk[a] = <<"update">> =>
              /\ RequestOf(a) = [op |-> "update", id |-> tracked[a].id,
                   name |-> declared[a].name, owner |-> IdOf(declared[a].owner)]
              /\ Declares(a) /\ Tracks(a)
         /\ walk[a] \in {<<"delete">>, <<"delete", "create">>} =>
              /\ RequestOf(a) = [op |-> "delete", id |-> tracked[a].id,
                   force |-> tracked[a].force]
              /\ Tracks(a) /\ (walk[a] = <<"delete">> <=> ~ Declares(a))
         /\ walk[a] \in {<<"create">>, <<"update">>} =>
              \A b \in {declared[a].up, declared[a].owner} :
                b # Nothing => b \in Addresses /\ Declares(b) /\ Tracks(b) /\ walk[b] = <<>>
         /\ walk[a] \in {<<"create">>, <<"update">>, <<"delete">>, <<"delete", "create">>}
<1>1. walk[a] \in {<<"create">>, <<"update">>, <<"delete">>, <<"delete", "create">>}
  BY DEF TerraformTyped, Walks
<1>2. Walking(a)
  BY DEF CallsInv
<1>3. ASSUME walk[a] \in {<<"create">>, <<"update">>}
      PROVE  /\ Declares(a)
             /\ \A b \in {declared[a].up, declared[a].owner} :
                  /\ IdOf(b) \in Numbers
                  /\ b # Nothing => b \in Addresses /\ Declares(b) /\ Tracks(b) /\ walk[b] = <<>>
  <2>1. Declares(a)
    BY <1>2, <1>3 DEF Walking
  <2>2. ASSUME NEW b \in {declared[a].up, declared[a].owner}, b # Nothing
        PROVE  walk[b] = <<>>
    <3>1. Declares(b)
      BY <2>1, <2>2, Declaration DEF Declares
    <3>2. b \in Addresses
      BY <3>1, Declaration
    <3> QED
      BY <1>3, <2>2, <3>2, WalkHeads DEF Uses, Heads
  <2> QED
    BY <2>1, <2>2, Referred
<1>4. CASE walk[a] = <<"create">>
  <2>1. RequestOf(a) = [op |-> "create", kind |-> declared[a].kind,
          fixed |-> declared[a].fixed, up |-> IdOf(declared[a].up),
          owner |-> IdOf(declared[a].owner), name |-> declared[a].name]
    BY <1>4, WalkHeads DEF RequestOf, Heads
  <2>2. RequestOf(a) \in Requests
    BY <1>3, <1>4, <2>1, Declaration DEF Requests
  <2> QED
    BY <1>2, <1>3, <1>4, <2>1, <2>2, WalkHeads DEF Walking, Heads
<1>5. CASE walk[a] = <<"update">>
  <2>1. RequestOf(a) = [op |-> "update", id |-> tracked[a].id, name |-> declared[a].name,
                        owner |-> IdOf(declared[a].owner)]
    BY <1>5, WalkHeads DEF RequestOf, PatchOf, Heads
  <2>2. RequestOf(a) \in Requests
    BY <1>2, <1>3, <1>5, <2>1, Declaration, Tracking DEF Requests, Walking
  <2> QED
    BY <1>2, <1>3, <1>5, <2>1, <2>2, WalkHeads DEF Walking, Heads
<1>6. CASE walk[a] \in {<<"delete">>, <<"delete", "create">>}
  <2>1. RequestOf(a) = [op |-> "delete", id |-> tracked[a].id, force |-> tracked[a].force]
    BY <1>6, WalkHeads DEF RequestOf, Heads
  <2>2. RequestOf(a) \in Requests
    BY <1>2, <1>6, <2>1, Tracking DEF Requests, Walking
  <2> QED
    BY <1>2, <1>6, <2>1, <2>2, WalkHeads DEF Walking, Heads
<1> QED
  BY <1>1, <1>4, <1>5, <1>6

\* No call is under way but in an apply
LEMMA NoCalls ==
  ASSUME TerraformInv, phase # "apply" \/ \A a \in Addresses : walk[a] \in {<<>>, <<"failed">>}
  PROVE  DOMAIN calls = {}
BY DEF TerraformInv, CallsInv, Calling

LEMMA StartKept == ASSUME TerraformInv, StartApply PROVE TerraformInv'
<1> USE DEF StartApply
<1>1. TerraformTyped'
  BY DEF TerraformInv, TerraformTyped, Walks
<1>2. TrackedRows' /\ UntrackedOnlyByLoss'
  BY DEF TerraformInv, TrackedRows, UntrackedOnlyByLoss, Tracks
<1>3. CallsInv'
  BY NoCalls DEF CallsInv
<1>4. Fresh' /\ Exact'
  BY DEF Fresh, Exact, Tracks
<1> QED
  BY <1>1, <1>2, <1>3, <1>4 DEF TerraformInv

LEMMA ReadFailsKept == ASSUME TerraformInv, ReadFails PROVE TerraformInv'
<1> USE DEF ReadFails
<1>1. TerraformTyped'
  BY DEF TerraformInv, TerraformTyped
<1>2. TrackedRows' /\ UntrackedOnlyByLoss'
  BY DEF TerraformInv, TrackedRows, UntrackedOnlyByLoss, Tracks
<1>3. CallsInv'
  BY NoCalls DEF CallsInv
<1>4. Fresh' /\ Exact'
  BY DEF Fresh, Exact
<1> QED
  BY <1>1, <1>2, <1>3, <1>4 DEF TerraformInv

LEMMA EndKept == ASSUME TerraformInv, EndApply PROVE TerraformInv'
<1> USE DEF EndApply
<1>1. TerraformTyped'
  BY DEF TerraformInv, TerraformTyped
<1>2. TrackedRows' /\ UntrackedOnlyByLoss'
  BY DEF TerraformInv, TrackedRows, UntrackedOnlyByLoss, Tracks
<1>3. CallsInv'
  BY NoCalls DEF CallsInv
<1>4. Fresh'
  BY DEF Fresh
<1>5. Good' = Good
  BY DEF Good, Alive
<1>6. \A a : /\ Steady(a)' = Steady(a) /\ Tracks(a)' = Tracks(a) /\ Declares(a)' = Declares(a)
            /\ IdOf(a)' = IdOf(a)
  BY DEF Steady, Tracks, Declares, IdOf
<1>7. \A a : Placed(a)' = Placed(a) /\ Settled(a)' = Settled(a)
  BY <1>6 DEF Placed, Settled
<1>8. Exact'
  BY <1>5, <1>6, <1>7 DEF TerraformInv, Exact
<1> QED
  BY <1>1, <1>2, <1>3, <1>4, <1>8 DEF TerraformInv

LEMMA ReadKept == ASSUME TerraformInv, NEW a \in Addresses, Read(a) PROVE TerraformInv'
<1> USE DEF Read
<1> DEFINE i == tracked[a].id
<1>1. TerraformTyped /\ TrackedRows /\ Tracks(a)
  BY DEF TerraformInv, Fresh
<1>2. \A b \in Addresses \ {a} : tracked'[b] = tracked[b]
  BY <1>1 DEF TerraformTyped
<1>3. tracked'[a] = IF Alive(i) THEN Known(i, objects[i], tracked[a].force) ELSE Untracked
  BY <1>1 DEF TerraformTyped
<1>4. ASSUME Alive(i)
      PROVE  /\ tracked'[a] \in Attributes /\ tracked'[a].id = i
             /\ tracked'[a] = Known(i, objects[i], tracked'[a].force)
  <2>1. objects[i] \in Row /\ i \in Nat /\ tracked[a].force \in BOOLEAN
    BY <1>1, Tracking
  <2> QED
    BY <1>3, <1>4, <2>1 DEF Known, Row, Attributes
<1>5. Tracks(a)' <=> Alive(i)
  BY <1>3, <1>4, TerraformAssumption DEF Tracks
<1>6. TerraformTyped'
  <2>1. tracked' \in [Addresses -> Attributes \cup {Untracked}]
    BY <1>1, <1>3, <1>4 DEF TerraformTyped
  <2> QED
    BY <1>1, <2>1 DEF TerraformTyped
<1>7. \A b \in Addresses : Tracks(b)' => Tracks(b) /\ tracked'[b].id = tracked[b].id
  BY <1>1, <1>2, <1>4, <1>5 DEF Tracks
<1>8. TrackedRows'
  BY <1>1, <1>7 DEF TrackedRows
<1>9. CallsInv'
  BY NoCalls DEF CallsInv
<1>10. UntrackedOnlyByLoss'
  <2>1. ASSUME NEW j \in DOMAIN objects, objects[j].live, objects[j].by \in Addresses,
               ~ objects[j].late
        PROVE  \E b \in Addresses : Tracks(b)' /\ tracked'[b].id = j
    <3>1. PICK b \in Addresses : Tracks(b) /\ tracked[b].id = j
      BY <2>1 DEF TerraformInv, UntrackedOnlyByLoss
    <3>2. b = a => Tracks(b)' /\ tracked'[b].id = j
      BY <1>4, <1>5, <2>1, <3>1 DEF Alive
    <3>3. b # a => Tracks(b)' /\ tracked'[b].id = j
      BY <1>2, <3>1 DEF Tracks
    <3> QED
      BY <3>2, <3>3
  <2> QED
    BY <2>1 DEF UntrackedOnlyByLoss
<1>11. Fresh'
  <2>1. \A b \in unread' : b # a /\ Tracks(b)
    BY DEF TerraformInv, Fresh
  <2>2. \A b \in unread' : Tracks(b)'
    BY <1>1, <2>1 DEF TerraformTyped, Tracks
  <2>3. ASSUME quiet, NEW b \in Addresses \ unread', Tracks(b)'
        PROVE  Alive(tracked'[b].id) /\ tracked'[b] = Known(tracked'[b].id, objects[tracked'[b].id], tracked'[b].force)
    <3>1. CASE b = a
      BY <1>4, <1>5, <2>3, <3>1 DEF Alive
    <3>2. CASE b # a
      BY <1>2, <2>3, <3>2 DEF TerraformInv, Fresh, Tracks, Alive
    <3> QED
      BY <3>1, <3>2
  <2> QED
    BY <2>2, <2>3 DEF Fresh, Known, Alive
<1>12. Exact'
  BY DEF Exact
<1> QED
  BY <1>6, <1>8, <1>9, <1>10, <1>11, <1>12 DEF TerraformInv

\* Another user writes, or the server goes on with a request of before
LEMMA ServerKept ==
  ASSUME TerraformInv, RowsKept, ~ quiet',
         UNCHANGED <<tracked, declared, phase, unread, walk, calls>>, late' \subseteq late,
         \A i \in DOMAIN objects' \ DOMAIN objects :
           objects'[i].late \/ objects'[i].by \notin Addresses
  PROVE  TerraformInv'
<1>1. TerraformTyped'
  BY DEF TerraformInv, TerraformTyped, RowsKept
<1>2. TrackedRows'
  BY DEF TerraformInv, TrackedRows, Tracks, RowsKept
<1>3. CallsInv'
  BY DEF TerraformInv, CallsInv, Walking, Calling, Tracks, Declares, RequestOf, PatchOf, IdOf, Uses
<1>4. UntrackedOnlyByLoss'
  BY DEF TerraformInv, UntrackedOnlyByLoss, Tracks, RowsKept
<1>5. Fresh' /\ Exact'
  BY DEF TerraformInv, Fresh, Exact, Tracks
<1> QED
  BY <1>1, <1>2, <1>3, <1>4, <1>5 DEF TerraformInv

LEMMA ServeLateKept == ASSUME TerraformInv, NEW l \in late, ServeLate(l) PROVE TerraformInv'
<1>1. TerraformTyped
  BY DEF TerraformInv
<1>2. l.by \in Addresses /\ l.request \in Requests
  BY <1>1 DEF TerraformTyped
<1>3. /\ RowsKept
      /\ l.request.op = "create" => RowAdded(l.request, l.by, TRUE)
      /\ l.request.op # "create" => DOMAIN objects' = DOMAIN objects
  BY <1>1, <1>2, RequestDone DEF ServeLate
<1>4. \A i \in DOMAIN objects' \ DOMAIN objects : objects'[i].late
  BY <1>3 DEF RowAdded
<1> QED
  BY <1>3, <1>4, ServerKept DEF ServeLate

LEMMA OthersKept == ASSUME TerraformInv, NEW r \in OtherRequests, OtherWrites(r) PROVE TerraformInv'
<1>1. TerraformTyped /\ DOMAIN objects \subseteq Nat
  BY DEF TerraformInv, TerraformTyped
<1>2. r \in Requests
  <2>1. \A a \in DOMAIN declared : declared[a].fixed \in Fixes
    BY <1>1, Declaration DEF Declares
  <2>2. {declared[a].fixed : a \in DOMAIN declared} \subseteq Fixes
    BY <2>1
  <2>3. "other" \in Labels
    BY DEF Labels
  <2>4. "pool" \in Kinds /\ Nothing \in Numbers
    BY DEF Kinds, Numbers
  <2> QED
    BY <1>1, <2>2, <2>3, <2>4 DEF OtherRequests, Requests
<1>3. /\ RowsKept
      /\ r.op = "create" => RowAdded(r, "other", FALSE)
      /\ r.op # "create" => DOMAIN objects' = DOMAIN objects
  BY <1>1, <1>2, RequestDone DEF OtherWrites
<1>4. \A i \in DOMAIN objects' \ DOMAIN objects : objects'[i].by \notin Addresses
  BY <1>3, TerraformAssumption DEF RowAdded
<1> QED
  BY <1>3, <1>4, ServerKept DEF OtherWrites, Foreign

\* What is known of a row
LEMMA KnownAttributes ==
  ASSUME NEW i \in Nat, NEW o \in Row, NEW force \in BOOLEAN
  PROVE  Known(i, o, force) \in Attributes /\ Known(i, o, force).id = i
BY DEF Known, Row, Attributes

LEMMA ImportKept ==
  ASSUME TerraformInv, NEW a \in Addresses, NEW i \in DOMAIN objects, ImportState(a, i)
  PROVE  TerraformInv'
<1> USE DEF ImportState
<1>1. TerraformTyped /\ TrackedRows
  BY DEF TerraformInv
<1>2. \A b \in Addresses \ {a} : tracked'[b] = tracked[b]
  BY <1>1 DEF TerraformTyped
<1>3. tracked'[a] = Known(i, objects[i], FALSE)
  BY <1>1 DEF TerraformTyped
<1>4. tracked'[a] \in Attributes /\ tracked'[a].id = i
  <2>1. objects[i] \in Row /\ i \in Nat
    BY <1>1 DEF TerraformTyped
  <2> QED
    BY <1>3, <2>1, KnownAttributes
<1>5. TerraformTyped'
  <2>1. tracked' \in [Addresses -> Attributes \cup {Untracked}]
    BY <1>1, <1>4 DEF TerraformTyped
  <2> QED
    BY <1>1, <2>1 DEF TerraformTyped
<1>6. TrackedRows'
  <2>1. \A c \in Configs : a \in DOMAIN c => objects[i].kind = c[a].kind
    BY <1>1, Declaration
  <2>2. \A b \in Addresses \ {a} : Tracks(b)' = Tracks(b) /\ tracked'[b].id = tracked[b].id
    BY <1>2 DEF Tracks
  <2>3. ASSUME NEW b \in Addresses, Tracks(b)'
        PROVE  /\ tracked'[b].id \in DOMAIN objects
               /\ \A c \in Configs : b \in DOMAIN c => objects[tracked'[b].id].kind = c[b].kind
               /\ \A d \in Addresses : Tracks(d)' /\ tracked'[d].id = tracked'[b].id => d = b
    <3>1. CASE b = a
      BY <1>4, <2>1, <2>2, <3>1
    <3>2. CASE b # a
      <4>1. Tracks(b) /\ tracked'[b].id = tracked[b].id
        BY <2>2, <2>3, <3>2
      <4>2. tracked[b].id # i
        BY <4>1
      <4>3. /\ tracked[b].id \in DOMAIN objects
            /\ \A c \in Configs : b \in DOMAIN c => objects[tracked[b].id].kind = c[b].kind
            /\ \A d \in Addresses : Tracks(d) /\ tracked[d].id = tracked[b].id => d = b
        BY <1>1, <4>1 DEF TrackedRows
      <4>4. \A d \in Addresses : Tracks(d)' /\ tracked'[d].id = tracked'[b].id => d = b
        BY <1>4, <2>2, <4>1, <4>2, <4>3
      <4> QED
        BY <4>1, <4>3, <4>4
    <3> QED
      BY <3>1, <3>2
  <2> QED
    BY <2>3 DEF TrackedRows
<1>7. CallsInv'
  BY NoCalls DEF CallsInv
<1>8. UntrackedOnlyByLoss'
  <2>1. ASSUME NEW j \in DOMAIN objects, objects[j].live, objects[j].by \in Addresses,
               ~ objects[j].late
        PROVE  \E b \in Addresses : Tracks(b)' /\ tracked'[b].id = j
    <3>1. PICK b \in Addresses : Tracks(b) /\ tracked[b].id = j
      BY <2>1 DEF TerraformInv, UntrackedOnlyByLoss
    <3> QED
      BY <1>2, <3>1 DEF Tracks
  <2> QED
    BY <2>1 DEF UntrackedOnlyByLoss
<1>9. Fresh' /\ Exact'
  BY DEF Fresh, Exact
<1> QED
  BY <1>5, <1>6, <1>7, <1>8, <1>9 DEF TerraformInv

\* What is not renewed is itself as declared, and below what is not renewed
LEMMA NotRenewed ==
  ASSUME NEW a, Declares(a), a \notin Renewed
  PROVE  /\ Tracks(a) /\ tracked[a].fixed = declared[a].fixed
         /\ declared[a].up \notin Renewed
         /\ declared[a].up = Nothing \/ Tracks(declared[a].up) =>
              tracked[a].up = IdOf(declared[a].up)
<1> DEFINE Itself(b) == ~ Tracks(b) \/ tracked[b].fixed # declared[b].fixed
           Moved(b) == /\ ~ Itself(b)
                       /\ declared[b].up = Nothing \/ Tracks(declared[b].up)
                       /\ tracked[b].up # IdOf(declared[b].up)
           Forced(S) == {b \in DOMAIN declared : Itself(b) \/ Moved(b) \/ declared[b].up \in S}
<1>1. Renewed = {b \in DOMAIN declared :
                   \A S \in SUBSET DOMAIN declared : Forced(S) \subseteq S => b \in S}
  BY DEF Renewed
<1>2. a \in DOMAIN declared
  BY DEF Declares
<1>3. PICK S \in SUBSET DOMAIN declared : Forced(S) \subseteq S /\ a \notin S
  BY <1>1, <1>2
<1>4. ~ Itself(a) /\ ~ Moved(a) /\ declared[a].up \notin S
  BY <1>2, <1>3
<1>5. Renewed \subseteq S
  BY <1>1, <1>3
<1> QED
  BY <1>4, <1>5

LEMMA PlanKept == ASSUME TerraformInv, Plan PROVE TerraformInv'
<1> USE DEF Plan
<1>1. TerraformTyped /\ TrackedRows /\ Fresh /\ DOMAIN calls = {} /\ declared \in Configs
  BY NoCalls DEF TerraformInv, TerraformTyped
<1>2. ASSUME NEW a \in Addresses
      PROVE  /\ walk'[a] = Planned(a) /\ walk'[a] \in Walks
             /\ Walking(a)'
             /\ Steady(a)' <=> Declares(a) /\ a \notin Renewed
             /\ Steady(a)' => Tracks(a) /\ (walk'[a] = <<>> => ~ Differs(a))
  <2>1. walk'[a] = Planned(a)
    OBVIOUS
  <2>2. CASE ~ Declares(a)
    <3>1. walk'[a] = IF Tracks(a) THEN <<"delete">> ELSE <<>>
      BY <2>1, <2>2 DEF Planned
    <3> QED
      BY <2>1, <2>2, <3>1, WalkHeads DEF Heads, Walks, Walking, Steady, Tracks, Declares
  <2>3. CASE Declares(a) /\ ~ Tracks(a)
    <3>1. walk'[a] = <<"create">>
      BY <2>1, <2>3 DEF Planned
    <3>2. a \in Renewed
      BY <2>3, NotRenewed
    <3> QED
      BY <2>1, <2>3, <3>1, <3>2, WalkHeads DEF Heads, Walks, Walking, Steady, Tracks, Declares
  <2>4. CASE Declares(a) /\ Tracks(a) /\ a \in Renewed
    <3>1. walk'[a] = <<"delete", "create">>
      BY <2>1, <2>4 DEF Planned
    <3> QED
      BY <2>1, <2>4, <3>1, WalkHeads DEF Heads, Walks, Walking, Steady, Tracks, Declares
  <2>5. CASE Declares(a) /\ Tracks(a) /\ a \notin Renewed
    <3>1. walk'[a] = IF Differs(a) THEN <<"update">> ELSE <<>>
      BY <2>1, <2>5 DEF Planned
    <3> QED
      BY <2>1, <2>5, <3>1, WalkHeads DEF Heads, Walks, Walking, Steady, Tracks, Declares
  <2> QED
    BY <2>2, <2>3, <2>4, <2>5
<1>3. TerraformTyped'
  BY <1>1, <1>2 DEF TerraformTyped
<1>4. TrackedRows' /\ UntrackedOnlyByLoss'
  BY DEF TerraformInv, TrackedRows, UntrackedOnlyByLoss, Tracks
<1>5. CallsInv'
  BY <1>1, <1>2 DEF CallsInv
<1>6. Fresh'
  BY DEF Fresh
<1>7. ASSUME NEW a \in Addresses, quiet, Steady(a)'
      PROVE  Placed(a)' /\ (walk'[a] = <<>> => Settled(a)')
  <2>1. Declares(a) /\ a \notin Renewed /\ Tracks(a)
    BY <1>2, <1>7
  <2>2. /\ tracked[a].fixed = declared[a].fixed /\ declared[a].up \notin Renewed
        /\ declared[a].up = Nothing \/ Tracks(declared[a].up) =>
             tracked[a].up = IdOf(declared[a].up)
    BY <2>1, NotRenewed
  <2>3. ASSUME NEW b \in {declared[a].up, declared[a].owner}, b # Nothing, b \notin Renewed
        PROVE  Steady(b)' /\ Tracks(b)
    <3>1. Declares(b)
      BY <2>1, <2>3, Declaration, <1>1 DEF Declares
    <3>2. b \in Addresses
      BY <1>1, <3>1, Declaration
    <3> QED
      BY <1>2, <2>3, <3>1, <3>2
  <2>4. LET o == objects[tracked[a].id]
        IN /\ o.live /\ o.fixed = tracked[a].fixed /\ o.up = tracked[a].up
           /\ o.owner = tracked[a].owner /\ o.name = tracked[a].name
    <3>1. Alive(tracked[a].id) /\ tracked[a] = Known(tracked[a].id, objects[tracked[a].id], tracked[a].force)
      BY <1>1, <1>7, <2>1 DEF Fresh
    <3> QED
      BY <3>1 DEF Known, Alive
  <2>5. Placed(a)'
    BY <2>2, <2>3, <2>4 DEF Placed, IdOf
  <2>6. ASSUME walk'[a] = <<>> PROVE Settled(a)'
    <3>1. /\ tracked[a].name = declared[a].name /\ declared[a].owner \notin Renewed
          /\ tracked[a].owner = IdOf(declared[a].owner)
      BY <1>2, <1>7, <2>6 DEF Differs
    <3> QED
      BY <2>3, <2>4, <3>1 DEF Settled, IdOf
  <2> QED
    BY <2>5, <2>6
<1>8. Exact'
  BY <1>2, <1>7 DEF Exact, Walking
<1> QED
  BY <1>3, <1>4, <1>5, <1>6, <1>8 DEF TerraformInv

\* The requests under way stay what they are when an address that has something
\* to do goes on to w
LEMMA CallsKept ==
  ASSUME TerraformInv, phase = "apply", NEW a \in Addresses, NEW w \in Walks,
         walk' = [walk EXCEPT ![a] = w], walk[a] # <<>>,
         UNCHANGED <<declared, phase>>, \A b \in Addresses \ {a} : tracked'[b] = tracked[b],
         DOMAIN calls' = DOMAIN calls \ {a}, \A b \in DOMAIN calls' : calls'[b] = calls[b],
         Walking(a)'
  PROVE  CallsInv'
<1>1. TerraformTyped /\ CallsInv /\ TrackedRows
  BY DEF TerraformInv
<1>2. walk'[a] = w /\ \A b \in Addresses \ {a} : walk'[b] = walk[b]
  BY <1>1 DEF TerraformTyped
<1>3. ASSUME NEW b \in Addresses PROVE Walking(b)'
  <2>1. CASE b = a
    BY <2>1
  <2>2. CASE b # a
    BY <1>1, <1>2, <2>2 DEF CallsInv, Walking, Tracks, Declares
  <2> QED
    BY <2>1, <2>2
<1>4. ASSUME NEW b \in DOMAIN calls' PROVE Calling(b)'
  <2>1. b \in DOMAIN calls /\ b # a /\ Calling(b) /\ calls'[b] = calls[b] /\ b \in Addresses
    BY <1>1 DEF CallsInv, Calling
  <2>2. walk'[b] = walk[b] /\ tracked'[b] = tracked[b]
    BY <1>2, <2>1
  <2>3. walk[b] \in {<<"create">>, <<"update">>, <<"delete">>, <<"delete", "create">>}
    BY <1>1, <2>1 DEF Calling, TerraformTyped, Walks
  <2>4. ASSUME walk[b][1] # "delete", NEW d \in Addresses, Uses(b, d)
        PROVE  d # a /\ walk'[d] = <<>>
    <3>1. walk[d] = <<>>
      BY <2>1, <2>4 DEF Calling
    <3> QED
      BY <1>2, <3>1
  <2>5. RequestOf(b)' = RequestOf(b)
    <3>1. CASE walk[b] \in {<<"delete">>, <<"delete", "create">>}
      BY <2>2, <3>1, WalkHeads DEF Heads, RequestOf
    <3>2. ASSUME walk[b] \in {<<"create">>, <<"update">>}, NEW d \in {declared[b].up, declared[b].owner}
          PROVE  IdOf(d)' = IdOf(d)
      <4>1. Declares(b) /\ walk[b][1] # "delete"
        BY <1>1, <2>1, <3>2, WalkHeads DEF CallsInv, Walking, Heads
      <4>2. CASE d = Nothing
        BY <4>2 DEF IdOf
      <4>3. CASE d # Nothing
        <5>1. Declares(d)
          BY <1>1, <4>1, <4>3, <3>2, Declaration DEF Declares
        <5>2. d \in Addresses
          BY <1>1, <5>1, Declaration
        <5>3. d # a
          BY <2>4, <3>2, <4>1, <4>3, <5>2 DEF Uses
        <5> QED
          BY <5>2, <5>3 DEF IdOf
      <4> QED
        BY <4>2, <4>3
    <3>3. CASE walk[b] \in {<<"create">>, <<"update">>}
      BY <2>2, <3>2, <3>3 DEF RequestOf, PatchOf
    <3> QED
      BY <2>3, <3>1, <3>3
  <2> QED
    BY <2>1, <2>2, <2>4, <2>5 DEF Calling, Uses
<1> QED
  BY <1>3, <1>4 DEF CallsInv

LEMMA SendKept == ASSUME TerraformInv, NEW a \in Addresses, Send(a) PROVE TerraformInv'
<1> USE DEF Send
<1>1. TerraformTyped /\ CallsInv /\ phase = "apply" /\ walk[a] \notin {<<>>, <<"failed">>}
  BY DEF TerraformInv, Pending
<1>2. TerraformTyped'
  BY <1>1 DEF TerraformTyped
<1>3. TrackedRows' /\ UntrackedOnlyByLoss' /\ Fresh'
  BY DEF TerraformInv, TrackedRows, UntrackedOnlyByLoss, Tracks, Fresh, Alive
<1>4. ASSUME NEW b PROVE RequestOf(b)' = RequestOf(b) /\ Walking(b)' = Walking(b)
  BY DEF RequestOf, PatchOf, IdOf, Walking, Tracks, Declares
<1>5. ASSUME NEW b \in DOMAIN calls' PROVE Calling(b)'
  <2>1. CASE b = a
    BY <1>1, <1>4, <2>1 DEF Calling, Reached, Uses
  <2>2. CASE b # a
    BY <1>1, <1>4, <2>2 DEF CallsInv, Calling, Uses
  <2> QED
    BY <2>1, <2>2
<1>6. CallsInv'
  BY <1>1, <1>4, <1>5 DEF CallsInv
<1>7. \A b : /\ Steady(b)' = Steady(b) /\ Tracks(b)' = Tracks(b) /\ Declares(b)' = Declares(b)
            /\ IdOf(b)' = IdOf(b)
  BY DEF Steady, Tracks, Declares, IdOf
<1>8. Good' = Good /\ \A b : Placed(b)' = Placed(b) /\ Settled(b)' = Settled(b)
  BY <1>7 DEF Placed, Settled, Good, Alive
<1>9. Exact'
  BY <1>7, <1>8 DEF TerraformInv, Exact
<1> QED
  BY <1>2, <1>3, <1>6, <1>9 DEF TerraformInv

\* What is known of a call under way
LEMMA Called ==
  ASSUME TerraformInv, NEW a \in DOMAIN calls
  PROVE  /\ a \in Addresses /\ phase = "apply" /\ walk[a] \notin {<<>>, <<"failed">>}
         /\ calls[a] = RequestOf(a)
         /\ walk[a][1] # "delete" => \A b \in Addresses : Uses(a, b) => walk[b] = <<>>
         /\ calls[a] \in Requests
<1>1. Calling(a) /\ TerraformTyped /\ TrackedRows /\ CallsInv
  BY DEF TerraformInv, CallsInv
<1> QED
  BY <1>1, RequestFor DEF Calling

\* An address that has something to do fails
LEMMA Failed ==
  ASSUME TerraformInv, phase = "apply", NEW a \in Addresses, walk[a] # <<>>,
         walk' = [walk EXCEPT ![a] = <<"failed">>],
         UNCHANGED <<objects, tracked, declared, phase, quiet>>,
         DOMAIN calls' = DOMAIN calls \ {a}, \A b \in DOMAIN calls' : calls'[b] = calls[b],
         late' \subseteq [by : Addresses, request : Requests]
  PROVE  TerraformInv'
<1>1. <<"failed">> \in Walks /\ TerraformTyped
  BY DEF Walks, TerraformInv
<1>2. walk'[a] = <<"failed">>
  BY <1>1 DEF TerraformTyped
<1>3. TerraformTyped'
  BY <1>1 DEF TerraformTyped
<1>4. TrackedRows' /\ UntrackedOnlyByLoss' /\ Fresh'
  BY DEF TerraformInv, TrackedRows, UntrackedOnlyByLoss, Tracks, Fresh
<1>5. Walking(a)'
  BY <1>2, WalkHeads DEF Walking, Heads
<1>6. CallsInv'
  BY <1>1, <1>5, CallsKept
<1>7. Exact'
  BY <1>2 DEF Exact, Good
<1> QED
  BY <1>3, <1>4, <1>6, <1>7 DEF TerraformInv

LEMMA SkipKept == ASSUME TerraformInv, NEW a \in Addresses, Skip(a) PROVE TerraformInv'
<1>1. TerraformTyped
  BY DEF TerraformInv
<1> QED
  BY <1>1, Failed DEF Skip, Pending, TerraformTyped

LEMMA RefuseKept == ASSUME TerraformInv, NEW a, Refuse(a) PROVE TerraformInv'
<1>1. TerraformTyped /\ a \in Addresses /\ phase = "apply" /\ walk[a] # <<>>
  BY Called DEF TerraformInv, Refuse
<1> QED
  BY <1>1, Failed DEF Refuse, Returned, TerraformTyped

LEMMA GiveUpKept == ASSUME TerraformInv, NEW a, GiveUp(a) PROVE TerraformInv'
<1>1. /\ TerraformTyped /\ a \in Addresses /\ phase = "apply" /\ walk[a] # <<>>
      /\ calls[a] \in Requests
  BY Called DEF TerraformInv, GiveUp
<1>2. late' \subseteq [by : Addresses, request : Requests]
  BY <1>1 DEF GiveUp, TerraformTyped
<1> QED
  BY <1>1, <1>2, Failed DEF GiveUp, Returned

\* An address goes on, and what stays of the others stays where it is declared
LEMMA ExactKept ==
  ASSUME TerraformInv, phase = "apply", NEW a \in Addresses, NEW w \in Walks,
         walk' = [walk EXCEPT ![a] = w], UNCHANGED <<declared, phase, quiet>>, RowsKept,
         Walking(a)', \A b \in Addresses \ {a} : tracked'[b] = tracked[b],
         walk[a] # <<"failed">>, walk[a] = <<"update">> => Alive(tracked[a].id),
         Steady(a) => Steady(a)' /\ tracked'[a].id = tracked[a].id,
         \A b \in Addresses \ {a} : Tracks(b) =>
           LET i == tracked[b].id
           IN objects'[i].name = objects[i].name /\ objects'[i].owner = objects[i].owner,
         quiet /\ Good /\ Good' =>
           /\ \A b \in Addresses \ {a} :
                Tracks(b) /\ walk[b] = <<>> => objects'[tracked[b].id].live
           /\ Steady(a)' => Placed(a)' /\ (w = <<>> => Settled(a)')
  PROVE  Exact'
<1>1. TerraformTyped /\ TrackedRows /\ Exact
  BY DEF TerraformInv
<1>2. walk'[a] = w /\ \A b \in Addresses \ {a} : walk'[b] = walk[b]
  BY <1>1 DEF TerraformTyped
<1>3. ASSUME NEW b \in Addresses \ {a}
      PROVE  Steady(b)' = Steady(b) /\ Tracks(b)' = Tracks(b) /\ Declares(b)' = Declares(b)
  BY <1>2 DEF Steady, Tracks, Declares
<1> SUFFICES ASSUME quiet, Good', NEW b \in Addresses
             PROVE  /\ walk'[b] = <<>> => (Tracks(b)' <=> Declares(b)')
                    /\ Steady(b)' => Placed(b)'
                    /\ Steady(b)' /\ walk'[b] = <<>> => Settled(b)'
  BY DEF Exact
<1>4. Good
  <2>1. ASSUME NEW d \in Addresses \ {a}
        PROVE  walk[d] # <<"failed">> /\ (walk[d] = <<"update">> => Alive(tracked[d].id))
    <3>1. walk[d] # <<"failed">> /\ (walk[d] = <<"update">> => Alive(tracked[d].id)')
      BY <1>2 DEF Good
    <3>2. ASSUME walk[d] = <<"update">> PROVE Alive(tracked[d].id)
      <4>1. Tracks(d)
        BY <3>2 DEF TerraformInv, CallsInv, Walking
      <4>2. tracked[d].id \in DOMAIN objects /\ tracked'[d] = tracked[d]
        BY <1>1, <4>1, Tracking
      <4> QED
        BY <3>1, <3>2, <4>2 DEF Alive, RowsKept
    <3> QED
      BY <3>1, <3>2
  <2> QED
    BY <2>1 DEF Good
<1>5. \A d \in Addresses :
        /\ walk[d] = <<>> => (Tracks(d) <=> Declares(d))
        /\ Steady(d) => Placed(d)
        /\ Steady(d) /\ walk[d] = <<>> => Settled(d)
  BY <1>1, <1>4 DEF Exact
<1>6. CASE b = a
  BY <1>2, <1>4, <1>6 DEF Walking
<1>7. CASE b # a
  <2>1. walk'[b] = <<>> => (Tracks(b)' <=> Declares(b)')
    BY <1>2, <1>3, <1>5, <1>7
  <2>2. ASSUME NEW d, d # Nothing => Steady(d) /\ d \in Addresses
        PROVE  IdOf(d)' = IdOf(d) /\ (d # Nothing => Steady(d)')
    BY <1>3, <2>2 DEF IdOf
  <2>3. ASSUME Steady(b)'
        PROVE  Placed(b)' /\ (walk'[b] = <<>> => Settled(b)')
    <3>1. Steady(b) /\ Tracks(b) /\ tracked'[b] = tracked[b]
      BY <1>3, <1>7, <2>3 DEF Steady
    <3>2. Declares(b)
      BY <3>1, <1>5, <1>7 DEF Steady, TerraformInv, CallsInv, Walking
    <3>3. ASSUME NEW d \in {declared[b].up, declared[b].owner}, d # Nothing PROVE d \in Addresses
      <4>1. Declares(d)
        BY <1>1, <3>2, <3>3, Declaration DEF Declares
      <4> QED
        BY <1>1, <4>1, Declaration
    <3> DEFINE i == tracked[b].id
    <3>4. /\ i \in DOMAIN objects /\ objects'[i].fixed = objects[i].fixed
          /\ objects'[i].up = objects[i].up /\ objects'[i].name = objects[i].name
          /\ objects'[i].owner = objects[i].owner
      BY <1>1, <1>7, <3>1, Tracking DEF RowsKept
    <3>5. Placed(b)'
      <4>1. Placed(b)
        BY <1>5, <3>1
      <4>2. /\ IdOf(declared[b].up)' = IdOf(declared[b].up)
            /\ declared[b].up # Nothing => Steady(declared[b].up)'
        BY <2>2, <3>3, <4>1 DEF Placed
      <4> QED
        BY <3>1, <3>4, <4>1, <4>2 DEF Placed
    <3>6. ASSUME walk'[b] = <<>> PROVE Settled(b)'
      <4>1. Settled(b) /\ walk[b] = <<>>
        BY <1>2, <1>5, <1>7, <3>1, <3>6
      <4>2. /\ IdOf(declared[b].owner)' = IdOf(declared[b].owner)
            /\ declared[b].owner # Nothing => Steady(declared[b].owner)'
        BY <2>2, <3>3, <4>1 DEF Settled
      <4>3. objects'[i].live
        BY <1>4, <1>7, <3>1, <4>1
      <4> QED
        BY <3>1, <3>4, <4>1, <4>2, <4>3 DEF Settled
    <3> QED
      BY <3>5, <3>6
  <2> QED
    BY <2>1, <2>3
<1> QED
  BY <1>6, <1>7

\* A call is answered, and the address is tracked as t
LEMMA Advanced ==
  ASSUME TerraformInv, NEW a \in DOMAIN calls, Returned(a), walk' = [walk EXCEPT ![a] = Tail(@)],
         NEW t \in Attributes \cup {Untracked}, tracked' = [tracked EXCEPT ![a] = t],
         UNCHANGED <<declared, phase, late, quiet>>, RowsKept,
         \/ /\ walk[a] = <<"create">> /\ t \in Attributes /\ t.id \notin DOMAIN objects
            /\ t.id \in DOMAIN objects' /\ objects'[t.id].kind = declared[a].kind
         \/ /\ walk[a] = <<"update">> /\ t \in Attributes /\ t.id = tracked[a].id
            /\ Alive(tracked[a].id)
         \/ /\ walk[a] \in {<<"delete">>, <<"delete", "create">>} /\ t = Untracked
            /\ ~ objects'[tracked[a].id].live,
         \A i \in DOMAIN objects' \ DOMAIN objects : t \in Attributes /\ i = t.id,
         \A b \in Addresses \ {a} : Tracks(b) =>
           LET i == tracked[b].id
           IN objects'[i].name = objects[i].name /\ objects'[i].owner = objects[i].owner,
         quiet /\ Good /\ Good' =>
           /\ \A b \in Addresses \ {a} :
                Tracks(b) /\ walk[b] = <<>> => objects'[tracked[b].id].live
           /\ t \in Attributes => Placed(a)' /\ Settled(a)'
  PROVE  TerraformInv'
<1> DEFINE w == Tail(walk[a])
<1>1. /\ TerraformTyped /\ TrackedRows /\ CallsInv /\ a \in Addresses /\ phase = "apply"
      /\ walk[a] \notin {<<>>, <<"failed">>} /\ Walking(a)
  BY Called DEF TerraformInv, CallsInv
<1>2. /\ w \in Walks /\ walk' = [walk EXCEPT ![a] = w] /\ walk'[a] = w
      /\ w = IF walk[a] = <<"delete", "create">> THEN <<"create">> ELSE <<>>
  BY <1>1, WalkHeads DEF TerraformTyped, Walks, Heads
<1>3. tracked'[a] = t /\ \A b \in Addresses \ {a} : tracked'[b] = tracked[b]
  BY <1>1 DEF TerraformTyped
<1>4. (t \in Attributes <=> Tracks(a)') /\ (t = Untracked <=> ~ Tracks(a)')
  BY <1>3, TerraformAssumption DEF Tracks
<1>5. Walking(a)'
  BY <1>1, <1>2, <1>4, WalkHeads, TerraformAssumption DEF Walking, Heads, Declares
<1>6. TerraformTyped'
  BY <1>1, <1>2 DEF TerraformTyped, RowsKept
<1>7. TrackedRows'
  <2>1. ASSUME NEW b \in Addresses, Tracks(b)'
        PROVE  /\ tracked'[b].id \in DOMAIN objects'
               /\ \A c \in Configs : b \in DOMAIN c => objects'[tracked'[b].id].kind = c[b].kind
               /\ \A d \in Addresses : Tracks(d)' /\ tracked'[d].id = tracked'[b].id => d = b
    <3>1. \A d \in Addresses \ {a} : Tracks(d)' = Tracks(d) /\ tracked'[d].id = tracked[d].id
      BY <1>3 DEF Tracks
    <3>2. \A d \in Addresses : Tracks(d) => tracked[d].id \in DOMAIN objects
      BY <1>1, Tracking
    <3>3. CASE b = a /\ walk[a] = <<"create">>
      <4>1. t \in Attributes /\ t.id \notin DOMAIN objects /\ t.id \in DOMAIN objects'
            /\ objects'[t.id].kind = declared[a].kind /\ Declares(a)
        BY <1>1, <3>3, WalkHeads DEF Heads, Walking
      <4>2. \A c \in Configs : a \in DOMAIN c => c[a].kind = declared[a].kind
        BY <1>1, <4>1, Declaration
      <4>3. \A d \in Addresses : Tracks(d)' /\ tracked'[d].id = t.id => d = a
        BY <3>1, <3>2, <4>1
      <4> QED
        BY <1>3, <3>3, <4>1, <4>2, <4>3
    <3>4. CASE b = a /\ walk[a] # <<"create">>
      <4>1. t.id = tracked[a].id /\ Tracks(a) /\ walk[a] = <<"update">>
        BY <1>1, <1>4, <2>1, <3>4, TerraformAssumption DEF Walking
      <4>2. /\ tracked[a].id \in DOMAIN objects
            /\ \A c \in Configs : a \in DOMAIN c => objects[tracked[a].id].kind = c[a].kind
            /\ \A d \in Addresses : Tracks(d) /\ tracked[d].id = tracked[a].id => d = a
        BY <1>1, <4>1 DEF TrackedRows
      <4> QED
        BY <1>3, <3>1, <3>4, <4>1, <4>2 DEF RowsKept
    <3>5. CASE b # a
      <4>1. Tracks(b) /\ tracked'[b].id = tracked[b].id
        BY <2>1, <3>1, <3>5
      <4>2. /\ tracked[b].id \in DOMAIN objects
            /\ \A c \in Configs : b \in DOMAIN c => objects[tracked[b].id].kind = c[b].kind
            /\ \A d \in Addresses : Tracks(d) /\ tracked[d].id = tracked[b].id => d = b
        BY <1>1, <4>1 DEF TrackedRows
      <4>3. Tracks(a)' => tracked'[a].id # tracked[b].id
        BY <1>1, <1>3, <1>4, <3>5, <4>2, TerraformAssumption DEF Walking
      <4> QED
        BY <3>1, <4>1, <4>2, <4>3 DEF RowsKept
    <3> QED
      BY <3>3, <3>4, <3>5
  <2> QED
    BY <2>1 DEF TrackedRows
<1>8. CallsInv'
  <2>1. DOMAIN calls' = DOMAIN calls \ {a} /\ \A b \in DOMAIN calls' : calls'[b] = calls[b]
    BY DEF Returned
  <2> QED
    BY <1>1, <1>2, <1>3, <1>5, <2>1, CallsKept
<1>9. UntrackedOnlyByLoss'
  <2>1. ASSUME NEW i \in DOMAIN objects', objects'[i].live, objects'[i].by \in Addresses,
               ~ objects'[i].late
        PROVE  \E b \in Addresses : Tracks(b)' /\ tracked'[b].id = i
    <3>1. CASE i \notin DOMAIN objects
      BY <1>1, <1>3, <1>4, <3>1
    <3>2. CASE i \in DOMAIN objects
      <4>1. PICK b \in Addresses : Tracks(b) /\ tracked[b].id = i
        BY <2>1, <3>2 DEF TerraformInv, UntrackedOnlyByLoss, RowsKept
      <4>2. CASE b # a
        BY <1>3, <4>1, <4>2 DEF Tracks
      <4>3. CASE b = a
        BY <1>1, <1>3, <1>4, <2>1, <4>1, <4>3, WalkHeads DEF Walking, Heads
      <4> QED
        BY <4>2, <4>3
    <3> QED
      BY <3>1, <3>2
  <2> QED
    BY <2>1 DEF UntrackedOnlyByLoss
<1>10. Fresh'
  BY <1>1 DEF Fresh
<1>11. Exact'
  <2>1. walk[a] = <<"update">> => Alive(tracked[a].id)
    BY WalkHeads DEF Heads
  <2>2. Steady(a) => Steady(a)' /\ tracked'[a].id = tracked[a].id
    BY <1>1, <1>2, <1>3, <1>4, WalkHeads DEF Steady, Heads
  <2>3. Steady(a)' => t \in Attributes
    BY <1>4 DEF Steady
  <2> HIDE DEF w
  <2> QED
    BY <1>1, <1>2, <1>3, <1>5, <2>1, <2>2, <2>3, ExactKept
<1> QED
  BY <1>6, <1>7, <1>8, <1>9, <1>10, <1>11 DEF TerraformInv

\* What a successful apply leaves of those that have nothing left to do
LEMMA SettledLive ==
  ASSUME TerraformInv, phase = "apply", quiet, Good, NEW b \in Addresses, Tracks(b), walk[b] = <<>>
  PROVE  Placed(b) /\ Settled(b) /\ objects[tracked[b].id].live /\ Declares(b)
<1>1. Steady(b) /\ Declares(b) /\ Exact
  BY DEF Steady, TerraformInv, CallsInv, Walking
<1> QED
  BY <1>1 DEF Exact, Settled

LEMMA NotFoundKept == ASSUME TerraformInv, NEW a, NotFound(a) PROVE TerraformInv'
<1>1. /\ a \in DOMAIN calls /\ a \in Addresses /\ phase = "apply" /\ TerraformTyped
      /\ TrackedRows /\ CallsInv /\ walk[a] \notin {<<>>, <<"failed">>}
      /\ walk[a][1] # "delete" => \A b \in Addresses : Uses(a, b) => walk[b] = <<>>
      /\ calls[a] = RequestOf(a)
  BY Called DEF NotFound, TerraformInv
<1>2. /\ walk[a] \in {<<"delete">>, <<"delete", "create">>} /\ Tracks(a)
      /\ calls[a].id = tracked[a].id
  BY <1>1, RequestFor DEF NotFound, Gone
<1>3. ~ objects[tracked[a].id].live
  BY <1>1, <1>2, Tracking DEF NotFound, Gone, Alive
<1>4. RowsKept
  BY <1>1 DEF NotFound, RowsKept, TerraformTyped
<1>5. quiet /\ Good => \A b \in Addresses : Tracks(b) /\ walk[b] = <<>> => objects[tracked[b].id].live
  BY <1>1, SettledLive
<1> QED
  BY <1>1, <1>2, <1>3, <1>4, <1>5, TerraformAssumption, Advanced DEF NotFound

LEMMA ServeCreateKept ==
  ASSUME TerraformInv, NEW a, Serve(a), walk[a] = <<"create">>
  PROVE  TerraformInv'
<1> DEFINE r == calls[a]
           n == Len(objects) + 1
           t == Known(n, objects'[n], declared[a].force)
<1>1. /\ a \in DOMAIN calls /\ a \in Addresses /\ phase = "apply" /\ TerraformTyped
      /\ TrackedRows /\ CallsInv /\ walk[a] \notin {<<>>, <<"failed">>} /\ r \in Requests
      /\ walk[a][1] # "delete" => \A b \in Addresses : Uses(a, b) => walk[b] = <<>>
      /\ r = RequestOf(a)
  BY Called DEF Serve, TerraformInv
<1>2. /\ r = [op |-> "create", kind |-> declared[a].kind, fixed |-> declared[a].fixed,
              up |-> IdOf(declared[a].up), owner |-> IdOf(declared[a].owner),
              name |-> declared[a].name]
      /\ Declares(a) /\ ~ Tracks(a)
      /\ \A b \in {declared[a].up, declared[a].owner} :
           b # Nothing => b \in Addresses /\ Declares(b) /\ Tracks(b) /\ walk[b] = <<>>
  BY <1>1, RequestFor
<1>3. RowsKept /\ RowAdded(r, a, FALSE)
  BY <1>1, <1>2, RequestDone DEF Serve
<1>4. /\ n \in Nat /\ n \notin DOMAIN objects /\ n \in DOMAIN objects' /\ objects'[n] \in Row
      /\ objects'[n] = [kind |-> r.kind, fixed |-> r.fixed, up |-> r.up, owner |-> r.owner,
                        name |-> r.name, live |-> TRUE, by |-> a, late |-> FALSE]
  BY <1>3 DEF RowAdded, RowsKept
<1>5. t \in Attributes /\ t.id = n
  BY <1>1, <1>2, <1>4, Declaration, KnownAttributes
<1>6. tracked' = [tracked EXCEPT ![a] = t]
  BY <1>2 DEF Serve, Answered
<1>7. tracked'[a] = t /\ \A b \in Addresses \ {a} : tracked'[b] = tracked[b]
  BY <1>1, <1>6 DEF TerraformTyped
<1>8. walk' = [walk EXCEPT ![a] = Tail(@)]
  BY DEF Serve
<1>9. \A b \in Addresses \ {a} : walk'[b] = walk[b]
  BY <1>1, <1>8 DEF TerraformTyped
<1>10. ASSUME NEW b \in {declared[a].up, declared[a].owner}
       PROVE  IdOf(b)' = IdOf(b) /\ (b # Nothing => Steady(b)')
  <2>1. b # Nothing => b \in Addresses /\ b # a /\ Tracks(b) /\ walk[b] = <<>>
    BY <1>2
  <2> QED
    BY <1>7, <1>9, <2>1 DEF IdOf, Steady, Tracks
<1>11. Placed(a)' /\ Settled(a)'
  <2>1. /\ objects'[n].fixed = declared[a].fixed /\ objects'[n].up = IdOf(declared[a].up)
        /\ objects'[n].live /\ objects'[n].name = declared[a].name
        /\ objects'[n].owner = IdOf(declared[a].owner)
    BY <1>2, <1>4
  <2>2. tracked'[a].id = n /\ declared' = declared
    BY <1>5, <1>7 DEF Serve
  <2> QED
    BY <1>10, <2>1, <2>2 DEF Placed, Settled
<1>12. ASSUME NEW b \in Addresses, Tracks(b)
       PROVE  LET i == tracked[b].id IN i \in DOMAIN objects /\ objects'[i] = objects[i]
  BY <1>1, <1>3, <1>12, Tracking DEF RowAdded
<1>13. quiet /\ Good => \A b \in Addresses : Tracks(b) /\ walk[b] = <<>> => objects'[tracked[b].id].live
  BY <1>1, <1>12, SettledLive
<1>14. objects'[n].kind = declared[a].kind
  BY <1>2, <1>4
<1>15. \A i \in DOMAIN objects' \ DOMAIN objects : i = n
  BY <1>3 DEF RowAdded
<1>16. UNCHANGED <<declared, phase, late, quiet>> /\ Returned(a)
  BY DEF Serve
<1> HIDE DEF t, n, r
<1> QED
  BY <1>1, <1>3, <1>4, <1>5, <1>6, <1>8, <1>11, <1>12, <1>13, <1>14, <1>15, <1>16, Advanced

LEMMA ServeUpdateKept ==
  ASSUME TerraformInv, NEW a, Serve(a), walk[a] = <<"update">>
  PROVE  TerraformInv'
<1> DEFINE r == calls[a]
           i == tracked[a].id
           t == Known(i, objects'[i], declared[a].force)
<1>1. /\ a \in DOMAIN calls /\ a \in Addresses /\ phase = "apply" /\ TerraformTyped
      /\ TrackedRows /\ CallsInv /\ walk[a] \notin {<<>>, <<"failed">>} /\ r \in Requests
      /\ walk[a][1] # "delete" => \A b \in Addresses : Uses(a, b) => walk[b] = <<>>
      /\ r = RequestOf(a)
  BY Called DEF Serve, TerraformInv
<1>2. /\ r = [op |-> "update", id |-> i, name |-> declared[a].name,
              owner |-> IdOf(declared[a].owner)]
      /\ Declares(a) /\ Tracks(a)
      /\ \A b \in {declared[a].up, declared[a].owner} :
           b # Nothing => b \in Addresses /\ Declares(b) /\ Tracks(b) /\ walk[b] = <<>>
  BY <1>1, RequestFor
<1>3. RowsKept /\ RowPatched(r) /\ Alive(i)
  <2>1. Accepted(r) /\ objects' = Done(r, a, FALSE) /\ r.op = "update" /\ r.id = i
    BY <1>2 DEF Serve
  <2> QED
    BY <1>1, <2>1, RequestDone DEF Accepted
<1>4. r.id = i /\ r.name = declared[a].name /\ r.owner = IdOf(declared[a].owner)
  BY <1>2
<1>5. /\ DOMAIN objects' = DOMAIN objects
      /\ objects'[i] = [objects[i] EXCEPT !.name = r.name, !.owner = r.owner]
      /\ \A j \in DOMAIN objects : j # i => objects'[j] = objects[j]
  <2>1. i \in DOMAIN objects
    BY <1>3 DEF Alive
  <2> HIDE DEF i, r
  <2> QED
    BY <1>3, <1>4, <2>1 DEF RowPatched
<1>6. /\ i \in Nat /\ i \in DOMAIN objects /\ objects[i] \in Row /\ objects'[i] \in Row
      /\ objects'[i] = [objects[i] EXCEPT !.name = declared[a].name,
                                          !.owner = IdOf(declared[a].owner)]
      /\ objects[i].live
  BY <1>1, <1>2, <1>3, <1>4, <1>5, Tracking DEF RowsKept, Alive
<1>7. t \in Attributes /\ t.id = i
  BY <1>1, <1>2, <1>6, Declaration, KnownAttributes
<1>8. tracked' = [tracked EXCEPT ![a] = t]
  BY <1>2 DEF Serve, Answered
<1>9. tracked'[a] = t /\ \A b \in Addresses \ {a} : tracked'[b] = tracked[b]
  BY <1>1, <1>8 DEF TerraformTyped
<1>10. walk' = [walk EXCEPT ![a] = Tail(@)]
  BY DEF Serve
<1>11. walk'[a] = <<>> /\ \A b \in Addresses \ {a} : walk'[b] = walk[b]
  BY <1>1, <1>10, WalkHeads DEF TerraformTyped, Heads
<1>12. UNCHANGED <<declared, phase, late, quiet>> /\ Returned(a)
  BY DEF Serve
<1>13. \A b \in Addresses : Tracks(b) => Tracks(b)' /\ tracked'[b].id = tracked[b].id
  BY <1>7, <1>9, TerraformAssumption DEF Tracks
<1>14. \A b \in Addresses : Steady(b) => Steady(b)'
  BY <1>11, <1>13 DEF Steady
<1>15. ASSUME NEW b, b # Nothing => b \in Addresses /\ Tracks(b) PROVE IdOf(b)' = IdOf(b)
  BY <1>13, <1>15 DEF IdOf
<1>16. ASSUME quiet, Good PROVE Placed(a)' /\ Settled(a)'
  <2>1. Steady(a) /\ Placed(a)
    BY <1>1, <1>2, <1>16 DEF Steady, TerraformInv, Exact
  <2>2. /\ objects'[i].fixed = objects[i].fixed /\ objects'[i].up = objects[i].up
        /\ objects'[i].live /\ objects'[i].name = declared[a].name
        /\ objects'[i].owner = IdOf(declared[a].owner)
    BY <1>6 DEF Row
  <2>3. ASSUME NEW b \in {declared[a].up, declared[a].owner}
        PROVE  IdOf(b)' = IdOf(b) /\ (b # Nothing => Steady(b)')
    BY <1>2, <1>14, <1>15 DEF Steady
  <2>4. tracked'[a].id = i
    BY <1>7, <1>9
  <2> QED
    BY <1>12, <2>1, <2>2, <2>3, <2>4 DEF Placed, Settled
<1>17. ASSUME NEW b \in Addresses \ {a}, Tracks(b)
       PROVE  LET j == tracked[b].id IN j \in DOMAIN objects /\ objects'[j] = objects[j]
  <2>1. tracked[b].id # i /\ tracked[b].id \in DOMAIN objects
    BY <1>1, <1>2, <1>17 DEF TrackedRows
  <2> QED
    BY <1>5, <2>1
<1>18. quiet /\ Good => \A b \in Addresses \ {a} :
         Tracks(b) /\ walk[b] = <<>> => objects'[tracked[b].id].live
  BY <1>1, <1>17, SettledLive
<1>19. DOMAIN objects' = DOMAIN objects
  BY <1>3 DEF RowPatched
<1> HIDE DEF t, r
<1> QED
  BY <1>1, <1>3, <1>7, <1>8, <1>10, <1>12, <1>16, <1>17, <1>18, <1>19, Advanced

LEMMA SubtreeClosed ==
  ASSUME NEW i \in DOMAIN objects
  PROVE  /\ Subtree(i) \subseteq DOMAIN objects /\ i \in Subtree(i)
         /\ Below(Subtree(i)) \subseteq Subtree(i)
         /\ \A S \in SUBSET DOMAIN objects : {i} \cup Below(S) \subseteq S => Subtree(i) \subseteq S
<1>1. ASSUME NEW j \in Below(Subtree(i)), NEW S \in SUBSET DOMAIN objects, {i} \cup Below(S) \subseteq S
      PROVE  j \in S
  <2>1. Subtree(i) \subseteq S
    BY <1>1 DEF Subtree
  <2>2. j \in Below(S)
    BY <1>1, <2>1 DEF Below
  <2> QED
    BY <1>1, <2>2
<1>2. Below(Subtree(i)) \subseteq DOMAIN objects
  BY DEF Below
<1>3. Below(Subtree(i)) \subseteq Subtree(i)
  BY <1>1, <1>2 DEF Subtree
<1> QED
  BY <1>3 DEF Subtree

\* What has nothing left to do is not below what is deleted, when no other
\* address is left without its row
LEMMA SettledSpared ==
  ASSUME TerraformInv, phase = "apply", quiet, Good, NEW a \in Addresses, Tracks(a),
         walk[a] \in {<<"delete">>, <<"delete", "create">>},
         \A d \in Addresses : walk[d] = <<"update">> => tracked[d].id \notin Subtree(tracked[a].id),
         NEW b \in Addresses, Tracks(b), walk[b] = <<>>
  PROVE  tracked[b].id \notin Subtree(tracked[a].id)
<1> DEFINE T == Subtree(tracked[a].id)
           settled == {tracked[d].id : d \in {e \in Addresses : Tracks(e) /\ walk[e] = <<>>}}
           S == T \ settled
<1>1. /\ TerraformTyped /\ TrackedRows /\ CallsInv /\ tracked[a].id \in DOMAIN objects
      /\ DOMAIN objects \subseteq Nat /\ walk[a] # <<>>
  BY Tracking, WalkHeads DEF TerraformInv, TerraformTyped, Heads
<1>2. /\ T \subseteq DOMAIN objects /\ tracked[a].id \in T /\ Below(T) \subseteq T
      /\ \A U \in SUBSET DOMAIN objects : {tracked[a].id} \cup Below(U) \subseteq U => T \subseteq U
  BY <1>1, SubtreeClosed
<1>3. tracked[a].id \in S
  BY <1>1, <1>2 DEF TrackedRows
<1>4. ASSUME NEW j \in Below(S) PROVE j \in S
  <2>1. j \in T
    BY <1>2, <1>4 DEF Below
  <2>2. ASSUME j \in settled PROVE FALSE
    <3>1. PICK d \in Addresses : Tracks(d) /\ walk[d] = <<>> /\ tracked[d].id = j
      BY <2>2
    <3>2. Placed(d) /\ Settled(d) /\ Declares(d)
      BY <3>1, SettledLive
    <3>3. PICK ref \in {declared[d].up, declared[d].owner} :
            IdOf(ref) \in S /\ (ref # Nothing => Steady(ref))
      <4>1. {objects[j].up, objects[j].owner} \cap S # {}
        BY <1>4 DEF Below
      <4>2. objects[j].up = IdOf(declared[d].up) /\ (declared[d].up # Nothing => Steady(declared[d].up))
        BY <3>1, <3>2 DEF Placed
      <4>3. /\ objects[j].owner = IdOf(declared[d].owner)
            /\ declared[d].owner # Nothing => Steady(declared[d].owner)
        BY <3>1, <3>2 DEF Settled
      <4> HIDE DEF S
      <4> QED
        BY <4>1, <4>2, <4>3
    <3>4. ref # Nothing
      <4>1. S \subseteq Nat
        BY <1>1, <1>2
      <4> HIDE DEF S
      <4> QED
        BY <3>3, <4>1, TerraformAssumption DEF IdOf
    <3>5. ref \in Addresses
      <4>1. Declares(ref)
        BY <1>1, <3>2, <3>4, Declaration DEF Declares
      <4> QED
        BY <1>1, <4>1, Declaration
    <3>6. Tracks(ref) /\ walk[ref] \in {<<>>, <<"update">>} /\ IdOf(ref) = tracked[ref].id
      BY <3>3, <3>4 DEF Steady, IdOf
    <3>7. walk[ref] # <<>>
      BY <3>3, <3>5, <3>6
    <3> QED
      BY <3>3, <3>5, <3>6, <3>7
  <2> QED
    BY <2>1, <2>2
<1>5. T \subseteq S
  <2>1. S \subseteq DOMAIN objects
    BY <1>2
  <2>2. {tracked[a].id} \cup Below(S) \subseteq S
    BY <1>3, <1>4
  <2> HIDE DEF S, T
  <2> QED
    BY <1>2, <2>1, <2>2
<1> QED
  BY <1>5

LEMMA ServeDeleteKept ==
  ASSUME TerraformInv, NEW a, Serve(a), walk[a] \in {<<"delete">>, <<"delete", "create">>}
  PROVE  TerraformInv'
<1> DEFINE r == calls[a]
           i == tracked[a].id
           dead == IF tracked[a].force THEN Subtree(i) ELSE {i}
<1>1. /\ a \in DOMAIN calls /\ a \in Addresses /\ phase = "apply" /\ TerraformTyped
      /\ TrackedRows /\ CallsInv /\ walk[a] \notin {<<>>, <<"failed">>} /\ r \in Requests
      /\ walk[a][1] # "delete" => \A b \in Addresses : Uses(a, b) => walk[b] = <<>>
      /\ r = RequestOf(a)
  BY Called DEF Serve, TerraformInv
<1>2. r = [op |-> "delete", id |-> i, force |-> tracked[a].force] /\ Tracks(a)
  BY <1>1, RequestFor
<1>3. r.op = "delete" /\ r.id = i /\ r.force = tracked[a].force
  BY <1>2
<1>4. /\ RowsKept /\ DOMAIN objects' = DOMAIN objects
      /\ \A j \in DOMAIN objects : objects'[j] = [objects[j] EXCEPT !.live = @ /\ j \notin dead]
  <2>1. RowsKept /\ RowsDeleted(r)
    BY <1>1, <1>3, RequestDone DEF Serve
  <2> HIDE DEF r
  <2> QED
    BY <1>3, <2>1 DEF RowsDeleted
<1>5. ASSUME NEW j \in DOMAIN objects
      PROVE  /\ objects'[j].live <=> objects[j].live /\ j \notin dead
             /\ objects'[j].name = objects[j].name /\ objects'[j].owner = objects[j].owner
  <2> DEFINE on == objects[j].live /\ j \notin dead
  <2>1. objects'[j] = [objects[j] EXCEPT !.live = on] /\ objects[j] \in Row
    BY <1>1, <1>4 DEF TerraformTyped
  <2>2. on <=> objects[j].live /\ j \notin dead
    OBVIOUS
  <2> HIDE DEF on, dead
  <2> QED
    BY <2>1, <2>2 DEF Row
<1>6. \A b \in Addresses : Tracks(b) => tracked[b].id \in DOMAIN objects
  BY <1>1, Tracking
<1>7. i \in dead /\ i \in DOMAIN objects
  BY <1>1, <1>2, <1>6, SubtreeClosed
<1>8. tracked' = [tracked EXCEPT ![a] = Untracked]
  BY <1>3 DEF Serve, Answered
<1>9. UNCHANGED <<declared, phase, late, quiet>> /\ Returned(a) /\ walk' = [walk EXCEPT ![a] = Tail(@)]
  BY DEF Serve
<1>10. ASSUME quiet, Good, Good', NEW b \in Addresses \ {a}, Tracks(b), walk[b] = <<>>
       PROVE  objects'[tracked[b].id].live
  <2>1. tracked[b].id # i
    BY <1>1, <1>2, <1>10 DEF TrackedRows
  <2>2. ASSUME NEW d \in Addresses, walk[d] = <<"update">>, tracked[a].force
        PROVE  tracked[d].id \notin Subtree(i)
    <3>1. d # a
      BY <2>2, WalkHeads DEF Heads
    <3>2. walk'[d] = walk[d] /\ tracked'[d] = tracked[d]
      BY <1>1, <1>8, <1>9, <3>1 DEF TerraformTyped
    <3>3. Alive(tracked[d].id)'
      BY <1>10, <2>2, <3>2 DEF Good
    <3>4. tracked[d].id \in DOMAIN objects /\ objects'[tracked[d].id].live
      BY <1>4, <3>2, <3>3 DEF Alive
    <3> QED
      BY <1>5, <2>2, <3>4
  <2>3. tracked[a].force => tracked[b].id \notin Subtree(i)
    BY <1>1, <1>2, <1>10, <2>2, SettledSpared
  <2>4. objects[tracked[b].id].live
    BY <1>1, <1>10, SettledLive
  <2> QED
    BY <1>5, <1>6, <1>10, <2>1, <2>3, <2>4
<1>11. ~ objects'[i].live
  BY <1>5, <1>7
<1>12. \A b \in Addresses : Tracks(b) =>
         LET j == tracked[b].id
         IN objects'[j].name = objects[j].name /\ objects'[j].owner = objects[j].owner
  BY <1>5, <1>6
<1> HIDE DEF r, dead
<1> QED
  BY <1>1, <1>4, <1>8, <1>9, <1>10, <1>11, <1>12, TerraformAssumption, Advanced

LEMMA ServeKept == ASSUME TerraformInv, NEW a, Serve(a) PROVE TerraformInv'
<1>1. a \in DOMAIN calls /\ TerraformTyped /\ walk[a] \notin {<<>>, <<"failed">>} /\ a \in Addresses
  BY Called DEF Serve, TerraformInv
<1>2. walk[a] \in {<<"create">>, <<"update">>, <<"delete">>, <<"delete", "create">>}
  BY <1>1 DEF TerraformTyped, Walks
<1> QED
  BY <1>2, ServeCreateKept, ServeUpdateKept, ServeDeleteKept

\* No step of the provider, of its server or of another user breaks the invariant
LEMMA TerraformStep == ASSUME TerraformInv, [TerraformNext]_terraformVars PROVE TerraformInv'
<1>1. CASE UNCHANGED terraformVars
  <2>1. TerraformTyped' /\ TrackedRows' /\ UntrackedOnlyByLoss' /\ Fresh'
    BY <1>1 DEF terraformVars, TerraformInv, TerraformTyped, TrackedRows, UntrackedOnlyByLoss,
                Tracks, Fresh, Alive
  <2>2. CallsInv'
    BY <1>1 DEF terraformVars, TerraformInv, CallsInv, Walking, Calling, Tracks, Declares,
                RequestOf, PatchOf, IdOf, Uses
  <2>3. \A b : /\ Steady(b)' = Steady(b) /\ Tracks(b)' = Tracks(b) /\ Declares(b)' = Declares(b)
              /\ IdOf(b)' = IdOf(b)
    BY <1>1 DEF terraformVars, Steady, Tracks, Declares, IdOf
  <2>4. Good' = Good /\ \A b : Placed(b)' = Placed(b) /\ Settled(b)' = Settled(b)
    BY <1>1, <2>3 DEF terraformVars, Placed, Settled, Good, Alive
  <2>5. Exact'
    BY <1>1, <2>3, <2>4 DEF terraformVars, TerraformInv, Exact
  <2> QED
    BY <2>1, <2>2, <2>5 DEF TerraformInv
<1>2. CASE StartApply \/ ReadFails \/ Plan \/ EndApply
  BY <1>2, StartKept, ReadFailsKept, PlanKept, EndKept
<1>3. ASSUME NEW a \in Addresses,
             \/ Read(a) \/ Send(a) \/ Skip(a) \/ Serve(a) \/ NotFound(a) \/ Refuse(a) \/ GiveUp(a)
             \/ \E i \in DOMAIN objects : ImportState(a, i)
      PROVE  TerraformInv'
  BY <1>3, ReadKept, SendKept, SkipKept, ServeKept, NotFoundKept, RefuseKept, GiveUpKept, ImportKept
<1>4. CASE \E l \in late : ServeLate(l)
  BY <1>4, ServeLateKept
<1>5. CASE \E r \in OtherRequests : OtherWrites(r)
  BY <1>5, OthersKept
<1> QED
  BY <1>1, <1>2, <1>3, <1>4, <1>5 DEF TerraformNext

LEMMA TerraformFirst == TerraformInit => TerraformInv
<1> SUFFICES ASSUME TerraformInit PROVE TerraformInv
  OBVIOUS
<1>1. TerraformTyped
  BY DEF TerraformInit, TerraformTyped, Walks
<1> QED
  BY <1>1 DEF TerraformInit, TerraformInv, TrackedRows, Tracks, CallsInv, UntrackedOnlyByLoss,
              Fresh, Exact

LEMMA TerraformInductive == TerraformSpec => []TerraformInv
<1>1. TerraformInv /\ [TerraformNext]_terraformVars => TerraformInv'
  BY TerraformStep
<1> QED
  BY <1>1, TerraformFirst, PTL DEF TerraformSpec

\* A row that Terraform made and no longer tracks is dead, or was made by a
\* request whose answer was lost: no answer, refusal, import, other user or
\* failed run makes the provider forget a row that is there.
THEOREM UntrackedTheorem == TerraformSpec => []UntrackedOnlyByLoss
<1>1. TerraformInv => UntrackedOnlyByLoss
  BY DEF TerraformInv
<1> QED
  BY <1>1, TerraformInductive, PTL

\* An apply that succeeds while nobody else writes leaves the server as declared,
\* whatever the configurations, and whatever was lost, failed or written before it.
THEOREM AppliedTheorem == TerraformSpec => []AppliedExact
<1>1. TerraformInv => AppliedExact
  <2> SUFFICES ASSUME TerraformInv, quiet, phase = "idle", \A a \in Addresses : walk[a] = <<>>,
                      NEW a \in Addresses
               PROVE  IF Declares(a) THEN Tracks(a) /\ Matches(a) ELSE ~ Tracks(a)
    BY DEF AppliedExact
  <2>1. Good
    BY WalkHeads DEF Good, Heads
  <2>2. (Tracks(a) <=> Declares(a)) /\ (Tracks(a) => Placed(a) /\ Settled(a))
    BY <2>1 DEF TerraformInv, Exact, Steady
  <2>3. ASSUME Tracks(a) PROVE objects[tracked[a].id].kind = declared[a].kind
    <3>1. declared \in Configs
      BY DEF TerraformInv, TerraformTyped
    <3> QED
      BY <2>2, <2>3, <3>1 DEF TerraformInv, TrackedRows, Declares
  <2> QED
    BY <2>2, <2>3 DEF Matches, Placed, Settled
<1> QED
  BY <1>1, TerraformInductive, PTL
=============================================================================
