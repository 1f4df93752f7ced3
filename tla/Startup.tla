------------------------------ MODULE Startup ------------------------------
(***************************************************************************)
(* Replicas of the server that start on one database: each migrates it,    *)
(* looks whether a user exists, creates the administrator its environment  *)
(* names, and then offers the first-boot setup.  A step is one transaction *)
(* or one statement.  Replicas run different releases, a replica stops at  *)
(* any point and its deployment starts it again, statements fail.  What a  *)
(* migration does is left out: its statements fail where they ran before.  *)
(***************************************************************************)
EXTENDS Integers, FiniteSets, FiniteSetsExt

CONSTANTS Replicas,
          Deployments,   \* settings: [backend, admin]; admin is CLOUDPAM_ADMIN_USERNAME or Unset
          Releases,      \* a release carries the migrations up to its number
          Setups,        \* requests to POST /auth/setup; a request is the name it asks for
          MaxTroubles,   \* crashes and failing statements in a behaviour
          Unset

ASSUME StartupAssumption ==
  /\ Releases \subseteq Nat \ {0}
  /\ \E latest \in Releases : \A r \in Releases : r <= latest

VARIABLES deployed,  \* one of Deployments
          ran,       \* migration -> times its statements were committed
          applied,   \* versions in schema_migrations
          info,      \* schema_info.schema_version, 0 before there is one
          users,     \* name -> how it came to be: [by, beside, blind]
          replica,   \* replica -> [pc, release, seen, made, needsSetup]
          setup,     \* request -> [pc, at, beside, blind]
          troubles

startupVars == <<deployed, ran, applied, info, users, replica, setup, troubles>>

Files(release) == 1..release
Migrations == 1..Max(Releases)

Down == [pc |-> "down", release |-> 0, seen |-> {}, made |-> {}, needsSetup |-> FALSE]
NoSetup == [pc |-> "free", at |-> Unset, beside |-> {}, blind |-> FALSE]
Heard == [NoSetup EXCEPT !.pc = "done"]

At(p, pc) == replica[p].pc = pc
Turns(p, pc) == replica' = [replica EXCEPT ![p].pc = pc]
Exits(p) == replica' = [replica EXCEPT ![p] = Down]

\* A statement may fail while the bound allows it.
Faulty == troubles < MaxTroubles /\ troubles' = troubles + 1
Sound == UNCHANGED troubles

(***************************************************************************)
(* Migrations                                                              *)
(***************************************************************************)
\* The deployment starts the image it names at that time.
Start(p) ==
  /\ At(p, "down")
  /\ \E r \in Releases : replica' = [replica EXCEPT ![p] = [Down EXCEPT !.pc = "read", !.release = r]]
  /\ UNCHANGED <<deployed, ran, applied, info, users, setup, troubles>>

\* The tables exist now; the snapshot is not read again.
ReadApplied(p) ==
  /\ At(p, "read")
  /\ \/ Sound /\ replica' = [replica EXCEPT ![p].pc = "migrate", ![p].seen = applied]
     \/ Faulty /\ Exits(p)
  /\ UNCHANGED <<deployed, ran, applied, info, users, setup>>

Pending(p) == Files(replica[p].release) \ (replica[p].seen \cup replica[p].made)

Skipped(p, v) == replica' = [replica EXCEPT ![p].made = @ \cup {v}]

\* A migration that fails ends the process.
Refused(p, v) == Exits(p)

Statements(v) == ran' = [ran EXCEPT ![v] = @ + 1]

\* The statements of a file and its record are one transaction.
Rollback(v) == UNCHANGED ran

ApplyNext(p) ==
  /\ At(p, "migrate")
  /\ \E v \in Pending(p) :
     /\ \A u \in Pending(p) : v <= u
     /\ \/ /\ Sound
           /\ ran[v] = 0 /\ v \notin applied
           /\ Statements(v) /\ applied' = applied \cup {v}
           /\ replica' = [replica EXCEPT ![p].made = @ \cup {v}]
        \/ /\ ran[v] > 0 \/ v \in applied
           /\ Sound /\ Refused(p, v) /\ UNCHANGED <<ran, applied>>
        \/ /\ ran[v] = 0 /\ v \notin applied
           /\ Faulty /\ Refused(p, v) /\ Rollback(v) /\ UNCHANGED applied
  /\ UNCHANGED <<deployed, info, users, setup>>

MaxOr0(S) == Max(S \cup {0})

\* PostgreSQL counts the files of this release, SQLite what this process applied.
Latest(p) ==
  IF deployed.backend = "postgres" THEN MaxOr0(Files(replica[p].release))
  ELSE IF replica[p].made # {} THEN Max(replica[p].made) ELSE MaxOr0(applied)

\* An error is ignored.
WriteInfo(p) ==
  /\ At(p, "migrate") /\ Pending(p) = {}
  /\ \/ Sound /\ info' = Latest(p)
     \/ Faulty /\ UNCHANGED info
  /\ replica' = [replica EXCEPT ![p].pc = "list", ![p].seen = {}, ![p].made = {}]
  /\ UNCHANGED <<deployed, ran, applied, users, setup>>

(***************************************************************************)
(* The first user                                                          *)
(***************************************************************************)
UsersNow == DOMAIN users

AddUser(name, how) ==
  users' = [u \in UsersNow \cup {name} |-> IF u = name THEN how ELSE users[u]]

Admin == deployed.admin

\* An error counts as an empty table.
ListUsers(p) ==
  /\ At(p, "list")
  /\ \E empty \in BOOLEAN :
       /\ \/ Sound /\ empty = (UsersNow = {})
          \/ Faulty /\ empty
       /\ replica' = [replica EXCEPT ![p].needsSetup = empty,
                                     ![p].pc = IF Admin = Unset THEN "serve" ELSE "lookup"]
  /\ UNCHANGED <<deployed, ran, applied, info, users, setup>>

\* bootstrapAdmin up to the hash; an error counts as no such user.
LookupAdmin(p) ==
  /\ At(p, "lookup")
  /\ \/ Sound /\ Turns(p, IF Admin \in UsersNow THEN "serve" ELSE "create")
     \/ Faulty /\ Turns(p, "create")
  /\ UNCHANGED <<deployed, ran, applied, info, users, setup>>

\* The name is unique; the process serves whether it made the user or not.
CreateAdmin(p) ==
  /\ At(p, "create")
  /\ \/ /\ Sound /\ Admin \notin UsersNow
        /\ AddUser(Admin, [by |-> "bootstrap", beside |-> {}, blind |-> FALSE])
     \/ Admin \in UsersNow /\ Sound /\ UNCHANGED users
     \/ Faulty /\ UNCHANGED users
  /\ Turns(p, "serve")
  /\ UNCHANGED <<deployed, ran, applied, info, setup>>

\* needsSetup alone decides.
OccupiedByFlag == FALSE

Occupied == UsersNow # {}

\* "beside" is history: the users there were at the second check.
CheckSetup(h, p) ==
  /\ setup[h].pc = "free" /\ At(p, "serve") /\ replica[p].needsSetup
  /\ \/ /\ Sound /\ Occupied
        /\ setup' = [setup EXCEPT ![h] = Heard]
        /\ replica' = [replica EXCEPT ![p].needsSetup = FALSE]
     \/ /\ Sound /\ ~ Occupied
        /\ setup' = [setup EXCEPT ![h] = [pc |-> "create", at |-> p, beside |-> UsersNow, blind |-> FALSE]]
        /\ UNCHANGED replica
     \/ /\ Faulty
        /\ setup' = [setup EXCEPT ![h] = [pc |-> "create", at |-> p, beside |-> UsersNow, blind |-> TRUE]]
        /\ UNCHANGED replica
  /\ UNCHANGED <<deployed, ran, applied, info, users>>

\* Between the check and this step the password is hashed.  Names are unique.
CreateFirstUser(h) ==
  /\ setup[h].pc = "create"
  /\ \/ /\ Sound /\ h \notin UsersNow
        /\ AddUser(h, [by |-> "setup", beside |-> setup[h].beside, blind |-> setup[h].blind])
        /\ replica' = [replica EXCEPT ![setup[h].at].needsSetup = FALSE]
     \/ h \in UsersNow /\ Sound /\ UNCHANGED <<users, replica>>
     \/ Faulty /\ UNCHANGED <<users, replica>>
  /\ setup' = [setup EXCEPT ![h] = Heard]
  /\ UNCHANGED <<deployed, ran, applied, info>>

\* A replica stops at any point, and the requests it handles with it.
Stop(p) ==
  /\ ~ At(p, "down") /\ Faulty
  /\ Exits(p)
  /\ setup' = [h \in Setups |->
       IF setup[h].pc = "create" /\ setup[h].at = p THEN Heard ELSE setup[h]]
  /\ UNCHANGED <<deployed, ran, applied, info, users>>

StartupInit ==
  /\ deployed \in Deployments
  /\ ran = [v \in Migrations |-> 0]
  /\ applied = {} /\ info = 0
  /\ users = [u \in {} |-> Unset]
  /\ replica = [p \in Replicas |-> Down]
  /\ setup = [h \in Setups |-> NoSetup]
  /\ troubles = 0

StartupStep(p) ==
  \/ Start(p) \/ ReadApplied(p) \/ ApplyNext(p) \/ WriteInfo(p)
  \/ ListUsers(p) \/ LookupAdmin(p) \/ CreateAdmin(p)

StartupNext ==
  \/ \E p \in Replicas : StartupStep(p) \/ Stop(p)
  \/ \E h \in Setups : CreateFirstUser(h) \/ \E p \in Replicas : CheckSetup(h, p)

StartupSpec == StartupInit /\ [][StartupNext]_startupVars

(***************************************************************************)
(* Properties                                                              *)
(***************************************************************************)
\* Whatever replicas start together, stop and fail (runMigrations): every recorded
\* migration ran exactly once and none ran unrecorded, none is recorded before an
\* earlier one, and a replica that looks for users has all of its own.
MigratedOnce ==
  /\ \A v \in Migrations : ran[v] = IF v \in applied THEN 1 ELSE 0
  /\ \A v \in applied : 1..v \subseteq applied
  /\ \A p \in Replicas :
       replica[p].pc \in {"list", "lookup", "create", "serve"} => Files(replica[p].release) \subseteq applied

\* The first-boot setup adds a user to others (handleSetup) only where its second
\* check came before theirs or could not read the table: however stale needsSetup is
\* in a replica, an installation that has users is closed to it.
SetupByRaceOnly ==
  \A u \in UsersNow : users[u].by = "setup" => users[u].beside = {} \/ users[u].blind

\* Crashes and errors are finitely many: then a replica once started comes to serve,
\* however often it loses a migration to another one, exits and is started again.
StartedServes == \A p \in Replicas : ~ At(p, "down") ~> At(p, "serve")
=============================================================================
