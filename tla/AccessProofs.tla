---------------------------- MODULE AccessProofs ----------------------------
(***************************************************************************)
(* Theorems about who is let in: about Sessions, for every set of users    *)
(* and handlers, every limit and time, and any number of logins and admin  *)
(* requests; about Identity, for every set of browsers, admins, subjects   *)
(* and roles; and about ApiKeys, for every number of handlers, keys,       *)
(* policies and days and every size of the memory log.                     *)
(***************************************************************************)
EXTENDS Sessions, Identity, ApiKeys, SequenceTheorems, FiniteSetTheorems, TLAPS

-----------------------------------------------------------------------------
(***************************************************************************)
(* Sessions                                                                *)
(***************************************************************************)

-----------------------------------------------------------------------------
(* Types. *)

Row == [active : BOOLEAN, failed : Int, locked : Int]

Session == [user : Users, local : BOOLEAN, live : BOOLEAN]

Answer == [active : BOOLEAN, age : Nat]

TaskOps == AdminOps \cup {"login", "oidc", "request", "logout"}

\* Tasks that hold a copy of the user's record, and tasks that do not
WithCopy ==
  [op : TaskOps, pc : {"unlock", "fail", "role", "write", "remember"}, user : Users,
   row : Row, age : Nat, limit : Nat, session : Nat, evict : SUBSET Nat]
  \cup
  [op : {"disable"}, pc : {"sweep"}, user : Users,
   row : Row, age : Nat, limit : Nat, session : Nat, evict : SUBSET Nat]

WithoutCopy ==
  [op : TaskOps, pc : {"create", "list", "evict", "last", "delete"}, user : Users,
   row : {Absent}, age : Nat, limit : Nat, session : Nat, evict : SUBSET Nat]
  \cup
  [op : {"deactivate", "reset"}, pc : {"sweep"}, user : Users,
   row : {Absent}, age : Nat, limit : Nat, session : Nat, evict : SUBSET Nat]

Work == {NoWork} \cup WithCopy \cup WithoutCopy

SessionsTyped ==
  /\ users \in [Users -> Row]
  /\ sessions \in Seq(Session)
  /\ activeCache \in [Users -> Answer \cup {Absent}]
  /\ work \in [Handlers -> Work]
  /\ inactive \in [Users -> Nat]
  /\ maxSessions \in Nat
  /\ trimmedTo \in [Users -> Nat]

LEMMA NoWorkOp == NoWork.op = "none" /\ NoWork \in Work
BY DEF NoWork, Work

\* What is under way, told by op and pc
LEMMA WorkKinds ==
  ASSUME SessionsTyped, NEW h \in Handlers, ~ Free(h)
  PROVE  /\ work[h] \in WithCopy \cup WithoutCopy
         /\ work[h].pc \in {"unlock", "fail", "role", "write", "remember"} => work[h] \in WithCopy
         /\ work[h].pc \in {"create", "list", "evict", "last", "delete"} => work[h] \in WithoutCopy
         /\ work[h].op = "disable" /\ work[h].pc = "sweep" => work[h] \in WithCopy
         /\ work[h].user \in Users /\ work[h].op \in TaskOps
<1>1. work[h] \in WithCopy \cup WithoutCopy
  BY DEF SessionsTyped, Free, Work
<1> QED
  BY <1>1 DEF WithCopy, WithoutCopy, TaskOps, AdminOps

LEMMA TaskIs ==
  ASSUME SessionsTyped, NEW op \in TaskOps, NEW pc, NEW u \in Users
  PROVE  /\ Task(op, pc, u) = [op |-> op, pc |-> pc, user |-> u, row |-> users[u], age |-> 0,
                               limit |-> 0, session |-> 0, evict |-> {}]
         /\ pc \in {"unlock", "fail", "role", "write", "remember"} => Task(op, pc, u) \in WithCopy
         /\ op = "disable" /\ pc = "sweep" => Task(op, pc, u) \in WithCopy
BY DEF Task, WithCopy, SessionsTyped

LEMMA LockoutRow ==
  ASSUME NEW row \in Row, NEW failed \in Int, NEW locked \in Int
  PROVE  [row EXCEPT !.failed = failed, !.locked = locked] \in Row
BY DEF Row

LEMMA UnlockedRow == ASSUME NEW row \in Row PROVE Unlocked(row) \in Row
<1>1. NotLocked \in Int /\ 0 \in Int
  BY DEF NotLocked
<1> QED
  BY <1>1, LockoutRow DEF Unlocked

LEMMA EditedRow ==
  ASSUME NEW row \in Row, NEW op \in AdminOps
  PROVE  Edited(op, row) \in Row
<1>1. \A r \in Row : [r EXCEPT !.active = TRUE] \in Row /\ [r EXCEPT !.active = FALSE] \in Row
  BY DEF Row
<1>2. Unlocked(row) \in Row
  BY UnlockedRow
<1>3. op \in {"enable", "disable", "edit", "deactivate", "unlock", "reset"}
  BY DEF AdminOps
<1>4. CASE op = "edit"
  BY <1>4 DEF Edited
<1>5. CASE op = "enable"
  BY <1>1, <1>5 DEF Edited
<1>6. CASE op \in {"disable", "deactivate"}
  BY <1>1, <1>6 DEF Edited
<1>7. CASE op = "unlock"
  BY <1>2, <1>7 DEF Edited
<1>8. CASE op = "reset"
  BY <1>1, <1>2, <1>8 DEF Edited
<1> QED
  BY <1>3, <1>4, <1>5, <1>6, <1>7, <1>8

LEMMA ThenStep ==
  ASSUME SessionsTyped, NEW h \in Handlers, NEW w, Then(h, w)
  PROVE  /\ w \in Work => work' \in [Handlers -> Work]
         /\ \A k \in Handlers : work'[k] = IF k = h THEN w ELSE work[k]
BY DEF SessionsTyped, Then

LEMMA FinishStep ==
  ASSUME SessionsTyped, NEW h \in Handlers, Finish(h)
  PROVE  Then(h, NoWork)
BY DEF Finish, Then

LEMMA UserWritten ==
  ASSUME SessionsTyped, NEW u \in Users, NEW row \in Row, WriteUser(u, row)
  PROVE  /\ users' \in [Users -> Row] /\ inactive' \in [Users -> Nat]
         /\ users'[u] = row
         /\ \A v \in Users : v # u => users'[v] = users[v] /\ inactive'[v] = inactive[v]
         /\ inactive'[u] \in {0, inactive[u]} /\ (row.active => inactive'[u] = 0)
<1>1. row.active \in BOOLEAN /\ users[u].active \in BOOLEAN
  BY DEF Row, SessionsTyped
<1>2. users' = [users EXCEPT ![u] = row]
  BY DEF WriteUser
<1>3. /\ inactive' \in {[inactive EXCEPT ![u] = 0], inactive}
      /\ row.active => inactive' = [inactive EXCEPT ![u] = 0]
  BY DEF WriteUser
<1> QED
  BY <1>2, <1>3 DEF SessionsTyped

LEMMA Dropped ==
  ASSUME SessionsTyped, NEW S, DropSessions(S)
  PROVE  /\ sessions' \in Seq(Session) /\ Len(sessions') = Len(sessions)
         /\ DOMAIN sessions' = DOMAIN sessions
         /\ \A s \in DOMAIN sessions :
              /\ sessions'[s].user = sessions[s].user
              /\ sessions'[s].local = sessions[s].local
              /\ sessions'[s].live <=> sessions[s].live /\ s \notin S
<1> DEFINE f == [s \in DOMAIN sessions |->
                  IF s \in S THEN [sessions[s] EXCEPT !.live = FALSE] ELSE sessions[s]]
<1>1. DOMAIN sessions = 1 .. Len(sessions) /\ Len(sessions) \in Nat
  BY DEF SessionsTyped
<1>2. \A s \in DOMAIN sessions : sessions[s] \in Session
  BY DEF SessionsTyped
<1>3. \A s \in DOMAIN sessions :
        /\ f[s] \in Session
        /\ f[s].user = sessions[s].user
        /\ f[s].local = sessions[s].local
        /\ f[s].live <=> sessions[s].live /\ s \notin S
  BY <1>2 DEF Session
<1>4. f \in Seq(Session) /\ Len(f) = Len(sessions)
  <2>1. f \in [1 .. Len(sessions) -> Session]
    BY <1>1, <1>3
  <2> HIDE DEF f
  <2> QED
    BY <1>1, <2>1, SeqDef
<1>5. sessions' = f
  BY DEF DropSessions
<1> HIDE DEF f
<1> QED
  BY <1>1, <1>3, <1>4, <1>5

LEMMA SessionMade ==
  ASSUME SessionsTyped, NEW u \in Users, NEW local \in BOOLEAN, CreateSession(u, local)
  PROVE  /\ sessions' \in Seq(Session) /\ Len(sessions') = Len(sessions) + 1
         /\ \A s \in DOMAIN sessions : s \in DOMAIN sessions' /\ sessions'[s] = sessions[s]
         /\ sessions'[Len(sessions) + 1] = [user |-> u, local |-> local, live |-> TRUE]
<1> DEFINE new == [user |-> u, local |-> local, live |-> TRUE]
<1>1. new \in Session
  BY DEF Session
<1>2. sessions' = Append(sessions, new)
  BY DEF CreateSession
<1> HIDE DEF new
<1>3. DOMAIN sessions = 1 .. Len(sessions) /\ Len(sessions) \in Nat
  BY DEF SessionsTyped
<1>4. /\ sessions' \in Seq(Session) /\ Len(sessions') = Len(sessions) + 1
      /\ \A s \in 1 .. Len(sessions) : sessions'[s] = sessions[s]
      /\ sessions'[Len(sessions) + 1] = new
  BY <1>1, <1>2 DEF SessionsTyped
<1>5. DOMAIN sessions' = 1 .. Len(sessions')
  BY <1>4
<1> QED
  BY <1>3, <1>4, <1>5 DEF new

-----------------------------------------------------------------------------
(* What the steps of a handler leave *)

IsLookup(w) == w.op = "request" /\ w.pc = "remember"

IsListing(w) == w.op = "login" /\ w.pc = "list"

IsEvicting(w) == w.op = "login" /\ w.pc = "evict"

IsTrim(w) == IsListing(w) \/ IsEvicting(w)

\* The record of a user was written, or the call failed
Wrote == UNCHANGED <<users, inactive>> \/ \E u \in Users, row \in Row : WriteUser(u, row)

\* h goes on with w, which is neither a lookup of a user nor about to trim
Becomes(h, w) == Then(h, w) /\ w \in Work /\ ~ IsLookup(w) /\ ~ IsTrim(w)

LEMMA FinishBecomes == ASSUME SessionsTyped, NEW h \in Handlers, Finish(h) PROVE Becomes(h, NoWork)
BY FinishStep, NoWorkOp DEF Becomes, IsLookup, IsTrim, IsListing, IsEvicting

\* Between verifying a password and making a session there is no copy
LEMMA VerifiedStep ==
  ASSUME SessionsTyped, NEW h \in Handlers, NEW w \in WithCopy, w.op = "login", Verified(h, w)
  PROVE  \E v : Becomes(h, v)
<1>1. [w EXCEPT !.pc = "create", !.row = Absent] \in WithoutCopy
  BY DEF WithCopy, WithoutCopy
<1>2. [w EXCEPT !.pc = "fail"] \in WithCopy
  BY DEF WithCopy
<1>3. /\ [w EXCEPT !.pc = "create", !.row = Absent].pc = "create"
      /\ [w EXCEPT !.pc = "fail"].pc = "fail"
  BY DEF WithCopy
<1>4. \/ Then(h, [w EXCEPT !.pc = "create", !.row = Absent])
      \/ Then(h, [w EXCEPT !.pc = "fail"])
      \/ Finish(h)
  BY DEF Verified
<1> QED
  BY <1>1, <1>2, <1>3, <1>4, FinishBecomes DEF Becomes, Work, IsLookup, IsTrim, IsListing, IsEvicting

LEMMA LoginStep ==
  ASSUME SessionsTyped, NEW h \in Handlers, Login(h)
  PROVE  \E v : Becomes(h, v)
<1>1. PICK u \in Users, limit \in {maxSessions, DefaultSessions} :
        \/ Verified(h, [Task("login", "unlock", u) EXCEPT !.limit = limit])
        \/ Then(h, [Task("login", "unlock", u) EXCEPT !.limit = limit])
  BY DEF Login
<1> DEFINE t == Task("login", "unlock", u)
           w == [t EXCEPT !.limit = limit]
<1>2. t \in WithCopy /\ t.op = "login" /\ t.pc = "unlock"
  BY TaskIs DEF TaskOps
<1>3. limit \in Nat
  BY SessionsAssumption DEF SessionsTyped
<1> HIDE DEF t
<1>4. w \in WithCopy /\ w.op = "login" /\ w.pc = "unlock"
  BY <1>2, <1>3 DEF WithCopy
<1>5. Verified(h, w) \/ Then(h, w)
  BY <1>1 DEF t
<1> HIDE DEF w
<1> QED
  BY <1>4, <1>5, VerifiedStep DEF Becomes, Work, IsLookup, IsTrim, IsListing, IsEvicting

LEMMA UnlockStep ==
  ASSUME SessionsTyped, NEW h \in Handlers, UnlockAtLogin(h)
  PROVE  (\E v : Becomes(h, v)) /\ Wrote
<1> DEFINE w == [work[h] EXCEPT !.row = Unlocked(@)]
<1>1. work[h] \in WithCopy /\ work[h].op = "login"
  BY WorkKinds DEF UnlockAtLogin, Doing
<1>2. Unlocked(work[h].row) \in Row
  BY <1>1, UnlockedRow DEF WithCopy
<1>3. /\ w \in WithCopy /\ w.op = "login" /\ w.row \in Row /\ w.user \in Users
  BY <1>1, <1>2 DEF WithCopy
<1>4. \/ WriteUser(w.user, w.row) /\ Verified(h, w)
      \/ Finish(h) /\ UNCHANGED <<users, inactive>>
  BY DEF UnlockAtLogin
<1> HIDE DEF w
<1> QED
  BY <1>3, <1>4, VerifiedStep, FinishBecomes DEF Wrote

LEMMA FailStep ==
  ASSUME SessionsTyped, NEW h \in Handlers, recordFailedLogin(h)
  PROVE  (\E v : Becomes(h, v)) /\ Wrote
<1>1. work[h] \in WithCopy
  BY WorkKinds DEF recordFailedLogin, Doing
<1>2. work[h].row \in Row /\ work[h].user \in Users
  BY <1>1 DEF WithCopy
<1> DEFINE n == Failures(work[h].row)
           row == [work[h].row EXCEPT
                     !.failed = n,
                     !.locked = IF AccountLockoutAttempts > 0 /\ n >= AccountLockoutAttempts
                                THEN LockoutCooldown ELSE @]
<1>3. n \in Int
  BY <1>2 DEF Failures, Row
<1>4. (WriteUser(work[h].user, row) \/ UNCHANGED <<users, inactive>>) /\ Finish(h)
  BY DEF recordFailedLogin
<1>5. row \in Row
  <2> HIDE DEF n
  <2> DEFINE l == IF AccountLockoutAttempts > 0 /\ n >= AccountLockoutAttempts
                  THEN LockoutCooldown ELSE work[h].row.locked
  <2>1. l \in Int
    BY <1>2, SessionsAssumption DEF Row
  <2>2. row = [work[h].row EXCEPT !.failed = n, !.locked = l]
    OBVIOUS
  <2> HIDE DEF l
  <2> QED
    BY <1>2, <1>3, <2>1, <2>2, LockoutRow
<1> HIDE DEF row
<1> QED
  BY <1>2, <1>4, <1>5, FinishBecomes DEF Wrote

LEMMA FinishLoginStep ==
  ASSUME SessionsTyped, NEW h \in Handlers, FinishLogin(h)
  PROVE  (\E v : Becomes(h, v)) /\ Wrote
<1>1. work[h].user \in Users
  BY WorkKinds, NoWorkOp DEF FinishLogin, Free
<1>2. Unlocked(users[work[h].user]) \in Row
  BY <1>1, UnlockedRow DEF SessionsTyped
<1> QED
  BY <1>1, <1>2, FinishBecomes DEF FinishLogin, Wrote

LEMMA SyncRoleStep ==
  ASSUME SessionsTyped, NEW h \in Handlers, SyncRole(h)
  PROVE  (\E v : Becomes(h, v)) /\ Wrote
<1>1. work[h] \in WithCopy
  BY WorkKinds DEF SyncRole, Doing
<1>2. work[h].row \in Row /\ work[h].user \in Users
  BY <1>1 DEF WithCopy
<1> DEFINE v == [work[h] EXCEPT !.pc = "create", !.row = Absent]
<1>3. v \in WithoutCopy /\ v.pc = "create"
  BY <1>1 DEF WithCopy, WithoutCopy, TaskOps, AdminOps
<1>4. (WriteUser(work[h].user, work[h].row) \/ UNCHANGED <<users, inactive>>) /\ Then(h, v)
  BY DEF SyncRole
<1> HIDE DEF v
<1> QED
  BY <1>2, <1>3, <1>4 DEF Becomes, Work, IsLookup, IsTrim, IsListing, IsEvicting, Wrote

LEMMA AdminWriteStep ==
  ASSUME SessionsTyped, NEW h \in Handlers, WriteAsAdmin(h)
  PROVE  (\E v : Becomes(h, v)) /\ Wrote
<1>0. ~ Free(h)
  BY NoWorkOp DEF WriteAsAdmin, Free, AdminOps
<1>1. work[h] \in WithCopy /\ work[h].op \in AdminOps
  BY <1>0, WorkKinds DEF WriteAsAdmin
<1>2. work[h].row \in Row /\ work[h].user \in Users
  BY <1>1 DEF WithCopy
<1>3. Edited(work[h].op, work[h].row) \in Row
  BY <1>1, <1>2, EditedRow
<1> DEFINE v == [work[h] EXCEPT !.pc = "sweep", !.row = Absent]
<1>4. v.pc = "sweep"
  BY <1>1 DEF WithCopy
<1>5. work[h].op \in {"deactivate", "reset"} => v \in WithoutCopy
  BY <1>1 DEF WithCopy, WithoutCopy
<1>6. /\ \/ WriteUser(work[h].user, Edited(work[h].op, work[h].row))
         \/ UNCHANGED <<users, inactive>>
      /\ \/ work[h].op \in {"deactivate", "reset"} /\ Then(h, v)
         \/ Finish(h)
  BY DEF WriteAsAdmin
<1> HIDE DEF v
<1>7. \E x : Becomes(h, x)
  BY <1>4, <1>5, <1>6, FinishBecomes DEF Becomes, Work, IsLookup, IsTrim, IsListing, IsEvicting
<1> QED
  BY <1>2, <1>3, <1>6, <1>7 DEF Wrote

LEMMA OidcStep ==
  ASSUME SessionsTyped, NEW h \in Handlers, OidcCallback(h)
  PROVE  \E v : Becomes(h, v)
<1>1. PICK u \in Users :
        \/ Then(h, Task("oidc", "role", u))
        \/ Then(h, [Task("oidc", "create", u) EXCEPT !.row = Absent])
  BY DEF OidcCallback
<1>2. /\ Task("oidc", "role", u) \in WithCopy
      /\ Task("oidc", "role", u).pc = "role"
  <2>1. "oidc" \in TaskOps
    BY DEF TaskOps
  <2>2. Task("oidc", "role", u).pc = "role"
    BY DEF Task
  <2> QED
    BY <2>1, <2>2, TaskIs
<1>3. [Task("oidc", "create", u) EXCEPT !.row = Absent] =
        [op |-> "oidc", pc |-> "create", user |-> u, row |-> Absent, age |-> 0,
         limit |-> 0, session |-> 0, evict |-> {}]
  BY DEF Task
<1>4. [Task("oidc", "create", u) EXCEPT !.row = Absent] \in WithoutCopy
  BY <1>3 DEF WithoutCopy, TaskOps
<1> QED
  BY <1>1, <1>2, <1>3, <1>4 DEF Becomes, Work, IsLookup, IsTrim, IsListing, IsEvicting

LEMMA AdminRequestStep ==
  ASSUME SessionsTyped, NEW h \in Handlers, AdminRequest(h)
  PROVE  \E v : Becomes(h, v)
<1>1. PICK op \in AdminOps, u \in Users :
        Then(h, Task(op, IF op = "disable" THEN "sweep" ELSE "write", u))
  BY DEF AdminRequest
<1> DEFINE w == Task(op, IF op = "disable" THEN "sweep" ELSE "write", u)
<1>2. w \in WithCopy /\ w.pc \in {"sweep", "write"}
  BY TaskIs DEF TaskOps
<1> HIDE DEF w
<1> QED
  BY <1>1, <1>2 DEF Becomes, Work, IsLookup, IsTrim, IsListing, IsEvicting, w

LEMMA SweepStep ==
  ASSUME SessionsTyped, NEW h \in Handlers, SweepBefore(h)
  PROVE  \E v : Becomes(h, v)
<1>1. work[h] \in WithCopy
  BY WorkKinds DEF SweepBefore, Doing
<1>2. [work[h] EXCEPT !.pc = "write"] \in WithCopy /\ [work[h] EXCEPT !.pc = "write"].pc = "write"
  BY <1>1 DEF WithCopy, TaskOps, AdminOps
<1> QED
  BY <1>2 DEF Becomes, Work, IsLookup, IsTrim, IsListing, IsEvicting, SweepBefore

LEMMA CreateOidcStep ==
  ASSUME SessionsTyped, NEW h \in Handlers, CreateAtOidc(h)
  PROVE  \E v : Becomes(h, v)
<1>1. work[h] \in WithoutCopy
  BY WorkKinds DEF CreateAtOidc, Doing
<1>2. [work[h] EXCEPT !.pc = "last"] \in WithoutCopy /\ [work[h] EXCEPT !.pc = "last"].pc = "last"
  BY <1>1 DEF WithoutCopy, TaskOps, AdminOps
<1>3. Finish(h) \/ Then(h, [work[h] EXCEPT !.pc = "last"])
  BY DEF CreateAtOidc
<1> QED
  BY <1>2, <1>3, FinishBecomes DEF Becomes, Work, IsLookup, IsTrim, IsListing, IsEvicting

LEMMA UserOf ==
  ASSUME SessionsTyped, NEW s \in DOMAIN sessions
  PROVE  s \in Nat /\ sessions[s].user \in Users
<1>1. DOMAIN sessions = 1 .. Len(sessions) /\ Len(sessions) \in Nat
  BY DEF SessionsTyped
<1>2. sessions[s] \in Session
  BY <1>1 DEF SessionsTyped
<1> QED
  BY <1>1, <1>2 DEF Session

LEMMA LetInStep ==
  ASSUME SessionsTyped, NEW h \in Handlers, NEW s \in Nat, sessions[s].user \in Users, LetIn(h, s)
  PROVE  \E v : Becomes(h, v)
<1> DEFINE t == Task("logout", "delete", sessions[s].user)
           w == [t EXCEPT !.session = s, !.row = Absent]
<1>1. t \in [op : {"logout"}, pc : {"delete"}, user : Users, row : Row, age : Nat,
             limit : Nat, session : Nat, evict : SUBSET Nat]
  BY DEF Task, SessionsTyped
<1> HIDE DEF t
<1>2. w \in WithoutCopy /\ w.pc = "delete"
  BY <1>1 DEF WithoutCopy, TaskOps
<1> HIDE DEF w
<1> QED
  BY <1>2, FinishBecomes DEF Becomes, Work, IsLookup, IsTrim, IsListing, IsEvicting, LetIn, t, w

-----------------------------------------------------------------------------
(* The inductive invariant *)

\* A remembered answer that says "active" is off by the time it was on its way
SoundAnswer(u) ==
  /\ users[u].active => inactive[u] = 0
  /\ inactive[u] <= ActiveTTL + MaxLag + 1
  /\ activeCache[u] # Absent /\ activeCache[u].active =>
       inactive[u] <= activeCache[u].age + MaxLag

SoundLookup(h) ==
  IsLookup(work[h]) =>
    /\ work[h].session \in DOMAIN sessions
    /\ work[h].age <= MaxLag
    /\ work[h].row.active => inactive[work[h].user] <= work[h].age

Local(u) == {s \in ValidOf(u) : sessions[s].local}

\* What the next listing of u has to bring down, less what logins have made and
\* not listed
Seen(u) ==
  {s \in Local(u) \ spared :
     \A h \in Handlers : IsListing(work[h]) /\ work[h].user = u => s # work[h].session}

\* What a login of u is still to evict, or nothing
Evictions(u) ==
  {{}} \cup {work[h].evict : h \in {k \in Handlers : IsEvicting(work[k]) /\ work[k].user = u}}

\* The login that listed last leaves at most the limit it took: whoever made a
\* session after that has not listed yet
SoundTrim(u) == \E T \in Evictions(u) : Cardinality(Seen(u) \ T) <= trimmedTo[u]

SessionsInv ==
  /\ SessionsTyped
  /\ \A u \in Users : SoundAnswer(u) /\ SoundTrim(u)
  /\ \A h \in Handlers : SoundLookup(h)

\* Without a tick, the time a user is disabled for is kept or starts anew
Calm ==
  \A u \in Users : /\ inactive'[u] \in {0, inactive[u]}
                   /\ users'[u].active => inactive'[u] = 0

Shrinks == \A u \in Users : Local(u)' \subseteq Local(u)

LEMMA StaysCalm ==
  ASSUME SessionsInv,
         Wrote
  PROVE  Calm /\ users' \in [Users -> Row] /\ inactive' \in [Users -> Nat]
<1>1. CASE UNCHANGED <<users, inactive>>
  BY <1>1 DEF Calm, SessionsInv, SessionsTyped, SoundAnswer
<1>2. ASSUME NEW u \in Users, NEW row \in Row, WriteUser(u, row)
      PROVE  Calm /\ users' \in [Users -> Row] /\ inactive' \in [Users -> Nat]
  BY <1>2, UserWritten DEF SessionsInv, SoundAnswer, Calm
<1> QED
  BY <1>1, <1>2 DEF Wrote

LEMMA AnswersKept ==
  ASSUME SessionsInv, Calm, inactive' \in [Users -> Nat], UNCHANGED activeCache
  PROVE  \A u \in Users : SoundAnswer(u)'
<1> SUFFICES ASSUME NEW u \in Users PROVE SoundAnswer(u)'
  OBVIOUS
<1>1. inactive'[u] \in {0, inactive[u]} /\ inactive[u] \in Nat /\ (users'[u].active => inactive'[u] = 0)
  BY DEF Calm, SessionsInv, SessionsTyped
<1>2. activeCache[u] # Absent => activeCache[u].age \in Nat
  BY DEF SessionsInv, SessionsTyped, Answer
<1> QED
  BY <1>1, <1>2, SessionsAssumption DEF SessionsInv, SoundAnswer

LEMMA LookupsKept ==
  ASSUME SessionsInv, Calm, DOMAIN sessions \subseteq DOMAIN sessions',
         \A h \in Handlers : IsLookup(work'[h]) => work'[h] = work[h]
  PROVE  \A h \in Handlers : SoundLookup(h)'
<1> SUFFICES ASSUME NEW h \in Handlers, IsLookup(work'[h]) PROVE SoundLookup(h)'
  BY DEF SoundLookup
<1>1. work'[h] = work[h] /\ IsLookup(work[h])
  OBVIOUS
<1>2. work[h] \in WithCopy
  BY <1>1, NoWorkOp, WorkKinds DEF IsLookup, Free, SessionsInv
<1>3. work[h].user \in Users /\ work[h].age \in Nat
  BY <1>2 DEF WithCopy
<1>4. inactive'[work[h].user] \in {0, inactive[work[h].user]}
  BY <1>3 DEF Calm
<1> QED
  BY <1>1, <1>3, <1>4 DEF SoundLookup, SessionsInv

LEMMA LocalFinite ==
  ASSUME SessionsTyped, NEW u
  PROVE  /\ IsFiniteSet(ValidOf(u)) /\ ValidOf(u) \subseteq 1 .. Len(sessions)
         /\ IsFiniteSet(Local(u)) /\ Local(u) \subseteq ValidOf(u)
<1>1. DOMAIN sessions = 1 .. Len(sessions) /\ Len(sessions) \in Nat
  BY DEF SessionsTyped
<1>2. IsFiniteSet(1 .. Len(sessions))
  BY <1>1, FS_Interval
<1>3. ValidOf(u) \subseteq 1 .. Len(sessions) /\ Local(u) \subseteq ValidOf(u)
  BY <1>1 DEF ValidOf, Local
<1>4. IsFiniteSet(ValidOf(u))
  BY <1>2, <1>3, FS_Subset
<1>5. IsFiniteSet(Local(u))
  BY <1>3, <1>4, FS_Subset
<1> QED
  BY <1>3, <1>4, <1>5

\* Fewer sessions are within a limit if more are
LEMMA FewerSound ==
  ASSUME SessionsTyped, NEW u \in Users, NEW S, NEW T \in SUBSET S, S \subseteq Local(u),
         NEW n \in Nat, Cardinality(S) <= n
  PROVE  Cardinality(T) <= n
<1>1. IsFiniteSet(S)
  BY LocalFinite, FS_Subset
<1>2. IsFiniteSet(T) /\ Cardinality(T) <= Cardinality(S)
  BY <1>1, FS_Subset
<1>3. Cardinality(S) \in Nat /\ Cardinality(T) \in Nat
  BY <1>1, <1>2, FS_CardinalityType
<1> QED
  BY <1>2, <1>3

\* A step after which less is left of what was seen, or was evicted
LEMMA TrimsFollow ==
  ASSUME SessionsTyped, NEW u \in Users, SoundTrim(u), trimmedTo'[u] = trimmedTo[u],
         \A T \in Evictions(u) : \E R \in Evictions(u)' : Seen(u)' \ R \subseteq Seen(u) \ T
  PROVE  SoundTrim(u)'
<1>1. PICK T \in Evictions(u) : Cardinality(Seen(u) \ T) <= trimmedTo[u]
  BY DEF SoundTrim
<1>2. PICK R \in Evictions(u)' : Seen(u)' \ R \subseteq Seen(u) \ T
  OBVIOUS
<1>3. Seen(u) \ T \subseteq Local(u)
  BY DEF Seen
<1>4. trimmedTo[u] \in Nat
  BY DEF SessionsTyped
<1>5. Cardinality(Seen(u)' \ R) <= trimmedTo[u]
  BY <1>1, <1>2, <1>3, <1>4, FewerSound
<1> QED
  BY <1>2, <1>5 DEF SoundTrim

LEMMA EvictionsKept ==
  ASSUME NEW u,
         \A h \in Handlers : IsEvicting(work[h]) /\ work[h].user = u =>
           IsEvicting(work'[h]) /\ work'[h].user = u /\ work'[h].evict = work[h].evict
  PROVE  Evictions(u) \subseteq Evictions(u)'
<1> SUFFICES ASSUME NEW T \in Evictions(u) PROVE T \in Evictions(u)'
  OBVIOUS
<1>1. CASE T = {}
  BY <1>1 DEF Evictions
<1>2. ASSUME NEW h \in Handlers, IsEvicting(work[h]), work[h].user = u, T = work[h].evict
      PROVE  T \in Evictions(u)'
  <2>1. IsEvicting(work'[h]) /\ work'[h].user = u /\ T = work'[h].evict
    BY <1>2
  <2> QED
    BY <2>1 DEF Evictions
<1> QED
  BY <1>1, <1>2 DEF Evictions

\* A step that no login of u takes while it trims
LEMMA TrimsKept ==
  ASSUME SessionsInv, NEW u \in Users, (Local(u) \ spared)' \subseteq Local(u) \ spared,
         trimmedTo'[u] = trimmedTo[u],
         \A h \in Handlers : IsTrim(work[h]) /\ work[h].user = u => work'[h] = work[h]
  PROVE  SoundTrim(u)'
<1>1. ASSUME NEW h \in Handlers, work[h].user = u, IsListing(work[h]) \/ IsEvicting(work[h])
      PROVE  work'[h] = work[h]
  BY <1>1 DEF IsTrim
<1>2. ASSUME NEW s \in Seen(u)' PROVE s \in Seen(u)
  <2>1. s \in Local(u) \ spared
    BY <1>2 DEF Seen
  <2>2. ASSUME NEW h \in Handlers, IsListing(work[h]), work[h].user = u PROVE s # work[h].session
    <3>1. work'[h] = work[h]
      BY <1>1, <2>2
    <3> QED
      BY <1>2, <2>2, <3>1 DEF Seen, IsListing
  <2> QED
    BY <2>1, <2>2 DEF Seen
<1>3. Evictions(u) \subseteq Evictions(u)'
  BY <1>1, EvictionsKept DEF IsEvicting
<1> QED
  BY <1>2, <1>3, TrimsFollow DEF SessionsInv

LEMMA DropsShrink ==
  ASSUME SessionsTyped, NEW S, DropSessions(S), NEW u
  PROVE  Local(u)' = Local(u) \ S
BY Dropped DEF Local, ValidOf, Valid

LEMMA MadeShrinks ==
  ASSUME SessionsTyped, NEW u \in Users, NEW local \in BOOLEAN, CreateSession(u, local),
         NEW v \in Users
  PROVE  /\ Local(v)' \subseteq Local(v) \cup {Len(sessions) + 1}
         /\ ~ local \/ u # v => Local(v)' \subseteq Local(v)
<1>1. DOMAIN sessions = 1 .. Len(sessions) /\ Len(sessions) \in Nat
  BY DEF SessionsTyped
<1>2. sessions' \in Seq(Session) /\ Len(sessions') = Len(sessions) + 1
  BY SessionMade
<1>3. DOMAIN sessions' = 1 .. Len(sessions) + 1
  BY <1>2
<1>4. \A s \in DOMAIN sessions' : s \in DOMAIN sessions \/ s = Len(sessions) + 1
  BY <1>1, <1>3
<1> DEFINE new == sessions'[Len(sessions) + 1]
<1>5. new = [user |-> u, local |-> local, live |-> TRUE]
  BY SessionMade
<1> HIDE DEF new
<1>6. new.user = u /\ (new.local => local)
  BY <1>5, Zenon
<1> QED
  BY <1>4, <1>6, SessionMade DEF Local, ValidOf, Valid, new

-----------------------------------------------------------------------------
(* Steps. *)

\* Everything but lookups, trims and ticks
LEMMA OrdinaryStep ==
  ASSUME SessionsInv,
         \/ UNCHANGED work
         \/ \E h \in Handlers : ~ (~ Free(h) /\ IsTrim(work[h])) /\ \E w : Becomes(h, w),
         Wrote,
         \/ UNCHANGED sessions
         \/ \E S : DropSessions(S)
         \/ \E u \in Users : CreateSession(u, FALSE),
         UNCHANGED <<activeCache, trimmedTo, spared>>,
         UNCHANGED maxSessions \/ maxSessions' \in SessionLimits
  PROVE  SessionsInv'
<1>1. Calm /\ users' \in [Users -> Row] /\ inactive' \in [Users -> Nat]
  BY StaysCalm
<1>2. /\ sessions' \in Seq(Session) /\ DOMAIN sessions \subseteq DOMAIN sessions'
      /\ \A u \in Users : Local(u)' \subseteq Local(u)
  <2>1. CASE UNCHANGED sessions
    BY <2>1 DEF SessionsInv, SessionsTyped, Local, ValidOf, Valid
  <2>2. ASSUME NEW S, DropSessions(S)
        PROVE  /\ sessions' \in Seq(Session) /\ DOMAIN sessions \subseteq DOMAIN sessions'
               /\ \A u \in Users : Local(u)' \subseteq Local(u)
    BY <2>2, Dropped, DropsShrink DEF SessionsInv
  <2>3. ASSUME NEW u \in Users, CreateSession(u, FALSE)
        PROVE  /\ sessions' \in Seq(Session) /\ DOMAIN sessions \subseteq DOMAIN sessions'
               /\ \A v \in Users : Local(v)' \subseteq Local(v)
    <3>1. FALSE \in BOOLEAN /\ SessionsTyped
      BY DEF SessionsInv
    <3>2. sessions' \in Seq(Session) /\ DOMAIN sessions \subseteq DOMAIN sessions'
      BY <2>3, <3>1, SessionMade
    <3>3. \A v \in Users : Local(v)' \subseteq Local(v)
      BY <2>3, <3>1, MadeShrinks
    <3> QED
      BY <3>2, <3>3
  <2> QED
    BY <2>1, <2>2, <2>3
<1>3. /\ work' \in [Handlers -> Work]
      /\ \A h \in Handlers : IsLookup(work'[h]) => work'[h] = work[h]
      /\ \A h \in Handlers : IsTrim(work[h]) => work'[h] = work[h]
  <2>1. CASE UNCHANGED work
    BY <2>1 DEF SessionsInv, SessionsTyped
  <2>2. ASSUME NEW h \in Handlers, ~ (~ Free(h) /\ IsTrim(work[h])), NEW w, Becomes(h, w)
        PROVE  /\ work' \in [Handlers -> Work]
               /\ \A k \in Handlers : IsLookup(work'[k]) => work'[k] = work[k]
               /\ \A k \in Handlers : IsTrim(work[k]) => work'[k] = work[k]
    <3>1. ~ IsTrim(work[h])
      BY <2>2, NoWorkOp DEF Free, IsTrim, IsListing, IsEvicting
    <3> QED
      BY <2>2, <3>1, ThenStep DEF Becomes, SessionsInv
  <2> QED
    BY <2>1, <2>2
<1>4. SessionsTyped'
  BY <1>1, <1>2, <1>3, SessionsAssumption DEF SessionsTyped, SessionsInv
<1>5. \A u \in Users : (Local(u) \ spared)' \subseteq Local(u) \ spared
  BY <1>2
<1> QED
  BY <1>1, <1>3, <1>2, <1>4, <1>5, AnswersKept, LookupsKept, TrimsKept DEF SessionsInv

LEMMA PlainSteps ==
  ASSUME SessionsInv, NEW h \in Handlers,
         \/ Login(h) \/ UnlockAtLogin(h) \/ recordFailedLogin(h) \/ FinishLogin(h)
         \/ OidcCallback(h) \/ SyncRole(h) \/ CreateAtOidc(h) \/ AdminRequest(h)
         \/ SweepBefore(h) \/ WriteAsAdmin(h) \/ SweepAfter(h) \/ Logout(h)
  PROVE  SessionsInv'
<1> USE DEF SessionsInv, trimVars
<1>1. CASE Login(h)
  BY <1>1, LoginStep, OrdinaryStep DEF Wrote, Login
<1>2. CASE UnlockAtLogin(h)
  BY <1>2, UnlockStep, OrdinaryStep DEF UnlockAtLogin, Doing, IsTrim, IsListing, IsEvicting
<1>3. CASE recordFailedLogin(h)
  BY <1>3, FailStep, OrdinaryStep DEF recordFailedLogin, Doing, IsTrim, IsListing, IsEvicting
<1>4. CASE FinishLogin(h)
  BY <1>4, FinishLoginStep, OrdinaryStep DEF FinishLogin, IsTrim, IsListing, IsEvicting
<1>5. CASE OidcCallback(h)
  BY <1>5, OidcStep, OrdinaryStep DEF Wrote, OidcCallback
<1>6. CASE SyncRole(h)
  BY <1>6, SyncRoleStep, OrdinaryStep DEF SyncRole, Doing, IsTrim, IsListing, IsEvicting
<1>7. CASE CreateAtOidc(h)
  <2>1. work[h].user \in Users
    BY <1>7, WorkKinds DEF CreateAtOidc, Doing
  <2> QED
    BY <1>7, <2>1, CreateOidcStep, OrdinaryStep DEF Wrote, CreateAtOidc, Doing, IsTrim, IsListing, IsEvicting
<1>8. CASE AdminRequest(h)
  BY <1>8, AdminRequestStep, OrdinaryStep DEF Wrote, AdminRequest
<1>9. CASE SweepBefore(h)
  BY <1>9, SweepStep, OrdinaryStep DEF Wrote, SweepBefore, Doing, IsTrim, IsListing, IsEvicting, DeleteByUserID
<1>10. CASE WriteAsAdmin(h)
  BY <1>10, AdminWriteStep, OrdinaryStep DEF WriteAsAdmin, IsTrim, IsListing, IsEvicting, AdminOps
<1>11. CASE SweepAfter(h)
  BY <1>11, FinishBecomes, OrdinaryStep DEF Wrote, SweepAfter, IsTrim, IsListing, IsEvicting, DeleteByUserID
<1>12. CASE Logout(h)
  BY <1>12, FinishBecomes, OrdinaryStep DEF Wrote, Logout, Doing, IsTrim, IsListing, IsEvicting
<1> QED
  BY <1>1, <1>2, <1>3, <1>4, <1>5, <1>6, <1>7, <1>8, <1>9, <1>10, <1>11, <1>12

LEMMA SessionsGo ==
  ASSUME SessionsInv,
         \/ \E h \in Handlers : RevokeSessions(h)
         \/ \E s \in DOMAIN sessions : Expire(s)
         \/ \E n \in SessionLimits : SetSessionLimit(n)
  PROVE  SessionsInv'
BY OrdinaryStep DEF RevokeSessions, DeleteByUserID, Expire, SetSessionLimit, Wrote, trimVars

\* An answer on its way starts with the record as it is
LEMMA LookupStep ==
  ASSUME SessionsInv, NEW h \in Handlers, Authenticate(h)
  PROVE  SessionsInv'
<1>1. PICK s \in DOMAIN sessions :
        \/ LetIn(h, s)
        \/ Then(h, [Task("request", "remember", sessions[s].user) EXCEPT !.session = s])
  BY DEF Authenticate
<1>2. Free(h) /\ UNCHANGED <<users, sessions, activeCache, inactive, maxSessions, trimmedTo, spared>>
  BY DEF Authenticate, trimVars
<1>3. s \in Nat /\ sessions[s].user \in Users
  BY UserOf DEF SessionsInv
<1>4. CASE LetIn(h, s)
  BY <1>2, <1>3, <1>4, LetInStep, OrdinaryStep DEF SessionsInv, Wrote
<1> DEFINE u == sessions[s].user
           t == Task("request", "remember", u)
           w == [t EXCEPT !.session = s]
<1>5. CASE Then(h, w)
  <2>1. /\ t \in WithCopy /\ t.user = u /\ t.row = users[u] /\ t.age = 0
        /\ t.op = "request" /\ t.pc = "remember"
    BY <1>3, TaskIs DEF Task, SessionsInv, TaskOps
  <2> HIDE DEF t
  <2>2. /\ w \in WithCopy /\ w.user = u /\ w.row = users[u] /\ w.age = 0 /\ w.session = s
        /\ w.op = "request" /\ w.pc = "remember"
    BY <1>3, <2>1 DEF WithCopy
  <2> HIDE DEF w
  <2>3. work' \in [Handlers -> Work] /\ \A k \in Handlers : work'[k] = IF k = h THEN w ELSE work[k]
    BY <1>5, <2>2, ThenStep DEF SessionsInv, Work
  <2>4. SessionsTyped'
    BY <1>2, <2>3 DEF SessionsInv, SessionsTyped
  <2>5. Calm
    BY <1>2, StaysCalm DEF Wrote
  <2>6. \A v \in Users : SoundAnswer(v)'
    BY <1>2, <2>5, AnswersKept DEF SessionsInv, SessionsTyped
  <2>7. \A v \in Users : SoundTrim(v)'
    <3>1. ~ IsTrim(work[h])
      BY <1>2, NoWorkOp DEF Free, IsTrim, IsListing, IsEvicting
    <3>2. \A v \in Users : (Local(v) \ spared)' \subseteq Local(v) \ spared
      BY <1>2 DEF Local, ValidOf, Valid
    <3> QED
      BY <1>2, <2>3, <3>1, <3>2, TrimsKept
  <2>8. \A k \in Handlers : SoundLookup(k)'
    <3>1. SoundLookup(h)'
      <4>1. users[u].active => inactive[u] = 0
        BY <1>3 DEF SessionsInv, SoundAnswer
      <4> QED
        BY <1>2, <2>2, <2>3, <4>1, SessionsAssumption DEF SoundLookup
    <3>2. ASSUME NEW k \in Handlers, k # h PROVE SoundLookup(k)'
      BY <1>2, <2>3, <3>2 DEF SoundLookup, SessionsInv
    <3> QED
      BY <3>1, <3>2
  <2> QED
    BY <2>4, <2>6, <2>7, <2>8 DEF SessionsInv
<1> QED
  BY <1>1, <1>4, <1>5

LEMMA RememberStep ==
  ASSUME SessionsInv, NEW h \in Handlers, RememberActive(h)
  PROVE  SessionsInv'
<1>1. work[h] \in WithCopy /\ IsLookup(work[h]) /\ ~ IsTrim(work[h])
  BY WorkKinds DEF RememberActive, Doing, SessionsInv, IsLookup, IsTrim, IsListing, IsEvicting
<1> DEFINE u == work[h].user
           answer == [active |-> work[h].row.active, age |-> 0]
<1>2. u \in Users /\ work[h].row \in Row /\ work[h].age \in Nat /\ work[h].session \in Nat
  BY <1>1 DEF WithCopy
<1>3. UNCHANGED <<users, sessions, inactive, maxSessions, trimmedTo, spared>>
  BY DEF RememberActive, trimVars
<1>4. /\ activeCache' \in [Users -> Answer \cup {Absent}]
      /\ \A v \in Users : activeCache'[v] = IF v = u THEN answer ELSE activeCache[v]
  <2>1. answer \in Answer
    BY <1>2 DEF Answer, Row
  <2> HIDE DEF answer
  <2>2. activeCache' = [activeCache EXCEPT ![u] = answer]
    BY DEF RememberActive, answer
  <2> QED
    BY <2>1, <2>2 DEF SessionsInv, SessionsTyped
<1>5. PICK w : Becomes(h, w)
  <2>1. LetIn(h, work[h].session) \/ Finish(h)
    BY DEF RememberActive
  <2>2. work[h].session \in DOMAIN sessions
    BY <1>1 DEF SessionsInv, SoundLookup
  <2> QED
    BY <1>2, <2>1, <2>2, UserOf, LetInStep, FinishBecomes DEF SessionsInv
<1>6. work' \in [Handlers -> Work] /\ \A k \in Handlers : work'[k] = IF k = h THEN w ELSE work[k]
  BY <1>5, ThenStep DEF SessionsInv, Becomes
<1>7. SessionsTyped'
  BY <1>3, <1>4, <1>6 DEF SessionsInv, SessionsTyped
<1>8. Calm
  BY <1>3, StaysCalm DEF Wrote
<1>9. \A v \in Users : SoundAnswer(v)'
  <2> SUFFICES ASSUME NEW v \in Users PROVE SoundAnswer(v)'
    OBVIOUS
  <2>1. CASE v # u
    <3>1. activeCache'[v] = activeCache[v]
      BY <1>4, <2>1
    <3> QED
      BY <1>3, <3>1 DEF SoundAnswer, SessionsInv
  <2>2. CASE v = u
    <3>1. activeCache'[u].active = work[h].row.active /\ activeCache'[u].age = 0
      BY <1>2, <1>4
    <3>2. /\ work[h].age <= MaxLag
          /\ work[h].row.active => inactive[u] <= work[h].age
      BY <1>1 DEF SessionsInv, SoundLookup
    <3>3. inactive[u] \in Nat
      BY <1>2 DEF SessionsInv, SessionsTyped
    <3> QED
      BY <1>2, <1>3, <2>2, <3>1, <3>2, <3>3, SessionsAssumption DEF SoundAnswer, SessionsInv
  <2> QED
    BY <2>1, <2>2
<1>10. \A k \in Handlers : SoundLookup(k)'
  BY <1>3, <1>5, <1>6, <1>8, LookupsKept DEF Becomes
<1>11. \A v \in Users : SoundTrim(v)'
  <2>1. \A v \in Users : (Local(v) \ spared)' \subseteq Local(v) \ spared
    BY <1>3 DEF Local, ValidOf, Valid
  <2> QED
    BY <1>1, <1>3, <1>6, <2>1, TrimsKept
<1> QED
  BY <1>7, <1>9, <1>10, <1>11 DEF SessionsInv

\* Of what a listing shows, at most the limit is not in excess: each session
\* kept has another number of younger ones
LEMMA ExcessLeaves ==
  ASSUME NEW n \in Nat, NEW S \in SUBSET (1 .. n), NEW limit \in Nat
  PROVE  Cardinality(S \ Excess(S, limit)) <= limit
<1> DEFINE Younger(s) == {t \in S : t > s}
           kept == S \ Excess(S, limit)
           f == [s \in kept |-> Cardinality(Younger(s))]
<1>1. IsFiniteSet(S)
  <2>1. 1 \in Int /\ n \in Int
    OBVIOUS
  <2>2. IsFiniteSet(1 .. n)
    BY <2>1, FS_Interval
  <2> QED
    BY <2>2, FS_Subset
<1>2. \A s \in S : IsFiniteSet(Younger(s)) /\ Cardinality(Younger(s)) \in Nat
  BY <1>1, FS_Subset, FS_CardinalityType
<1>3. \A s \in kept : f[s] \in 0 .. limit - 1
  BY <1>2 DEF Excess
<1>4. ASSUME NEW s \in kept, NEW t \in kept, s < t PROVE f[t] < f[s]
  <2>0. S \subseteq Int /\ s \in S /\ t \in S /\ s \in Int /\ t \in Int
    OBVIOUS
  <2>1. Younger(t) \in SUBSET Younger(s) /\ t \in Younger(s) /\ t \notin Younger(t)
    <3> HIDE DEF kept, f
    <3>1. ASSUME NEW x \in S, x > t PROVE x > s
      BY <1>4, <2>0, <3>1
    <3>2. t > s /\ ~ t > t
      BY <1>4, <2>0
    <3> QED
      BY <2>0, <3>1, <3>2
  <2>2. /\ Cardinality(Younger(t)) <= Cardinality(Younger(s))
        /\ Cardinality(Younger(s)) = Cardinality(Younger(t)) => Younger(s) = Younger(t)
    BY <1>2, <2>1, FS_Subset
  <2> QED
    BY <1>2, <2>1, <2>2
<1>5. f \in [kept -> 0 .. limit - 1]
  BY <1>3
<1>6. \A s, t \in kept : f[s] = f[t] => s = t
  <2> SUFFICES ASSUME NEW s \in kept, NEW t \in kept, s # t PROVE f[s] # f[t]
    OBVIOUS
  <2>1. s < t \/ t < s
    OBVIOUS
  <2>2. f[s] \in Int /\ f[t] \in Int
    BY <1>3
  <2> HIDE DEF f
  <2> QED
    BY <1>4, <2>1, <2>2
<1>7. f \in Injection(kept, 0 .. limit - 1)
  BY <1>5, <1>6 DEF Injection, IsInjective
<1>8. /\ IsFiniteSet(0 .. limit - 1)
      /\ Cardinality(0 .. limit - 1) = limit
  BY FS_Interval
<1> HIDE DEF f, kept
<1>9. Cardinality(kept) <= Cardinality(0 .. limit - 1)
  BY <1>7, <1>8, FS_Injection
<1> QED
  BY <1>8, <1>9 DEF kept

LEMMA CreateStep ==
  ASSUME SessionsInv, NEW h \in Handlers, CreateAtLogin(h)
  PROVE  SessionsInv'
<1> DEFINE w == [work[h] EXCEPT !.pc = "list", !.session = Len(sessions) + 1]
<1>0. CASE Finish(h) /\ UNCHANGED sessions
  <2>1. ~ IsTrim(work[h])
    BY DEF CreateAtLogin, Doing, IsTrim, IsListing, IsEvicting
  <2> QED
    BY <1>0, <2>1, FinishBecomes, OrdinaryStep DEF CreateAtLogin, SessionsInv, Wrote, trimVars
<1>1. work[h] \in WithoutCopy /\ work[h].op = "login" /\ ~ IsTrim(work[h]) /\ work[h].user \in Users
  BY WorkKinds DEF CreateAtLogin, Doing, SessionsInv, IsTrim, IsListing, IsEvicting
<1>1a. PICK u \in Users : u = work[h].user
  BY <1>1
<1>2. Len(sessions) + 1 \in Nat
  BY DEF SessionsInv, SessionsTyped
<1>3. /\ w \in WithoutCopy /\ w.pc = "list" /\ w.op = "login" /\ w.user = u
      /\ w.session = Len(sessions) + 1
  BY <1>1, <1>1a, <1>2 DEF WithoutCopy
<1> SUFFICES ASSUME ~ (Finish(h) /\ UNCHANGED sessions) PROVE SessionsInv'
  BY <1>0
<1>4. /\ UNCHANGED <<users, activeCache, inactive, maxSessions, trimmedTo, spared>>
      /\ CreateSession(u, TRUE) /\ Then(h, w)
  BY <1>1a DEF CreateAtLogin, trimVars
<1> HIDE DEF w
<1>5. work' \in [Handlers -> Work] /\ \A k \in Handlers : work'[k] = IF k = h THEN w ELSE work[k]
  BY <1>3, <1>4, ThenStep DEF SessionsInv, Work
<1>6. TRUE \in BOOLEAN /\ SessionsTyped
  BY DEF SessionsInv
<1>7. sessions' \in Seq(Session) /\ DOMAIN sessions \subseteq DOMAIN sessions'
  BY <1>1, <1>4, <1>6, SessionMade
<1>8. SessionsTyped'
  BY <1>4, <1>5, <1>7 DEF SessionsInv, SessionsTyped
<1>9. Calm
  BY <1>4, StaysCalm DEF Wrote
<1>10. \A v \in Users : SoundAnswer(v)'
  BY <1>4, <1>8, <1>9, AnswersKept DEF SessionsTyped
<1>11. \A k \in Handlers : SoundLookup(k)'
  BY <1>3, <1>5, <1>7, <1>9, LookupsKept DEF IsLookup
<1>12. ASSUME NEW v \in Users PROVE SoundTrim(v)'
  <2>1. CASE v = u
    <3>1. Local(u)' \subseteq Local(u) \cup {Len(sessions) + 1}
      BY <1>1, <1>4, <1>6, MadeShrinks
    <3>2. \A k \in Handlers : IsTrim(work[k]) => work'[k] = work[k]
      BY <1>1, <1>5
    <3>3. IsListing(work'[h]) /\ work'[h].user = u /\ work'[h].session = Len(sessions) + 1
      BY <1>3, <1>5 DEF IsListing
    <3>4. Seen(u)' \subseteq Seen(u)
      <4> SUFFICES ASSUME NEW s \in Seen(u)' PROVE s \in Seen(u)
        OBVIOUS
      <4>1. s \in Local(u) \ spared
        BY <1>4, <3>1, <3>3 DEF Seen, IsListing
      <4>2. ASSUME NEW k \in Handlers, IsListing(work[k]), work[k].user = u PROVE s # work[k].session
        BY <3>2, <4>2 DEF Seen, IsTrim, IsListing
      <4> QED
        BY <4>1, <4>2 DEF Seen
    <3>5. Evictions(u) \subseteq Evictions(u)'
      BY <3>2, EvictionsKept DEF IsTrim, IsEvicting
    <3>6. SoundTrim(u)'
      BY <1>1, <1>4, <3>4, <3>5, TrimsFollow DEF SessionsInv
    <3> QED
      BY <2>1, <3>6
  <2>2. CASE v # u
    <3>1. (Local(v) \ spared)' \subseteq Local(v) \ spared
      BY <1>1, <1>4, <1>6, <2>2, MadeShrinks
    <3> QED
      BY <1>1, <1>4, <1>5, <3>1, TrimsKept
  <2> QED
    BY <2>1, <2>2
<1> QED
  BY <1>8, <1>10, <1>11, <1>12 DEF SessionsInv

\* A listing that fails leaves the session its login has made
LEMMA ListFailStep ==
  ASSUME SessionsInv, NEW h \in Handlers, IsListing(work[h]), work[h] \in WithoutCopy,
         Then(h, [work[h] EXCEPT !.pc = "last", !.limit = 0, !.session = 0]),
         spared' = spared \cup {work[h].session},
         UNCHANGED <<users, sessions, activeCache, inactive, maxSessions, trimmedTo>>
  PROVE  SessionsInv'
<1> DEFINE w == [work[h] EXCEPT !.pc = "last", !.limit = 0, !.session = 0]
<1>1. w \in WithoutCopy /\ w.pc = "last" /\ w.op = "login"
  BY DEF WithoutCopy, IsListing
<1> HIDE DEF w
<1>2. work' \in [Handlers -> Work] /\ \A k \in Handlers : work'[k] = IF k = h THEN w ELSE work[k]
  BY <1>1, ThenStep DEF SessionsInv, Work, w
<1>3. SessionsTyped' /\ SessionsTyped
  BY <1>2 DEF SessionsInv, SessionsTyped
<1>4. Calm
  BY StaysCalm DEF Wrote
<1>5. \A u \in Users : SoundAnswer(u)'
  BY <1>3, <1>4, AnswersKept DEF SessionsTyped
<1>6. \A k \in Handlers : SoundLookup(k)'
  BY <1>1, <1>2, <1>4, LookupsKept DEF IsLookup
<1>7. ASSUME NEW u \in Users PROVE SoundTrim(u)'
  <2>1. Local(u)' = Local(u)
    BY DEF Local, ValidOf, Valid
  <2>2. \A k \in Handlers : k # h => work'[k] = work[k]
    BY <1>2
  <2>3. ASSUME NEW s \in Seen(u)' PROVE s \in Seen(u)
    <3>1. s \in Local(u) /\ s \notin spared /\ s # work[h].session
      BY <2>1, <2>3 DEF Seen
    <3>2. ASSUME NEW k \in Handlers, IsListing(work[k]), work[k].user = u PROVE s # work[k].session
      <4>1. CASE k = h
        BY <3>1, <4>1
      <4>2. CASE k # h
        BY <2>2, <2>3, <3>2, <4>2 DEF Seen
      <4> QED
        BY <4>1, <4>2
    <3> QED
      BY <3>1, <3>2 DEF Seen
  <2>4. Evictions(u) \subseteq Evictions(u)'
    BY <2>2, EvictionsKept DEF IsListing, IsEvicting
  <2> QED
    BY <1>3, <2>3, <2>4, TrimsFollow DEF SessionsInv
<1> QED
  BY <1>3, <1>5, <1>6, <1>7 DEF SessionsInv

LEMMA ListStep ==
  ASSUME SessionsInv, NEW h \in Handlers, ListAtLogin(h)
  PROVE  SessionsInv'
<1>0. /\ work[h] \in WithoutCopy /\ work[h].op = "login" /\ work[h].user \in Users /\ SessionsTyped
      /\ IsListing(work[h])
  BY WorkKinds DEF ListAtLogin, Doing, SessionsInv, IsListing
<1>1. PICK u \in Users, limit \in Nat : u = work[h].user /\ limit = work[h].limit
  BY <1>0 DEF WithoutCopy
<1>1a. PICK excess : excess = Excess(ValidOf(u), limit)
  OBVIOUS
<1> DEFINE w == [work[h] EXCEPT !.pc = "evict", !.evict = excess, !.limit = 0, !.session = 0]
<1>1b. UNCHANGED <<users, sessions, activeCache, inactive, maxSessions>>
  BY DEF ListAtLogin
<1> SUFFICES ASSUME Then(h, w), trimmedTo' = [trimmedTo EXCEPT ![u] = limit],
                    spared' = spared \ ValidOf(u)
             PROVE  SessionsInv'
  BY <1>0, <1>1, <1>1a, <1>1b, ListFailStep DEF ListAtLogin
<1>2. Len(sessions) \in Nat /\ ValidOf(u) \in SUBSET (1 .. Len(sessions))
  BY <1>0, LocalFinite DEF SessionsTyped
<1>3. excess \in SUBSET Nat /\ Cardinality(ValidOf(u) \ excess) <= limit
  <2>1. excess \subseteq ValidOf(u)
    BY <1>1a DEF Excess
  <2> QED
    BY <1>1a, <1>2, <2>1, ExcessLeaves
<1>4. w \in WithoutCopy /\ w.pc = "evict" /\ w.op = "login" /\ w.user = u /\ w.evict = excess
  BY <1>0, <1>1, <1>3 DEF WithoutCopy
<1> HIDE DEF w
<1>6. work' \in [Handlers -> Work] /\ \A k \in Handlers : work'[k] = IF k = h THEN w ELSE work[k]
  BY <1>4, ThenStep DEF SessionsInv, Work
<1>6a. trimmedTo' \in [Users -> Nat] /\ \A v \in Users : trimmedTo'[v] = IF v = u THEN limit ELSE trimmedTo[v]
  BY <1>0 DEF SessionsTyped
<1>7. SessionsTyped'
  BY <1>1b, <1>6, <1>6a DEF SessionsInv, SessionsTyped
<1>8. Calm
  BY <1>1b, StaysCalm DEF Wrote
<1>9. \A v \in Users : SoundAnswer(v)'
  BY <1>1b, <1>7, <1>8, AnswersKept DEF SessionsTyped
<1>10. \A k \in Handlers : SoundLookup(k)'
  BY <1>1b, <1>4, <1>6, <1>8, LookupsKept DEF IsLookup
<1>11. \A v \in Users : Local(v)' = Local(v) /\ Local(v) \subseteq ValidOf(v)
  BY <1>1b DEF Local, ValidOf, Valid
<1>12. ASSUME NEW v \in Users PROVE SoundTrim(v)'
  <2>1. CASE v # u
    <3>1. Local(v) \cap ValidOf(u) = {}
      BY <2>1 DEF Local, ValidOf
    <3>2. (Local(v) \ spared)' \subseteq Local(v) \ spared
      BY <1>11, <3>1
    <3>3. \A k \in Handlers : IsTrim(work[k]) /\ work[k].user = v => work'[k] = work[k]
      BY <1>1, <1>6, <2>1
    <3> QED
      BY <1>6a, <2>1, <3>2, <3>3, TrimsKept
  <2>2. CASE v = u
    <3>1. /\ IsFiniteSet(ValidOf(u) \ excess)
          /\ Seen(u)' \ excess \in SUBSET (ValidOf(u) \ excess)
      BY <1>0, <1>11, LocalFinite, FS_Subset DEF Seen
    <3>2. /\ Cardinality(Seen(u)' \ excess) <= Cardinality(ValidOf(u) \ excess)
          /\ Cardinality(Seen(u)' \ excess) \in Nat /\ Cardinality(ValidOf(u) \ excess) \in Nat
      BY <3>1, FS_Subset, FS_CardinalityType
    <3>3. Cardinality(Seen(u)' \ excess) <= trimmedTo'[u]
      BY <1>3, <1>6a, <3>2
    <3>4. IsEvicting(work'[h]) /\ work'[h].user = u /\ work'[h].evict = excess
      BY <1>4, <1>6 DEF IsEvicting
    <3>5. excess \in Evictions(u)'
      BY <3>4 DEF Evictions
    <3> QED
      BY <2>2, <3>3, <3>5 DEF SoundTrim
  <2> QED
    BY <2>1, <2>2
<1> QED
  BY <1>7, <1>9, <1>10, <1>12 DEF SessionsInv

LEMMA EvictStep ==
  ASSUME SessionsInv, NEW h \in Handlers, Evict(h)
  PROVE  SessionsInv'
<1>0. work[h] \in WithoutCopy /\ work[h].op = "login" /\ work[h].user \in Users /\ SessionsTyped
  BY WorkKinds DEF Evict, Doing, SessionsInv
<1>1. PICK u \in Users :
        u = work[h].user /\ work[h] \in WithoutCopy /\ work[h].op = "login" /\ SessionsTyped
  BY <1>0
<1>2. /\ work[h].pc = "evict" /\ work[h].evict \subseteq Nat
      /\ UNCHANGED <<users, activeCache, inactive, maxSessions, trimmedTo>>
  BY <1>1 DEF Evict, Doing, WithoutCopy
<1>3. PICK w, S :
        /\ Then(h, w) /\ w \in WithoutCopy /\ w.op = "login" /\ w.user = u
        /\ \/ w.pc = "last" /\ work[h].evict = {} /\ S = {} /\ UNCHANGED <<sessions, spared>>
           \/ w.pc = "evict" /\ w.evict = work[h].evict \ S /\ DropSessions(S) /\ UNCHANGED spared
           \/ /\ w.pc = "evict" /\ w.evict = work[h].evict \ S
              /\ UNCHANGED sessions /\ spared' = spared \cup S
  <2>1. CASE work[h].evict = {}
    <3> DEFINE w == [work[h] EXCEPT !.pc = "last"]
    <3>1. w \in WithoutCopy /\ w.op = "login" /\ w.user = u /\ w.pc = "last"
      BY <1>1 DEF WithoutCopy
    <3>2. Then(h, w) /\ UNCHANGED <<sessions, spared>>
      BY <2>1 DEF Evict
    <3> HIDE DEF w
    <3> QED
      BY <2>1, <3>1, <3>2
  <2>2. CASE work[h].evict # {}
    <3> DEFINE s == CHOOSE s \in work[h].evict : \A t \in work[h].evict : s <= t
               w == [work[h] EXCEPT !.evict = @ \ {s}]
    <3>1. w \in WithoutCopy /\ w.op = "login" /\ w.user = u /\ w.pc = "evict"
          /\ w.evict = work[h].evict \ {s}
      <4> HIDE DEF s
      <4> QED
        BY <1>1, <1>2 DEF WithoutCopy
    <3>2. /\ Then(h, w)
          /\ \/ DropSessions({s}) /\ UNCHANGED spared
             \/ UNCHANGED sessions /\ spared' = spared \cup {s}
      BY <2>2 DEF Evict
    <3> HIDE DEF w, s
    <3> QED
      BY <3>1, <3>2
  <2> QED
    BY <2>1, <2>2
<1>4. work' \in [Handlers -> Work] /\ \A k \in Handlers : work'[k] = IF k = h THEN w ELSE work[k]
  BY <1>1, <1>3, ThenStep DEF Work
<1>5. /\ sessions' \in Seq(Session) /\ DOMAIN sessions \subseteq DOMAIN sessions'
      /\ \A v \in Users : (Local(v) \ spared)' = (Local(v) \ spared) \ S
  <2>1. CASE UNCHANGED sessions /\ spared' = spared \cup S
    BY <1>1, <2>1 DEF Local, ValidOf, Valid, SessionsTyped
  <2>2. CASE DropSessions(S) /\ UNCHANGED spared
    BY <1>1, <2>2, Dropped, DropsShrink
  <2>3. S = {} /\ UNCHANGED spared => spared' = spared \cup S
    OBVIOUS
  <2> QED
    BY <1>3, <2>1, <2>2, <2>3
<1>6. SessionsTyped'
  BY <1>2, <1>4, <1>5 DEF SessionsInv, SessionsTyped
<1>7. Calm
  BY <1>2, StaysCalm DEF Wrote
<1>8. \A v \in Users : SoundAnswer(v)'
  BY <1>2, <1>6, <1>7, AnswersKept DEF SessionsTyped
<1>9. \A k \in Handlers : SoundLookup(k)'
  BY <1>3, <1>4, <1>5, <1>7, LookupsKept DEF IsLookup
<1>10. ASSUME NEW v \in Users PROVE SoundTrim(v)'
  <2>1. CASE v # u
    <3>1. (Local(v) \ spared)' \subseteq Local(v) \ spared
      BY <1>5
    <3> QED
      BY <1>1, <1>2, <1>4, <2>1, <3>1, TrimsKept
  <2>2. CASE v = u
    <3>1. \A k \in Handlers : k # h => work'[k] = work[k]
      BY <1>4
    <3>2. Seen(u)' \subseteq Seen(u) \ S
      BY <1>2, <1>5, <3>1 DEF Seen, IsListing
    <3>3. ASSUME NEW T \in Evictions(u)
          PROVE  \E R \in Evictions(u)' : Seen(u)' \ R \subseteq Seen(u) \ T
      <4>1. CASE T = {}
        BY <3>2, <4>1 DEF Evictions
      <4>2. ASSUME NEW k \in Handlers, k # h, IsEvicting(work[k]), work[k].user = u, T = work[k].evict
            PROVE  T \in Evictions(u)'
        BY <3>1, <4>2 DEF Evictions
      <4>3. CASE T = work[h].evict /\ T # {}
        <5>1. w.pc = "evict" /\ w.evict = T \ S /\ work'[h] = w
          BY <1>3, <1>4, <4>3
        <5>2. T \ S \in Evictions(u)'
          BY <1>3, <5>1 DEF Evictions, IsEvicting
        <5> QED
          BY <3>2, <5>2
      <4> QED
        BY <3>2, <4>1, <4>2, <4>3 DEF Evictions
    <3> QED
      BY <1>1, <1>2, <2>2, <3>3, TrimsFollow DEF SessionsInv
  <2> QED
    BY <2>1, <2>2
<1> QED
  BY <1>6, <1>8, <1>9, <1>10 DEF SessionsInv

\* What a tick does to a record and to a task
LEMMA SoonerRow ==
  ASSUME NEW row \in Row
  PROVE  Sooner(row) \in Row /\ Sooner(row).active = row.active
BY DEF Sooner, Row

LEMMA OlderAge ==
  ASSUME NEW age \in Nat, NEW bound \in Nat
  PROVE  /\ Older(age, bound) \in Nat
         /\ age <= bound => Older(age, bound) <= bound
         /\ Older(age, bound) <= age + 1
         /\ Older(age, bound) = age + 1 \/ (Older(age, bound) = age /\ bound <= age)
BY DEF Older

\* How Tick leaves a task: its copy of the record, and its age, follow the time
LEMMA TickedTask ==
  ASSUME SessionsTyped, Tick, NEW h \in Handlers
  PROVE  /\ work'[h] \in Work
         /\ Free(h) => work'[h] = NoWork
         /\ ~ Free(h) =>
              /\ work'[h].op = work[h].op /\ work'[h].pc = work[h].pc
              /\ work'[h].user = work[h].user /\ work'[h].session = work[h].session
              /\ work'[h].evict = work[h].evict
         /\ IsLookup(work[h]) =>
              /\ work'[h].row.active = work[h].row.active
              /\ work'[h].age = work[h].age + 1 /\ work[h].age \in Nat
              /\ work[h].user \in Users
<1>1. work'[h] = IF Free(h) THEN NoWork
                 ELSE [work[h] EXCEPT
                         !.row = IF work[h].row = Absent THEN Absent ELSE Sooner(work[h].row),
                         !.age = IF work[h].op = "request" THEN work[h].age + 1 ELSE work[h].age]
  BY DEF Tick
<1>2. CASE Free(h)
  BY <1>1, <1>2, NoWorkOp DEF Free, IsLookup
<1>3. CASE ~ Free(h)
  <2>1. PICK row, age :
          /\ row = IF work[h].row = Absent THEN Absent ELSE Sooner(work[h].row)
          /\ age = IF work[h].op = "request" THEN work[h].age + 1 ELSE work[h].age
    OBVIOUS
  <2>2. work'[h] = [work[h] EXCEPT !.row = row, !.age = age]
    BY <1>1, <1>3, <2>1
  <2>3. CASE work[h] \in WithCopy
    <3>1. work[h].row \in Row /\ work[h].age \in Nat /\ work[h].user \in Users
      BY <2>3 DEF WithCopy
    <3>2. row \in Row /\ row.active = work[h].row.active /\ age \in Nat
      BY <2>1, <3>1, SoonerRow
    <3>3. /\ work'[h] \in WithCopy
          /\ work'[h].op = work[h].op /\ work'[h].pc = work[h].pc
          /\ work'[h].user = work[h].user /\ work'[h].session = work[h].session
          /\ work'[h].evict = work[h].evict
          /\ work'[h].row = row /\ work'[h].age = age
      BY <2>2, <2>3, <3>2 DEF WithCopy
    <3> QED
      BY <1>3, <2>1, <3>1, <3>2, <3>3 DEF Work, IsLookup
  <2>4. CASE work[h] \in WithoutCopy
    <3>1. work[h].row = Absent /\ work[h].age \in Nat /\ work[h].user \in Users
      BY <2>4 DEF WithoutCopy
    <3>2. row = Absent /\ age \in Nat
      BY <2>1, <3>1
    <3>3. /\ work'[h] \in WithoutCopy
          /\ work'[h].op = work[h].op /\ work'[h].pc = work[h].pc
          /\ work'[h].user = work[h].user /\ work'[h].session = work[h].session
          /\ work'[h].evict = work[h].evict
          /\ work'[h].row = row /\ work'[h].age = age
      BY <2>2, <2>4, <3>2 DEF WithoutCopy
    <3> QED
      BY <1>3, <2>1, <3>1, <3>2, <3>3 DEF Work, IsLookup
  <2> QED
    BY <1>3, <2>3, <2>4, WorkKinds
<1> QED
  BY <1>2, <1>3

LEMMA TickStep == ASSUME SessionsInv, Tick PROVE SessionsInv'
<1>1. UNCHANGED <<sessions, maxSessions, trimmedTo, spared>> /\ SessionsTyped
  BY DEF Tick, SessionsInv, trimVars
<1>2. ActiveTTL + 1 \in Nat /\ ActiveTTL + MaxLag + 1 \in Nat
  BY SessionsAssumption
<1>3. ASSUME NEW u \in Users
      PROVE  users'[u] \in Row /\ users'[u].active = users[u].active
  <2>1. users'[u] = Sooner(users[u]) /\ users[u] \in Row
    BY <1>1 DEF Tick, SessionsTyped
  <2> QED
    BY <2>1, SoonerRow
<1>4. ASSUME NEW u \in Users
      PROVE  /\ inactive'[u] \in Nat /\ inactive[u] \in Nat
             /\ users[u].active => inactive'[u] = 0
             /\ inactive'[u] <= ActiveTTL + MaxLag + 1
             /\ inactive'[u] <= inactive[u] + 1
  <2>1. inactive'[u] = IF users[u].active THEN 0
                       ELSE Older(inactive[u], ActiveTTL + MaxLag + 1)
    BY DEF Tick
  <2>2. inactive[u] \in Nat /\ inactive[u] <= ActiveTTL + MaxLag + 1
    BY <1>1 DEF SessionsTyped, SessionsInv, SoundAnswer
  <2>3. PICK age \in Nat :
          /\ age = Older(inactive[u], ActiveTTL + MaxLag + 1)
          /\ age <= ActiveTTL + MaxLag + 1 /\ age <= inactive[u] + 1
    BY <1>2, <2>2, OlderAge
  <2>4. inactive'[u] = 0 \/ (inactive'[u] = age /\ ~ users[u].active)
    BY <2>1, <2>3
  <2> QED
    BY <1>2, <2>2, <2>3, <2>4
<1>5. ASSUME NEW u \in Users
      PROVE  /\ activeCache'[u] \in Answer \cup {Absent}
             /\ activeCache'[u] # Absent =>
                  /\ activeCache[u] # Absent
                  /\ activeCache'[u].active = activeCache[u].active
                  /\ activeCache[u].age \in Nat
                  /\ \/ activeCache'[u].age = activeCache[u].age + 1
                     \/ activeCache'[u].age >= ActiveTTL + 1
  <2>1. activeCache'[u] = IF activeCache[u] = Absent THEN Absent
                          ELSE [activeCache[u] EXCEPT !.age = Older(@, ActiveTTL + 1)]
    BY DEF Tick
  <2>2. CASE activeCache[u] # Absent
    <3>1. activeCache[u] \in Answer /\ activeCache[u].age \in Nat
      BY <1>1, <2>2 DEF SessionsTyped, Answer
    <3>2. PICK age \in Nat :
            /\ age = Older(activeCache[u].age, ActiveTTL + 1)
            /\ age = activeCache[u].age + 1 \/ age >= ActiveTTL + 1
      BY <1>2, <3>1, OlderAge
    <3>3. activeCache'[u] = [activeCache[u] EXCEPT !.age = age]
      BY <2>1, <2>2, <3>2
    <3> QED
      BY <2>2, <3>1, <3>2, <3>3 DEF Answer
  <2> QED
    BY <2>1, <2>2
<1>6. SessionsTyped'
  <2>1. users' \in [Users -> Row]
    BY <1>3 DEF Tick
  <2>2. inactive' \in [Users -> Nat]
    BY <1>4 DEF Tick
  <2>3. activeCache' \in [Users -> Answer \cup {Absent}]
    BY <1>5 DEF Tick
  <2>4. work' \in [Handlers -> Work]
    BY <1>1, TickedTask DEF Tick
  <2> QED
    BY <1>1, <2>1, <2>2, <2>3, <2>4 DEF SessionsTyped
<1>7. ASSUME NEW u \in Users PROVE SoundAnswer(u)'
  <2>1. SoundAnswer(u)
    BY DEF SessionsInv
  <2>2. CASE activeCache'[u] # Absent /\ activeCache'[u].active
    <3>1. inactive[u] <= activeCache[u].age + MaxLag /\ activeCache[u].age \in Nat
      BY <1>5, <2>1, <2>2 DEF SoundAnswer
    <3>2. activeCache'[u].age \in Nat
      BY <1>5, <2>2 DEF Answer
    <3>3. inactive'[u] <= activeCache'[u].age + MaxLag
      BY <1>4, <1>5, <2>2, <3>1, <3>2, SessionsAssumption
    <3> QED
      BY <1>3, <1>4, <3>3 DEF SoundAnswer
  <2> QED
    BY <1>3, <1>4, <2>2 DEF SoundAnswer
<1>8. ASSUME NEW h \in Handlers PROVE SoundLookup(h)'
  <2> SUFFICES ASSUME IsLookup(work'[h]) PROVE SoundLookup(h)'
    BY DEF SoundLookup
  <2>1. ~ Free(h)
    BY <1>1, TickedTask, NoWorkOp DEF IsLookup
  <2>2. PICK u \in Users : u = work[h].user /\ IsLookup(work[h])
    BY <1>1, <2>1, TickedTask DEF IsLookup
  <2>3. /\ work[h].session \in DOMAIN sessions
        /\ work[h].age <= MaxLag
        /\ work[h].row.active => inactive[u] <= work[h].age
    BY <2>2 DEF SessionsInv, SoundLookup
  <2>4. /\ work'[h].session = work[h].session /\ work'[h].user = u
        /\ work'[h].row.active = work[h].row.active
        /\ work'[h].age = work[h].age + 1 /\ work[h].age \in Nat
    BY <1>1, <2>1, <2>2, TickedTask
  <2>5. work[h].age < MaxLag
    BY <2>1, <2>2 DEF Tick, Doing, IsLookup
  <2>6. work[h].row.active => inactive'[u] <= work[h].age + 1
    BY <1>4, <2>3, <2>4
  <2> QED
    BY <1>1, <2>3, <2>4, <2>5, <2>6, SessionsAssumption DEF SoundLookup
<1>9. ASSUME NEW u \in Users PROVE SoundTrim(u)'
  <2>1. Local(u)' = Local(u)
    BY <1>1 DEF Local, ValidOf, Valid
  <2>2. ASSUME NEW h \in Handlers, IsTrim(work[h])
        PROVE  /\ IsListing(work[h]) => IsListing(work'[h])
               /\ IsEvicting(work[h]) => IsEvicting(work'[h])
               /\ work'[h].user = work[h].user
               /\ work'[h].session = work[h].session /\ work'[h].evict = work[h].evict
    BY <1>1, <2>2, TickedTask, NoWorkOp DEF IsTrim, IsListing, IsEvicting, Free
  <2>3. Seen(u)' \subseteq Seen(u)
    BY <1>1, <2>1, <2>2 DEF Seen, IsTrim
  <2>4. Evictions(u) \subseteq Evictions(u)'
    BY <2>2, EvictionsKept DEF IsTrim
  <2> QED
    BY <1>1, <2>3, <2>4, TrimsFollow DEF SessionsInv
<1> QED
  BY <1>6, <1>7, <1>8, <1>9 DEF SessionsInv

LEMMA SessionsStart == ASSUME SessionInit PROVE SessionsInv
<1>1. SessionsTyped
  <2>1. [active |-> TRUE, failed |-> 0, locked |-> NotLocked] \in Row
    BY DEF Row, NotLocked
  <2>2. sessions \in Seq(Session)
    BY DEF SessionInit
  <2> QED
    BY <2>1, <2>2, NoWorkOp, SessionsAssumption DEF SessionInit, SessionsTyped
<1>2. \A u \in Users : SoundAnswer(u)
  BY SessionsAssumption DEF SessionInit, SoundAnswer
<1>3. \A u \in Users : SoundTrim(u)
  <2>1. \A u \in Users : Local(u) = {}
    BY DEF Local, ValidOf, SessionInit
  <2>2. ASSUME NEW u \in Users PROVE Cardinality(Seen(u) \ {}) <= trimmedTo[u]
    <3>1. Seen(u) \ {} = {} /\ trimmedTo[u] = 0
      BY <2>1 DEF Seen, SessionInit
    <3> QED
      BY <3>1, FS_EmptySet
  <2> QED
    BY <2>2 DEF SoundTrim, Evictions
<1>4. \A h \in Handlers : SoundLookup(h)
  BY NoWorkOp DEF SessionInit, SoundLookup, IsLookup
<1> QED
  BY <1>1, <1>2, <1>3, <1>4 DEF SessionsInv

LEMMA SessionsStep == ASSUME SessionsInv, [SessionNext]_sessionVars PROVE SessionsInv'
<1>1. ASSUME NEW h \in Handlers,
             \/ Login(h) \/ UnlockAtLogin(h) \/ recordFailedLogin(h) \/ FinishLogin(h)
             \/ OidcCallback(h) \/ SyncRole(h) \/ CreateAtOidc(h) \/ AdminRequest(h)
             \/ SweepBefore(h) \/ WriteAsAdmin(h) \/ SweepAfter(h) \/ Logout(h)
      PROVE  SessionsInv'
  BY <1>1, PlainSteps
<1>2. ASSUME NEW h \in Handlers, CreateAtLogin(h) PROVE SessionsInv'
  BY <1>2, CreateStep
<1>3. ASSUME NEW h \in Handlers, ListAtLogin(h) PROVE SessionsInv'
  BY <1>3, ListStep
<1>4. ASSUME NEW h \in Handlers, Evict(h) PROVE SessionsInv'
  BY <1>4, EvictStep
<1>5. ASSUME NEW h \in Handlers, Authenticate(h) PROVE SessionsInv'
  BY <1>5, LookupStep
<1>6. ASSUME NEW h \in Handlers, RememberActive(h) PROVE SessionsInv'
  BY <1>6, RememberStep
<1>7. CASE \/ \E h \in Handlers : RevokeSessions(h)
           \/ \E s \in DOMAIN sessions : Expire(s)
           \/ \E n \in SessionLimits : SetSessionLimit(n)
  BY <1>7, SessionsGo
<1>8. CASE Tick
  BY <1>8, TickStep
<1>9. CASE UNCHANGED sessionVars
  BY <1>9, OrdinaryStep DEF sessionVars, trimVars, Wrote
<1> QED
  BY <1>1, <1>2, <1>3, <1>4, <1>5, <1>6, <1>7, <1>8, <1>9 DEF SessionNext

LEMMA SessionsHold == SessionSpec => []SessionsInv
<1>1. SessionInit => SessionsInv
  BY SessionsStart
<1>2. SessionsInv /\ [SessionNext]_sessionVars => SessionsInv'
  BY SessionsStep
<1> QED
  BY <1>1, <1>2, PTL DEF SessionSpec

-----------------------------------------------------------------------------
(***************************************************************************)
(* The middleware lets in nobody whose record has not been active for      *)
(* longer than an answer is kept and was on its way, however many requests *)
(* look users up, store answers and write records at the same time.        *)
(***************************************************************************)
THEOREM DisabledTheorem == SessionSpec => []DisabledWithin
<1>1. ASSUME SessionsInv PROVE DisabledWithin
  <2> SUFFICES ASSUME NEW u \in Users, LetsIn(u) PROVE inactive[u] <= ActiveTTL + MaxLag
    BY DEF DisabledWithin
  <2>1. inactive[u] \in Nat
    BY <1>1 DEF SessionsInv, SessionsTyped
  <2>2. CASE Hit(u) /\ activeCache[u].active
    <3>1. inactive[u] <= activeCache[u].age + MaxLag /\ activeCache[u].age <= ActiveTTL
      BY <1>1, <2>2 DEF SessionsInv, SoundAnswer, Hit
    <3>2. activeCache[u].age \in Nat
      BY <1>1, <2>2 DEF SessionsInv, SessionsTyped, Hit, Answer
    <3> QED
      BY <2>1, <3>1, <3>2, SessionsAssumption
  <2>3. ASSUME NEW h \in Handlers, Doing(h, "request", "remember"),
               work[h].user = u, work[h].row.active
        PROVE  inactive[u] <= ActiveTTL + MaxLag
    <3>1. IsLookup(work[h]) /\ work[h] \in WithCopy
      BY <1>1, <2>3, WorkKinds DEF IsLookup, Doing, SessionsInv
    <3>2. inactive[u] <= work[h].age /\ work[h].age <= MaxLag /\ work[h].age \in Nat
      BY <1>1, <2>3, <3>1 DEF SessionsInv, SoundLookup, WithCopy
    <3> QED
      BY <2>1, <3>2, SessionsAssumption
  <2> QED
    BY <2>2, <2>3 DEF LetsIn
<1> QED
  BY <1>1, SessionsHold, PTL

(***************************************************************************)
(* However many logins of a user race, under whatever limits they read and *)
(* whichever of their calls fail, once none of them is under way no more   *)
(* sessions from logins are left than the last to list allowed, but for    *)
(* those a failed call left since: the one that listed last has seen them  *)
(* all.                                                                    *)
(***************************************************************************)
THEOREM TrimmedTheorem == SessionSpec => []SessionsTrimmed
<1>1. ASSUME SessionsInv PROVE SessionsTrimmed
  <2> SUFFICES ASSUME NEW u \in Users, ~ Trimming(u)
               PROVE  Cardinality({s \in ValidOf(u) : sessions[s].local /\ s \notin spared})
                        <= trimmedTo[u]
    BY DEF SessionsTrimmed
  <2>1. \A h \in Handlers : work[h].user = u => ~ IsListing(work[h]) /\ ~ IsEvicting(work[h])
    BY DEF Trimming, IsListing, IsEvicting
  <2>2. PICK T \in Evictions(u) : Cardinality(Seen(u) \ T) <= trimmedTo[u]
    BY <1>1 DEF SessionsInv, SoundTrim
  <2>3. T = {}
    BY <2>1 DEF Evictions
  <2>4. Seen(u) \ T = {s \in ValidOf(u) : sessions[s].local /\ s \notin spared}
    BY <2>1, <2>3 DEF Seen, Local
  <2> QED
    BY <2>2, <2>4
<1> QED
  BY <1>1, SessionsHold, PTL

-----------------------------------------------------------------------------
(***************************************************************************)
(* Identity                                                                *)
(***************************************************************************)

-----------------------------------------------------------------------------
(* Types. *)

RoleNames == BuiltinRoles \cup CustomRoles \cup {Nobody}

Person == [name : Subjects, suffixed : BOOLEAN, oidc : Subjects \cup {Nobody},
           role : RoleNames, active : BOOLEAN]

Provider == [version : Nat, exists : BOOLEAN, enabled : BOOLEAN, auto : BOOLEAN]

Leaving == [pc : {"client", "store", "idp", "exchange"}, then : {"idp", "exchange"},
            cfg : Provider]

Returning == [pc : {"found", "provision", "provisionAgain"}, subject : Subjects,
              mapped : BuiltinRoles \cup {Nobody}, seen : Nat, user : Nat,
              row : Person \cup {Nobody}]

Flow == {Quiet} \cup Leaving \cup Returning

Writing == [pc : {"role", "write"}, user : Nat, row : Person]

Deleting == [pc : {"deleteRole"}, role : CustomRoles, listed : Seq(Person)]

Desk == {Quiet} \cup [pc : {"editProvider"}, enabled : BOOLEAN, auto : BOOLEAN]
          \cup [pc : {"invalidate"}]
          \cup [pc : {"createUser"}, name : Subjects, role : RoleNames]
          \cup Writing \cup Deleting

IdentityTyped ==
  /\ provider \in Provider
  /\ people \in Seq(Person)
  /\ roles \in SUBSET CustomRoles
  /\ flow \in [Browsers -> Flow]
  /\ desk \in [Staff -> Desk]

\* What pc says of a login and of a request
LEMMA FlowKinds ==
  ASSUME IdentityTyped, NEW b \in Browsers
  PROVE  /\ flow[b].pc \in {"client", "store", "idp", "exchange"} => flow[b] \in Leaving
         /\ flow[b].pc \in {"found", "provision", "provisionAgain"} => flow[b] \in Returning
BY DEF IdentityTyped, Flow, Leaving, Returning, Quiet

LEMMA DeskKinds ==
  ASSUME IdentityTyped, NEW a \in Staff
  PROVE  /\ desk[a].pc = "editProvider" =>
              desk[a] \in [pc : {"editProvider"}, enabled : BOOLEAN, auto : BOOLEAN]
         /\ desk[a].pc = "createUser" =>
              desk[a] \in [pc : {"createUser"}, name : Subjects, role : RoleNames]
         /\ desk[a].pc \in {"role", "write"} => desk[a] \in Writing
         /\ desk[a].pc = "deleteRole" => desk[a] \in Deleting
BY DEF IdentityTyped, Desk, Writing, Deleting, Quiet

LEMMA PersonAt ==
  ASSUME IdentityTyped, NEW u \in DOMAIN people
  PROVE  u \in Nat /\ u \in 1 .. Len(people) /\ people[u] \in Person
<1>1. DOMAIN people = 1 .. Len(people) /\ Len(people) \in Nat
  BY DEF IdentityTyped
<1> QED
  BY <1>1 DEF IdentityTyped

LEMMA FlowStep ==
  ASSUME IdentityTyped, NEW b \in Browsers, NEW w, Steps(b, w)
  PROVE  /\ w \in Flow => flow' \in [Browsers -> Flow]
         /\ \A c \in Browsers : flow'[c] = IF c = b THEN w ELSE flow[c]
BY DEF IdentityTyped, Steps

LEMMA DeskStep ==
  ASSUME IdentityTyped, NEW a \in Staff, NEW w, Sits(a, w)
  PROVE  /\ w \in Desk => desk' \in [Staff -> Desk]
         /\ \A c \in Staff : desk'[c] = IF c = a THEN w ELSE desk[c]
BY DEF IdentityTyped, Sits

LEMMA QuietType == Quiet \in Flow /\ Quiet \in Desk
BY DEF Quiet, Flow, Desk

\* A record that is written back
LEMMA WrittenBack ==
  ASSUME IdentityTyped, NEW u, NEW row \in Person, people' = [people EXCEPT ![u] = row]
  PROVE  /\ people' \in Seq(Person)
         /\ Len(people') = Len(people)
         /\ DOMAIN people' = DOMAIN people
         /\ \A v \in DOMAIN people : people'[v] = IF v = u THEN row ELSE people[v]
<1>1. CASE u \in DOMAIN people
  <2>1. u \in 1 .. Len(people)
    BY <1>1, PersonAt
  <2>2. /\ people' \in Seq(Person)
        /\ Len(people') = Len(people)
        /\ \A v \in 1 .. Len(people) : people'[v] = IF v = u THEN row ELSE people[v]
    BY <2>1, ExceptSeq DEF IdentityTyped
  <2>3. DOMAIN people = 1 .. Len(people) /\ DOMAIN people' = 1 .. Len(people')
    BY <2>2 DEF IdentityTyped
  <2> QED
    BY <2>2, <2>3
<1>2. CASE u \notin DOMAIN people
  <2>1. people = [v \in DOMAIN people |-> people[v]]
    BY DEF IdentityTyped
  <2>2. people' = [v \in DOMAIN people |-> IF v = u THEN row ELSE people[v]]
    OBVIOUS
  <2>3. people' = people
    BY <1>2, <2>1, <2>2
  <2> QED
    BY <1>2, <2>3 DEF IdentityTyped
<1> QED
  BY <1>1, <1>2

LEMMA Added ==
  ASSUME IdentityTyped, NEW name \in Subjects, NEW suffixed \in BOOLEAN,
         NEW oidc \in Subjects \cup {Nobody}, NEW role \in RoleNames,
         NewUser(name, suffixed, oidc, role)
  PROVE  /\ people' \in Seq(Person)
         /\ Len(people') = Len(people) + 1
         /\ \A v \in DOMAIN people : v \in DOMAIN people' /\ people'[v] = people[v]
<1> DEFINE person == [name |-> name, suffixed |-> suffixed, oidc |-> oidc, role |-> role,
                      active |-> TRUE]
<1>1. person \in Person
  BY DEF Person
<1>2. people' = Append(people, person)
  BY DEF NewUser
<1> HIDE DEF person
<1> QED
  BY <1>1, <1>2 DEF IdentityTyped

LEMMA IdTypedInit == IdentityInit => IdentityTyped
BY QuietType DEF IdentityInit, IdentityTyped, Provider

\* Steps of a login.  Those that write users have lemmas of their own.
LEMMA LoginTyped ==
  ASSUME IdentityTyped, NEW b \in Browsers,
         HandleLogin(b) \/ LoadClient(b) \/ StoreClient(b) \/ Callback(b) \/ Exchange(b)
  PROVE  IdentityTyped'
<1>1. UNCHANGED <<provider, people, roles, desk>>
  BY DEF HandleLogin, LoadClient, StoreClient, Callback, Exchange
<1>2. ASSUME NEW w \in Flow, Steps(b, w)
      PROVE  IdentityTyped'
  BY <1>1, <1>2, FlowStep DEF IdentityTyped
<1>3. CASE Ends(b)
  BY <1>2, <1>3, QuietType DEF Ends
<1>4. \A pc \in {"client", "store", "idp", "exchange"}, then \in {"idp", "exchange"} :
        [pc |-> pc, then |-> then, cfg |-> provider] \in Flow
  BY DEF IdentityTyped, Flow, Leaving
<1>5. CASE HandleLogin(b)
  BY <1>2, <1>4, <1>5 DEF HandleLogin
<1>6. ASSUME flow[b].pc \in {"client", "store", "idp", "exchange"},
             NEW pc \in {"client", "store", "idp", "exchange"}
      PROVE  [flow[b] EXCEPT !.pc = pc] \in Flow
  BY <1>6, FlowKinds DEF Flow, Leaving
<1>7. CASE LoadClient(b)
  <2>1. flow[b] \in Leaving
    BY <1>7, FlowKinds DEF LoadClient
  <2>2. flow[b].then \in {"idp", "exchange"}
    BY <2>1 DEF Leaving
  <2> QED
    BY <1>2, <1>3, <1>6, <1>7, <2>2 DEF LoadClient
<1>8. CASE StoreClient(b)
  <2>1. flow[b].then \in {"idp", "exchange"}
    BY <1>8, FlowKinds DEF StoreClient, Leaving
  <2> QED
    BY <1>2, <1>6, <1>8, <2>1 DEF StoreClient
<1>9. CASE Callback(b)
  BY <1>2, <1>3, <1>4, <1>9 DEF Callback
<1>10. CASE Exchange(b)
  <2>1. CASE Ends(b)
    BY <1>3, <2>1
  <2> DEFINE known(s, mapped) ==
               [pc |-> "found", subject |-> s, mapped |-> mapped, seen |-> Len(people),
                user |-> 0, row |-> Nobody]
  <2>2. CASE ~ Ends(b)
    <3>1. PICK s \in Subjects, mapped \in BuiltinRoles \cup {Nobody} :
            \/ Steps(b, [known(s, mapped) EXCEPT !.pc = "provision"])
            \/ \E u \in DOMAIN people :
                 Steps(b, [known(s, mapped) EXCEPT !.user = u, !.row = people[u]])
      BY <1>10, <2>2 DEF Exchange, GetByOIDCIdentity
    <3>2. Len(people) \in Nat
      BY DEF IdentityTyped
    <3>3. [known(s, mapped) EXCEPT !.pc = "provision"] \in Flow
      BY <3>2 DEF Flow, Returning
    <3>4. \A u \in DOMAIN people :
            [known(s, mapped) EXCEPT !.user = u, !.row = people[u]] \in Flow
      BY <3>2, PersonAt DEF Flow, Returning
    <3> HIDE DEF known
    <3> QED
      BY <1>2, <3>1, <3>3, <3>4
  <2> QED
    BY <2>1, <2>2
<1> QED
  BY <1>5, <1>7, <1>8, <1>9, <1>10

LEMMA ProvisionTyped ==
  ASSUME IdentityTyped, NEW b \in Browsers, Provision(b)
  PROVE  IdentityTyped'
<1>1. flow[b] \in Returning
  BY FlowKinds DEF Provision
<1> DEFINE again == [flow[b] EXCEPT !.pc = "provisionAgain"]
           role == IF flow[b].mapped = Nobody THEN "viewer" ELSE flow[b].mapped
<1>2. again \in Flow
  BY <1>1 DEF Flow, Returning
<1>3. role \in RoleNames /\ flow[b].subject \in Subjects
  BY <1>1 DEF Returning, RoleNames, BuiltinRoles
<1>4. PICK suffixed \in BOOLEAN :
        \/ NewUser(flow[b].subject, suffixed, flow[b].subject, role) /\ Ends(b)
        \/ UNCHANGED people /\ (Ends(b) \/ Steps(b, again))
  BY DEF Provision
<1> HIDE DEF again, role
<1>5. people' \in Seq(Person)
  <2>1. CASE NewUser(flow[b].subject, suffixed, flow[b].subject, role)
    BY <1>3, <2>1, Added
  <2> QED
    BY <1>4, <2>1 DEF IdentityTyped
<1>6. flow' \in [Browsers -> Flow]
  BY <1>2, <1>4, FlowStep, QuietType DEF Ends
<1> QED
  BY <1>5, <1>6 DEF IdentityTyped, Provision

LEMMA SyncTyped ==
  ASSUME IdentityTyped, NEW b \in Browsers, SyncClaimedRole(b), flow[b].row \in Person
  PROVE  IdentityTyped' /\ [flow[b].row EXCEPT !.role = flow[b].mapped] \in Person
<1>1. flow[b] \in Returning
  BY FlowKinds DEF SyncClaimedRole
<1>2. [flow[b].row EXCEPT !.role = flow[b].mapped] \in Person
  BY <1>1 DEF Returning, Person, RoleNames
<1>3. people' \in Seq(Person)
  BY <1>2, WrittenBack DEF SyncClaimedRole
<1>4. flow' \in [Browsers -> Flow]
  BY FlowStep, QuietType DEF SyncClaimedRole, Ends
<1> QED
  BY <1>2, <1>3, <1>4 DEF IdentityTyped, SyncClaimedRole

\* Steps of an admin's request
LEMMA StaffTyped ==
  ASSUME IdentityTyped, NEW a \in Staff,
         \/ AskEditProvider(a) \/ EditProvider(a) \/ DeleteProvider(a) \/ Invalidate(a)
         \/ AskCreateUser(a) \/ CreateUser(a) \/ AskUpdateUser(a) \/ CheckRole(a)
         \/ PutUser(a) \/ CreateRole(a) \/ AskDeleteRole(a) \/ DeleteRole(a)
  PROVE  IdentityTyped'
<1>1. ASSUME NEW w \in Desk, Sits(a, w), provider' \in Provider, people' \in Seq(Person),
             roles' \in SUBSET CustomRoles, UNCHANGED flow
      PROVE  IdentityTyped'
  BY <1>1, DeskStep DEF IdentityTyped
<1>2. ASSUME NEW w \in Desk, Sits(a, w), UNCHANGED <<provider, people, roles, flow>>
      PROVE  IdentityTyped'
  BY <1>1, <1>2 DEF IdentityTyped
<1>3. CASE AskEditProvider(a)
  <2>1. \A enabled, auto \in BOOLEAN :
          [pc |-> "editProvider", enabled |-> enabled, auto |-> auto] \in Desk
    BY DEF Desk
  <2> QED
    BY <1>2, <1>3, <2>1 DEF AskEditProvider, Asks
<1>4. CASE EditProvider(a)
  <2>1. [pc |-> "invalidate"] \in Desk
    BY DEF Desk
  <2>2. desk[a].enabled \in BOOLEAN /\ desk[a].auto \in BOOLEAN
    BY <1>4, DeskKinds DEF EditProvider
  <2>3. CASE provider.exists
    <3> DEFINE edited == [version |-> provider.version + 1, exists |-> TRUE,
                          enabled |-> desk[a].enabled, auto |-> desk[a].auto]
    <3>1. provider.version + 1 \in Nat
      BY DEF IdentityTyped, Provider
    <3>2. edited \in Provider
      BY <2>2, <3>1 DEF Provider
    <3>3. provider' = edited
      BY <1>4, <2>3 DEF EditProvider
    <3> QED
      BY <1>1, <1>4, <2>1, <2>3, <3>2, <3>3 DEF EditProvider, IdentityTyped
  <2>4. CASE ~ provider.exists
    BY <1>2, <1>4, <2>4, QuietType DEF EditProvider, Rises
  <2> QED
    BY <2>3, <2>4
<1>5. CASE DeleteProvider(a)
  <2>1. [pc |-> "invalidate"] \in Desk
    BY DEF Desk
  <2>2. provider' \in Provider
    BY <1>5 DEF DeleteProvider, IdentityTyped, Provider
  <2> QED
    BY <1>1, <1>5, <2>1, <2>2 DEF DeleteProvider, Asks, IdentityTyped
<1>6. CASE Invalidate(a)
  BY <1>2, <1>6, QuietType DEF Invalidate, Rises
<1>7. CASE AskCreateUser(a)
  <2>1. \A name \in Subjects, r \in {"viewer"} \cup roles :
          [pc |-> "createUser", name |-> name, role |-> r] \in Desk
    BY DEF Desk, IdentityTyped, RoleNames, BuiltinRoles
  <2> QED
    BY <1>2, <1>7, <2>1 DEF AskCreateUser, Asks
<1>8. CASE CreateUser(a)
  <2>1. desk[a].name \in Subjects /\ desk[a].role \in RoleNames
    BY <1>8, DeskKinds DEF CreateUser
  <2>2. people' \in Seq(Person)
    <3>1. CASE NewUser(desk[a].name, FALSE, Nobody, desk[a].role)
      BY <2>1, <3>1, Added
    <3> QED
      BY <1>8, <3>1 DEF CreateUser, IdentityTyped
  <2> QED
    BY <1>1, <1>8, <2>2, QuietType DEF CreateUser, Rises, IdentityTyped
<1>9. CASE AskUpdateUser(a)
  <2>1. ASSUME NEW u \in DOMAIN people, NEW pc \in {"role", "write"}, NEW row \in Person
        PROVE  [pc |-> pc, user |-> u, row |-> row] \in Desk
    BY PersonAt DEF Desk, Writing
  <2>2. \A u \in DOMAIN people, active \in BOOLEAN : [people[u] EXCEPT !.active = active] \in Person
    BY PersonAt DEF Person
  <2>3. \A u \in DOMAIN people, r \in CustomRoles \cup {"viewer"} :
          [people[u] EXCEPT !.role = r] \in Person
    BY PersonAt DEF Person, RoleNames, BuiltinRoles
  <2> QED
    BY <1>2, <1>9, <2>1, <2>2, <2>3 DEF AskUpdateUser, Asks
<1>10. CASE CheckRole(a)
  <2>1. [desk[a] EXCEPT !.pc = "write"] \in Desk
    BY <1>10, DeskKinds DEF CheckRole, Desk, Writing
  <2> QED
    BY <1>2, <1>10, <2>1, QuietType DEF CheckRole, Rises
<1>11. CASE PutUser(a)
  <2>1. desk[a].row \in Person
    BY <1>11, DeskKinds DEF PutUser, Writing
  <2>2. people' \in Seq(Person)
    BY <1>11, <2>1, WrittenBack DEF PutUser
  <2> QED
    BY <1>1, <1>11, <2>2, QuietType DEF PutUser, Rises, IdentityTyped
<1>12. CASE CreateRole(a)
  <2>1. roles' \in SUBSET CustomRoles
    BY <1>12 DEF CreateRole, IdentityTyped
  <2> QED
    BY <1>1, <1>12, <2>1, QuietType DEF CreateRole, Asks, IdentityTyped
<1>13. CASE AskDeleteRole(a)
  <2>1. \A r \in roles : [pc |-> "deleteRole", role |-> r, listed |-> people] \in Desk
    BY DEF Desk, Deleting, IdentityTyped
  <2> QED
    BY <1>2, <1>13, <2>1 DEF AskDeleteRole, Asks
<1>14. CASE DeleteRole(a)
  <2>1. roles' \in SUBSET CustomRoles
    BY <1>14 DEF DeleteRole, IdentityTyped
  <2> QED
    BY <1>1, <1>14, <2>1, QuietType DEF DeleteRole, Rises, IdentityTyped
<1> QED
  BY <1>3, <1>4, <1>5, <1>6, <1>7, <1>8, <1>9, <1>10, <1>11, <1>12, <1>13, <1>14

-----------------------------------------------------------------------------
(* The cached client of a provider *)

\* A request that is not about to drop the client changes neither of the two
LEMMA StillFollows ==
  ASSUME IdentityTyped, CacheFollowsStore, NEW a \in Staff, NEW w, Sits(a, w),
         desk[a].pc # "invalidate", UNCHANGED <<provider, cache, raced>>
  PROVE  CacheFollowsStore'
<1>1. \A c \in Staff : desk[c].pc = "invalidate" => desk'[c].pc = "invalidate"
  BY DeskStep
<1> QED
  BY <1>1 DEF CacheFollowsStore

\* One that changed the provider is about to drop it
LEMMA ToBeDropped ==
  ASSUME IdentityTyped, NEW a \in Staff, Sits(a, [pc |-> "invalidate"])
  PROVE  CacheFollowsStore'
<1>1. desk'[a].pc = "invalidate"
  BY DeskStep
<1> QED
  BY <1>1 DEF CacheFollowsStore

LEMMA QuietIsNot == Quiet.pc = "none"
BY DEF Quiet

LEMMA CacheByLogin ==
  ASSUME IdentityTyped, CacheFollowsStore, NEW b \in Browsers,
         \/ HandleLogin(b) \/ LoadClient(b) \/ StoreClient(b)
         \/ Callback(b) \/ Exchange(b) \/ Provision(b) \/ SyncClaimedRole(b)
  PROVE  CacheFollowsStore'
<1>1. CASE StoreClient(b)
  BY <1>1 DEF StoreClient, CacheFollowsStore, Replaced
<1>2. CASE ~ StoreClient(b)
  <2>1. UNCHANGED <<provider, cache, desk, raced>>
    BY <1>2 DEF HandleLogin, LoadClient, Callback, Exchange, Provision, SyncClaimedRole
  <2> QED
    BY <2>1 DEF CacheFollowsStore
<1> QED
  BY <1>1, <1>2

LEMMA CacheByStaff ==
  ASSUME IdentityTyped, CacheFollowsStore, NEW a \in Staff,
         \/ AskEditProvider(a) \/ EditProvider(a) \/ DeleteProvider(a) \/ Invalidate(a)
         \/ AskCreateUser(a) \/ CreateUser(a) \/ AskUpdateUser(a) \/ CheckRole(a)
         \/ PutUser(a) \/ CreateRole(a) \/ AskDeleteRole(a) \/ DeleteRole(a)
  PROVE  CacheFollowsStore'
<1>1. CASE AskEditProvider(a)
  BY <1>1, StillFollows, QuietIsNot DEF AskEditProvider, Asks
<1>2. CASE EditProvider(a)
  BY <1>2, StillFollows, ToBeDropped DEF EditProvider, Rises
<1>3. CASE DeleteProvider(a)
  BY <1>3, ToBeDropped DEF DeleteProvider, Asks
<1>4. CASE Invalidate(a)
  BY <1>4 DEF Invalidate, CacheFollowsStore
<1>5. CASE AskCreateUser(a)
  BY <1>5, StillFollows, QuietIsNot DEF AskCreateUser, Asks
<1>6. CASE CreateUser(a)
  BY <1>6, StillFollows DEF CreateUser, Rises
<1>7. CASE AskUpdateUser(a)
  BY <1>7, StillFollows, QuietIsNot DEF AskUpdateUser, Asks
<1>8. CASE CheckRole(a)
  BY <1>8, StillFollows DEF CheckRole, Rises
<1>9. CASE PutUser(a)
  BY <1>9, StillFollows DEF PutUser, Rises
<1>10. CASE CreateRole(a)
  BY <1>10, StillFollows, QuietIsNot DEF CreateRole, Asks
<1>11. CASE AskDeleteRole(a)
  BY <1>11, StillFollows, QuietIsNot DEF AskDeleteRole, Asks
<1>12. CASE DeleteRole(a)
  BY <1>12, StillFollows DEF DeleteRole, Rises
<1> QED
  BY <1>1, <1>2, <1>3, <1>4, <1>5, <1>6, <1>7, <1>8, <1>9, <1>10, <1>11, <1>12

-----------------------------------------------------------------------------
(* What logins and requests hold of the users they read *)

\* An identity that had no user may have got one since, but from a later user
\* on.  A record read before is of the same identity as what is stored.
SoundLogin(b) ==
  /\ flow[b].pc \in {"provision", "provisionAgain"} =>
       /\ flow[b].seen <= Len(people)
       /\ \A u \in DOMAIN people :
            people[u].oidc = flow[b].subject => u > flow[b].seen
  /\ flow[b].pc = "found" =>
       /\ flow[b].user \in DOMAIN people
       /\ flow[b].row \in Person /\ flow[b].row.oidc = people[flow[b].user].oidc

\* The listing that a deletion of a role rests on had no such user
SoundRequest(a) ==
  /\ desk[a].pc \in {"role", "write"} =>
       desk[a].user \in DOMAIN people /\ desk[a].row.oidc = people[desk[a].user].oidc
  /\ desk[a].pc = "deleteRole" =>
       \A u \in DOMAIN desk[a].listed :
         ~ (desk[a].listed[u].active /\ desk[a].listed[u].role = desk[a].role)

IdentityInv ==
  /\ IdentityTyped
  /\ CacheFollowsStore
  /\ \A b \in Browsers : SoundLogin(b)
  /\ \A a \in Staff : SoundRequest(a)

\* No step takes a user away, or its identity, and new ones come last
IdentitiesKept ==
  /\ Len(people) <= Len(people')
  /\ \A u \in DOMAIN people : u \in DOMAIN people' /\ people'[u].oidc = people[u].oidc

LEMMA SameKept == ASSUME IdentityTyped, UNCHANGED people PROVE IdentitiesKept
BY DEF IdentitiesKept, IdentityTyped

LEMMA WrittenKept ==
  ASSUME IdentityTyped, NEW u \in DOMAIN people, NEW row \in Person,
         row.oidc = people[u].oidc, people' = [people EXCEPT ![u] = row]
  PROVE  IdentitiesKept
<1>1. Len(people) \in Nat
  BY DEF IdentityTyped
<1> QED
  BY <1>1, WrittenBack DEF IdentitiesKept

\* Of the users, only one that a login is making can disturb another login
LoginsUndisturbed ==
  \A c \in Browsers :
    flow[c].pc \in {"provision", "provisionAgain"} =>
      \A u \in DOMAIN people' \ DOMAIN people : u > flow[c].seen

LEMMA Undisturbed ==
  ASSUME IdentityTyped, IdentityTyped', \A c \in Browsers : SoundLogin(c)
  PROVE  LoginsUndisturbed
<1> SUFFICES ASSUME NEW c \in Browsers, flow[c].pc \in {"provision", "provisionAgain"},
                    NEW u \in DOMAIN people' \ DOMAIN people
             PROVE  u > flow[c].seen
  BY DEF LoginsUndisturbed
<1>1. flow[c].seen \in Nat /\ flow[c].seen <= Len(people)
  BY FlowKinds DEF Returning, SoundLogin
<1>2. u \in Nat /\ u > Len(people) /\ Len(people) \in Nat
  BY DEF IdentityTyped
<1> QED
  BY <1>1, <1>2

LEMMA LoginKept ==
  ASSUME IdentityTyped, IdentityTyped', IdentitiesKept, NEW b \in Browsers,
         \A c \in Browsers : SoundLogin(c), flow'[b] = flow[b]
  PROVE  SoundLogin(b)'
<1>1. LoginsUndisturbed
  BY Undisturbed
<1>2. ASSUME flow[b].pc \in {"provision", "provisionAgain"}
      PROVE  /\ flow[b].seen <= Len(people')
             /\ \A u \in DOMAIN people' :
                  people'[u].oidc = flow[b].subject => u > flow[b].seen
  <2>1. flow[b].seen \in Nat /\ flow[b].seen <= Len(people)
    BY <1>2, FlowKinds DEF Returning, SoundLogin
  <2>2. Len(people) \in Nat /\ Len(people') \in Nat
    BY DEF IdentityTyped
  <2>3. flow[b].seen <= Len(people')
    BY <2>1, <2>2 DEF IdentitiesKept
  <2>4. \A u \in DOMAIN people' :
          people'[u].oidc = flow[b].subject => u > flow[b].seen
    BY <1>1, <1>2 DEF LoginsUndisturbed, IdentitiesKept, SoundLogin
  <2> QED
    BY <2>3, <2>4
<1>3. flow[b].pc = "found" =>
        /\ flow[b].user \in DOMAIN people'
        /\ flow[b].row \in Person /\ flow[b].row.oidc = people'[flow[b].user].oidc
  BY DEF IdentitiesKept, SoundLogin
<1> QED
  BY <1>2, <1>3 DEF SoundLogin

LEMMA RequestKept ==
  ASSUME IdentityTyped, IdentitiesKept, NEW a \in Staff, SoundRequest(a), desk'[a] = desk[a]
  PROVE  SoundRequest(a)'
BY DEF IdentitiesKept, SoundRequest

\* All but the login or the request that makes the step
LEMMA OthersKept ==
  ASSUME IdentityInv, IdentityTyped', IdentitiesKept
  PROVE  /\ \A b \in Browsers : flow'[b] = flow[b] => SoundLogin(b)'
         /\ \A a \in Staff : desk'[a] = desk[a] => SoundRequest(a)'
BY LoginKept, RequestKept DEF IdentityInv

LEMMA NothingRead ==
  ASSUME NEW b \in Browsers,
         flow'[b].pc \notin {"provision", "provisionAgain", "found"}
  PROVE  SoundLogin(b)'
BY DEF SoundLogin

LEMMA NothingAsked ==
  ASSUME NEW a \in Staff, desk'[a].pc \notin {"role", "write", "deleteRole"}
  PROVE  SoundRequest(a)'
BY DEF SoundRequest

\* A step of a login that leaves a sound login
LEMMA LoginSteps ==
  ASSUME IdentityInv, IdentityTyped', IdentitiesKept, CacheFollowsStore',
         NEW b \in Browsers, NEW w, Steps(b, w), SoundLogin(b)', UNCHANGED desk
  PROVE  IdentityInv'
<1>1. \A c \in Browsers : SoundLogin(c)'
  <2> SUFFICES ASSUME NEW c \in Browsers, c # b PROVE SoundLogin(c)'
    OBVIOUS
  <2>1. flow'[c] = flow[c]
    BY FlowStep DEF IdentityInv
  <2> QED
    BY <2>1, OthersKept
<1>2. \A a \in Staff : SoundRequest(a)'
  BY OthersKept
<1> QED
  BY <1>1, <1>2 DEF IdentityInv

LEMMA StaffSteps ==
  ASSUME IdentityInv, IdentityTyped', IdentitiesKept, CacheFollowsStore',
         NEW a \in Staff, NEW w, Sits(a, w), SoundRequest(a)', UNCHANGED flow
  PROVE  IdentityInv'
<1>1. \A c \in Staff : SoundRequest(c)'
  <2> SUFFICES ASSUME NEW c \in Staff, c # a PROVE SoundRequest(c)'
    OBVIOUS
  <2>1. desk'[c] = desk[c]
    BY DeskStep DEF IdentityInv
  <2> QED
    BY <2>1, OthersKept
<1>2. \A b \in Browsers : SoundLogin(b)'
  BY OthersKept
<1> QED
  BY <1>1, <1>2 DEF IdentityInv

LEMMA ReadsOfLogin ==
  ASSUME IdentityInv, NEW b \in Browsers,
         HandleLogin(b) \/ LoadClient(b) \/ StoreClient(b) \/ Callback(b) \/ Exchange(b)
  PROVE  IdentityInv'
<1>1. UNCHANGED <<people, desk>>
  BY DEF HandleLogin, LoadClient, StoreClient, Callback, Exchange
<1>2. IdentityTyped' /\ IdentitiesKept /\ CacheFollowsStore'
  BY <1>1, LoginTyped, SameKept, CacheByLogin DEF IdentityInv
<1>3. ASSUME NEW w, Steps(b, w), w.pc \notin {"provision", "provisionAgain", "found"}
      PROVE  IdentityInv'
  <2>1. flow'[b] = w
    BY <1>3, FlowStep DEF IdentityInv
  <2>2. SoundLogin(b)'
    BY <1>3, <2>1, NothingRead
  <2> QED
    BY <1>1, <1>2, <1>3, <2>2, LoginSteps
<1>4. CASE Ends(b)
  BY <1>3, <1>4, QuietIsNot DEF Ends
<1>5. CASE HandleLogin(b)
  BY <1>3, <1>5 DEF HandleLogin
<1>6. ASSUME flow[b].pc \in {"client", "store"}, NEW pc \in {"store", "idp", "exchange"},
             Steps(b, [flow[b] EXCEPT !.pc = pc])
      PROVE  IdentityInv'
  <2>1. [flow[b] EXCEPT !.pc = pc].pc = pc
    BY <1>6, FlowKinds DEF IdentityInv, Leaving
  <2> QED
    BY <1>3, <1>6, <2>1
<1>7. flow[b].pc \in {"client", "store"} => flow[b].then \in {"idp", "exchange"}
  BY FlowKinds DEF IdentityInv, Leaving
<1>8. CASE LoadClient(b)
  BY <1>4, <1>6, <1>7, <1>8 DEF LoadClient
<1>9. CASE StoreClient(b)
  BY <1>6, <1>7, <1>9 DEF StoreClient
<1>10. CASE Callback(b)
  BY <1>3, <1>4, <1>10 DEF Callback
<1>11. CASE Exchange(b) /\ ~ Ends(b)
  <2> DEFINE known(s, mapped) ==
               [pc |-> "found", subject |-> s, mapped |-> mapped, seen |-> Len(people),
                user |-> 0, row |-> Nobody]
  <2>1. PICK s \in Subjects, mapped \in BuiltinRoles \cup {Nobody} :
          \/ /\ GetByOIDCIdentity(s) = {}
             /\ Steps(b, [known(s, mapped) EXCEPT !.pc = "provision"])
          \/ \E u \in DOMAIN people :
               Steps(b, [known(s, mapped) EXCEPT !.user = u, !.row = people[u]])
    BY <1>11 DEF Exchange, GetByOIDCIdentity
  <2>2. CASE /\ GetByOIDCIdentity(s) = {}
             /\ Steps(b, [known(s, mapped) EXCEPT !.pc = "provision"])
    <3>1. flow'[b] = [known(s, mapped) EXCEPT !.pc = "provision"]
      BY <2>2, FlowStep DEF IdentityInv
    <3>2. flow'[b].pc = "provision" /\ flow'[b].subject = s /\ flow'[b].seen = Len(people)
      BY <3>1
    <3>3. \A u \in DOMAIN people : people[u].oidc # s
      BY <2>2 DEF GetByOIDCIdentity
    <3>4. Len(people) \in Nat
      BY DEF IdentityInv, IdentityTyped
    <3>5. SoundLogin(b)'
      BY <1>1, <3>2, <3>3, <3>4 DEF SoundLogin
    <3> QED
      BY <1>1, <1>2, <2>2, <3>5, LoginSteps
  <2>3. ASSUME NEW u \in DOMAIN people,
               Steps(b, [known(s, mapped) EXCEPT !.user = u, !.row = people[u]])
        PROVE  IdentityInv'
    <3>1. flow'[b] = [known(s, mapped) EXCEPT !.user = u, !.row = people[u]]
      BY <2>3, FlowStep DEF IdentityInv
    <3>2. flow'[b].pc = "found" /\ flow'[b].user = u /\ flow'[b].row = people[u]
      BY <3>1
    <3>3. people[u] \in Person
      BY PersonAt DEF IdentityInv
    <3>4. SoundLogin(b)'
      BY <1>1, <3>2, <3>3 DEF SoundLogin
    <3> QED
      BY <1>1, <1>2, <2>3, <3>4, LoginSteps
  <2> QED
    BY <2>1, <2>2, <2>3
<1> QED
  BY <1>4, <1>5, <1>8, <1>9, <1>10, <1>11

\* The write of a first login, or its second attempt, which looked no later
LEMMA ProvisionSound ==
  ASSUME IdentityInv, NEW b \in Browsers, Provision(b)
  PROVE  IdentityInv'
<1>1. IdentityTyped' /\ CacheFollowsStore' /\ UNCHANGED desk
  BY ProvisionTyped, CacheByLogin DEF IdentityInv, Provision
<1>2. flow[b] \in Returning /\ flow[b].pc \in {"provision", "provisionAgain"}
  BY FlowKinds DEF IdentityInv, Provision
<1> DEFINE again == [flow[b] EXCEPT !.pc = "provisionAgain"]
           role == IF flow[b].mapped = Nobody THEN "viewer" ELSE flow[b].mapped
<1>3. role \in RoleNames /\ flow[b].subject \in Subjects
  BY <1>2 DEF Returning, RoleNames, BuiltinRoles
<1>4. /\ again.pc = "provisionAgain" /\ again.seen = flow[b].seen
      /\ again.subject = flow[b].subject
  BY <1>2 DEF Returning
<1>5. PICK suffixed \in BOOLEAN :
        \/ NewUser(flow[b].subject, suffixed, flow[b].subject, role) /\ Ends(b)
        \/ UNCHANGED people /\ (Ends(b) \/ Steps(b, again))
  BY DEF Provision
<1> HIDE DEF again, role
<1>6. IdentitiesKept
  <2>1. CASE NewUser(flow[b].subject, suffixed, flow[b].subject, role)
    <3>1. Len(people) \in Nat
      BY DEF IdentityInv, IdentityTyped
    <3> QED
      BY <1>3, <2>1, <3>1, Added DEF IdentityInv, IdentitiesKept
  <2> QED
    BY <1>5, <2>1, SameKept DEF IdentityInv
<1>7. CASE Ends(b)
  <2>1. flow'[b] = Quiet
    BY <1>7, FlowStep DEF Ends, IdentityInv
  <2>2. SoundLogin(b)'
    BY <2>1, NothingRead, QuietIsNot
  <2> QED
    BY <1>1, <1>6, <1>7, <2>2, LoginSteps DEF Ends
<1>8. CASE UNCHANGED people /\ Steps(b, again)
  <2>1. flow'[b] = again
    BY <1>8, FlowStep DEF IdentityInv
  <2>2. SoundLogin(b)'
    BY <1>2, <1>4, <1>8, <2>1 DEF SoundLogin, IdentityInv
  <2> QED
    BY <1>1, <1>6, <1>8, <2>2, LoginSteps
<1> QED
  BY <1>5, <1>7, <1>8

LEMMA SyncSound ==
  ASSUME IdentityInv, NEW b \in Browsers, SyncClaimedRole(b)
  PROVE  IdentityInv'
<1>1. /\ flow[b].user \in DOMAIN people /\ flow[b].row \in Person
      /\ flow[b].row.oidc = people[flow[b].user].oidc
  BY DEF IdentityInv, SoundLogin, SyncClaimedRole
<1> DEFINE row == [flow[b].row EXCEPT !.role = flow[b].mapped]
<1>2. IdentityTyped' /\ CacheFollowsStore' /\ row \in Person
  BY <1>1, SyncTyped, CacheByLogin DEF IdentityInv
<1>3. row.oidc = people[flow[b].user].oidc
  BY <1>1 DEF Person
<1>4. people' = [people EXCEPT ![flow[b].user] = row] /\ Ends(b) /\ UNCHANGED desk
  BY DEF SyncClaimedRole
<1> HIDE DEF row
<1>5. IdentitiesKept
  BY <1>1, <1>2, <1>3, <1>4, WrittenKept DEF IdentityInv
<1>6. flow'[b] = Quiet
  BY <1>4, FlowStep DEF Ends, IdentityInv
<1>7. SoundLogin(b)'
  BY <1>6, NothingRead, QuietIsNot
<1> QED
  BY <1>2, <1>4, <1>5, <1>7, LoginSteps DEF Ends

LEMMA RequestsSoundly ==
  ASSUME IdentityInv, NEW a \in Staff,
         \/ AskEditProvider(a) \/ EditProvider(a) \/ DeleteProvider(a) \/ Invalidate(a)
         \/ AskCreateUser(a) \/ CreateUser(a) \/ AskUpdateUser(a) \/ CheckRole(a)
         \/ PutUser(a) \/ CreateRole(a) \/ AskDeleteRole(a) \/ DeleteRole(a)
  PROVE  IdentityInv'
<1>1. IdentityTyped' /\ CacheFollowsStore'
  BY StaffTyped, CacheByStaff DEF IdentityInv
<1>2. ASSUME NEW w, Sits(a, w), w.pc \notin {"role", "write", "deleteRole"},
             IdentitiesKept, UNCHANGED flow
      PROVE  IdentityInv'
  <2>1. desk'[a] = w
    BY <1>2, DeskStep DEF IdentityInv
  <2>2. SoundRequest(a)'
    BY <1>2, <2>1, NothingAsked
  <2> QED
    BY <1>1, <1>2, <2>2, StaffSteps
<1>3. UNCHANGED people => IdentitiesKept
  BY SameKept DEF IdentityInv
<1>4. CASE AskEditProvider(a)
  BY <1>2, <1>3, <1>4 DEF AskEditProvider, Asks
<1>5. CASE EditProvider(a)
  BY <1>2, <1>3, <1>5, QuietIsNot DEF EditProvider, Rises
<1>6. CASE DeleteProvider(a)
  BY <1>2, <1>3, <1>6 DEF DeleteProvider, Asks
<1>7. CASE Invalidate(a)
  BY <1>2, <1>3, <1>7, QuietIsNot DEF Invalidate, Rises
<1>8. CASE AskCreateUser(a)
  BY <1>2, <1>3, <1>8 DEF AskCreateUser, Asks
<1>9. CASE CreateUser(a)
  <2>1. desk[a].name \in Subjects /\ desk[a].role \in RoleNames
    BY <1>9, DeskKinds DEF CreateUser, IdentityInv
  <2>2. CASE NewUser(desk[a].name, FALSE, Nobody, desk[a].role)
    <3>1. Len(people) \in Nat
      BY DEF IdentityInv, IdentityTyped
    <3>2. FALSE \in BOOLEAN /\ Nobody \in Subjects \cup {Nobody} /\ IdentityTyped
      BY DEF IdentityInv
    <3>3. /\ Len(people') = Len(people) + 1
          /\ \A v \in DOMAIN people : v \in DOMAIN people' /\ people'[v] = people[v]
      BY <2>1, <2>2, <3>2, Added
    <3>4. IdentitiesKept
      BY <3>1, <3>3 DEF IdentitiesKept
    <3> QED
      BY <1>2, <1>9, <3>4, QuietIsNot DEF CreateUser, Rises
  <2>3. CASE UNCHANGED people
    BY <1>2, <1>3, <1>9, <2>3, QuietIsNot DEF CreateUser, Rises
  <2> QED
    BY <1>9, <2>2, <2>3 DEF CreateUser
<1>10. CASE AskUpdateUser(a)
  <2>1. PICK u \in DOMAIN people :
          \/ \E active \in BOOLEAN :
               Sits(a, [pc |-> "write", user |-> u, row |-> [people[u] EXCEPT !.active = active]])
          \/ \E r \in CustomRoles \cup {"viewer"} :
               Sits(a, [pc |-> "role", user |-> u, row |-> [people[u] EXCEPT !.role = r]])
    BY <1>10 DEF AskUpdateUser, Asks
  <2>2. ASSUME NEW pc \in {"role", "write"}, NEW row, row.oidc = people[u].oidc,
               Sits(a, [pc |-> pc, user |-> u, row |-> row])
        PROVE  IdentityInv'
    <3>1. desk'[a] = [pc |-> pc, user |-> u, row |-> row]
      BY <2>2, DeskStep DEF IdentityInv
    <3>2. desk'[a].pc = pc /\ desk'[a].user = u /\ desk'[a].row = row
      BY <3>1
    <3>3. SoundRequest(a)'
      BY <1>10, <2>2, <3>2 DEF SoundRequest, AskUpdateUser
    <3> QED
      BY <1>1, <1>3, <1>10, <2>2, <3>3, StaffSteps DEF AskUpdateUser
  <2>3. people[u] \in Person
    BY PersonAt DEF IdentityInv
  <2>4. \A active : [people[u] EXCEPT !.active = active].oidc = people[u].oidc
    BY <2>3 DEF Person
  <2>5. \A r : [people[u] EXCEPT !.role = r].oidc = people[u].oidc
    BY <2>3 DEF Person
  <2> QED
    BY <2>1, <2>2, <2>4, <2>5
<1>11. CASE CheckRole(a)
  <2> DEFINE checked == [desk[a] EXCEPT !.pc = "write"]
  <2>1. /\ desk[a].user \in DOMAIN people
        /\ desk[a].row.oidc = people[desk[a].user].oidc
    BY <1>11 DEF CheckRole, IdentityInv, SoundRequest
  <2>2. checked.pc = "write" /\ checked.user = desk[a].user /\ checked.row = desk[a].row
    BY <1>11, DeskKinds DEF CheckRole, IdentityInv, Writing
  <2>3. Sits(a, checked) \/ Rises(a)
    BY <1>11 DEF CheckRole
  <2> HIDE DEF checked
  <2>4. CASE Sits(a, checked)
    <3>1. desk'[a] = checked
      BY <2>4, DeskStep DEF IdentityInv
    <3>2. SoundRequest(a)'
      BY <1>11, <2>1, <2>2, <3>1 DEF SoundRequest, CheckRole
    <3> QED
      BY <1>1, <1>3, <1>11, <2>4, <3>2, StaffSteps DEF CheckRole
  <2>5. CASE Rises(a)
    BY <1>2, <1>3, <1>11, <2>5, QuietIsNot DEF CheckRole, Rises
  <2> QED
    BY <2>3, <2>4, <2>5
<1>12. CASE PutUser(a)
  <2>1. /\ desk[a].user \in DOMAIN people
        /\ desk[a].row.oidc = people[desk[a].user].oidc
    BY <1>12 DEF PutUser, IdentityInv, SoundRequest
  <2>2. desk[a].row \in Person
    BY <1>12, DeskKinds DEF PutUser, Writing, IdentityInv
  <2>3. IdentitiesKept
    BY <1>12, <2>1, <2>2, WrittenKept DEF PutUser, IdentityInv
  <2> QED
    BY <1>2, <1>12, <2>3, QuietIsNot DEF PutUser, Rises
<1>13. CASE CreateRole(a)
  BY <1>2, <1>3, <1>13, QuietIsNot DEF CreateRole, Asks
<1>14. CASE AskDeleteRole(a)
  <2>1. PICK r \in roles :
          /\ ~ RoleAssignedToActiveUsers(r)
          /\ Sits(a, [pc |-> "deleteRole", role |-> r, listed |-> people])
    BY <1>14 DEF AskDeleteRole, Asks
  <2>2. desk'[a] = [pc |-> "deleteRole", role |-> r, listed |-> people]
    BY <2>1, DeskStep DEF IdentityInv
  <2>3. desk'[a].pc = "deleteRole" /\ desk'[a].role = r /\ desk'[a].listed = people
    BY <2>2
  <2>4. SoundRequest(a)'
    BY <2>1, <2>3 DEF SoundRequest, RoleAssignedToActiveUsers
  <2> QED
    BY <1>1, <1>3, <1>14, <2>1, <2>4, StaffSteps DEF AskDeleteRole
<1>15. CASE DeleteRole(a)
  BY <1>2, <1>3, <1>15, QuietIsNot DEF DeleteRole, Rises
<1> QED
  BY <1>4, <1>5, <1>6, <1>7, <1>8, <1>9, <1>10, <1>11, <1>12, <1>13, <1>14, <1>15

LEMMA IdentityInitInv == IdentityInit => IdentityInv
<1> SUFFICES ASSUME IdentityInit PROVE IdentityInv
  OBVIOUS
<1>1. IdentityTyped
  BY IdTypedInit
<1>2. CacheFollowsStore
  BY DEF IdentityInit, CacheFollowsStore
<1>3. \A b \in Browsers : flow[b].pc = "none"
  BY QuietIsNot DEF IdentityInit
<1>4. \A a \in Staff : desk[a].pc = "none"
  BY QuietIsNot DEF IdentityInit
<1> QED
  BY <1>1, <1>2, <1>3, <1>4 DEF IdentityInv, SoundLogin, SoundRequest

LEMMA IdentityStep == IdentityInv /\ [IdentityNext]_identityVars => IdentityInv'
<1> SUFFICES ASSUME IdentityInv, [IdentityNext]_identityVars PROVE IdentityInv'
  OBVIOUS
<1>1. CASE UNCHANGED identityVars
  BY <1>1 DEF identityVars, IdentityInv, IdentityTyped, CacheFollowsStore, SoundLogin, SoundRequest
<1>2. CASE \E b \in Browsers :
             \/ HandleLogin(b) \/ LoadClient(b) \/ StoreClient(b)
             \/ Callback(b) \/ Exchange(b) \/ Provision(b) \/ SyncClaimedRole(b)
  BY <1>2, ReadsOfLogin, ProvisionSound, SyncSound
<1>3. CASE \E a \in Staff :
             \/ AskEditProvider(a) \/ EditProvider(a) \/ DeleteProvider(a) \/ Invalidate(a)
             \/ AskCreateUser(a) \/ CreateUser(a) \/ AskUpdateUser(a) \/ CheckRole(a)
             \/ PutUser(a) \/ CreateRole(a) \/ AskDeleteRole(a) \/ DeleteRole(a)
  BY <1>3, RequestsSoundly
<1> QED
  BY <1>1, <1>2, <1>3 DEF IdentityNext

\* The cached client is never older than the stored configuration, and what a
\* waiting login or request has read stands to the store as when it read it.
THEOREM IdentityInvariant == IdentitySpec => []IdentityInv
BY IdentityInitInv, IdentityStep, PTL DEF IdentitySpec

(***************************************************************************)
(* The cached client of a provider is the one of its stored configuration, *)
(* but for the moment before an edit drops it and a client cached too late.*)
(***************************************************************************)
THEOREM CacheTheorem == IdentitySpec => []CacheFollowsStore
<1>1. IdentityInv => CacheFollowsStore
  BY DEF IdentityInv
<1> QED
  BY <1>1, IdentityInvariant, PTL

\* The body of TwinsOnlyByRace
LoneIdentities ==
  \A b \in Browsers :
    flow[b] # flow'[b] /\ Len(people') > Len(people) =>
      \A u \in DOMAIN people : people[u].oidc = flow[b].subject => u > flow[b].seen

LEMMA TwinsStep == IdentityInv /\ [IdentityNext]_identityVars => LoneIdentities
<1> SUFFICES ASSUME IdentityInv, [IdentityNext]_identityVars,
                    NEW b \in Browsers, flow[b] # flow'[b], Len(people') > Len(people)
             PROVE  \A u \in DOMAIN people :
                      people[u].oidc = flow[b].subject => u > flow[b].seen
  BY DEF LoneIdentities
<1>1. Len(people) \in Nat /\ people' # people
  BY DEF IdentityInv, IdentityTyped
<1>2. PICK c \in Browsers : Provision(c) \/ SyncClaimedRole(c)
  BY <1>1 DEF IdentityNext, identityVars, HandleLogin, LoadClient, StoreClient, Callback,
              Exchange, AskEditProvider, EditProvider, DeleteProvider, Invalidate,
              AskCreateUser, CreateUser, AskUpdateUser, CheckRole, PutUser, CreateRole,
              AskDeleteRole, DeleteRole
<1>3. CASE SyncClaimedRole(c)
  <2>1. flow[c].row \in Person
    BY <1>3 DEF IdentityInv, SoundLogin, SyncClaimedRole
  <2>2. [flow[c].row EXCEPT !.role = flow[c].mapped] \in Person
    BY <1>3, <2>1, SyncTyped DEF IdentityInv
  <2>3. Len(people') = Len(people)
    BY <1>3, <2>2, WrittenBack DEF IdentityInv, SyncClaimedRole
  <2> QED
    BY <1>1, <2>3
<1>4. CASE Provision(c)
  <2>1. PICK w : Steps(c, w)
    BY <1>4 DEF Provision, Ends
  <2>2. b = c
    BY <2>1, FlowStep DEF IdentityInv
  <2>3. flow[b].pc \in {"provision", "provisionAgain"}
    BY <1>4, <2>2 DEF Provision
  <2> QED
    BY <2>3 DEF IdentityInv, SoundLogin
<1> QED
  BY <1>2, <1>3, <1>4

(***************************************************************************)
(* A second user of one identity is made only by a callback that had       *)
(* looked for the first before it was made: users never lose their         *)
(* identity, and a callback creates only after a search that found nobody. *)
(***************************************************************************)
THEOREM TwinsTheorem == IdentitySpec => TwinsOnlyByRace
<1>1. IdentityInv /\ [IdentityNext]_identityVars => [LoneIdentities]_identityVars
  BY TwinsStep
<1>2. IdentitySpec => [][LoneIdentities]_identityVars
  BY <1>1, IdentityInvariant, PTL DEF IdentitySpec
<1> QED
  BY <1>2 DEF TwinsOnlyByRace, LoneIdentities

\* The body of RolesInUseStay
RoleFree ==
  \A a \in Staff, u \in DOMAIN people :
    LET r == people[u].role IN
    people[u].active /\ r \in roles /\ r \notin roles' /\ desk[a] # desk'[a] =>
      LET before == desk[a].listed IN
      ~ (u \in DOMAIN before /\ before[u].active /\ before[u].role = r)

LEMMA RolesStep == IdentityInv /\ [IdentityNext]_identityVars => RoleFree
<1> SUFFICES ASSUME IdentityInv, [IdentityNext]_identityVars,
                    NEW a \in Staff, NEW u \in DOMAIN people,
                    people[u].role \in roles, people[u].role \notin roles', desk[a] # desk'[a]
             PROVE  ~ (/\ u \in DOMAIN desk[a].listed
                       /\ desk[a].listed[u].active
                       /\ desk[a].listed[u].role = people[u].role)
  BY DEF RoleFree
<1>1. PICK c \in Staff : DeleteRole(c) \/ CreateRole(c)
  BY DEF IdentityNext, identityVars, HandleLogin, LoadClient, StoreClient, Callback,
         Exchange, Provision, SyncClaimedRole, AskEditProvider, EditProvider, DeleteProvider,
         Invalidate, AskCreateUser, CreateUser, AskUpdateUser, CheckRole, PutUser,
         AskDeleteRole
<1>2. DeleteRole(c)
  BY <1>1 DEF CreateRole
<1>3. a = c
  BY <1>2, DeskStep DEF DeleteRole, Rises, IdentityInv
<1>4. people[u].role = desk[a].role /\ desk[a].pc = "deleteRole"
  BY <1>2, <1>3 DEF DeleteRole
<1> QED
  BY <1>4 DEF IdentityInv, SoundRequest

(***************************************************************************)
(* A deletion never takes a role from an active user that had it when the  *)
(* deletion listed the users.                                              *)
(***************************************************************************)
THEOREM RolesTheorem == IdentitySpec => RolesInUseStay
<1>1. IdentityInv /\ [IdentityNext]_identityVars => [RoleFree]_identityVars
  BY RolesStep
<1>2. IdentitySpec => [][RoleFree]_identityVars
  BY <1>1, IdentityInvariant, PTL DEF IdentitySpec
<1> QED
  BY <1>2 DEF RolesInUseStay, RoleFree

-----------------------------------------------------------------------------
(***************************************************************************)
(* ApiKeys                                                                 *)
(***************************************************************************)

-----------------------------------------------------------------------------
(* Types. *)

Due == [key : Nat, expires : Nat]

Event == [key : Nat, expires : Nat, since : Nat \ {0}, until : Nat, blind : BOOLEAN]

KeyWork ==
  {NoKeyWork} \cup [op : {"create"}, key : ApiKey] \cup [op : {"revoke"}, key : Nat]
    \cup [op : {"remind"}, due : SUBSET Due]
    \cup [op : {"log"}, due : SUBSET Due, event : Event]

KeysTyped ==
  /\ apiKeys \in Seq(ApiKey)
  /\ policy \in Policies
  /\ keyWork \in [KeyHandlers -> KeyWork]
  /\ auditLog \in Seq(Event)
  /\ day \in Nat

\* What op says of a handler's request
LEMMA KeyWorkKinds ==
  ASSUME KeysTyped, NEW h \in KeyHandlers
  PROVE  /\ keyWork[h].op = "create" => keyWork[h] \in [op : {"create"}, key : ApiKey]
         /\ keyWork[h].op = "revoke" => keyWork[h] \in [op : {"revoke"}, key : Nat]
         /\ keyWork[h].op = "remind" => keyWork[h] \in [op : {"remind"}, due : SUBSET Due]
         /\ keyWork[h].op = "log" =>
              keyWork[h] \in [op : {"log"}, due : SUBSET Due, event : Event]
BY DEF KeysTyped, KeyWork, NoKeyWork

LEMMA KeyAt ==
  ASSUME KeysTyped, NEW k \in DOMAIN apiKeys
  PROVE  k \in Nat /\ apiKeys[k] \in ApiKey
<1>1. DOMAIN apiKeys = 1 .. Len(apiKeys) /\ Len(apiKeys) \in Nat
  BY DEF KeysTyped
<1> QED
  BY <1>1 DEF KeysTyped

\* The lifetime of a key is a number of days
LEMMA LifetimeType ==
  ASSUME NEW p \in Policies, NEW requested \in Requested
  PROVE  Lifetime(requested, p) \in Nat
BY ApiKeysAssumption DEF Lifetime

LEMMA NewKeyType ==
  ASSUME KeysTyped, NEW owner \in Callers \cup {"nobody"}, NEW days \in Nat
  PROVE  NewKey(owner, days) \in ApiKey
BY DEF KeysTyped, NewKey, ApiKey

LEMMA OldestType ==
  ASSUME KeysTyped
  PROVE  Oldest \in Nat \ {0}
<1>1. Len(auditLog) \in Nat
  BY DEF KeysTyped
<1> QED
  BY <1>1, ApiKeysAssumption DEF Oldest

LEMMA RemindType ==
  ASSUME NEW due \in SUBSET Due
  PROVE  Remind(due) \in KeyWork
BY DEF Remind, KeyWork, NoKeyWork

LEMMA StepType ==
  ASSUME KeysTyped, NEW h \in KeyHandlers, NEW w \in KeyWork, KeyStep(h, w)
  PROVE  keyWork' \in [KeyHandlers -> KeyWork]
BY DEF KeysTyped, KeyStep

\* A key that is replaced by another leaves a sequence of keys
LEMMA ReplaceType ==
  ASSUME KeysTyped, NEW k, NEW key,
         k \in DOMAIN apiKeys => key \in ApiKey,
         apiKeys' = [apiKeys EXCEPT ![k] = key]
  PROVE  /\ apiKeys' \in Seq(ApiKey)
         /\ DOMAIN apiKeys' = DOMAIN apiKeys
         /\ k \in DOMAIN apiKeys => apiKeys'[k] = key
         /\ \A l \in DOMAIN apiKeys \ {k} : apiKeys'[l] = apiKeys[l]
<1>1. CASE k \in DOMAIN apiKeys
  <2>1. k \in 1 .. Len(apiKeys) /\ key \in ApiKey
    BY <1>1 DEF KeysTyped
  <2>2. /\ apiKeys' \in Seq(ApiKey)
        /\ Len(apiKeys') = Len(apiKeys)
        /\ \A l \in 1 .. Len(apiKeys) : apiKeys'[l] = IF l = k THEN key ELSE apiKeys[l]
    BY <2>1, ExceptSeq DEF KeysTyped
  <2>3. DOMAIN apiKeys = 1 .. Len(apiKeys) /\ DOMAIN apiKeys' = 1 .. Len(apiKeys')
    BY <2>2 DEF KeysTyped
  <2> QED
    BY <2>1, <2>2, <2>3
<1>2. CASE k \notin DOMAIN apiKeys
  <2>1. apiKeys = [l \in DOMAIN apiKeys |-> apiKeys[l]]
    BY DEF KeysTyped
  <2>2. apiKeys' = [l \in DOMAIN apiKeys |-> IF l = k THEN key ELSE apiKeys[l]]
    OBVIOUS
  <2>3. apiKeys' = apiKeys
    BY <1>2, <2>1, <2>2
  <2> QED
    BY <1>2, <2>3 DEF KeysTyped
<1> QED
  BY <1>1, <1>2

LEMMA TypedInit == KeysInit => KeysTyped
BY ApiKeysAssumption DEF KeysInit, KeysTyped, KeyWork, NoKeyWork

LEMMA TypedStep == KeysTyped /\ [KeysNext]_keyVars => KeysTyped'
<1> SUFFICES ASSUME KeysTyped, [KeysNext]_keyVars
             PROVE  KeysTyped'
  OBVIOUS
<1>1. ASSUME NEW h \in KeyHandlers, NEW who \in Callers, NEW requested \in Requested,
             AskForKey(h, who, requested)
      PROVE  KeysTyped'
  <2> DEFINE key == NewKey(who, Lifetime(requested, policy))
  <2>1. key \in ApiKey
    BY LifetimeType, NewKeyType DEF KeysTyped
  <2>2. [op |-> "create", key |-> key] \in KeyWork
    BY <2>1 DEF KeyWork
  <2>3. KeyStep(h, [op |-> "create", key |-> key])
    BY <1>1 DEF AskForKey
  <2>4. keyWork' \in [KeyHandlers -> KeyWork]
    BY <2>2, <2>3, StepType
  <2> QED
    BY <1>1, <2>4 DEF AskForKey, KeysTyped
<1>2. ASSUME NEW h \in KeyHandlers, ProvisionAgent(h)
      PROVE  KeysTyped'
  <2>1. [op |-> "create", key |-> NewKey("nobody", 0)] \in KeyWork
    BY NewKeyType DEF KeyWork
  <2>2. keyWork' \in [KeyHandlers -> KeyWork]
    BY <1>2, <2>1, StepType DEF ProvisionAgent
  <2> QED
    BY <1>2, <2>2 DEF ProvisionAgent, KeysTyped
<1>3. ASSUME NEW h \in KeyHandlers, CreateKey(h)
      PROVE  KeysTyped'
  <2>1. keyWork[h].key \in ApiKey
    BY <1>3, KeyWorkKinds DEF CreateKey
  <2>2. apiKeys' \in Seq(ApiKey)
    BY <1>3, <2>1 DEF CreateKey, KeysTyped
  <2>3. keyWork' \in [KeyHandlers -> KeyWork]
    BY <1>3, StepType DEF CreateKey, KeyWork
  <2> QED
    BY <1>3, <2>2, <2>3 DEF CreateKey, KeysTyped
<1>4. ASSUME NEW h \in KeyHandlers, NEW who \in Callers, NEW k \in DOMAIN apiKeys,
             AskToRevoke(h, who, k)
      PROVE  KeysTyped'
  <2>1. [op |-> "revoke", key |-> k] \in KeyWork
    BY DEF KeyWork, KeysTyped
  <2>2. keyWork' \in [KeyHandlers -> KeyWork]
    BY <1>4, <2>1, StepType DEF AskToRevoke
  <2> QED
    BY <1>4, <2>2 DEF AskToRevoke, KeysTyped
<1>5. ASSUME NEW h \in KeyHandlers, RevokeKey(h)
      PROVE  KeysTyped'
  <2>1. keyWork' \in [KeyHandlers -> KeyWork]
    BY <1>5, StepType DEF RevokeKey, KeyWork
  <2>2. apiKeys' \in Seq(ApiKey)
    <3> DEFINE k == keyWork[h].key
               key == [apiKeys[k] EXCEPT !.revoked = TRUE]
    <3>1. apiKeys' = [apiKeys EXCEPT ![k] = key] \/ apiKeys' = apiKeys
      BY <1>5 DEF RevokeKey
    <3>2. k \in DOMAIN apiKeys => key \in ApiKey
      BY KeyAt DEF ApiKey
    <3> QED
      BY <3>1, <3>2, ReplaceType DEF KeysTyped
  <2> QED
    BY <1>5, <2>1, <2>2 DEF RevokeKey, KeysTyped
<1>6. ASSUME NEW h \in KeyHandlers, NEW who \in Callers, ListKeys(h, who)
      PROVE  KeysTyped'
  <2> DEFINE due == {k \in {i \in DOMAIN apiKeys : who = Admin \/ apiKeys[i].owner = who} :
                       RotationDue(apiKeys[k])}
             ends == {[key |-> k, expires |-> apiKeys[k].expires] : k \in due}
  <2>1. \A k \in DOMAIN apiKeys : k \in Nat /\ apiKeys[k].expires \in Nat
    BY KeyAt DEF ApiKey
  <2>2. \A k \in due : [key |-> k, expires |-> apiKeys[k].expires] \in Due
    BY <2>1 DEF Due
  <2>3. ends \in SUBSET Due
    BY <2>2
  <2>4. Remind(ends) \in KeyWork
    BY <2>3, RemindType
  <2>5. KeyStep(h, Remind(ends))
    BY <1>6 DEF ListKeys
  <2>6. keyWork' \in [KeyHandlers -> KeyWork]
    BY <2>4, <2>5, StepType
  <2> QED
    BY <1>6, <2>6 DEF ListKeys, KeysTyped
<1>7. ASSUME NEW h \in KeyHandlers, CheckReminder(h)
      PROVE  KeysTyped'
  <2>1. keyWork[h].due \in SUBSET Due
    BY <1>7, KeyWorkKinds DEF CheckReminder
  <2> DEFINE Event1(d, blind) == [key |-> d.key, expires |-> d.expires,
                                  since |-> Oldest, until |-> Len(auditLog), blind |-> blind]
  <2>2. PICK d \in NextDue(keyWork[h].due) :
          \/ KeyStep(h, Remind(keyWork[h].due \ {d}))
          \/ \E blind \in BOOLEAN :
               KeyStep(h, [op |-> "log", due |-> keyWork[h].due \ {d},
                           event |-> Event1(d, blind)])
    BY <1>7 DEF CheckReminder
  <2>3. d \in Due /\ keyWork[h].due \ {d} \in SUBSET Due
    BY <2>1 DEF NextDue
  <2>4. \A blind \in BOOLEAN : Event1(d, blind) \in Event
    BY <2>3, OldestType DEF Due, Event, KeysTyped
  <2>5. \A blind \in BOOLEAN :
          [op |-> "log", due |-> keyWork[h].due \ {d}, event |-> Event1(d, blind)] \in KeyWork
    BY <2>3, <2>4 DEF KeyWork
  <2> HIDE DEF Event1
  <2>6. keyWork' \in [KeyHandlers -> KeyWork]
    BY <2>2, <2>3, <2>5, RemindType, StepType
  <2> QED
    BY <1>7, <2>6 DEF CheckReminder, KeysTyped
<1>8. ASSUME NEW h \in KeyHandlers, LogReminder(h)
      PROVE  KeysTyped'
  <2>1. keyWork[h].due \in SUBSET Due /\ keyWork[h].event \in Event
    BY <1>8, KeyWorkKinds DEF LogReminder
  <2>2. keyWork' \in [KeyHandlers -> KeyWork]
    BY <1>8, <2>1, RemindType, StepType DEF LogReminder
  <2>3. auditLog' \in Seq(Event)
    BY <1>8, <2>1 DEF LogReminder, LogEvent, KeysTyped
  <2> QED
    BY <1>8, <2>2, <2>3 DEF LogReminder, KeysTyped
<1>9. ASSUME NEW k \in DOMAIN apiKeys, PresentKey(k)
      PROVE  KeysTyped'
  BY <1>9 DEF PresentKey, KeysTyped
<1>10. ASSUME NEW t \in touches, UpdateLastUsed(t)
       PROVE  KeysTyped'
  <2>1. apiKeys' \in Seq(ApiKey)
    <3>1. t.key \in DOMAIN apiKeys => Touched(t) \in ApiKey
      BY KeyAt DEF Touched, KeysTyped, ApiKey
    <3> QED
      BY <1>10, <3>1, ReplaceType DEF UpdateLastUsed, KeysTyped
  <2> QED
    BY <1>10, <2>1 DEF UpdateLastUsed, KeysTyped
<1>11. CASE LogOther
  BY <1>11 DEF LogOther, LogEvent, KeysTyped, Event
<1>12. ASSUME NEW p \in Policies, UpdatePolicy(p)
       PROVE  KeysTyped'
  BY <1>12 DEF UpdatePolicy, KeysTyped
<1>13. CASE DayPasses
  BY <1>13 DEF DayPasses, KeysTyped
<1>14. CASE UNCHANGED keyVars
  BY <1>14 DEF keyVars, KeysTyped
<1> QED
  BY <1>1, <1>2, <1>3, <1>4, <1>5, <1>6, <1>7, <1>8, <1>9, <1>10, <1>11, <1>12, <1>13,
     <1>14 DEF KeysNext

-----------------------------------------------------------------------------
(* Revocation. *)

\* A revoked key stays revoked (UpdateLastUsed beside Revoke): a step adds a key, sets
\* the time of use of one, or revokes one.
THEOREM RevokedTheorem == KeysSpec => RevokedStays
<1> DEFINE Stays == \A k \in DOMAIN apiKeys : apiKeys[k].revoked => apiKeys'[k].revoked
<1>1. KeysTyped /\ [KeysNext]_keyVars => [Stays]_keyVars
  <2> SUFFICES ASSUME KeysTyped, KeysNext
               PROVE  Stays
    BY DEF keyVars
  <2>1. ASSUME NEW h \in KeyHandlers, CreateKey(h)
        PROVE  Stays
    <3>1. keyWork[h].key \in ApiKey
      BY <2>1, KeyWorkKinds DEF CreateKey
    <3> QED
      BY <2>1, <3>1 DEF CreateKey, KeysTyped
  <2>2. ASSUME NEW h \in KeyHandlers, RevokeKey(h)
        PROVE  Stays
    <3> DEFINE k == keyWork[h].key
               key == [apiKeys[k] EXCEPT !.revoked = TRUE]
    <3>1. apiKeys' = [apiKeys EXCEPT ![k] = key] \/ apiKeys' = apiKeys
      BY <2>2 DEF RevokeKey
    <3>2. k \in DOMAIN apiKeys => key \in ApiKey /\ key.revoked
      BY KeyAt DEF ApiKey
    <3> QED
      BY <3>1, <3>2, ReplaceType
  <2>3. ASSUME NEW t \in touches, UpdateLastUsed(t)
        PROVE  Stays
    <3>1. t.key \in DOMAIN apiKeys =>
            Touched(t) \in ApiKey /\ Touched(t).revoked = apiKeys[t.key].revoked
      BY KeyAt DEF Touched, KeysTyped, ApiKey
    <3> QED
      BY <2>3, <3>1, ReplaceType DEF UpdateLastUsed
  <2>4. CASE UNCHANGED apiKeys
    BY <2>4
  <2> QED
    BY <2>1, <2>2, <2>3, <2>4 DEF KeysNext, AskForKey, ProvisionAgent, AskToRevoke, ListKeys,
       CheckReminder, LogReminder, PresentKey, LogOther, UpdatePolicy, DayPasses
<1> QED
  BY <1>1, TypedInit, TypedStep, PTL DEF KeysSpec, RevokedStays

-----------------------------------------------------------------------------
(* Reminders. *)

\* The log holds no reminder of e's end at the positions that were looked at for e
Unseen(e) ==
  /\ e.until <= Len(auditLog)
  /\ ~ e.blind => \A n \in e.since .. e.until :
                     auditLog[n].key # e.key \/ auditLog[n].expires # e.expires

\* What a listing is about to log was not there when it looked, and events do not
\* move: without this, nothing ties the reminder to the log it is added to.
LooksSound ==
  \A h \in KeyHandlers : keyWork[h].op = "log" => Unseen(keyWork[h].event)

RemindInv == KeysTyped /\ LooksSound /\ RemindedByRaceOnly

\* The log keeps its events where they are
LEMMA LogGrows ==
  ASSUME KeysTyped, NEW e \in Event, LogEvent(e)
  PROVE  /\ Len(auditLog) \in Nat
         /\ DOMAIN auditLog = 1 .. Len(auditLog)
         /\ DOMAIN auditLog' = 1 .. Len(auditLog) + 1
         /\ Len(auditLog') = Len(auditLog) + 1
         /\ \A n \in 1 .. Len(auditLog) : auditLog'[n] = auditLog[n]
         /\ auditLog'[Len(auditLog) + 1] = e
BY DEF KeysTyped, LogEvent

LEMMA UnseenStays ==
  ASSUME KeysTyped, NEW e \in Event, LogEvent(e), NEW f \in Event, Unseen(f)
  PROVE  Unseen(f)'
<1>1. f.since .. f.until \subseteq 1 .. Len(auditLog)
  BY LogGrows DEF Unseen, Event
<1>2. f.until <= Len(auditLog')
  BY LogGrows DEF Unseen, Event
<1> QED
  BY <1>1, <1>2, LogGrows DEF Unseen

\* An event that repeats no reminder within what was looked at for it may be logged
LEMMA LogKeepsRaces ==
  ASSUME KeysTyped, RemindedByRaceOnly, NEW e \in Event, LogEvent(e),
         e.key # 0 => Unseen(e)
  PROVE  RemindedByRaceOnly'
<1> SUFFICES ASSUME NEW m \in DOMAIN auditLog', NEW n \in DOMAIN auditLog',
                    m < n, auditLog'[m].key # 0,
                    auditLog'[m].key = auditLog'[n].key,
                    auditLog'[m].expires = auditLog'[n].expires
             PROVE  \/ auditLog'[n].until < m
                    \/ auditLog'[n].since > m
                    \/ auditLog'[n].blind
  BY DEF RemindedByRaceOnly
<1>1. m \in 1 .. Len(auditLog) /\ auditLog'[m] = auditLog[m]
  BY LogGrows
<1>2. CASE n \in 1 .. Len(auditLog)
  <2>1. auditLog'[n] = auditLog[n] /\ m \in DOMAIN auditLog /\ n \in DOMAIN auditLog
    BY <1>1, <1>2, LogGrows
  <2> QED
    BY <1>1, <2>1 DEF RemindedByRaceOnly
<1>3. CASE n = Len(auditLog) + 1
  <2>1. auditLog'[n] = e
    BY <1>3, LogGrows
  <2>2. Unseen(e)
    BY <1>1, <2>1
  <2>3. ~ e.blind => m \notin e.since .. e.until
    BY <1>1, <2>1, <2>2 DEF Unseen
  <2>4. e.since \in Nat /\ e.until \in Nat /\ m \in Nat
    BY <1>1 DEF Event
  <2> QED
    BY <2>1, <2>3, <2>4
<1> QED
  BY <1>2, <1>3, LogGrows

LEMMA RemindInit == KeysInit => RemindInv
<1> SUFFICES ASSUME KeysInit PROVE RemindInv
  OBVIOUS
<1>1. LooksSound
  BY DEF KeysInit, LooksSound, NoKeyWork
<1>2. RemindedByRaceOnly
  BY DEF KeysInit, RemindedByRaceOnly
<1> QED
  BY <1>1, <1>2, TypedInit DEF RemindInv

LEMMA RemindStep == RemindInv /\ [KeysNext]_keyVars => RemindInv'
<1> SUFFICES ASSUME RemindInv, [KeysNext]_keyVars
             PROVE  LooksSound' /\ RemindedByRaceOnly'
  BY TypedStep DEF RemindInv
<1> USE DEF RemindInv
<1>1. ASSUME NEW h \in KeyHandlers, NEW w \in KeyWork, KeyStep(h, w), UNCHANGED auditLog,
             w.op = "log" => Unseen(w.event)
      PROVE  LooksSound' /\ RemindedByRaceOnly'
  <2>1. \A g \in KeyHandlers : keyWork'[g] = IF g = h THEN w ELSE keyWork[g]
    BY <1>1 DEF KeyStep, KeysTyped
  <2>2. \A g \in KeyHandlers : keyWork'[g].op = "log" => Unseen(keyWork'[g].event)
    BY <1>1, <2>1 DEF LooksSound
  <2> QED
    BY <1>1, <2>2 DEF LooksSound, Unseen, RemindedByRaceOnly
<1>2. ASSUME NEW h \in KeyHandlers, NEW w, KeyStep(h, w), UNCHANGED auditLog,
             w.op # "log"
      PROVE  LooksSound' /\ RemindedByRaceOnly'
  <2>1. \A g \in KeyHandlers : keyWork'[g] = IF g = h THEN w ELSE keyWork[g]
    BY <1>2 DEF KeyStep, KeysTyped
  <2>2. \A g \in KeyHandlers : keyWork'[g].op = "log" => Unseen(keyWork'[g].event)
    BY <1>2, <2>1 DEF LooksSound
  <2> QED
    BY <1>2, <2>2 DEF LooksSound, Unseen, RemindedByRaceOnly
<1>3. ASSUME NEW due PROVE Remind(due).op # "log"
  BY DEF Remind, NoKeyWork
<1>4. ASSUME NEW h \in KeyHandlers, NEW who \in Callers, ListKeys(h, who)
      PROVE  LooksSound' /\ RemindedByRaceOnly'
  BY <1>2, <1>3, <1>4 DEF ListKeys
<1>5. ASSUME NEW h \in KeyHandlers, CheckReminder(h)
      PROVE  LooksSound' /\ RemindedByRaceOnly'
  <2> DEFINE Looked(d, blind) == [key |-> d.key, expires |-> d.expires,
                                  since |-> Oldest, until |-> Len(auditLog), blind |-> blind]
             rest(d) == keyWork[h].due \ {d}
             LogWork(d, blind) == [op |-> "log", due |-> rest(d), event |-> Looked(d, blind)]
  <2>1. keyWork[h].due \in SUBSET Due
    BY <1>5, KeyWorkKinds DEF CheckReminder
  <2>2. PICK d \in NextDue(keyWork[h].due) :
          \/ KeyStep(h, Remind(rest(d)))
          \/ ~ Reminded(d) /\ KeyStep(h, LogWork(d, FALSE))
          \/ KeyStep(h, LogWork(d, TRUE))
    BY <1>5 DEF CheckReminder
  <2>3. UNCHANGED auditLog
    BY <1>5 DEF CheckReminder
  <2>4. CASE KeyStep(h, Remind(rest(d)))
    BY <1>2, <1>3, <2>3, <2>4
  <2>5. \A blind \in BOOLEAN : LogWork(d, blind) \in KeyWork
    <3>1. d \in Due /\ rest(d) \in SUBSET Due
      BY <2>1 DEF NextDue
    <3>2. \A blind \in BOOLEAN : Looked(d, blind) \in Event
      BY <3>1, OldestType DEF Due, Event, KeysTyped
    <3> HIDE DEF Looked
    <3> QED
      BY <3>1, <3>2 DEF KeyWork
  <2>6. CASE ~ Reminded(d) /\ KeyStep(h, LogWork(d, FALSE))
    <3>1. Unseen(Looked(d, FALSE))
      BY <2>6 DEF Unseen, Reminded, KeysTyped
    <3> QED
      BY <1>1, <2>3, <2>5, <2>6, <3>1
  <2>7. CASE KeyStep(h, LogWork(d, TRUE))
    <3>1. Unseen(Looked(d, TRUE))
      BY DEF Unseen, KeysTyped
    <3> QED
      BY <1>1, <2>3, <2>5, <2>7, <3>1
  <2> QED
    BY <2>2, <2>4, <2>6, <2>7
<1>6. ASSUME NEW e \in Event, LogEvent(e), e.key # 0 => Unseen(e),
             \A g \in KeyHandlers : keyWork'[g].op = "log" => keyWork'[g] = keyWork[g]
      PROVE  LooksSound' /\ RemindedByRaceOnly'
  <2>1. ASSUME NEW g \in KeyHandlers, keyWork'[g].op = "log"
        PROVE  Unseen(keyWork[g].event)'
    <3>1. keyWork'[g] = keyWork[g] /\ keyWork[g].op = "log"
      BY <1>6, <2>1
    <3>2. keyWork[g].event \in Event /\ Unseen(keyWork[g].event)
      BY <3>1, KeyWorkKinds DEF LooksSound
    <3>3. PICK f \in Event : f = keyWork[g].event /\ Unseen(f)
      BY <3>2
    <3>4. Unseen(f)'
      BY <1>6, <3>3, UnseenStays
    <3>5. f = keyWork'[g].event
      BY <3>1, <3>3
    <3> QED
      BY <3>4, <3>5 DEF Unseen
  <2>2. LooksSound'
    BY <2>1 DEF LooksSound
  <2>3. RemindedByRaceOnly'
    BY <1>6, LogKeepsRaces
  <2> QED
    BY <2>2, <2>3
<1>7. ASSUME NEW h \in KeyHandlers, LogReminder(h)
      PROVE  LooksSound' /\ RemindedByRaceOnly'
  <2>1. keyWork[h].op = "log" /\ keyWork[h].event \in Event /\ Unseen(keyWork[h].event)
    BY <1>7, KeyWorkKinds DEF LogReminder, LooksSound
  <2>2. CASE UNCHANGED auditLog
    BY <1>2, <1>3, <1>7, <2>2 DEF LogReminder
  <2>3. CASE LogEvent(keyWork[h].event)
    <3>1. \A g \in KeyHandlers : keyWork'[g].op = "log" => keyWork'[g] = keyWork[g]
      BY <1>3, <1>7 DEF LogReminder, KeyStep, KeysTyped
    <3> QED
      BY <1>6, <2>1, <2>3, <3>1
  <2> QED
    BY <1>7, <2>2, <2>3 DEF LogReminder
<1>8. CASE LogOther
  <2> DEFINE e == [key |-> 0, expires |-> 0, since |-> 1, until |-> 0, blind |-> FALSE]
  <2>1. e \in Event /\ e.key = 0
    BY DEF Event
  <2>2. LogEvent(e) /\ keyWork' = keyWork
    BY <1>8 DEF LogOther
  <2> HIDE DEF e
  <2> QED
    BY <1>6, <2>1, <2>2
<1>9. CASE UNCHANGED <<keyWork, auditLog>>
  BY <1>9 DEF LooksSound, Unseen, RemindedByRaceOnly
<1>10. ASSUME NEW h \in KeyHandlers, NEW who \in Callers, NEW requested \in Requested,
              AskForKey(h, who, requested)
       PROVE  LooksSound' /\ RemindedByRaceOnly'
  BY <1>2, <1>10 DEF AskForKey
<1>11. ASSUME NEW h \in KeyHandlers, ProvisionAgent(h) \/ CreateKey(h) \/ RevokeKey(h)
       PROVE  LooksSound' /\ RemindedByRaceOnly'
  BY <1>2, <1>11 DEF ProvisionAgent, CreateKey, RevokeKey, NoKeyWork
<1>12. ASSUME NEW h \in KeyHandlers, NEW who \in Callers, NEW k \in DOMAIN apiKeys,
              AskToRevoke(h, who, k)
       PROVE  LooksSound' /\ RemindedByRaceOnly'
  BY <1>2, <1>12 DEF AskToRevoke
<1> QED
  BY <1>4, <1>5, <1>7, <1>8, <1>9, <1>10, <1>11, <1>12
  DEF KeysNext, PresentKey, UpdateLastUsed, UpdatePolicy, DayPasses, keyVars

\* A second reminder of one end comes from a race, from an event the memory log has
\* trimmed or from a log that did not answer (logAPIKeyRotationDue), whatever listings,
\* revocations and other audited requests come between its look and its write.
THEOREM RemindedTheorem == KeysSpec => []RemindedByRaceOnly
<1>1. RemindInv => RemindedByRaceOnly
  BY DEF RemindInv
<1> QED
  BY <1>1, RemindInit, RemindStep, PTL DEF KeysSpec

=============================================================================
