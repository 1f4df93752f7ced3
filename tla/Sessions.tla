------------------------------ MODULE Sessions ------------------------------
(***************************************************************************)
(* Users, their sessions, and the middleware that lets a request in by its *)
(* session cookie.  A handler reads a user, works on its copy - comparing  *)
(* a password takes long - and writes the whole record back, so handlers   *)
(* that touch one user overwrite each other.  The middleware remembers for *)
(* ActiveTTL that a user was active.  A step is one call of a store, which *)
(* may fail.                                                               *)
(* Names, roles, audit events and the wording of replies are left out.     *)
(***************************************************************************)
EXTENDS Integers, Sequences, FiniteSets

CONSTANTS Users,
          Handlers,          \* requests in progress at the same time
          ActiveTTL,         \* activeStatusCacheTTL
          AccountLockoutAttempts, LockoutCooldown,
          SessionLimits,     \* what an admin may set the sessions per user to
          DefaultSessions,   \* the limit when the settings cannot be read
          MaxLag,            \* time between a lookup and the storing of its answer, at most
          MaxLogins, MaxAdmin, MaxFailures,   \* bounds of a behaviour
          Absent

ASSUME SessionsAssumption ==
  /\ ActiveTTL \in Nat /\ MaxLag \in Nat
  /\ LockoutCooldown \in Nat
  /\ SessionLimits \subseteq Nat /\ SessionLimits # {} /\ DefaultSessions \in Nat

\* Times are kept as ages and as time left, and stop where nothing tells them
\* apart any more.
VARIABLES users,      \* id -> [active, failed, locked]: locked is the time left
          sessions,   \* every session made: [user, local, live]
          activeCache,\* id -> [active, age], or Absent
          work,       \* handler -> what the request is about to do
          inactive,   \* history: for how long the stored record is not active
          admins,     \* admin requests made
          maxSessions,\* of the security settings: sessions per user
          trimmedTo,  \* history: user -> the limit of the last listing of a login
          spared,     \* history: sessions left by a failed call and not listed since
          failures    \* calls that failed

trimVars == <<maxSessions, trimmedTo, spared>>

sessionVars == <<users, sessions, activeCache, work, inactive, admins, trimVars, failures>>

NoWork == [op |-> "none"]

Free(h) == work[h] = NoWork

Doing(h, op, pc) == ~ Free(h) /\ work[h].op = op /\ work[h].pc = pc

Task(op, pc, u) == [op |-> op, pc |-> pc, user |-> u, row |-> users[u], age |-> 0,
                    limit |-> 0, session |-> 0, evict |-> {}]

Then(h, w) == work' = [work EXCEPT ![h] = w]

Finish(h) == work' = [work EXCEPT ![h] = NoWork]

(***************************************************************************)
(* The stores                                                              *)
(***************************************************************************)
\* UserStore.Update: the whole record, as the handler last saw it.
WriteUser(u, row) ==
  /\ users' = [users EXCEPT ![u] = row]
  /\ inactive' = IF row.active \/ users[u].active
                 THEN [inactive EXCEPT ![u] = 0] ELSE inactive

\* A call of a store returns, or returns an error and has done nothing.
Works == UNCHANGED failures

Fails == failures < MaxFailures /\ failures' = failures + 1

Valid(s) == s \in DOMAIN sessions /\ sessions[s].live

ValidOf(u) == {s \in DOMAIN sessions : Valid(s) /\ sessions[s].user = u}

DropSessions(S) == sessions' = [s \in DOMAIN sessions |->
                            IF s \in S THEN [sessions[s] EXCEPT !.live = FALSE]
                            ELSE sessions[s]]

DeleteByUserID(u) == DropSessions({s \in DOMAIN sessions : sessions[s].user = u})

CreateSession(u, local) ==
  sessions' = Append(sessions, [user |-> u, local |-> local, live |-> TRUE])

NotLocked == -1

Unlocked(row) == [row EXCEPT !.failed = 0, !.locked = NotLocked]

(***************************************************************************)
(* handleLogin.  It reads the settings first, and takes the default limit  *)
(* when they cannot be read.  Whether the password is the one of the copy  *)
(* the login has read is left open.                                        *)
(***************************************************************************)
Verified(h, w) ==
  IF w.row.active
  THEN \/ Then(h, [w EXCEPT !.pc = "create", !.row = Absent])
       \/ Then(h, [w EXCEPT !.pc = "fail"])
  ELSE Finish(h)

Login(h) ==
  /\ Free(h) /\ Len(sessions) < MaxLogins
  /\ \E u \in Users, limit \in {maxSessions, DefaultSessions} :
       LET w == [Task("login", "unlock", u) EXCEPT !.limit = limit] IN
       IF users[u].locked = NotLocked THEN Verified(h, w)
       ELSE users[u].locked = 0 /\ Then(h, w)
  /\ UNCHANGED <<users, sessions, activeCache, inactive, admins, trimVars, failures>>

\* The cooldown is over: clearUserLockout, and the login goes on.
UnlockAtLogin(h) ==
  /\ Doing(h, "login", "unlock")
  /\ LET w == [work[h] EXCEPT !.row = Unlocked(@)] IN
     \/ Works /\ WriteUser(w.user, w.row) /\ Verified(h, w)
     \/ Fails /\ Finish(h) /\ UNCHANGED <<users, inactive>>
  /\ UNCHANGED <<sessions, activeCache, admins, trimVars>>

\* The count is exact up to the limit.
Failures(row) == IF row.failed < AccountLockoutAttempts THEN row.failed + 1 ELSE row.failed

recordFailedLogin(h) ==
  /\ Doing(h, "login", "fail")
  /\ LET n == Failures(work[h].row) IN
     \/ /\ Works
        /\ WriteUser(work[h].user,
                     [work[h].row EXCEPT
                        !.failed = n,
                        !.locked = IF AccountLockoutAttempts > 0 /\ n >= AccountLockoutAttempts
                                   THEN LockoutCooldown ELSE @])
     \/ Fails /\ UNCHANGED <<users, inactive>>
  /\ Finish(h)
  /\ UNCHANGED <<sessions, activeCache, admins, trimVars>>

CreateAtLogin(h) ==
  /\ Doing(h, "login", "create")
  /\ \/ /\ Works /\ CreateSession(work[h].user, TRUE)
        /\ Then(h, [work[h] EXCEPT !.pc = "list", !.session = Len(sessions) + 1])
     \/ Fails /\ Finish(h) /\ UNCHANGED sessions
  /\ UNCHANGED <<users, activeCache, inactive, admins, trimVars>>

\* One more than the limit is kept.
ExcessLessOne(S, limit) == {s \in S : Cardinality({t \in S : t > s}) > limit}

\* The oldest valid sessions in excess of the limit; ids follow creation.
Excess(S, limit) == {s \in S : Cardinality({t \in S : t > s}) >= limit}

\* When the sessions cannot be listed none is evicted, and the login goes on.
ListAtLogin(h) ==
  /\ Doing(h, "login", "list")
  /\ LET u == work[h].user  limit == work[h].limit IN
     \/ /\ Works
        /\ Then(h, [work[h] EXCEPT !.pc = "evict", !.evict = Excess(ValidOf(u), limit),
                                   !.limit = 0, !.session = 0])
        /\ trimmedTo' = [trimmedTo EXCEPT ![u] = limit]
        /\ spared' = spared \ ValidOf(u)
     \/ /\ Fails
        /\ Then(h, [work[h] EXCEPT !.pc = "last", !.limit = 0, !.session = 0])
        /\ spared' = spared \cup {work[h].session}
        /\ UNCHANGED trimmedTo
  /\ UNCHANGED <<users, sessions, activeCache, inactive, admins, maxSessions>>

\* One Delete a session, oldest first.  Its error is ignored, be it that the
\* session is gone or that the store failed and the session stays.
Evict(h) ==
  /\ Doing(h, "login", "evict")
  /\ LET s == CHOOSE s \in work[h].evict : \A t \in work[h].evict : s <= t IN
     IF work[h].evict = {}
     THEN Then(h, [work[h] EXCEPT !.pc = "last"]) /\ UNCHANGED <<sessions, spared, failures>>
     ELSE /\ Then(h, [work[h] EXCEPT !.evict = @ \ {s}])
          /\ \/ Works /\ DropSessions({s}) /\ UNCHANGED spared
             \/ Fails /\ UNCHANGED sessions /\ spared' = spared \cup {s}
  /\ UNCHANGED <<users, activeCache, inactive, admins, maxSessions, trimmedTo>>

\* UpdateLastLogin clears the lockout in the stored record, in place; its error is ignored.
FinishLogin(h) ==
  /\ work[h].op \in {"login", "oidc"} /\ work[h].pc = "last"
  /\ \/ Works /\ WriteUser(work[h].user, Unlocked(users[work[h].user]))
     \/ Fails /\ UNCHANGED <<users, inactive>>
  /\ Finish(h)
  /\ UNCHANGED <<sessions, activeCache, admins, trimVars>>

(***************************************************************************)
(* handleOIDCCallback for an identity that has a user already              *)
(***************************************************************************)
\* The claims may map to another role than the stored one.
OidcCallback(h) ==
  /\ Free(h) /\ Len(sessions) < MaxLogins
  /\ \E u \in Users, pc \in {"role", "create"} :
       /\ users[u].active
       /\ Then(h, IF pc = "role" THEN Task("oidc", pc, u)
                  ELSE [Task("oidc", pc, u) EXCEPT !.row = Absent])
  /\ UNCHANGED <<users, sessions, activeCache, inactive, admins, trimVars, failures>>

\* An error of the update is ignored.
SyncRole(h) ==
  /\ Doing(h, "oidc", "role")
  /\ \/ Works /\ WriteUser(work[h].user, work[h].row)
     \/ Fails /\ UNCHANGED <<users, inactive>>
  /\ Then(h, [work[h] EXCEPT !.pc = "create", !.row = Absent])
  /\ UNCHANGED <<sessions, activeCache, admins, trimVars>>

\* The limit of sessions per user is not applied here.
CreateAtOidc(h) ==
  /\ Doing(h, "oidc", "create")
  /\ \/ Works /\ CreateSession(work[h].user, FALSE) /\ Then(h, [work[h] EXCEPT !.pc = "last"])
     \/ Fails /\ Finish(h) /\ UNCHANGED sessions
  /\ UNCHANGED <<users, activeCache, inactive, admins, trimVars>>

(***************************************************************************)
(* Requests of admins, and of users about themselves                       *)
(***************************************************************************)
\* "edit" is updateUser without is_active, and changePassword.
AdminOps == {"enable", "disable", "edit", "deactivate", "unlock", "reset"}

AdminRequest(h) ==
  /\ Free(h) /\ admins < MaxAdmin
  /\ \E op \in AdminOps, u \in Users :
       Then(h, Task(op, IF op = "disable" THEN "sweep" ELSE "write", u))
  /\ admins' = admins + 1
  /\ UNCHANGED <<users, sessions, activeCache, inactive, trimVars, failures>>

\* updateUser: sessions go before the record says that the user is disabled.
\* Here and in SweepAfter an error of the store does not stop the handler.
SweepBefore(h) ==
  /\ Doing(h, "disable", "sweep")
  /\ \/ Works /\ DeleteByUserID(work[h].user)
     \/ Fails /\ UNCHANGED sessions
  /\ Then(h, [work[h] EXCEPT !.pc = "write"])
  /\ UNCHANGED <<users, activeCache, inactive, admins, trimVars>>

\* The record an admin request writes, made from the copy it read.
Edited(op, row) ==
  CASE op = "edit"     -> row
    [] op = "enable"   -> [row EXCEPT !.active = TRUE]
    [] op \in {"disable", "deactivate"} -> [row EXCEPT !.active = FALSE]
    [] op = "unlock"   -> Unlocked(row)
    [] op = "reset"    -> [Unlocked(row) EXCEPT !.active = TRUE]

WriteAsAdmin(h) ==
  /\ work[h].op \in AdminOps /\ work[h].pc = "write"
  /\ LET op == work[h].op  u == work[h].user  row == Edited(op, work[h].row) IN
     \/ /\ Works /\ WriteUser(u, row)
        /\ IF op \in {"deactivate", "reset"}
           THEN Then(h, [work[h] EXCEPT !.pc = "sweep", !.row = Absent]) ELSE Finish(h)
     \/ Fails /\ Finish(h) /\ UNCHANGED <<users, inactive>>
  /\ UNCHANGED <<sessions, activeCache, admins, trimVars>>

\* deactivateUser and the reset command: sessions go after the record is written.
SweepAfter(h) ==
  /\ work[h].op \in {"deactivate", "reset"} /\ work[h].pc = "sweep"
  /\ \/ Works /\ DeleteByUserID(work[h].user)
     \/ Fails /\ UNCHANGED sessions
  /\ Finish(h)
  /\ UNCHANGED <<users, activeCache, inactive, admins, trimVars>>

\* handleRevokeSessions
RevokeSessions(h) ==
  /\ Free(h) /\ admins < MaxAdmin
  /\ \E u \in Users : DeleteByUserID(u)
  /\ admins' = admins + 1
  /\ UNCHANGED <<users, activeCache, work, inactive, trimVars, failures>>

\* handleUpdateSecuritySettings, as far as sessions go
SetSessionLimit(n) ==
  /\ admins < MaxAdmin /\ n \in SessionLimits
  /\ maxSessions' = n
  /\ admins' = admins + 1
  /\ UNCHANGED <<users, sessions, activeCache, work, inactive, trimmedTo, spared, failures>>

(***************************************************************************)
(* DualAuthMiddleware, by session cookie                                   *)
(***************************************************************************)
\* An entry that is used for ever.
HitForever(u) == activeCache[u] # Absent /\ ActiveTTL # 0

\* userActiveCache.check
Hit(u) == /\ activeCache[u] # Absent
          /\ ActiveTTL # 0 /\ activeCache[u].age <= ActiveTTL

\* A request that has passed does its work and ends, or is handleLogout and
\* deletes its session.
LetIn(h, s) ==
  \/ Finish(h)
  \/ Then(h, [Task("logout", "delete", sessions[s].user) EXCEPT !.session = s, !.row = Absent])

\* An answer that the user is not active is remembered too.
Authenticate(h) ==
  /\ Free(h)
  /\ \E s \in {t \in DOMAIN sessions : Valid(t)} :
       LET u == sessions[s].user IN
       IF Hit(u)
       THEN activeCache[u].active /\ LetIn(h, s)
       ELSE Then(h, [Task("request", "remember", u) EXCEPT !.session = s])
  /\ UNCHANGED <<users, sessions, activeCache, inactive, admins, trimVars, failures>>

\* userActiveCache.set, with the time it is set
RememberActive(h) ==
  /\ Doing(h, "request", "remember")
  /\ LET w == work[h] IN
     /\ activeCache' = [activeCache EXCEPT ![w.user] = [active |-> w.row.active, age |-> 0]]
     /\ IF w.row.active THEN LetIn(h, w.session) ELSE Finish(h)
  /\ UNCHANGED <<users, sessions, inactive, admins, trimVars, failures>>

\* An error of the delete is ignored.
Logout(h) ==
  /\ Doing(h, "logout", "delete")
  /\ \/ Works /\ DropSessions({work[h].session})
     \/ Fails /\ UNCHANGED sessions
  /\ Finish(h)
  /\ UNCHANGED <<users, activeCache, inactive, admins, trimVars>>

(***************************************************************************)
(* Time                                                                    *)
(***************************************************************************)
Older(age, bound) == IF age < bound THEN age + 1 ELSE age

Sooner(row) == [row EXCEPT !.locked = IF @ > 0 THEN @ - 1 ELSE @]

Tick ==
  /\ \A h \in Handlers : Doing(h, "request", "remember") => work[h].age < MaxLag
  /\ users' = [u \in Users |-> Sooner(users[u])]
  /\ activeCache' = [u \in Users |->
                       IF activeCache[u] = Absent THEN Absent
                       ELSE [activeCache[u] EXCEPT !.age = Older(@, ActiveTTL + 1)]]
  /\ work' = [h \in Handlers |->
                IF Free(h) THEN NoWork
                ELSE [work[h] EXCEPT !.row = IF @ = Absent THEN Absent ELSE Sooner(@),
                                     !.age = IF work[h].op = "request" THEN @ + 1 ELSE @]]
  /\ inactive' = [u \in Users |-> IF users[u].active THEN 0
                                   ELSE Older(inactive[u], ActiveTTL + MaxLag + 1)]
  /\ UNCHANGED <<sessions, admins, trimVars, failures>>

\* A session that is past its expiry is gone for every reader; Cleanup removes
\* it from the store later.
Expire(s) ==
  /\ Valid(s) /\ DropSessions({s})
  /\ UNCHANGED <<users, activeCache, work, inactive, admins, trimVars, failures>>

SessionInit ==
  /\ users = [u \in Users |-> [active |-> TRUE, failed |-> 0, locked |-> NotLocked]]
  /\ sessions = <<>>
  /\ activeCache = [u \in Users |-> Absent]
  /\ work = [h \in Handlers |-> NoWork]
  /\ inactive = [u \in Users |-> 0]
  /\ admins = 0
  /\ maxSessions \in SessionLimits
  /\ trimmedTo = [u \in Users |-> 0]
  /\ spared = {} /\ failures = 0

SessionNext ==
  \/ \E h \in Handlers :
       \/ Login(h) \/ UnlockAtLogin(h) \/ recordFailedLogin(h)
       \/ CreateAtLogin(h) \/ ListAtLogin(h) \/ Evict(h) \/ FinishLogin(h)
       \/ OidcCallback(h) \/ SyncRole(h) \/ CreateAtOidc(h)
       \/ AdminRequest(h) \/ SweepBefore(h) \/ WriteAsAdmin(h) \/ SweepAfter(h)
       \/ RevokeSessions(h)
       \/ Authenticate(h) \/ RememberActive(h) \/ Logout(h)
  \/ \E n \in SessionLimits : SetSessionLimit(n)
  \/ Tick
  \/ \E s \in DOMAIN sessions : Expire(s)

SessionSpec == SessionInit /\ [][SessionNext]_sessionVars

-----------------------------------------------------------------------------
\* A request of u would be let in now, or is about to be.
LetsIn(u) ==
  \/ Hit(u) /\ activeCache[u].active /\ ValidOf(u) # {}
  \/ \E h \in Handlers : /\ Doing(h, "request", "remember")
                         /\ work[h].user = u /\ work[h].row.active

(***************************************************************************)
(* A request is let in only if its user's record was active no longer ago  *)
(* than the cache keeps an answer and a request takes to store one: an     *)
(* entry is never renewed from itself.                                     *)
(***************************************************************************)
DisabledWithin ==
  \A u \in Users : LetsIn(u) => inactive[u] <= ActiveTTL + MaxLag

\* A login of u is between making its session and its last eviction.
Trimming(u) ==
  \E h \in Handlers : work[h].op = "login" /\ work[h].user = u /\ work[h].pc \in {"list", "evict"}

(***************************************************************************)
(* Logins that race for the last places all make their sessions first and  *)
(* evict later, each under the limit it read at its start: when none is    *)
(* between the two, a user has no more sessions from logins than the last  *)
(* of them to list allowed, save those that a failed listing or delete     *)
(* left there - and these only until the next listing.                     *)
(***************************************************************************)
SessionsTrimmed ==
  \A u \in Users :
    ~ Trimming(u) =>
      Cardinality({s \in ValidOf(u) : sessions[s].local /\ s \notin spared}) <= trimmedTo[u]

=============================================================================
