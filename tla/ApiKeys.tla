------------------------------ MODULE ApiKeys ------------------------------
(***************************************************************************)
(* API keys: creation under the security policy, use, revocation, and the  *)
(* reminders that a listing of keys writes to the audit log                *)
(* (internal/api/auth_handlers.go, middleware.go, bootstrap_handlers.go,   *)
(* internal/auth, internal/audit), on the memory and the SQL backends.  A  *)
(* step is one call of a store.  The middleware notes the use of a key in  *)
(* a goroutine of its own, which nobody waits for.  Time is in days.       *)
(* Hashes, scopes, names and events of other kinds are left out.           *)
(***************************************************************************)
EXTENDS Naturals, Sequences, FiniteSets

CONSTANTS KeyHandlers,     \* requests under way at the same time
          Owners,          \* users that are no admins
          Admin,
          Policies,        \* settings: [default, max, reminder], in days, 0 for none
          Requested,       \* expires_in_days of requests, or Unasked
          FirstKeys,       \* keys a behaviour may start with
          MaxRing,         \* maxEvents of the memory log
          MaxAsks, MaxDay,    \* bounds: requests of any kind, days
          Unasked

Callers == Owners \cup {Admin}

\* "nobody" owns the key of an agent
ApiKey == [owner : Callers \cup {"nobody"}, made : Nat, expires : Nat,
           revoked : BOOLEAN, used : Nat]

ASSUME ApiKeysAssumption ==
  /\ Policies \subseteq [default : Nat, max : Nat, reminder : Nat]
  /\ \A p \in Policies : p.max > 0 => p.default <= p.max   \* handleUpdateSecuritySettings
  /\ Requested \subseteq Nat \cup {Unasked}
  /\ FirstKeys \subseteq Seq(ApiKey)
  /\ MaxRing \in Nat \ {0}

VARIABLES keyBackend,   \* "memory" or "sql"
          apiKeys,      \* id -> [owner, made, expires, revoked, used]; expires 0: never
          policy,       \* the stored settings
          keyWork,      \* handler -> its request
          touches,      \* goroutines that note a use: the copy of the key each holds
          auditLog,     \* events ever logged, oldest first
          day,
          asked         \* requests so far

keyVars == <<keyBackend, apiKeys, policy, keyWork, touches, auditLog, day, asked>>

NoKeyWork == [op |-> "none"]

KeyStep(h, w) == keyWork' = [keyWork EXCEPT ![h] = w]

Asked == asked < MaxAsks /\ asked' = asked + 1

\* A handler takes up a request
Ready(h) == keyWork[h] = NoKeyWork /\ Asked

SqlFails == keyBackend = "sql"

-----------------------------------------------------------------------------
(* createAPIKey, handleProvisionAgent.                                     *)

TooLong(requested, p) == requested # Unasked /\ p.max > 0 /\ requested > p.max

\* apiKeyExpiresAt: 0 days is no expiry, which the maximum shortens like any other
Lifetime(requested, p) ==
  LET days == IF requested # Unasked THEN requested ELSE p.default
  IN IF p.max > 0 /\ (days = 0 \/ days > p.max) THEN p.max ELSE days

NewKey(owner, days) ==
  [owner |-> owner, made |-> day, expires |-> IF days = 0 THEN 0 ELSE day + days,
   revoked |-> FALSE, used |-> 0]

AskForKey(h, who, requested) ==
  /\ Ready(h)
  /\ ~ TooLong(requested, policy)
  /\ KeyStep(h, [op |-> "create",
                 key |-> NewKey(who, Lifetime(requested, policy))])
  /\ UNCHANGED <<keyBackend, apiKeys, policy, touches, auditLog, day>>

\* An agent's key follows no policy
ProvisionAgent(h) ==
  /\ Ready(h)
  /\ KeyStep(h, [op |-> "create", key |-> NewKey("nobody", 0)])
  /\ UNCHANGED <<keyBackend, apiKeys, policy, touches, auditLog, day>>

CreateKey(h) ==
  /\ keyWork[h].op = "create"
  /\ \/ apiKeys' = Append(apiKeys, keyWork[h].key)
     \/ SqlFails /\ UNCHANGED apiKeys
  /\ KeyStep(h, NoKeyWork)
  /\ UNCHANGED <<keyBackend, policy, touches, auditLog, day, asked>>

-----------------------------------------------------------------------------
(* The middleware, and revokeAPIKey.                                       *)

IsExpired(key) == key.expires # 0 /\ day > key.expires

\* The key is looked up and checked; its use is noted later, the request goes on
PresentKey(k) ==
  /\ Asked
  /\ ~ apiKeys[k].revoked /\ ~ IsExpired(apiKeys[k])
  /\ touches' = touches \cup {[key |-> k, copy |-> apiKeys[k]]}
  /\ UNCHANGED <<keyBackend, apiKeys, policy, keyWork, auditLog, day>>

TouchedCopy(t) == [t.copy EXCEPT !.used = day]    \* mutant: writes its copy back

Touched(t) == [apiKeys[t.key] EXCEPT !.used = day]

UpdateLastUsed(t) ==
  /\ touches' = touches \ {t}
  /\ \/ apiKeys' = [apiKeys EXCEPT ![t.key] = Touched(t)]
     \/ SqlFails /\ UNCHANGED apiKeys
  /\ UNCHANGED <<keyBackend, policy, keyWork, auditLog, day, asked>>

AskToRevoke(h, who, k) ==
  /\ Ready(h)
  /\ who = Admin \/ apiKeys[k].owner = who
  /\ KeyStep(h, [op |-> "revoke", key |-> k])
  /\ UNCHANGED <<keyBackend, apiKeys, policy, touches, auditLog, day>>

RevokeKey(h) ==
  /\ keyWork[h].op = "revoke"
  /\ \/ apiKeys' = [apiKeys EXCEPT ![keyWork[h].key].revoked = TRUE]
     \/ SqlFails /\ UNCHANGED apiKeys
  /\ KeyStep(h, NoKeyWork)
  /\ UNCHANGED <<keyBackend, policy, touches, auditLog, day, asked>>

-----------------------------------------------------------------------------
(* listAPIKeys and its reminders.                                          *)

\* apiKeyExpiryStatus: rotation_due
RotationDue(key) ==
  /\ ~ key.revoked /\ key.expires > day
  /\ policy.reminder > 0 /\ key.expires - day <= policy.reminder

Remind(due) == IF due = {} THEN NoKeyWork ELSE [op |-> "remind", due |-> due]

ListKeys(h, who) ==
  /\ Ready(h)
  /\ LET listed == {k \in DOMAIN apiKeys : who = Admin \/ apiKeys[k].owner = who}
         due == {k \in listed : RotationDue(apiKeys[k])}
     IN due # {} /\ KeyStep(h, Remind({[key |-> k, expires |-> apiKeys[k].expires] : k \in due}))
  /\ UNCHANGED <<keyBackend, apiKeys, policy, touches, auditLog, day>>

\* The SQL stores list the newest key first, the memory store in any order
NextDue(due) ==
  {d \in due : keyBackend = "memory" \/ \A e \in due : e.key <= d.key}

\* Position of the oldest event GetByResource finds.  On SQL it reads the newest
\* 1000 of one key, more than a key ever has: a creation, a revocation, reminders.
Oldest ==
  IF keyBackend = "memory" /\ Len(auditLog) > MaxRing THEN Len(auditLog) - MaxRing + 1 ELSE 1

RemindedLast(d) ==     \* mutant: looks at the newest event alone
  \E n \in {Len(auditLog)} \ {0} : auditLog[n].key = d.key /\ auditLog[n].expires = d.expires

Reminded(d) ==
  \E n \in Oldest .. Len(auditLog) :
    auditLog[n].key = d.key /\ auditLog[n].expires = d.expires

\* GetByResource; when it fails the reminder is logged again
CheckReminder(h) ==
  /\ keyWork[h].op = "remind"
  /\ \E d \in NextDue(keyWork[h].due) :
       LET rest == keyWork[h].due \ {d}
           logs(blind) == KeyStep(h, [op |-> "log", due |-> rest,
             event |-> [key |-> d.key, expires |-> d.expires,
                        since |-> Oldest, until |-> Len(auditLog), blind |-> blind]])
       IN \/ Reminded(d) /\ KeyStep(h, Remind(rest))
          \/ ~ Reminded(d) /\ logs(FALSE)
          \/ SqlFails /\ logs(TRUE)
  /\ UNCHANGED <<keyBackend, apiKeys, policy, touches, auditLog, day, asked>>

LogEvent(e) == auditLog' = Append(auditLog, e)

LogReminder(h) ==
  /\ keyWork[h].op = "log"
  /\ \/ LogEvent(keyWork[h].event)
     \/ SqlFails /\ UNCHANGED auditLog
  /\ KeyStep(h, Remind(keyWork[h].due))
  /\ UNCHANGED <<keyBackend, apiKeys, policy, touches, day, asked>>

\* Every other audited request
LogOther ==
  /\ Asked
  /\ LogEvent([key |-> 0, expires |-> 0, since |-> 1, until |-> 0, blind |-> FALSE])
  /\ UNCHANGED <<keyBackend, apiKeys, policy, keyWork, touches, day>>

-----------------------------------------------------------------------------
UpdatePolicy(p) ==
  /\ Asked
  /\ p # policy /\ policy' = p
  /\ UNCHANGED <<keyBackend, apiKeys, keyWork, touches, auditLog, day>>

DayPasses ==
  /\ day < MaxDay
  /\ day' = day + 1
  /\ UNCHANGED <<keyBackend, apiKeys, policy, keyWork, touches, auditLog, asked>>

KeysInit ==
  /\ keyBackend \in {"memory", "sql"}
  /\ apiKeys \in FirstKeys /\ policy \in Policies
  /\ keyWork = [h \in KeyHandlers |-> NoKeyWork]
  /\ touches = {} /\ auditLog = <<>> /\ day = 1 /\ asked = 0

KeysNext ==
  \/ \E h \in KeyHandlers :
       \/ \E who \in Callers, requested \in Requested : AskForKey(h, who, requested)
       \/ ProvisionAgent(h)
       \/ CreateKey(h)
       \/ \E who \in Callers, k \in DOMAIN apiKeys : AskToRevoke(h, who, k)
       \/ RevokeKey(h)
       \/ \E who \in Callers : ListKeys(h, who)
       \/ CheckReminder(h)
       \/ LogReminder(h)
  \/ \E k \in DOMAIN apiKeys : PresentKey(k)
  \/ \E t \in touches : UpdateLastUsed(t)
  \/ LogOther
  \/ \E p \in Policies : UpdatePolicy(p)
  \/ DayPasses

KeysSpec == KeysInit /\ [][KeysNext]_keyVars

-----------------------------------------------------------------------------
\* A revoked key stays revoked: the note of a use that was looked up before the
\* revocation and is written after it changes nothing but the time of use.
RevokedStays ==
  [][\A k \in DOMAIN apiKeys : apiKeys[k].revoked => apiKeys'[k].revoked]_keyVars

\* A key's end is announced once: a second reminder was decided before the first
\* was logged, after it was trimmed from the memory log, or without an answer
\* from the log.
RemindedByRaceOnly ==
  \A m, n \in DOMAIN auditLog :
    LET first == auditLog[m]
        second == auditLog[n]
    IN m < n /\ first.key # 0 /\ first.key = second.key /\ first.expires = second.expires =>
         second.until < m \/ second.since > m \/ second.blind
=============================================================================
