------------------------------ MODULE MCAccess ------------------------------
(* Parts of the server that share no state: the pool API used by one client *)
(* at a time; sessions; identities; API keys.  A behaviour is about one of  *)
(* them, and the others do nothing.  Sessions have two scenarios: "trim" is *)
(* about logins under a limit that changes, and time stands still; "pass"   *)
(* is about requests let in by a session, under one limit, and has two      *)
(* sessions and failures at most.                                           *)
EXTENDS MCPoolsSerial, Sessions, Identity, ApiKeys, TLC

\* A parent with a wider child, under which a third pool fits
MCOneSchema == {<<E(P(2, 2), 0), E(P(0, 1), 1)>>}

\* A maximum with no default, and a default with no maximum
MCPolicies == {[default |-> 0, max |-> 2, reminder |-> 2],
               [default |-> 1, max |-> 0, reminder |-> 2]}

\* No key, or a user's that is due for a reminder
MCFirstKeys ==
  {<<>>, <<[owner |-> "u", made |-> 0, expires |-> 2, revoked |-> FALSE, used |-> 0]>>}

VARIABLE focus

accessVars == <<vars, sessionVars, identityVars, keyVars, focus>>

OnPools == focus = "pools" /\ UNCHANGED <<sessionVars, identityVars, keyVars, focus>>
OnSessions == /\ focus \in {"trim", "pass"}
              /\ focus = "pass" => Len(sessions') + failures' <= 2
              /\ UNCHANGED <<vars, identityVars, keyVars, focus>>
OnIdentity == focus = "identity" /\ UNCHANGED <<vars, sessionVars, keyVars, focus>>
OnKeys == focus = "keys" /\ UNCHANGED <<vars, sessionVars, identityVars, focus>>

\* The parts that do nothing start in one state each
AccessInit ==
  /\ focus \in {"pools", "trim", "pass", "identity", "keys"}
  /\ Init /\ SessionInit /\ IdentityInit /\ KeysInit
  /\ focus # "trim" => maxSessions = DefaultSessions
  /\ \/ focus = "keys"
     \/ /\ keyBackend = "memory" /\ apiKeys = <<>>
        /\ policy = CHOOSE p \in Policies : TRUE

AccessNext ==
  \/ Next /\ OnPools
  \/ \E h \in Handlers :
       \/ Login(h) /\ OnSessions
       \/ UnlockAtLogin(h) /\ OnSessions
       \/ recordFailedLogin(h) /\ OnSessions
       \/ CreateAtLogin(h) /\ OnSessions
       \/ ListAtLogin(h) /\ OnSessions
       \/ Evict(h) /\ OnSessions
       \/ FinishLogin(h) /\ OnSessions
       \/ OidcCallback(h) /\ OnSessions
       \/ SyncRole(h) /\ OnSessions
       \/ CreateAtOidc(h) /\ OnSessions
       \/ AdminRequest(h) /\ OnSessions
       \/ SweepBefore(h) /\ OnSessions
       \/ WriteAsAdmin(h) /\ OnSessions
       \/ SweepAfter(h) /\ OnSessions
       \/ RevokeSessions(h) /\ OnSessions
       \/ Authenticate(h) /\ OnSessions /\ focus = "pass"
       \/ RememberActive(h) /\ OnSessions
       \/ Logout(h) /\ OnSessions
  \/ \E n \in SessionLimits : SetSessionLimit(n) /\ OnSessions /\ focus = "trim"
  \/ Tick /\ OnSessions /\ focus = "pass"
  \/ \E s \in DOMAIN sessions : Expire(s) /\ OnSessions
  \/ \E b \in Browsers :
       \/ HandleLogin(b) /\ OnIdentity
       \/ LoadClient(b) /\ OnIdentity
       \/ StoreClient(b) /\ OnIdentity
       \/ Callback(b) /\ OnIdentity
       \/ Exchange(b) /\ OnIdentity
       \/ Provision(b) /\ OnIdentity
       \/ SyncClaimedRole(b) /\ OnIdentity
  \/ \E a \in Staff :
       \/ AskEditProvider(a) /\ OnIdentity
       \/ EditProvider(a) /\ OnIdentity
       \/ DeleteProvider(a) /\ OnIdentity
       \/ Invalidate(a) /\ OnIdentity
       \/ AskCreateUser(a) /\ OnIdentity
       \/ CreateUser(a) /\ OnIdentity
       \/ AskUpdateUser(a) /\ OnIdentity
       \/ CheckRole(a) /\ OnIdentity
       \/ PutUser(a) /\ OnIdentity
       \/ CreateRole(a) /\ OnIdentity
       \/ AskDeleteRole(a) /\ OnIdentity
       \/ DeleteRole(a) /\ OnIdentity
  \/ OnKeys /\ \E h \in KeyHandlers :
       \/ \E who \in Callers, requested \in Requested : AskForKey(h, who, requested)
       \/ ProvisionAgent(h)
       \/ CreateKey(h)
       \/ \E who \in Callers, k \in DOMAIN apiKeys : AskToRevoke(h, who, k)
       \/ RevokeKey(h)
       \/ \E who \in Callers : ListKeys(h, who)
       \/ CheckReminder(h)
       \/ LogReminder(h)
  \/ \E k \in DOMAIN apiKeys : PresentKey(k) /\ OnKeys
  \/ \E t \in touches : UpdateLastUsed(t) /\ OnKeys
  \/ LogOther /\ OnKeys
  \/ \E p \in Policies : UpdatePolicy(p) /\ OnKeys
  \/ DayPasses /\ OnKeys

\* Whoever acts - a request, a browser, a listing of keys - has one of the same
\* names, so that one permutation serves every part.
MCAccessSymmetry == Permutations(Handlers)

AccessSpec == AccessInit /\ [][AccessNext]_accessVars
=============================================================================
