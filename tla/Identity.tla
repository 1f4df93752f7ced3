------------------------------ MODULE Identity ------------------------------
(***************************************************************************)
(* Users, roles and an OIDC provider.  A login by the provider reads its   *)
(* configuration, takes a client for it from a cache or makes one, and at  *)
(* the callback finds its user or creates it; admins edit and delete the   *)
(* provider, users and roles meanwhile.  A step is one call of a store or  *)
(* of the cache, or of the identity provider with what follows up to the   *)
(* next such call.  Passwords, tokens, sessions and wording are left out;  *)
(* what sessions do is in Sessions.                                        *)
(***************************************************************************)
EXTENDS Naturals, Sequences, FiniteSets

CONSTANTS Browsers,      \* logins under way at the same time
          Staff,         \* admin requests under way at the same time
          Subjects,      \* identities; a subject's email is its username
          CustomRoles,
          MaxSignIns, MaxRequests, MaxUsers,    \* bounds of a behaviour
          Nobody

VARIABLES provider,   \* [version, exists, enabled, auto]: version names its contents
          cache,      \* version of the provider the cached client was made of, or 0
          people,      \* [name, suffixed, oidc, role, active], in order of creation
          roles,      \* custom roles
          flow,       \* browser -> its login
          desk,       \* admin -> the request it makes
          raced,      \* history: the cached client was stored after its configuration was replaced
          signIns, requests

identityVars == <<provider, cache, people, roles, flow, desk, raced, signIns, requests>>

BuiltinRoles == {"viewer", "admin"}

RoleExists(r) == r \in BuiltinRoles \cup roles

Quiet == [pc |-> "none"]

Steps(b, w) == flow' = [flow EXCEPT ![b] = w]

Ends(b) == Steps(b, Quiet)

(***************************************************************************)
(* handleOIDCLogin and the provider cache                                  *)
(***************************************************************************)
HandleLogin(b) ==
  /\ flow[b] = Quiet /\ signIns < MaxSignIns
  /\ provider.exists /\ provider.enabled
  /\ signIns' = signIns + 1
  /\ Steps(b, [pc |-> "client", then |-> "idp", cfg |-> provider])
  /\ UNCHANGED <<provider, cache, people, roles, desk, raced, requests>>

\* getOrCreateProvider: a cached client serves whatever it was made of.  Making
\* a new one asks the identity provider, which may fail.
LoadClient(b) ==
  /\ flow[b].pc = "client"
  /\ IF cache # 0
     THEN Steps(b, [flow[b] EXCEPT !.pc = flow[b].then])
     ELSE Steps(b, [flow[b] EXCEPT !.pc = "store"]) \/ Ends(b)
  /\ UNCHANGED <<provider, cache, people, roles, desk, raced, signIns, requests>>

Replaced(cfg) == ~ provider.exists \/ cfg.version # provider.version

StoreClient(b) ==
  /\ flow[b].pc = "store"
  /\ cache' = flow[b].cfg.version
  /\ raced' = Replaced(flow[b].cfg)
  /\ Steps(b, [flow[b] EXCEPT !.pc = flow[b].then])
  /\ UNCHANGED <<provider, people, roles, desk, signIns, requests>>

(***************************************************************************)
(* handleOIDCCallback                                                      *)
(***************************************************************************)
\* The state cookie names the provider; whether it is still enabled is not asked.
\* The user may also leave, or the identity provider answer with an error.
Callback(b) ==
  /\ flow[b].pc = "idp"
  /\ \/ provider.exists /\ Steps(b, [pc |-> "client", then |-> "exchange", cfg |-> provider])
     \/ Ends(b)
  /\ UNCHANGED <<provider, cache, people, roles, desk, raced, signIns, requests>>

\* Only an active user is found again.
GetByOIDCIdentityActive(s) == {u \in DOMAIN people : people[u].oidc = s /\ people[u].active}

\* An identity is found again whether or not its user is active.
GetByOIDCIdentity(s) == {u \in DOMAIN people : people[u].oidc = s}

\* Exchange of the code for claims, and the lookup of their user.  What MapRole
\* makes of the groups and the default role is left open: a built-in role or none.
Exchange(b) ==
  /\ flow[b].pc = "exchange"
  /\ \/ Ends(b)
     \/ \E s \in Subjects, mapped \in BuiltinRoles \cup {Nobody} :
          LET found == GetByOIDCIdentity(s)
              known == [pc |-> "found", subject |-> s, mapped |-> mapped, seen |-> Len(people),
                        user |-> 0, row |-> Nobody]
          IN  IF found = {}
              THEN IF flow[b].cfg.auto THEN Steps(b, [known EXCEPT !.pc = "provision"])
                   ELSE Ends(b)
              ELSE \E u \in found :
                     IF people[u].active /\ mapped \notin {Nobody, people[u].role}
                     THEN Steps(b, [known EXCEPT !.user = u, !.row = people[u]])
                     ELSE Ends(b)
  /\ UNCHANGED <<provider, cache, people, roles, desk, raced, signIns, requests>>

NameTaken(name, suffixed) ==
  \E u \in DOMAIN people : people[u].name = name /\ people[u].suffixed = suffixed

NewUser(name, suffixed, oidc, role) ==
  people' = Append(people, [name |-> name, suffixed |-> suffixed, oidc |-> oidc,
                          role |-> role, active |-> TRUE])

\* Create under the email, and when that name is taken once more with a suffix.
Provision(b) ==
  /\ \E suffixed \in BOOLEAN :
       /\ flow[b].pc = IF suffixed THEN "provisionAgain" ELSE "provision"
       /\ LET s == flow[b].subject
              role == IF flow[b].mapped = Nobody THEN "viewer" ELSE flow[b].mapped
          IN  IF ~ NameTaken(s, suffixed)
              THEN Len(people) < MaxUsers /\ NewUser(s, suffixed, s, role) /\ Ends(b)
              ELSE /\ IF suffixed THEN Ends(b)
                      ELSE Steps(b, [flow[b] EXCEPT !.pc = "provisionAgain"])
                   /\ UNCHANGED people
  /\ UNCHANGED <<provider, cache, roles, desk, raced, signIns, requests>>

\* The role of the claims is written with the rest of the record read before.
SyncClaimedRole(b) ==
  /\ flow[b].pc = "found"
  /\ people' = [people EXCEPT ![flow[b].user] = [flow[b].row EXCEPT !.role = flow[b].mapped]]
  /\ Ends(b)
  /\ UNCHANGED <<provider, cache, roles, desk, raced, signIns, requests>>

(***************************************************************************)
(* Requests of admins                                                      *)
(***************************************************************************)
Sits(a, w) == desk' = [desk EXCEPT ![a] = w]

Rises(a) == Sits(a, Quiet)

Asks(a, w) ==
  /\ desk[a] = Quiet /\ requests < MaxRequests
  /\ requests' = requests + 1
  /\ Sits(a, w)

\* handleAdminUpdateProvider reads the provider, writes it all, and then drops
\* the cached client; handleAdminDeleteProvider deletes first.
AskEditProvider(a) ==
  /\ provider.exists
  /\ \E enabled, auto \in BOOLEAN :
       Asks(a, [pc |-> "editProvider", enabled |-> enabled, auto |-> auto])
  /\ UNCHANGED <<provider, cache, people, roles, flow, raced, signIns>>

EditProvider(a) ==
  /\ desk[a].pc = "editProvider"
  /\ IF provider.exists
     THEN /\ provider' = [version |-> provider.version + 1, exists |-> TRUE,
                          enabled |-> desk[a].enabled, auto |-> desk[a].auto]
          /\ Sits(a, [pc |-> "invalidate"])
     ELSE Rises(a) /\ UNCHANGED provider
  /\ UNCHANGED <<cache, people, roles, flow, raced, signIns, requests>>

DeleteProvider(a) ==
  /\ provider.exists
  /\ Asks(a, [pc |-> "invalidate"])
  /\ provider' = [provider EXCEPT !.exists = FALSE]
  /\ UNCHANGED <<cache, people, roles, flow, raced, signIns>>

\* Only the client of a successful edit is dropped, not that of a deletion.
InvalidateExisting(a) ==
  /\ desk[a].pc = "invalidate"
  /\ IF provider.exists THEN cache' = 0 /\ raced' = FALSE
     ELSE UNCHANGED <<cache, raced>>
  /\ Rises(a)
  /\ UNCHANGED <<provider, people, roles, flow, signIns, requests>>

Invalidate(a) ==
  /\ desk[a].pc = "invalidate"
  /\ cache' = 0 /\ raced' = FALSE
  /\ Rises(a)
  /\ UNCHANGED <<provider, people, roles, flow, signIns, requests>>

\* createUser: the role is looked up, and after the hashing of the password the
\* user is stored unless the name is taken.
AskCreateUser(a) ==
  /\ \E name \in Subjects, r \in {"viewer"} \cup roles :
       Asks(a, [pc |-> "createUser", name |-> name, role |-> r])
  /\ UNCHANGED <<provider, cache, people, roles, flow, raced, signIns>>

CreateUser(a) ==
  /\ desk[a].pc = "createUser"
  /\ IF NameTaken(desk[a].name, FALSE) THEN UNCHANGED people
     ELSE Len(people) < MaxUsers /\ NewUser(desk[a].name, FALSE, Nobody, desk[a].role)
  /\ Rises(a)
  /\ UNCHANGED <<provider, cache, roles, flow, raced, signIns, requests>>

\* updateUser of a role or of is_active, and deactivateUser: the whole record,
\* as it was read, is written back.  A role is looked up after that read.
AskUpdateUser(a) ==
  /\ \E u \in DOMAIN people :
       \/ \E active \in BOOLEAN :
            Asks(a, [pc |-> "write", user |-> u, row |-> [people[u] EXCEPT !.active = active]])
       \/ \E r \in CustomRoles \cup {"viewer"} :
            Asks(a, [pc |-> "role", user |-> u, row |-> [people[u] EXCEPT !.role = r]])
  /\ UNCHANGED <<provider, cache, people, roles, flow, raced, signIns>>

CheckRole(a) ==
  /\ desk[a].pc = "role"
  /\ IF RoleExists(desk[a].row.role) THEN Sits(a, [desk[a] EXCEPT !.pc = "write"]) ELSE Rises(a)
  /\ UNCHANGED <<provider, cache, people, roles, flow, raced, signIns, requests>>

PutUser(a) ==
  /\ desk[a].pc = "write"
  /\ people' = [people EXCEPT ![desk[a].user] = desk[a].row]
  /\ Rises(a)
  /\ UNCHANGED <<provider, cache, roles, flow, raced, signIns, requests>>

CreateRole(a) ==
  /\ \E r \in CustomRoles \ roles : roles' = roles \cup {r}
  /\ Asks(a, Quiet)
  /\ UNCHANGED <<provider, cache, people, flow, raced, signIns>>

\* Users that log in through the provider have built-in roles by default.
RoleAssignedToLocalUsers(r) ==
  \E u \in DOMAIN people : people[u].active /\ people[u].role = r /\ people[u].oidc = Nobody

RoleAssignedToActiveUsers(r) == \E u \in DOMAIN people : people[u].active /\ people[u].role = r

\* DeleteRole: the users are listed, and the role is deleted in another call.
AskDeleteRole(a) ==
  /\ \E r \in roles :
       /\ ~ RoleAssignedToActiveUsers(r)
       /\ Asks(a, [pc |-> "deleteRole", role |-> r, listed |-> people])
  /\ UNCHANGED <<provider, cache, people, roles, flow, raced, signIns>>

DeleteRole(a) ==
  /\ desk[a].pc = "deleteRole"
  /\ roles' = roles \ {desk[a].role}
  /\ Rises(a)
  /\ UNCHANGED <<provider, cache, people, flow, raced, signIns, requests>>

IdentityInit ==
  /\ provider = [version |-> 1, exists |-> TRUE, enabled |-> TRUE, auto |-> TRUE]
  /\ cache = 0
  /\ people = <<>>
  /\ roles = CustomRoles
  /\ flow = [b \in Browsers |-> Quiet]
  /\ desk = [a \in Staff |-> Quiet]
  /\ raced = FALSE
  /\ signIns = 0 /\ requests = 0

IdentityNext ==
  \/ \E b \in Browsers :
       \/ HandleLogin(b) \/ LoadClient(b) \/ StoreClient(b)
       \/ Callback(b) \/ Exchange(b) \/ Provision(b) \/ SyncClaimedRole(b)
  \/ \E a \in Staff :
       \/ AskEditProvider(a) \/ EditProvider(a) \/ DeleteProvider(a) \/ Invalidate(a)
       \/ AskCreateUser(a) \/ CreateUser(a)
       \/ AskUpdateUser(a) \/ CheckRole(a) \/ PutUser(a)
       \/ CreateRole(a) \/ AskDeleteRole(a) \/ DeleteRole(a)

IdentitySpec == IdentityInit /\ [][IdentityNext]_identityVars

-----------------------------------------------------------------------------
(***************************************************************************)
(* The cached client is made of the provider as it is stored, but between  *)
(* the two steps of an edit or a deletion, and after a login that had read *)
(* the configuration before it was replaced and cached its client later.   *)
(***************************************************************************)
CacheFollowsStore ==
  cache # 0 /\ (~ provider.exists \/ cache # provider.version)
    => raced \/ \E a \in Staff : desk[a].pc = "invalidate"

(***************************************************************************)
(* An identity has one user, however often it logs in, is deactivated and  *)
(* finds its name taken: a second one is made only by a callback that had  *)
(* looked for the first before it was made.                                *)
(***************************************************************************)
TwinsOnlyByRace ==
  [][\A b \in Browsers :
       flow[b] # flow'[b] /\ Len(people') > Len(people) =>
         \A u \in DOMAIN people : people[u].oidc = flow[b].subject => u > flow[b].seen
    ]_identityVars

(***************************************************************************)
(* A role is deleted under an active user only when the user got the role, *)
(* or was made active again, after the deletion had listed the users.       *)
(***************************************************************************)
RolesInUseStay ==
  [][\A a \in Staff, u \in DOMAIN people :
       LET r == people[u].role IN
       people[u].active /\ r \in roles /\ r \notin roles' /\ desk[a] # desk'[a] =>
         LET before == desk[a].listed IN
         ~ (u \in DOMAIN before /\ before[u].active /\ before[u].role = r)
    ]_identityVars

=============================================================================
