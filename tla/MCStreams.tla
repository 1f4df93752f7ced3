----------------------------- MODULE MCStreams -----------------------------
(* Parts of the server that share no state and in which something waits:    *)
(* calls of an SQL store for a connection, the host for its upgrade, a      *)
(* conversation for its answer, replicas for their database.  A behaviour   *)
(* is about one of them, and the others do nothing.                         *)
EXTENDS MCSqlStore, SelfUpdate, Chat, Startup

VARIABLE focus

MCDeployments == {[backend |-> "sqlite", admin |-> Unset], [backend |-> "postgres", admin |-> "root"]}

vars == <<sqlVars, updateVars, chatVars, startupVars, focus>>

OnSql == focus = "sql" /\ UNCHANGED <<updateVars, chatVars, startupVars, focus>>
OnUpdate == focus = "update" /\ UNCHANGED <<sqlVars, chatVars, startupVars, focus>>
OnChat == focus = "chat" /\ UNCHANGED <<sqlVars, updateVars, startupVars, focus>>
OnStart == focus = "start" /\ UNCHANGED <<sqlVars, updateVars, chatVars, focus>>

Init ==
  /\ focus \in {"sql", "update", "chat", "start"}
  /\ SqlInit /\ UpdateInit /\ ChatInit /\ StartupInit
  /\ focus # "sql" => backend = "sqlite"
  /\ focus # "start" => deployed.backend = "sqlite"

Next ==
  \/ \E c \in Callers :
       \/ StartCreatePool(c) /\ OnSql
       \/ StartUpdatePool(c) /\ OnSql
       \/ StartDeletePool(c) /\ OnSql
       \/ StartDeletePoolCascade(c) /\ OnSql
       \/ StartCreateAccount(c) /\ OnSql
       \/ StartUpdateAccount(c) /\ OnSql
       \/ StartDeleteAccount(c) /\ OnSql
       \/ StartDeleteAccountCascade(c) /\ OnSql
       \/ StartStats(c) /\ OnSql
       \/ StartHierarchy(c) /\ OnSql
       \/ ResolveParent(c) /\ OnSql
       \/ ResolveAccount(c) /\ OnSql
       \/ InsertPool(c) /\ OnSql
       \/ ReadPool(c) /\ OnSql
       \/ WritePool(c) /\ OnSql
       \/ RereadPool(c) /\ OnSql
       \/ CountChildren(c) /\ OnSql
       \/ DeletePool(c) /\ OnSql
       \/ DeleteTree(c) /\ OnSql
       \/ ListForCascade(c) /\ OnSql
       \/ DeleteNextRow(c) /\ OnSql
       \/ InsertAccount(c) /\ OnSql
       \/ OpenAccount(c) /\ OnSql
       \/ WriteAccount(c) /\ OnSql
       \/ RereadAccount(c) /\ OnSql
       \/ CountPools(c) /\ OnSql
       \/ DeleteAccount(c) /\ OnSql
       \/ ResolveForCascade(c) /\ OnSql
       \/ DeleteTrees(c) /\ OnSql
       \/ ListForAccount(c) /\ OnSql
       \/ LookupAccount(c) /\ OnSql
       \/ DeleteOwner(c) /\ OnSql
       \/ GetForStats(c) /\ OnSql
       \/ ListForHierarchy(c) /\ OnSql
       \/ ListAll(c) /\ OnSql
       \/ ListDirect(c) /\ OnSql
       \/ OpenDescendants(c) /\ OnSql
       \/ NextDescendant(c) /\ OnSql
       \/ CloseDescendants(c) /\ OnSql
       \/ StatementFails(c) /\ OnSql
  \/ \E a \in Admins :
       \/ TriggerUpgrade(a) /\ OnUpdate
       \/ CreateRequest(a) /\ OnUpdate
       \/ EncodeRequest(a) /\ OnUpdate
       \/ ReadForAck(a) /\ OnUpdate
       \/ WriteAck(a) /\ OnUpdate
  \/ PathExists /\ OnUpdate
  \/ ReadId /\ OnUpdate
  \/ ReadTarget /\ OnUpdate
  \/ OpenStatus /\ OnUpdate
  \/ WriteStatus /\ OnUpdate
  \/ PodmanPull /\ OnUpdate
  \/ RestartService /\ OnUpdate
  \/ CheckHealth /\ OnUpdate
  \/ Cleanup /\ OnUpdate
  \/ ScriptStops /\ OnUpdate
  \/ ServerStops /\ OnUpdate
  \/ HostStops /\ OnUpdate
  \/ \E q \in Questions :
       \/ Question(q) /\ OnChat
       \/ StreamComplete(q) /\ OnChat
       \/ Flush(q) /\ OnChat
       \/ Relay(q) /\ OnChat
       \/ ReadDelta(q) /\ OnChat
       \/ ReadFinish(q) /\ OnChat
       \/ ReadEnd(q) /\ OnChat
       \/ PassOn(q) /\ OnChat
       \/ StoreAnswer(q) /\ OnChat
  \/ DeleteConversation /\ OnChat
  \/ \E p \in Replicas :
       \/ Start(p) /\ OnStart
       \/ ReadApplied(p) /\ OnStart
       \/ ApplyNext(p) /\ OnStart
       \/ WriteInfo(p) /\ OnStart
       \/ ListUsers(p) /\ OnStart
       \/ LookupAdmin(p) /\ OnStart
       \/ CreateAdmin(p) /\ OnStart
       \/ Stop(p) /\ OnStart
  \/ \E h \in Setups :
       \/ \E p \in Replicas : CheckSetup(h, p) /\ OnStart
       \/ CreateFirstUser(h) /\ OnStart

\* SqlFairness, UpdateFairness, ChatFairness and that of a replica's start, each asked only of its own part.
StreamsFairness ==
  /\ \A c \in Callers : SF_vars(OnSql /\ SqlStep(c))
  /\ WF_vars(OnUpdate /\ PathExists) /\ WF_vars(OnUpdate /\ ScriptStep)
  /\ \A q \in Questions :
       /\ WF_vars(OnChat /\ Flush(q)) /\ WF_vars(OnChat /\ Relay(q))
       /\ WF_vars(OnChat /\ (ReadDelta(q) \/ ReadFinish(q) \/ ReadEnd(q)))
       /\ WF_vars(OnChat /\ PassOn(q)) /\ WF_vars(OnChat /\ StoreAnswer(q))
  /\ \A p \in Replicas : WF_vars(OnStart /\ StartupStep(p))

StreamsSpec == Init /\ [][Next]_vars /\ StreamsFairness
=============================================================================
