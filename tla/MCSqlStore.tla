----------------------------- MODULE MCSqlStore -----------------------------
EXTENDS SqlStore, TLC

CONSTANTS c1, c2

MCSeedPools ==
  << [cidr |-> "b1", parent |-> Nil, account |-> 1, live |-> TRUE],
     [cidr |-> "b2", parent |-> 1, account |-> Nil, live |-> TRUE],
     [cidr |-> "b3", parent |-> 2, account |-> Nil, live |-> TRUE] >>

MCSeedAccounts == << [key |-> "k1", live |-> TRUE] >>

\* Enough for two counts that are three result sets deep.
MCConnections == [sqlite |-> 5, postgres |-> 1]

\* The default of SQLITE_MAX_OPEN_CONNS.
MCOneConnection == [sqlite |-> 1]

Spec == SqlInit /\ [][SqlNext]_sqlVars /\ SqlFairness
=============================================================================
