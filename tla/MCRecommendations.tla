------------------------- MODULE MCRecommendations --------------------------
(* Two parts of the server that share no state here: the recommendation     *)
(* service on the pool store, and the pools that are made many at a time    *)
(* (Transfer), which has a store of its own because CIDRs do not matter to  *)
(* it.  A behaviour is about one of them, and the other does nothing.       *)
EXTENDS Recommendations, Transfer, TLC

P(a, b) == [addr |-> a, bits |-> b]

\* 8 addresses; the pool is 0 .. 3
MCRoot == P(0, 1)

\* Others allocate address 1, inside the pool's first half
MCCIDRs == {P(1, 3)}

\* The top block is reserved, like 224.0.0.0/4 in the code
MCReserved == {P(6, 2)}

\* The lower half of the pool is private space
MCPrivate == {P(0, 2)}

\* The pool alone, and the pool with a child as wide as itself and two
\* inside that, which deletes can thin out in any order
MCStored == {<<MCRoot>>, <<MCRoot, P(0, 1), P(1, 3)>>}

Symmetry == Permutations(Planners)

B(parent) == [parent |-> parent, owner |-> 1, live |-> TRUE]

\* A chain of three pools in an account, and an installation that uses the same
\* numbers for another pool and another account
MCInstallations ==
  {[blocks |-> <<B(0), B(1), B(2)>>, owners |-> <<[key |-> "k", live |-> TRUE]>>],
   [blocks |-> <<B(0)>>,
    owners |-> <<[key |-> "l", live |-> TRUE], [key |-> "k", live |-> TRUE]>>]}

\* Two roots, and a child of the second
MCPlans == {<<0, 0, 2>>}

VARIABLE focus

OnRecs == focus = "recs" /\ UNCHANGED <<transferVars, focus>>
OnTransfer == focus = "transfer" /\ UNCHANGED <<allVars, focus>>

\* The part that does nothing starts in one state
PlanningInit ==
  /\ RecInit /\ TransferInit
  /\ \/ focus = "recs" /\ Len(blocks) = 1
     \/ focus = "transfer" /\ Len(pools) = 1

PlanningNext ==
  \/ RecNext /\ OnRecs
  \/ ExportAccounts /\ OnTransfer
  \/ ExportPools /\ OnTransfer
  \/ \E place \in Installations : TakeTo(place) /\ OnTransfer
  \/ ImportAccounts /\ OnTransfer
  \/ ImportAccount /\ OnTransfer
  \/ OnTransfer /\ \E byKey \in BOOLEAN : ImportPools(byKey)
  \/ ResolveRow /\ OnTransfer
  \/ CreateRow /\ OnTransfer
  \/ \E plan \in Plans : ApplyPlan(plan) /\ OnTransfer
  \/ ApplyEntry /\ OnTransfer
  \/ \E i \in DOMAIN blocks : OtherDeletes(i) /\ OnTransfer
  \/ \E a \in DOMAIN owners : OtherDeletesAccount(a) /\ OnTransfer
  \/ \E parent \in {0} \cup DOMAIN blocks : OtherCreates(parent) /\ OnTransfer

PlanningSpec == PlanningInit /\ [][PlanningNext]_<<allVars, transferVars, focus>>

=============================================================================
