----------------------------- MODULE MCNetwork -----------------------------
(* A /2 VPC with one subnet as large as itself, and in a second account a   *)
(* subnet whose VPC was not discovered, with the same CIDR and the other    *)
(* subnet's id, in an address space of 4 bits.  The server starts on an     *)
(* operator's pool with the VPC's CIDR, or on the second account's pool     *)
(* around it.                                                               *)
(*                                                                          *)
(* Apart from it, sharing no state with it, the discovery of cloud accounts *)
(* (OrgSync): two VPCs in an AWS account that is the organization's, a      *)
(* subnetwork in a GCP project that has an account row.  A behaviour is     *)
(* about one of the two, and the other does nothing.                        *)
EXTENDS Network, OrgSync, TLC

P(addr, bits) == [addr |-> addr, bits |-> bits]
MCSpace == P(0, 1)
MCVpc == P(0, 2)
MCCIDRs == {MCSpace, MCVpc}
MCMetas == [type : {"vpc", "subnet"}, tag : {"v", "s", "u", None}]
D(account, type, name, cidr, up) ==
  [account |-> account, type |-> type, name |-> name, cidr |-> cidr, up |-> up,
   region |-> "eu"]
MCData == <<D(1, "vpc", "v", MCVpc, None), D(2, "subnet", "s", MCVpc, "u"),
            D(1, "subnet", "s", MCVpc, "v")>>
MCSelections == {<<1, 1>>, <<1, 3>>}
Manual(cidr, account) ==
  [cidr |-> cidr, parent |-> None, account |-> account,
   meta |-> [type |-> "vpc", tag |-> None], deleted |-> FALSE, checked |-> TRUE, seen |-> 1]
MCInitialPools == {<<Manual(MCVpc, None)>>, <<Manual(MCSpace, 2)>>}
Account1 == [key |-> "k", meta |-> [type |-> "vpc", tag |-> None], deleted |-> FALSE]
MCInitialAccounts == <<Account1, Account1>>

Asset(account, kind) == [account |-> account, kind |-> kind, region |-> "eu", external |-> TRUE]
MCAssetData == <<Asset("m", "vpc"), Asset("m", "vpc"), Asset("g", "subnet")>>
MCAccountProvider == [m |-> "aws", g |-> "gcp"]
MCOrgMembers == <<"m">>
MCScanRegions == <<"us", "eu">>
MCInitialRows == <<[account |-> "g", live |-> TRUE]>>

MCSymmetry == Permutations(Workers) \cup Permutations(Servers)

VARIABLE focus

OnNetwork == focus = "network" /\ UNCHANGED <<orgVars, focus>>
OnOrg == focus = "org" /\ UNCHANGED <<networkVars, focus>>

\* The part that does nothing starts in one state
CloudInit ==
  /\ NetworkInit /\ OrgInit
  /\ \/ focus = "network" /\ orgBackend = "memory" /\ cloudFresh = {}
     \/ focus = "org" /\ pools = <<Manual(MCVpc, None)>> /\ cloudFresh \subseteq {1}

CloudNext ==
  \/ OnNetwork /\ Arrives
  \/ \E w \in Workers : OnNetwork /\ Serves(w)
  \/ \E p \in Scanners : (ScanPage(p) /\ OnOrg) \/ (ScanError(p) /\ OnOrg)
  \/ \E r \in Assets : (AssetAppears(r) /\ OnOrg) \/ (AssetGoes(r) /\ OnOrg)
  \/ \E asked \in BOOLEAN : ListMembers(asked) /\ OnOrg
  \/ NextMember /\ OnOrg
  \/ MemberScanned /\ OnOrg
  \/ PushFails /\ OnOrg
  \/ PushRejected /\ OnOrg
  \/ PushTimesOut /\ OnOrg
  \/ \E w \in Servers :
       \/ PushReport(w) /\ OnOrg
       \/ Answered(w) /\ OnOrg
       \/ LookupAccount(w) /\ OnOrg
       \/ CreateOrgAccount(w) /\ OnOrg
       \/ UpsertAsset(w) /\ OnOrg
       \/ MarkStaleAssets(w) /\ OnOrg
       \/ FinishIngest(w) /\ OnOrg
       \/ LocalScanned(w) /\ OnOrg
       \/ \E i \in DOMAIN orgRows : LocalSync(w, i) /\ OnOrg
  \/ SecondPasses /\ OnOrg

CloudSpec == CloudInit /\ [][CloudNext]_<<networkVars, orgVars, focus>>
=============================================================================
