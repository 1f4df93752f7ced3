---------------------------- MODULE OrgSyncProofs ----------------------------
(***************************************************************************)
(* Theorems about OrgSync, for every cloud, organization, page size, list  *)
(* of regions and number of goroutines, and any number of failures and     *)
(* changes of the cloud.                                                   *)
(***************************************************************************)
EXTENDS OrgSync, Integers, FiniteSetTheorems, WellFoundedInduction, SequenceTheorems, TLAPS

-----------------------------------------------------------------------------
(* Pages: what a page leaves out comes after all that is on it. *)

LEMMA LeastNumber ==
  ASSUME NEW S \in SUBSET Nat, S # {}
  PROVE  \E m \in S : \A q \in S : m <= q
<1> DEFINE less == {ss \in Nat \X Nat : ss[1] < ss[2]}
<1>1. IsWellFoundedOn(less, Nat)
  BY NatLessThanWellFounded DEF OpToRel
<1> HIDE DEF less
<1>2. PICK m \in S : \A q \in S : ~ (<<q, m>> \in less)
  BY <1>1, WFMin
<1>3. ASSUME NEW q \in S PROVE m <= q
  <2>1. m \in Nat /\ q \in Nat
    OBVIOUS
  <2>2. q < m => <<q, m>> \in less
    BY <2>1 DEF less
  <2> QED
    BY <1>2, <2>1, <2>2
<1> QED
  BY <1>3

LEMMA GreatestNumber ==
  ASSUME NEW S \in SUBSET Nat, S # {}, NEW u \in Nat, \A q \in S : q <= u
  PROVE  \E m \in S : \A q \in S : q <= m
<1> DEFINE T == {u - q : q \in S}
<1>0. \A q \in S : q \in Nat /\ u - q \in Nat
  <2> TAKE q \in S
  <2>1. q \in Nat /\ q <= u
    OBVIOUS
  <2> QED
    BY <2>1
<1>1. T \in SUBSET Nat /\ T # {}
  BY <1>0
<1>2. PICK n \in T : \A q \in T : n <= q
  <2> HIDE DEF T
  <2> QED
    BY <1>1, LeastNumber
<1>3. PICK m \in S : n = u - m
  OBVIOUS
<1>4. ASSUME NEW q \in S PROVE q <= m
  <2>1. u - m <= u - q
    BY <1>2, <1>3
  <2> QED
    BY <1>0, <2>1
<1> QED
  BY <1>4

LEMMA FewerBelow ==
  ASSUME NEW S \in SUBSET Nat, NEW r \in Nat, NEW q \in Nat, q <= r
  PROVE  /\ Cardinality({p \in S : p < q}) \in Nat /\ Cardinality({p \in S : p < r}) \in Nat
         /\ Cardinality({p \in S : p < q}) <= Cardinality({p \in S : p < r})
<1>1. IsFiniteSet(0 .. r)
  BY FS_Interval
<1>0. \A p \in S : p \in Nat
  OBVIOUS
<1>2. {p \in S : p < r} \in SUBSET (0 .. r)
  <2>1. \A p \in S : p < r => p \in 0 .. r
    BY <1>0
  <2> QED
    BY <2>1
<1>3. IsFiniteSet({p \in S : p < r})
  BY <1>1, <1>2, FS_Subset
<1>4. {p \in S : p < q} \in SUBSET {p \in S : p < r}
  <2>1. \A p \in S : p < q => p < r
    BY <1>0
  <2> QED
    BY <2>1
<1>5. IsFiniteSet({p \in S : p < q})
  BY <1>3, <1>4, FS_Subset
<1> QED
  BY <1>3, <1>4, <1>5, FS_Subset, FS_CardinalityType

LEMMA PageCut ==
  ASSUME NEW s, cloudNow \subseteq Assets, Page(s) # Unlisted(s),
         NEW last, last = CHOOSE r \in Page(s) : \A q \in Page(s) : q <= r
  PROVE  last \in Nat /\ \A r \in Unlisted(s) : r <= last => r \in Page(s)
<1> DEFINE U == Unlisted(s)
           Rank(r) == Cardinality({q \in U : q < r})
<1>1. U \in SUBSET Nat
  BY OrgAssumption DEF Unlisted, OfAccount
<1>2. /\ ~ (Aws(s.account) /\ Kinds[s.kind] = "eip")
      /\ Page(s) = {r \in U : Rank(r) < PageSize}
  BY DEF Page
<1>3. \A r \in U : \A q \in U : q <= r => Rank(q) \in Nat /\ Rank(r) \in Nat /\ Rank(q) <= Rank(r)
  <2> HIDE DEF U
  <2> QED
    BY <1>1, FewerBelow
<1> HIDE DEF Rank
<1>4. Page(s) # {}
  <2>1. U # {}
    BY <1>2
  <2>2. PICK m \in U : \A q \in U : m <= q
    <3> HIDE DEF U
    <3> QED
      BY <1>1, <2>1, LeastNumber
  <2>3. {q \in U : q < m} = {}
    <3> HIDE DEF U
    <3>1. \A q \in U : q \in Nat /\ m \in Nat /\ ~ (q < m)
      BY <1>1, <2>2
    <3> QED
      BY <3>1
  <2>4. Rank(m) = 0
    BY <2>3, FS_EmptySet DEF Rank
  <2> QED
    BY <1>2, <2>2, <2>4, OrgAssumption
<1>5. PICK u \in U : u \notin Page(s)
  BY <1>2
<1> HIDE DEF U
<1>6. ASSUME NEW q \in Page(s) PROVE q <= u
  <2>1. q \in U /\ Rank(q) < PageSize /\ ~ (Rank(u) < PageSize)
    BY <1>2, <1>5, <1>6
  <2>2. q \in Nat /\ u \in Nat /\ PageSize \in Nat
    BY <1>1, <1>5, <2>1, OrgAssumption
  <2>3. u <= q => Rank(u) <= Rank(q) /\ Rank(u) \in Nat /\ Rank(q) \in Nat
    BY <1>3, <1>5, <2>1
  <2> QED
    BY <2>1, <2>2, <2>3
<1>7. Page(s) \in SUBSET Nat /\ u \in Nat
  BY <1>1, <1>2, <1>5
<1>8. \E m \in Page(s) : \A q \in Page(s) : q <= m
  BY <1>4, <1>6, <1>7, GreatestNumber
<1>9. last \in Page(s)
  BY <1>8
<1>10. ASSUME NEW r \in U, r <= last PROVE r \in Page(s)
  <2>1. last \in U /\ Rank(last) < PageSize
    BY <1>2, <1>9
  <2>2. PageSize \in Nat
    BY OrgAssumption
  <2>3. Rank(r) <= Rank(last) /\ Rank(r) \in Nat /\ Rank(last) \in Nat
    BY <1>3, <1>10, <2>1
  <2>4. Rank(r) < PageSize
    BY <2>1, <2>2, <2>3
  <2> QED
    BY <1>2, <1>10, <2>4
<1> QED
  BY <1>7, <1>9, <1>10 DEF U

-----------------------------------------------------------------------------
(* Scans *)

ScanOf(a) ==
  [account : {a}, region : Nat, kind : 1 .. 3, after : Nat, batch : SUBSET Assets,
   found : SUBSET Assets, errs : BOOLEAN, seen : Nat, kept : SUBSET Assets, ever : SUBSET Assets]

\* The listing an asset is in
Listing(r) ==
  IF AssetData[r].kind = "vpc" THEN 1 ELSE IF AssetData[r].kind = "subnet" THEN 2 ELSE 3

Rounds(a) == IF Aws(a) THEN Len(ScanRegions) ELSE 1

InRound(a, i, r) == Aws(a) => AssetData[r].region = ScanRegions[i]

\* The scan is beyond the place where r is listed, in one of the regions that have it
Beyond(s, r) ==
  \E i \in 1 .. Rounds(s.account) :
    /\ InRound(s.account, i, r)
    /\ \/ i < s.region
       \/ i = s.region /\ Listing(r) < s.kind
       \/ i = s.region /\ Listing(r) = s.kind /\ r <= s.after

\* What a scan without an error has passed, it has; it has nothing else than
\* what there was
SoundScan(s, now) ==
  /\ s \in ScanOf(s.account)
  /\ s.found \cup s.batch \subseteq s.ever
  /\ ScanOver(s) => s.batch = {}
  /\ ~ ScanOver(s) =>
       /\ s.kept \subseteq {r \in now : AssetData[r].account = s.account}
       /\ {r \in now : AssetData[r].account = s.account} \subseteq s.ever
  /\ ~ s.errs =>
       \A r \in s.kept : InScope(s.account, r) /\ Beyond(s, r) => r \in s.found \cup s.batch

\* The part of a scan that its position says nothing of
SameScan(s, t) ==
  /\ t \in ScanOf(s.account) /\ t.seen = s.seen /\ t.kept = s.kept /\ t.ever = s.ever

LEMMA ListingKind ==
  ASSUME NEW r \in Assets
  PROVE  /\ Listing(r) \in 1 .. 3 /\ r \in Nat /\ r > 0
         /\ \A k \in 1 .. 3 : AssetData[r].kind = Kinds[k] <=> k = Listing(r)
<1>1. Kinds[1] = "vpc" /\ Kinds[2] = "subnet" /\ Kinds[3] = "eip"
  BY DEF Kinds
<1>2. AssetData[r].kind \in {"vpc", "subnet", "eip"} /\ r \in Nat /\ r > 0
  BY OrgAssumption
<1>3. \A k \in 1 .. 3 : k = 1 \/ k = 2 \/ k = 3
  OBVIOUS
<1> QED
  BY <1>1, <1>2, <1>3 DEF Listing

LEMMA RoundsTyped ==
  ASSUME NEW a
  PROVE  /\ Rounds(a) \in Nat
         /\ Aws(a) => DOMAIN ScanRegions = 1 .. Rounds(a)
         /\ \A s : s.account = a => (ScanOver(s) <=> s.region > Rounds(a))
<1>1. ScanRegions \in Seq({ScanRegions[i] : i \in DOMAIN ScanRegions})
  BY OrgAssumption
<1>2. Len(ScanRegions) \in Nat /\ DOMAIN ScanRegions = 1 .. Len(ScanRegions)
  BY <1>1
<1> QED
  BY <1>2 DEF Rounds, ScanOver

LEMMA NextTyped ==
  ASSUME NEW s, s \in ScanOf(s.account), NEW t, t = NextRegion(s) \/ t = NextListing(s)
  PROVE  /\ SameScan(s, t) /\ t.batch = {} /\ t.found = s.found /\ t.errs = s.errs
         /\ t.after = 0 /\ t.account = s.account
         /\ \/ t.region = s.region + 1 /\ t.kind = 1
            \/ s.kind # 3 /\ t.region = s.region /\ t.kind = s.kind + 1
         /\ (t = NextListing(s) /\ t.kind = 1) => s.kind = 3
<1>1. CASE t = NextRegion(s)
  <2>1. s.region + 1 \in Nat /\ 1 \in 1 .. 3 /\ 0 \in Nat
    BY DEF ScanOf
  <2>2. /\ t \in ScanOf(s.account) /\ t.seen = s.seen /\ t.kept = s.kept /\ t.ever = s.ever
        /\ t.batch = {} /\ t.found = s.found /\ t.errs = s.errs
        /\ t.after = 0 /\ t.account = s.account /\ t.region = s.region + 1 /\ t.kind = 1
    BY <1>1, <2>1 DEF NextRegion, ScanOf
  <2>3. NextListing(s).kind = 1 => s.kind = 3
    <3>1. CASE s.kind # 3
      <4>1. s.kind + 1 \in 1 .. 3 /\ s.kind + 1 # 1
        BY <3>1 DEF ScanOf
      <4>2. NextListing(s).kind = s.kind + 1
        BY <3>1, <4>1 DEF NextListing, ScanOf
      <4> QED
        BY <4>1, <4>2
    <3> QED
      BY <3>1
  <2> QED
    BY <2>2, <2>3 DEF SameScan
<1>2. CASE t = NextListing(s) /\ s.kind # 3
  <2>1. s.kind + 1 \in 1 .. 3 /\ s.kind + 1 # 1 /\ 0 \in Nat
    BY <1>2 DEF ScanOf
  <2>2. /\ t \in ScanOf(s.account) /\ t.seen = s.seen /\ t.kept = s.kept /\ t.ever = s.ever
        /\ t.batch = {} /\ t.found = s.found /\ t.errs = s.errs
        /\ t.after = 0 /\ t.account = s.account /\ t.region = s.region /\ t.kind = s.kind + 1
    BY <1>2, <2>1 DEF NextListing, ScanOf
  <2> QED
    BY <1>2, <2>1, <2>2 DEF SameScan
<1> QED
  BY <1>1, <1>2 DEF NextListing

\* Beyond the next listing is what is beyond this one, and what is left of this one
LEMMA BeyondNext ==
  ASSUME NEW s, s \in ScanOf(s.account), NEW t, t = NextListing(s), NEW r \in Assets, Beyond(t, r)
  PROVE  \/ Beyond(s, r)
         \/ Listing(r) = s.kind /\ r > s.after /\ InRound(s.account, s.region, r)
<1>1. /\ t.after = 0 /\ t.account = s.account
      /\ \/ t.region = s.region + 1 /\ t.kind = 1 /\ s.kind = 3
         \/ s.kind # 3 /\ t.region = s.region /\ t.kind = s.kind + 1
  <2>1. s.kind + 1 # 1 /\ s.kind \in Nat
    BY DEF ScanOf
  <2> QED
    BY <2>1, NextTyped
<1>2. PICK i \in 1 .. Rounds(s.account) :
        /\ InRound(s.account, i, r)
        /\ \/ i < t.region
           \/ i = t.region /\ Listing(r) < t.kind
           \/ i = t.region /\ Listing(r) = t.kind /\ r <= t.after
  BY <1>1 DEF Beyond
<1>3. /\ s.region \in Nat /\ s.kind \in 1 .. 3 /\ s.after \in Nat /\ Rounds(s.account) \in Nat
      /\ Listing(r) \in 1 .. 3 /\ r \in Nat /\ r > 0 /\ i \in Nat
  BY ListingKind, RoundsTyped DEF ScanOf
<1>4. i < s.region \/ (i = s.region /\ Listing(r) <= s.kind)
  BY <1>1, <1>2, <1>3
<1>5. \/ i < s.region
      \/ i = s.region /\ Listing(r) < s.kind
      \/ i = s.region /\ Listing(r) = s.kind /\ r <= s.after
      \/ i = s.region /\ Listing(r) = s.kind /\ r > s.after
  BY <1>3, <1>4
<1> QED
  BY <1>2, <1>5 DEF Beyond

\* All that is left of a listing
LEMMA Left ==
  ASSUME NEW s, s \in ScanOf(s.account), SoundScan(s, cloudNow), ~ ScanOver(s),
         cloudNow \subseteq Assets,
         NEW r \in s.kept, Listing(r) = s.kind, r > s.after, InRound(s.account, s.region, r)
  PROVE  r \in Unlisted(s)
<1>1. r \in Assets /\ AssetData[r].account = s.account /\ r \in cloudNow
  BY DEF SoundScan, ScanOf
<1>2. AssetData[r].kind = Kinds[s.kind]
  BY <1>1, ListingKind DEF ScanOf
<1> QED
  BY <1>1, <1>2 DEF Unlisted, OfAccount, InRound

LEMMA AfterPageSound ==
  ASSUME NEW s, SoundScan(s, cloudNow), ~ ScanOver(s), cloudNow \subseteq Assets
  PROVE  /\ SoundScan(AfterPage(s), cloudNow)
         /\ AfterPage(s).seen = s.seen /\ AfterPage(s).account = s.account
<1>1. s \in ScanOf(s.account)
  BY DEF SoundScan
<1>2. /\ Page(s) \subseteq Unlisted(s) /\ Unlisted(s) \subseteq Assets
      /\ Unlisted(s) \subseteq s.ever
  BY DEF Page, Unlisted, OfAccount, SoundScan
<1>3. PICK batch : batch = s.batch \cup {r \in Page(s) : InScope(s.account, r)}
  OBVIOUS
<1>4. batch \in SUBSET Assets /\ batch \subseteq s.ever /\ s.batch \subseteq batch
  BY <1>1, <1>2, <1>3 DEF SoundScan, ScanOf
<1>5. CASE Page(s) = Unlisted(s)
  <2>1. PICK n : n = NextListing(s)
    OBVIOUS
  <2>2. PICK t : t = [n EXCEPT !.found = n.found \cup batch]
    OBVIOUS
  <2>3. AfterPage(s) = t
    BY <1>3, <1>5, <2>1, <2>2 DEF AfterPage
  <2>4. /\ SameScan(s, n) /\ n.batch = {} /\ n.found = s.found /\ n.errs = s.errs
        /\ n.account = s.account
    BY <1>1, <2>1, NextTyped
  <2>5. /\ t \in ScanOf(s.account) /\ t.batch = {} /\ t.found = s.found \cup batch
        /\ t.errs = s.errs /\ t.account = s.account
        /\ t.seen = s.seen /\ t.kept = s.kept /\ t.ever = s.ever
        /\ t.region = n.region /\ t.kind = n.kind /\ t.after = n.after
    BY <1>4, <2>2, <2>4 DEF SameScan, ScanOf
  <2>6. ASSUME ~ s.errs, NEW r \in s.kept, InScope(s.account, r), Beyond(t, r)
        PROVE  r \in s.found \cup batch
    <3>1. Beyond(n, r) /\ r \in Assets
      BY <1>1, <2>4, <2>5, <2>6 DEF Beyond, ScanOf
    <3>2. CASE Beyond(s, r)
      BY <1>4, <2>6, <3>2 DEF SoundScan
    <3>3. CASE Listing(r) = s.kind /\ r > s.after /\ InRound(s.account, s.region, r)
      <4>1. r \in Page(s)
        BY <1>1, <1>5, <2>6, <3>3, Left
      <4> QED
        BY <1>3, <2>6, <4>1
    <3> QED
      BY <1>1, <2>1, <3>1, <3>2, <3>3, BeyondNext
  <2>7. SoundScan(t, cloudNow)
    BY <1>4, <2>5, <2>6 DEF SoundScan
  <2> QED
    BY <2>3, <2>5, <2>7
<1>6. CASE Page(s) # Unlisted(s)
  <2>1. PICK last : last = CHOOSE r \in Page(s) : \A q \in Page(s) : q <= r
    OBVIOUS
  <2>2. last \in Nat /\ \A r \in Unlisted(s) : r <= last => r \in Page(s)
    BY <1>6, <2>1, PageCut
  <2>3. PICK t : t = [s EXCEPT !.batch = batch, !.after = last]
    OBVIOUS
  <2>4. AfterPage(s) = t
    BY <1>3, <1>6, <2>1, <2>3 DEF AfterPage
  <2>5. /\ t \in ScanOf(s.account) /\ t.batch = batch /\ t.found = s.found
        /\ t.errs = s.errs /\ t.account = s.account
        /\ t.seen = s.seen /\ t.kept = s.kept /\ t.ever = s.ever
        /\ t.region = s.region /\ t.kind = s.kind /\ t.after = last
    BY <1>1, <1>4, <2>2, <2>3 DEF ScanOf
  <2>6. ASSUME ~ s.errs, NEW r \in s.kept, InScope(s.account, r), Beyond(t, r)
        PROVE  r \in s.found \cup batch
    <3>0. r \in Nat /\ s.after \in Nat
      BY <1>1, ListingKind DEF ScanOf
    <3>1. \/ Beyond(s, r)
          \/ r <= last /\ Listing(r) = s.kind /\ r > s.after /\ InRound(s.account, s.region, r)
      BY <2>5, <2>6, <3>0 DEF Beyond
    <3>2. CASE Beyond(s, r)
      BY <1>4, <2>6, <3>2 DEF SoundScan
    <3>3. CASE r <= last /\ Listing(r) = s.kind /\ r > s.after /\ InRound(s.account, s.region, r)
      <4>1. r \in Page(s)
        BY <1>1, <2>2, <3>3, Left
      <4> QED
        BY <1>3, <2>6, <4>1
    <3> QED
      BY <3>1, <3>2, <3>3
  <2>7. ~ ScanOver(t)
    BY <2>5 DEF ScanOver
  <2>8. SoundScan(t, cloudNow)
    BY <1>4, <2>5, <2>6, <2>7 DEF SoundScan
  <2> QED
    BY <2>4, <2>5, <2>8
<1> QED
  BY <1>5, <1>6

LEMMA AfterErrorSound ==
  ASSUME NEW s, SoundScan(s, cloudNow), ~ ScanOver(s)
  PROVE  /\ SoundScan(AfterError(s), cloudNow)
         /\ AfterError(s).seen = s.seen /\ AfterError(s).account = s.account
<1>1. s \in ScanOf(s.account)
  BY DEF SoundScan
<1>2. PICK n : n = IF Aws(s.account) THEN NextRegion(s) ELSE NextListing(s)
  OBVIOUS
<1>3. PICK t : t = [n EXCEPT !.errs = TRUE]
  OBVIOUS
<1>4. AfterError(s) = t
  BY <1>2, <1>3 DEF AfterError
<1>5. SameScan(s, n) /\ n.batch = {} /\ n.found = s.found /\ n.account = s.account
  BY <1>1, <1>2, NextTyped
<1>6. /\ t \in ScanOf(s.account) /\ t.batch = {} /\ t.found = s.found /\ t.errs
      /\ t.account = s.account /\ t.seen = s.seen /\ t.kept = s.kept /\ t.ever = s.ever
  BY <1>3, <1>5 DEF SameScan, ScanOf
<1> QED
  BY <1>4, <1>6 DEF SoundScan

LEMMA NewScanSound ==
  ASSUME NEW a, cloudNow \subseteq Assets, seconds \in Nat
  PROVE  SoundScan(NewScan(a), cloudNow) /\ NewScan(a).seen = seconds /\ NewScan(a).account = a
<1>1. PICK s : s = NewScan(a)
  OBVIOUS
<1>2. /\ s \in ScanOf(a) /\ s.account = a /\ s.region = 1 /\ s.kind = 1 /\ s.after = 0
      /\ s.batch = {} /\ s.found = {} /\ s.seen = seconds
      /\ s.kept = OfAccount(a) /\ s.ever = OfAccount(a)
  BY <1>1 DEF NewScan, ScanOf, OfAccount
<1>3. ASSUME NEW r \in s.kept PROVE ~ Beyond(s, r)
  <2>1. Listing(r) \in 1 .. 3 /\ r \in Nat /\ r > 0
    BY <1>2, ListingKind DEF OfAccount
  <2> QED
    BY <1>2, <2>1 DEF Beyond
<1> QED
  BY <1>1, <1>2, <1>3 DEF SoundScan, OfAccount

ScansInv ==
  /\ cloudNow \subseteq Assets /\ cloudFresh \subseteq Assets /\ seconds \in Nat
  /\ DOMAIN scans = Scanners
  /\ \A p \in Scanners : scans[p] # NoScan => SoundScan(scans[p], cloudNow)

\* A caller's scan goes on, or a scan begins or is done with
LEMMA ScanPut ==
  ASSUME ScansInv, UNCHANGED <<cloudNow, cloudFresh, seconds>>,
         NEW p \in Scanners, NEW s, s # NoScan => SoundScan(s, cloudNow),
         scans' = [scans EXCEPT ![p] = s]
  PROVE  ScansInv'
<1>1. cloudNow' = cloudNow
  OBVIOUS
<1>2. /\ DOMAIN scans' = Scanners
      /\ \A q \in Scanners : scans'[q] = IF q = p THEN s ELSE scans[q]
  BY DEF ScansInv
<1> QED
  BY <1>1, <1>2 DEF ScansInv

LEMMA ScansKept ==
  ASSUME ScansInv, UNCHANGED <<cloudNow, cloudFresh, scans>>, seconds' \in Nat
  PROVE  ScansInv'
<1>1. cloudNow' = cloudNow /\ scans' = scans
  OBVIOUS
<1> QED
  BY <1>1 DEF ScansInv

LEMMA ScanStepsSound ==
  ASSUME ScansInv, NEW p \in Scanners, ScanPage(p) \/ ScanError(p)
  PROVE  ScansInv'
<1>1. SoundScan(scans[p], cloudNow) /\ ~ ScanOver(scans[p]) /\ cloudNow \subseteq Assets
  BY DEF ScansInv, ScanPage, ScanError, Scanning
<1>2. PICK s : SoundScan(s, cloudNow) /\ ScanStep(p, s)
  BY <1>1, AfterPageSound, AfterErrorSound DEF ScanPage, ScanError
<1> QED
  BY <1>2, ScanPut DEF ScanStep

LEMMA CloudStepsSound ==
  ASSUME ScansInv, NEW r \in Assets, AssetAppears(r) \/ AssetGoes(r)
  PROVE  ScansInv'
<1>1. CASE AssetAppears(r)
  <2>1. /\ cloudNow' = cloudNow \cup {r} /\ cloudFresh' \subseteq cloudFresh
        /\ seconds' = seconds
        /\ scans' = [p \in Scanners |->
                      IF Scanning(p) THEN [scans[p] EXCEPT !.ever = scans[p].ever \cup {r}]
                      ELSE scans[p]]
    BY <1>1 DEF AssetAppears, Observe, CloudStep
  <2>2. ASSUME NEW p \in Scanners, scans'[p] # NoScan PROVE SoundScan(scans'[p], cloudNow')
    <3>1. CASE ~ Scanning(p)
      <4>1. scans'[p] = scans[p]
        BY <2>1, <3>1
      <4>2. ScanOver(scans[p]) /\ SoundScan(scans[p], cloudNow)
        BY <2>2, <3>1, <4>1 DEF Scanning, ScansInv
      <4> QED
        BY <4>1, <4>2 DEF SoundScan
    <3>2. CASE Scanning(p)
      <4>1. PICK s : s = scans[p] /\ SoundScan(s, cloudNow) /\ ~ ScanOver(s)
        BY <3>2 DEF Scanning, ScansInv
      <4>2. PICK t : t = [s EXCEPT !.ever = s.ever \cup {r}]
        OBVIOUS
      <4>3. /\ t \in ScanOf(s.account) /\ t.account = s.account /\ t.region = s.region
            /\ t.kind = s.kind /\ t.after = s.after /\ t.batch = s.batch /\ t.found = s.found
            /\ t.errs = s.errs /\ t.kept = s.kept /\ t.ever = s.ever \cup {r}
        BY <4>1, <4>2 DEF SoundScan, ScanOf
      <4>4. ~ ScanOver(t) /\ \A q : Beyond(t, q) <=> Beyond(s, q)
        BY <4>1, <4>3 DEF ScanOver, Beyond
      <4>5. SoundScan(t, cloudNow')
        BY <2>1, <4>1, <4>3, <4>4 DEF SoundScan
      <4> QED
        BY <2>1, <3>2, <4>1, <4>2, <4>5
    <3> QED
      BY <3>1, <3>2
  <2> QED
    BY <2>1, <2>2 DEF ScansInv
<1>2. CASE AssetGoes(r)
  <2>1. /\ cloudNow' = cloudNow \ {r} /\ cloudFresh' = cloudFresh
        /\ seconds' = seconds
        /\ scans' = [p \in Scanners |->
                      IF Scanning(p) THEN [scans[p] EXCEPT !.kept = scans[p].kept \ {r}]
                      ELSE scans[p]]
    BY <1>2 DEF AssetGoes, Observe, CloudStep
  <2>2. ASSUME NEW p \in Scanners, scans'[p] # NoScan PROVE SoundScan(scans'[p], cloudNow')
    <3>1. CASE ~ Scanning(p)
      <4>1. scans'[p] = scans[p]
        BY <2>1, <3>1
      <4>2. ScanOver(scans[p]) /\ SoundScan(scans[p], cloudNow)
        BY <2>2, <3>1, <4>1 DEF Scanning, ScansInv
      <4> QED
        BY <4>1, <4>2 DEF SoundScan
    <3>2. CASE Scanning(p)
      <4>1. PICK s : s = scans[p] /\ SoundScan(s, cloudNow) /\ ~ ScanOver(s)
        BY <3>2 DEF Scanning, ScansInv
      <4>2. PICK t : t = [s EXCEPT !.kept = s.kept \ {r}]
        OBVIOUS
      <4>3. /\ t \in ScanOf(s.account) /\ t.account = s.account /\ t.region = s.region
            /\ t.kind = s.kind /\ t.after = s.after /\ t.batch = s.batch /\ t.found = s.found
            /\ t.errs = s.errs /\ t.kept = s.kept \ {r} /\ t.ever = s.ever
        BY <4>1, <4>2 DEF SoundScan, ScanOf
      <4>4. ~ ScanOver(t) /\ \A q : Beyond(t, q) <=> Beyond(s, q)
        BY <4>1, <4>3 DEF ScanOver, Beyond
      <4>5. SoundScan(t, cloudNow')
        BY <2>1, <4>1, <4>3, <4>4 DEF SoundScan
      <4> QED
        BY <2>1, <3>2, <4>1, <4>2, <4>5
    <3> QED
      BY <3>1, <3>2
  <2> QED
    BY <2>1, <2>2 DEF ScansInv
<1> QED
  BY <1>1, <1>2

LEMMA ScansInvInit == OrgInit => ScansInv
BY DEF OrgInit, ScansInv

LEMMA ScansInvStep == ScansInv /\ [OrgNext]_orgVars => ScansInv'
<1> SUFFICES ASSUME ScansInv, [OrgNext]_orgVars PROVE ScansInv'
  OBVIOUS
<1>1. CASE UNCHANGED orgVars
  BY <1>1, ScansKept DEF orgVars, scanVars, ScansInv
<1>2. CASE \E p \in Scanners : ScanPage(p) \/ ScanError(p)
  BY <1>2, ScanStepsSound
<1>3. CASE \E r \in Assets : AssetAppears(r) \/ AssetGoes(r)
  BY <1>3, CloudStepsSound
<1>4. CASE NextMember \/ MemberScanned
  <2>1. "agent" \in Scanners /\ UNCHANGED <<cloudNow, cloudFresh, seconds>>
    BY <1>4 DEF Scanners, NextMember, MemberScanned, AgentStep
  <2>2. \/ UNCHANGED scans
        \/ \E a : scans' = [scans EXCEPT !["agent"] = NewScan(a)]
        \/ scans' = [scans EXCEPT !["agent"] = NoScan]
    BY <1>4 DEF NextMember, MemberScanned
  <2>3. \A a : SoundScan(NewScan(a), cloudNow)
    BY NewScanSound DEF ScansInv
  <2>4. CASE UNCHANGED scans
    BY <2>1, <2>4, ScansKept DEF ScansInv
  <2> QED
    BY <2>1, <2>2, <2>3, <2>4, ScanPut
<1>5. ASSUME NEW w \in Servers, LocalScanned(w) \/ \E i \in DOMAIN orgRows : LocalSync(w, i)
      PROVE  ScansInv'
  <2>1. w \in Scanners /\ UNCHANGED <<cloudNow, cloudFresh, seconds>>
    BY <1>5 DEF Scanners, LocalScanned, LocalSync, IngestStep
  <2>2. \/ \E a : scans' = [scans EXCEPT ![w] = NewScan(a)]
        \/ scans' = [scans EXCEPT ![w] = NoScan]
    BY <1>5 DEF LocalScanned, LocalSync
  <2>3. \A a : SoundScan(NewScan(a), cloudNow)
    BY NewScanSound DEF ScansInv
  <2> QED
    BY <2>1, <2>2, <2>3, ScanPut
<1>6. CASE SecondPasses
  BY <1>6, ScansKept DEF SecondPasses, scanVars, ScansInv
<1>7. CASE \/ \E asked \in BOOLEAN : ListMembers(asked)
           \/ PushFails \/ PushRejected \/ PushTimesOut
  BY <1>7, ScansKept DEF ListMembers, PushFails, PushRejected, PushTimesOut, AgentStep, ScansInv
<1>8. ASSUME NEW w \in Servers,
             \/ PushReport(w) \/ Answered(w) \/ LookupAccount(w) \/ CreateOrgAccount(w)
             \/ UpsertAsset(w) \/ MarkStaleAssets(w) \/ FinishIngest(w)
      PROVE  UNCHANGED <<cloudNow, cloudFresh, scans, seconds>>
  BY <1>8 DEF PushReport, Answered, LookupAccount, CreateOrgAccount, UpsertAsset,
     MarkStaleAssets, FinishIngest, AgentStep, IngestStep, scanVars
<1> QED
  BY <1>1, <1>2, <1>3, <1>4, <1>5, <1>6, <1>7, <1>8, ScansKept DEF OrgNext, ScansInv

(***************************************************************************)
(* However the cloud changes while its pages are read, and however many    *)
(* calls of it fail: a scan that reports no error has every asset that was *)
(* there all along.                                                        *)
(***************************************************************************)
THEOREM ScanExactTheorem == OrgSpec => []ScanExact
<1>1. ScansInv => ScanExact
  <2> SUFFICES ASSUME ScansInv, NEW p \in Scanners,
                      scans[p] # NoScan, ScanOver(scans[p]), ~ scans[p].errs
               PROVE  /\ {r \in scans[p].kept : InScope(scans[p].account, r)} \subseteq scans[p].found
                      /\ scans[p].found \subseteq scans[p].ever
    BY DEF ScanExact
  <2>1. PICK s : s = scans[p] /\ SoundScan(s, cloudNow)
    BY DEF ScansInv
  <2>2. s.batch = {} /\ s.found \subseteq s.ever /\ s.region \in Nat /\ s.region > Rounds(s.account)
    BY <2>1, RoundsTyped DEF SoundScan, ScanOf
  <2>3. ASSUME NEW r \in s.kept, InScope(s.account, r) PROVE Beyond(s, r)
    <3>1. PICK i \in 1 .. Rounds(s.account) : InRound(s.account, i, r)
      <4>1. CASE Aws(s.account)
        BY <2>3, <4>1, RoundsTyped DEF InScope, Configured, InRound
      <4>2. CASE ~ Aws(s.account)
        BY <4>2 DEF InRound, Rounds
      <4> QED
        BY <4>1, <4>2
    <3>2. i < s.region
      BY <2>2, RoundsTyped
    <3> QED
      BY <3>1, <3>2 DEF Beyond
  <2> QED
    BY <2>1, <2>2, <2>3 DEF SoundScan
<1> QED
  BY <1>1, ScansInvInit, ScansInvStep, PTL DEF OrgSpec

-----------------------------------------------------------------------------
(* Ingests *)

IngestShape(g) ==
  g = [op |-> g.op, todo |-> g.todo, time |-> g.time, left |-> g.left, row |-> g.row,
       wrote |-> g.wrote, failed |-> g.failed, job |-> g.job, local |-> g.local]

\* What the run of g has written and nobody after it, in rows
Dated(g, k, rows, store) ==
  /\ k \in DOMAIN rows
  /\ store = "sqlite" => rows[k].seen \in Nat /\ g.time <= rows[k].seen
  /\ store # "sqlite" /\ g.local => rows[k].seen = g.time

\* A run marks by a time that nothing it wrote is older than, but the reports of
\* an agent; a local sync has but the report of its own scan
SoundIngest(g, scan, rows, now, store) ==
  /\ IngestShape(g)
  /\ g.time \in Nat /\ g.time <= now
  /\ g.op # "upsert" => g.wrote = {}
  /\ g.op = "scan" => g.local
  /\ g.local =>
       \/ g.op = "scan" /\ scan.seen = g.time
       \/ g.op = "upsert" /\ (\E report : g.todo = <<report>> /\ report.seen = g.time)
       \/ g.op = "lookup" /\ g.todo = <<>>
  /\ \A k \in g.wrote : Dated(g, k, rows, store)

IngestsInv ==
  /\ DOMAIN ingests = Servers
  /\ \A k \in DOMAIN stored : stored[k] = [status |-> stored[k].status, seen |-> stored[k].seen]
  /\ \A w \in Servers : SoundIngest(ingests[w], scans[w], stored, seconds, orgBackend)

OrgInv == ScansInv /\ IngestsInv

\* No step of a scan or of the cloud changes the time a scan began
LEMMA ScanDates ==
  ASSUME ScansInv, NEW p \in Scanners,
         \/ \E q \in Scanners : ScanPage(q) \/ ScanError(q)
         \/ \E r \in Assets : AssetAppears(r) \/ AssetGoes(r)
  PROVE  scans'[p].seen = scans[p].seen
<1>1. ASSUME NEW q \in Scanners, ScanPage(q) \/ ScanError(q) PROVE scans'[p].seen = scans[p].seen
  <2>1. PICK s : scans' = [scans EXCEPT ![q] = s] /\ s.seen = scans[q].seen
    BY <1>1, AfterPageSound, AfterErrorSound DEF ScanPage, ScanError, ScanStep, Scanning, ScansInv
  <2> QED
    BY <2>1 DEF ScansInv
<1>2. ASSUME NEW r \in Assets, AssetAppears(r) \/ AssetGoes(r)
      PROVE  scans'[p].seen = scans[p].seen
  <2>1. CASE ~ Scanning(p)
    BY <1>2, <2>1 DEF AssetAppears, AssetGoes, Observe
  <2>2. CASE Scanning(p)
    <3>1. PICK s : s = scans[p] /\ s \in ScanOf(s.account)
      BY <2>2 DEF Scanning, ScansInv, SoundScan
    <3>2. \A kept, ever :
            [s EXCEPT !.kept = kept].seen = s.seen /\ [s EXCEPT !.ever = ever].seen = s.seen
      BY <3>1 DEF ScanOf
    <3>3. \/ scans'[p] = [s EXCEPT !.ever = s.ever \cup {r}]
          \/ scans'[p] = [s EXCEPT !.kept = s.kept \ {r}]
      BY <1>2, <2>2, <3>1 DEF AssetAppears, AssetGoes, Observe
    <3> QED
      BY <3>1, <3>2, <3>3
  <2> QED
    BY <2>1, <2>2
<1> QED
  BY <1>1, <1>2

\* Time passes, and rows change but for the time they were seen at
LEMMA StaysSound ==
  ASSUME NEW g, NEW scan, NEW rows, NEW now \in Nat, NEW store,
         SoundIngest(g, scan, rows, now, store),
         NEW scan2, scan2.seen = scan.seen, NEW now2 \in Nat, now <= now2,
         NEW rows2, DOMAIN rows2 = DOMAIN rows, \A k \in DOMAIN rows : rows2[k].seen = rows[k].seen
  PROVE  SoundIngest(g, scan2, rows2, now2, store)
<1>1. g.time <= now2
  BY DEF SoundIngest
<1>2. \A k \in g.wrote : Dated(g, k, rows2, store)
  BY DEF SoundIngest, Dated
<1> QED
  BY <1>1, <1>2 DEF SoundIngest

LEMMA ShapeOf ==
  ASSUME NEW op, NEW todo, NEW time, NEW left, NEW row, NEW wrote, NEW failed, NEW job, NEW local,
         NEW h,
         h = [op |-> op, todo |-> todo, time |-> time, left |-> left, row |-> row,
              wrote |-> wrote, failed |-> failed, job |-> job, local |-> local]
  PROVE  /\ IngestShape(h) /\ h.op = op /\ h.todo = todo /\ h.time = time
         /\ h.wrote = wrote /\ h.local = local
BY DEF IngestShape

Moved(g, op, todo, left, row, wrote, failed) ==
  [g EXCEPT !.op = op, !.todo = todo, !.left = left, !.row = row, !.wrote = wrote,
            !.failed = failed]

LEMMA MovedShape ==
  ASSUME NEW g, IngestShape(g), NEW op, NEW todo, NEW left, NEW row, NEW wrote, NEW failed, NEW h,
         h = Moved(g, op, todo, left, row, wrote, failed)
  PROVE  /\ IngestShape(h) /\ h.op = op /\ h.todo = todo /\ h.time = g.time
         /\ h.wrote = wrote /\ h.local = g.local
<1>1. PICK time, job, local :
        /\ time = g.time /\ job = g.job /\ local = g.local
        /\ h = [op |-> op, todo |-> todo, time |-> time, left |-> left, row |-> row,
                wrote |-> wrote, failed |-> failed, job |-> job, local |-> local]
  BY DEF Moved, IngestShape
<1> QED
  BY <1>1, ShapeOf

\* A run that has written nothing, of an agent's report or in its scan
LEMMA QuietSound ==
  ASSUME NEW h, IngestShape(h), NEW scan, NEW rows, NEW now \in Nat, NEW store,
         h.time \in Nat, h.time <= now, h.wrote = {},
         \/ h.op # "scan" /\ ~ h.local
         \/ h.op = "scan" /\ h.local /\ scan.seen = h.time
  PROVE  SoundIngest(h, scan, rows, now, store)
BY DEF SoundIngest

\* A run that stays where it is, or a local sync that goes to its next place
LEMMA MovedSound ==
  ASSUME NEW g, NEW scan, NEW rows, NEW now \in Nat, NEW store,
         SoundIngest(g, scan, rows, now, store),
         NEW op, NEW todo, NEW left, NEW row, NEW wrote, NEW failed, NEW h,
         h = Moved(g, op, todo, left, row, wrote, failed),
         op # "scan", op # "upsert" => wrote = {},
         g.local => \/ op = "upsert" /\ (\E report : todo = <<report>> /\ report.seen = g.time)
                    \/ op = "lookup" /\ todo = <<>>,
         NEW scan2, NEW rows2, \A k \in wrote : Dated(g, k, rows2, store)
  PROVE  SoundIngest(h, scan2, rows2, now, store)
<1>1. /\ IngestShape(h) /\ h.op = op /\ h.todo = todo /\ h.time = g.time
      /\ h.wrote = wrote /\ h.local = g.local
  BY MovedShape DEF SoundIngest
<1>2. \A k \in h.wrote : Dated(h, k, rows2, store)
  BY <1>1 DEF Dated
<1> QED
  BY <1>1, <1>2 DEF SoundIngest

\* The local variables of a request, of a local sync, and of an answer
Request(todo, time, job) ==
  [FreeServer EXCEPT !.op = "lookup", !.todo = todo, !.time = time, !.job = job]

Sync(time, row) == [FreeServer EXCEPT !.op = "scan", !.time = time, !.row = row, !.local = TRUE]

Answer == [FreeServer EXCEPT !.op = "answer"]

LEMMA RequestShape ==
  ASSUME NEW todo, NEW time, NEW job, NEW h, h = Request(todo, time, job)
  PROVE  IngestShape(h) /\ h.op = "lookup" /\ h.time = time /\ h.wrote = {} /\ ~ h.local
<1>1. PICK op, no, row, none :
        /\ op = "lookup" /\ no = FALSE /\ row = 0 /\ none = {}
        /\ h = [op |-> op, todo |-> todo, time |-> time, left |-> none, row |-> row,
                wrote |-> none, failed |-> no, job |-> job, local |-> no]
  BY DEF Request, FreeServer
<1>2. IngestShape(h) /\ h.op = op /\ h.time = time /\ h.wrote = none /\ h.local = no
  BY <1>1, ShapeOf
<1>3. ~ h.local
  BY <1>1, <1>2
<1> QED
  BY <1>1, <1>2, <1>3

LEMMA SyncShape ==
  ASSUME NEW time, NEW row, NEW h, h = Sync(time, row)
  PROVE  IngestShape(h) /\ h.op = "scan" /\ h.time = time /\ h.wrote = {} /\ h.local
<1>1. PICK op, no, yes, none, todo :
        /\ op = "scan" /\ no = FALSE /\ yes = TRUE /\ none = {} /\ todo = <<>>
        /\ h = [op |-> op, todo |-> todo, time |-> time, left |-> none, row |-> row,
                wrote |-> none, failed |-> no, job |-> no, local |-> yes]
  BY DEF Sync, FreeServer
<1>2. IngestShape(h) /\ h.op = op /\ h.time = time /\ h.wrote = none /\ h.local = yes
  BY <1>1, ShapeOf
<1>3. h.local
  BY <1>1, <1>2
<1> QED
  BY <1>1, <1>2, <1>3

LEMMA FreeShape ==
  ASSUME NEW h, h = FreeServer \/ h = Answer
  PROVE  IngestShape(h) /\ h.op # "scan" /\ h.time = 0 /\ h.wrote = {} /\ ~ h.local
<1>1. PICK op, no, zero, none, todo :
        /\ op # "scan" /\ no = FALSE /\ zero = 0 /\ none = {} /\ todo = <<>>
        /\ h = [op |-> op, todo |-> todo, time |-> zero, left |-> none, row |-> zero,
                wrote |-> none, failed |-> no, job |-> no, local |-> no]
  <2>1. PICK free, answer, no, zero, none, todo :
          /\ free = "free" /\ answer = "answer" /\ no = FALSE /\ zero = 0 /\ none = {} /\ todo = <<>>
    OBVIOUS
  <2>2. CASE h = FreeServer
    <3>1. h = [op |-> free, todo |-> todo, time |-> zero, left |-> none, row |-> zero,
               wrote |-> none, failed |-> no, job |-> no, local |-> no]
      BY <2>1, <2>2 DEF FreeServer
    <3> QED
      BY <2>1, <3>1
  <2>3. CASE h = Answer
    <3>1. h = [op |-> answer, todo |-> todo, time |-> zero, left |-> none, row |-> zero,
               wrote |-> none, failed |-> no, job |-> no, local |-> no]
      BY <2>1, <2>3 DEF Answer, FreeServer
    <3> QED
      BY <2>1, <3>1
  <2> QED
    BY <2>2, <2>3
<1>2. IngestShape(h) /\ h.op = op /\ h.time = zero /\ h.wrote = none /\ h.local = no
  BY <1>1, ShapeOf
<1>3. ~ h.local
  BY <1>1, <1>2
<1> QED
  BY <1>1, <1>2, <1>3

\* One goroutine moves, and the rows and the time stay
LEMMA IngestPut ==
  ASSUME OrgInv, UNCHANGED <<orgBackend, stored, seconds>>, NEW w \in Servers, NEW h,
         ingests' = [ingests EXCEPT ![w] = h],
         SoundIngest(h, scans'[w], stored, seconds, orgBackend),
         \A v \in Servers \ {w} : scans'[v].seen = scans[v].seen
  PROVE  IngestsInv'
<1>1. seconds' = seconds /\ stored' = stored /\ orgBackend' = orgBackend
  OBVIOUS
<1>2. DOMAIN ingests' = Servers /\ ingests'[w] = h
      /\ \A v \in Servers \ {w} : ingests'[v] = ingests[v]
  BY DEF OrgInv, IngestsInv
<1>3. seconds \in Nat
  BY DEF OrgInv, ScansInv
<1>4. ASSUME NEW v \in Servers \ {w}
      PROVE  SoundIngest(ingests[v], scans'[v], stored, seconds, orgBackend)
  BY <1>3, <1>4, StaysSound DEF OrgInv, IngestsInv
<1>5. \A v \in Servers : SoundIngest(ingests'[v], scans'[v], stored', seconds', orgBackend')
  BY <1>1, <1>2, <1>4
<1> QED
  BY <1>1, <1>2, <1>5 DEF OrgInv, IngestsInv

\* No goroutine moves
LEMMA IngestsKept ==
  ASSUME OrgInv, UNCHANGED <<orgBackend, stored, ingests>>, seconds' \in Nat, seconds <= seconds',
         \A v \in Servers : scans'[v].seen = scans[v].seen
  PROVE  IngestsInv'
<1>1. stored' = stored /\ orgBackend' = orgBackend /\ ingests' = ingests
  OBVIOUS
<1>2. seconds \in Nat
  BY DEF OrgInv, ScansInv
<1>3. PICK now \in Nat : now = seconds'
  OBVIOUS
<1>4. ASSUME NEW v \in Servers
      PROVE  SoundIngest(ingests[v], scans'[v], stored, now, orgBackend)
  BY <1>2, <1>3, <1>4, StaysSound DEF OrgInv, IngestsInv
<1>5. \A v \in Servers : SoundIngest(ingests'[v], scans'[v], stored', seconds', orgBackend')
  BY <1>1, <1>3, <1>4
<1> QED
  BY <1>1, <1>5 DEF OrgInv, IngestsInv

LEMMA ScanIngests ==
  ASSUME OrgInv,
         \/ \E p \in Scanners : ScanPage(p) \/ ScanError(p)
         \/ \E r \in Assets : AssetAppears(r) \/ AssetGoes(r)
         \/ \E asked \in BOOLEAN : ListMembers(asked)
         \/ NextMember \/ MemberScanned \/ PushFails \/ PushRejected \/ PushTimesOut \/ SecondPasses
  PROVE  IngestsInv'
<1>1. seconds \in Nat /\ "agent" \notin Servers /\ DOMAIN scans = Scanners /\ Servers \subseteq Scanners
  BY OrgAssumption DEF OrgInv, ScansInv, Scanners
<1>2. ASSUME NEW p \in Scanners, ScanPage(p) \/ ScanError(p) PROVE IngestsInv'
  <2>1. UNCHANGED <<orgBackend, stored, ingests, seconds>>
    BY <1>2 DEF ScanPage, ScanError, ScanStep, serverVars
  <2>2. \A v \in Servers : scans'[v].seen = scans[v].seen
    BY <1>1, <1>2, ScanDates DEF OrgInv
  <2> QED
    BY <1>1, <2>1, <2>2, IngestsKept
<1>3. ASSUME NEW r \in Assets, AssetAppears(r) \/ AssetGoes(r) PROVE IngestsInv'
  <2>1. UNCHANGED <<orgBackend, stored, ingests, seconds>>
    BY <1>3 DEF AssetAppears, AssetGoes, CloudStep, serverVars
  <2>2. \A v \in Servers : scans'[v].seen = scans[v].seen
    BY <1>1, <1>3, ScanDates DEF OrgInv
  <2> QED
    BY <1>1, <2>1, <2>2, IngestsKept
<1>4. CASE \/ \E asked \in BOOLEAN : ListMembers(asked)
           \/ NextMember \/ MemberScanned \/ PushFails \/ PushRejected \/ PushTimesOut
  <2>1. UNCHANGED <<orgBackend, stored, ingests, seconds>>
    BY <1>4 DEF ListMembers, NextMember, MemberScanned, PushFails, PushRejected, PushTimesOut, AgentStep
  <2>2. scans' = scans \/ \E s : scans' = [scans EXCEPT !["agent"] = s]
    BY <1>4 DEF ListMembers, NextMember, MemberScanned, PushFails, PushRejected, PushTimesOut
  <2>3. \A v \in Servers : scans'[v] = scans[v]
    BY <1>1, <2>2
  <2> QED
    BY <1>1, <2>1, <2>3, IngestsKept
<1>5. CASE SecondPasses
  <2>1. UNCHANGED <<orgBackend, stored, ingests, scans>> /\ seconds' = seconds + 1
    BY <1>5 DEF SecondPasses, serverVars, scanVars
  <2> QED
    BY <1>1, <2>1, IngestsKept
<1> QED
  BY <1>2, <1>3, <1>4, <1>5

LEMMA NewScanDate == \A a : NewScan(a).seen = seconds
BY DEF NewScan

\* A request comes, is answered, or a local sync begins
LEMMA FreedIngests ==
  ASSUME OrgInv, NEW w \in Servers,
         \/ PushReport(w) \/ Answered(w) \/ FinishIngest(w)
         \/ \E i \in DOMAIN orgRows : LocalSync(w, i)
  PROVE  IngestsInv'
<1>1. seconds \in Nat /\ DOMAIN scans = Scanners /\ Servers \subseteq Scanners
  BY DEF OrgInv, ScansInv, Scanners
<1>2. UNCHANGED <<orgBackend, stored, seconds>>
  BY DEF PushReport, Answered, FinishIngest, LocalSync, AgentStep, IngestStep
<1>3. CASE PushReport(w)
  <2>1. PICK h : h = Request(orgAgent.report, seconds, orgAgent.job)
    OBVIOUS
  <2>2. ingests' = [ingests EXCEPT ![w] = h] /\ scans' = scans
    BY <1>3, <2>1 DEF PushReport, Request
  <2>3. IngestShape(h) /\ h.op # "scan" /\ h.time \in Nat /\ h.time <= seconds /\ h.wrote = {} /\ ~ h.local
    BY <1>1, <2>1, RequestShape
  <2>4. SoundIngest(h, scans'[w], stored, seconds, orgBackend)
    BY <1>1, <2>3, QuietSound
  <2> QED
    BY <1>2, <2>2, <2>4, IngestPut
<1>4. CASE Answered(w) \/ FinishIngest(w)
  <2>1. PICK h : /\ h = FreeServer \/ h = Answer
                 /\ ingests' = [ingests EXCEPT ![w] = h]
    BY <1>4 DEF Answered, FinishIngest, IngestStep, Answer
  <2>2. scans' = scans
    BY <1>4 DEF Answered, FinishIngest
  <2>3. IngestShape(h) /\ h.op # "scan" /\ h.time \in Nat /\ h.time <= seconds /\ h.wrote = {} /\ ~ h.local
    BY <1>1, <2>1, FreeShape
  <2>4. SoundIngest(h, scans'[w], stored, seconds, orgBackend)
    BY <1>1, <2>3, QuietSound
  <2> QED
    BY <1>2, <2>1, <2>2, <2>4, IngestPut
<1>5. ASSUME NEW i \in DOMAIN orgRows, LocalSync(w, i) PROVE IngestsInv'
  <2>1. PICK s, h : s = NewScan(orgRows[i].account) /\ h = Sync(seconds, i)
    OBVIOUS
  <2>2. scans' = [scans EXCEPT ![w] = s] /\ ingests' = [ingests EXCEPT ![w] = h]
    BY <1>5, <2>1 DEF LocalSync, IngestStep, Sync
  <2>3. s.seen = seconds
    BY <2>1, NewScanDate
  <2>4. scans'[w] = s /\ \A v \in Servers \ {w} : scans'[v] = scans[v]
    BY <1>1, <2>2
  <2>5. IngestShape(h) /\ h.op = "scan" /\ h.time \in Nat /\ h.time <= seconds /\ h.wrote = {}
        /\ h.local /\ s.seen = h.time
    BY <1>1, <2>1, <2>3, SyncShape
  <2>6. SoundIngest(h, scans'[w], stored, seconds, orgBackend)
    BY <1>1, <2>4, <2>5, QuietSound
  <2> QED
    BY <1>2, <2>2, <2>4, <2>6, IngestPut
<1> QED
  BY <1>3, <1>4, <1>5

\* An account of an agent's report is looked up, made or skipped
LEMMA LookupIngests ==
  ASSUME OrgInv, NEW w \in Servers, LookupAccount(w) \/ CreateOrgAccount(w)
  PROVE  IngestsInv'
<1>1. /\ UNCHANGED <<orgBackend, stored, seconds, scans>>
      /\ seconds \in Nat /\ SoundIngest(ingests[w], scans[w], stored, seconds, orgBackend)
  BY DEF LookupAccount, CreateOrgAccount, IngestStep, OrgInv, ScansInv, IngestsInv
<1>2. PICK g : g = ingests[w]
  OBVIOUS
<1>3. ~ g.local /\ g.wrote = {}
  BY <1>1, <1>2 DEF LookupAccount, CreateOrgAccount, SoundIngest
<1>4. PICK op, todo, left, row, failed, h :
        /\ op # "scan" /\ h = Moved(g, op, todo, left, row, g.wrote, failed)
        /\ ingests' = [ingests EXCEPT ![w] = h]
  <2>1. IngestShape(g)
    BY <1>1, <1>2 DEF SoundIngest
  <2>2. PICK lookup, create, upsert, yes :
          lookup = "lookup" /\ create = "create" /\ upsert = "upsert" /\ yes = TRUE
    OBVIOUS
  <2>3. ASSUME NEW i PROVE Process(w, i) = Moved(g, upsert, g.todo, Member(w).found, i, g.wrote, g.failed)
    BY <1>2, <2>1, <2>2 DEF Process, Moved, IngestShape
  <2>4. Skip(w) = Moved(g, lookup, Tail(g.todo), g.left, g.row, g.wrote, yes)
    BY <1>2, <2>1, <2>2 DEF Skip, Moved, IngestShape
  <2>5. [ingests[w] EXCEPT !.op = "create"] = Moved(g, create, g.todo, g.left, g.row, g.wrote, g.failed)
    BY <1>2, <2>1, <2>2 DEF Moved, IngestShape
  <2>6. PICK h : /\ ingests' = [ingests EXCEPT ![w] = h]
                 /\ \/ \E i : h = Process(w, i)
                    \/ h = Skip(w)
                    \/ h = [ingests[w] EXCEPT !.op = "create"]
    BY DEF LookupAccount, CreateOrgAccount, IngestStep
  <2>7. lookup # "scan" /\ create # "scan" /\ upsert # "scan"
    BY <2>2
  <2>8. \E op, todo, left, row, failed :
          op # "scan" /\ h = Moved(g, op, todo, left, row, g.wrote, failed)
    <3>1. ASSUME NEW i, h = Process(w, i)
          PROVE  h = Moved(g, upsert, g.todo, Member(w).found, i, g.wrote, g.failed)
      BY <2>3, <3>1
    <3>2. CASE h = Skip(w)
      BY <2>4, <2>7, <3>2
    <3>3. CASE h = [ingests[w] EXCEPT !.op = "create"]
      BY <2>5, <2>7, <3>3
    <3> QED
      BY <2>6, <2>7, <3>1, <3>2, <3>3
  <2> QED
    BY <2>6, <2>8
<1>5. SoundIngest(h, scans'[w], stored, seconds, orgBackend)
  BY <1>1, <1>2, <1>3, <1>4, MovedSound
<1> QED
  BY <1>1, <1>4, <1>5, IngestPut

\* A local sync has scanned its account
LEMMA ScannedIngests ==
  ASSUME OrgInv, NEW w \in Servers, LocalScanned(w)
  PROVE  IngestsInv'
<1>1. /\ UNCHANGED <<orgBackend, stored, seconds>> /\ scans' = [scans EXCEPT ![w] = NoScan]
      /\ seconds \in Nat /\ SoundIngest(ingests[w], scans[w], stored, seconds, orgBackend)
      /\ DOMAIN scans = Scanners /\ w \in Scanners
  BY DEF LocalScanned, IngestStep, OrgInv, ScansInv, IngestsInv, Scanners
<1>2. \A v \in Servers \ {w} : scans'[v] = scans[v]
  BY <1>1
<1>3. PICK g, upsert, report : g = ingests[w] /\ upsert = "upsert" /\ report = AccountReport(scans[w])
  OBVIOUS
<1>4. IngestShape(g) /\ g.wrote = {} /\ report.seen = g.time
  <2>1. g.op = "scan"
    BY <1>3 DEF LocalScanned
  <2>2. scans[w].seen = g.time /\ IngestShape(g) /\ g.wrote = {}
    BY <1>1, <1>3, <2>1 DEF SoundIngest
  <2> QED
    BY <1>3, <2>2 DEF AccountReport
<1>5. PICK h : /\ ingests' = [ingests EXCEPT ![w] = h]
               /\ h = FreeServer \/ h = Found(w)
  BY DEF LocalScanned, IngestStep
<1>6. SoundIngest(h, scans'[w], stored, seconds, orgBackend)
  <2>1. CASE h = FreeServer
    <3>1. IngestShape(h) /\ h.op # "scan" /\ h.time \in Nat /\ h.time <= seconds /\ h.wrote = {} /\ ~ h.local
      BY <1>1, <2>1, FreeShape
    <3> QED
      BY <1>1, <3>1, QuietSound
  <2>2. CASE h = Found(w)
    <3>1. h = Moved(g, upsert, <<report>>, scans[w].found, g.row, g.wrote, g.failed)
      BY <1>3, <1>4, <2>2 DEF Found, Moved, IngestShape
    <3>2. PICK todo : todo = <<report>>
      OBVIOUS
    <3> QED
      BY <1>1, <1>3, <1>4, <3>1, <3>2, MovedSound
  <2> QED
    BY <1>5, <2>1, <2>2
<1> QED
  BY <1>1, <1>2, <1>5, <1>6, IngestPut

\* An asset is written, by w and after all who wrote it before
LEMMA UpsertIngests ==
  ASSUME OrgInv, NEW w \in Servers, UpsertAsset(w)
  PROVE  IngestsInv'
<1>1. /\ orgBackend' = orgBackend /\ seconds' = seconds /\ scans' = scans
      /\ seconds \in Nat /\ DOMAIN ingests = Servers /\ ingests[w].op = "upsert"
      /\ \A v \in Servers : SoundIngest(ingests[v], scans[v], stored, seconds, orgBackend)
  BY DEF UpsertAsset, OrgInv, ScansInv, IngestsInv, scanVars
<1>2. PICK r, key, left, yes :
        /\ r = CHOOSE a \in ingests[w].left : \A q \in ingests[w].left : a <= q
        /\ key = <<ingests[w].row, r>> /\ left = ingests[w].left \ {r} /\ yes = TRUE
  OBVIOUS
<1>3. PICK g, upsert : g = ingests[w] /\ upsert = "upsert"
  OBVIOUS
<1>4. /\ IngestShape(g) /\ SoundIngest(g, scans[w], stored, seconds, orgBackend) /\ g.op = upsert
      /\ g.local => \E report : g.todo = <<report>> /\ report.seen = g.time
  BY <1>1, <1>3 DEF SoundIngest
<1>5. CASE ingests' = [ingests EXCEPT ![w] = [[ingests[w] EXCEPT !.left = left] EXCEPT !.failed = yes]]
           /\ stored' = stored
  <2>1. PICK h : h = Moved(g, upsert, g.todo, left, g.row, g.wrote, yes)
    OBVIOUS
  <2>2. ingests' = [ingests EXCEPT ![w] = h]
    BY <1>3, <1>4, <1>5, <2>1 DEF Moved, IngestShape
  <2>3. SoundIngest(h, scans'[w], stored, seconds, orgBackend)
    <3>1. upsert # "scan" /\ \A k \in g.wrote : Dated(g, k, stored, orgBackend)
      BY <1>3, <1>4 DEF SoundIngest
    <3> QED
      BY <1>1, <1>3, <1>4, <2>1, <3>1, MovedSound
  <2> QED
    BY <1>1, <1>5, <2>2, <2>3, IngestPut
<1>6. CASE /\ stored' = [k \in DOMAIN stored \cup {key} |->
                          IF k = key THEN Upserted(Member(w).seen) ELSE stored[k]]
           /\ ingests' = [v \in Servers |->
                           IF v = w THEN [[ingests[w] EXCEPT !.left = left] EXCEPT !.wrote = @ \cup {key}]
                           ELSE [ingests[v] EXCEPT !.wrote = @ \ {key}]]
  <2>1. PICK rows : /\ rows = stored'
                    /\ DOMAIN rows = DOMAIN stored \cup {key} /\ rows[key] = Upserted(Member(w).seen)
                    /\ \A k \in DOMAIN stored : k # key => rows[k] = stored[k]
    BY <1>6
  <2>2. \A k \in DOMAIN rows : rows[k] = [status |-> rows[k].status, seen |-> rows[k].seen]
    <3>1. rows[key] = [status |-> rows[key].status, seen |-> rows[key].seen]
      BY <2>1 DEF Upserted, SqliteRow, CollectedRow
    <3> QED
      BY <2>1, <3>1 DEF OrgInv, IngestsInv
  <2>3. rows[key].seen = IF orgBackend = "sqlite" THEN seconds ELSE Member(w).seen
    BY <2>1 DEF Upserted, SqliteRow, CollectedRow
  <2>4. ASSUME NEW v \in Servers PROVE SoundIngest(ingests'[v], scans'[v], rows, seconds, orgBackend)
    <3>1. CASE v = w
      <4>1. PICK wrote, h : wrote = g.wrote \cup {key} /\ h = Moved(g, upsert, g.todo, left, g.row, wrote, g.failed)
        OBVIOUS
      <4>2. ingests'[w] = h
        BY <1>3, <1>4, <1>6, <4>1 DEF Moved, IngestShape
      <4>3. Dated(g, key, rows, orgBackend)
        <5>1. orgBackend = "sqlite" => rows[key].seen \in Nat /\ g.time <= rows[key].seen
          BY <1>1, <1>4, <2>3 DEF SoundIngest
        <5>2. orgBackend # "sqlite" /\ g.local => rows[key].seen = g.time
          BY <1>3, <1>4, <2>3 DEF Member
        <5> QED
          BY <2>1, <5>1, <5>2 DEF Dated
      <4>4. ASSUME NEW k \in g.wrote, k # key PROVE Dated(g, k, rows, orgBackend)
        BY <1>4, <2>1, <4>4 DEF SoundIngest, Dated
      <4>5. upsert # "scan" /\ \A k \in wrote : Dated(g, k, rows, orgBackend)
        BY <1>3, <4>1, <4>3, <4>4
      <4>6. SoundIngest(h, scans[w], rows, seconds, orgBackend)
        <5>1. PICK todo, row, failed, scan :
                todo = g.todo /\ row = g.row /\ failed = g.failed /\ scan = scans[w]
          OBVIOUS
        <5>2. /\ SoundIngest(g, scan, stored, seconds, orgBackend) /\ seconds \in Nat
              /\ h = Moved(g, upsert, todo, left, row, wrote, failed)
              /\ upsert # "scan" /\ (upsert # "upsert" => wrote = {})
              /\ g.local =>
                   \/ upsert = "upsert" /\ (\E report : todo = <<report>> /\ report.seen = g.time)
                   \/ upsert = "lookup" /\ todo = <<>>
          BY <1>1, <1>3, <1>4, <4>1, <4>5, <5>1
        <5>3. SoundIngest(h, scan, rows, seconds, orgBackend)
          BY <4>5, <5>2, MovedSound
        <5> QED
          BY <5>1, <5>3
      <4> QED
        BY <1>1, <3>1, <4>2, <4>6
    <3>2. CASE v # w
      <4>1. PICK f : f = ingests[v] /\ SoundIngest(f, scans[v], stored, seconds, orgBackend)
        BY <1>1
      <4>2. PICK wrote, h : wrote = f.wrote \ {key} /\ h = Moved(f, f.op, f.todo, f.left, f.row, wrote, f.failed)
        OBVIOUS
      <4>3. IngestShape(f)
        BY <4>1 DEF SoundIngest
      <4>4. ingests'[v] = h
        BY <1>6, <3>2, <4>1, <4>2, <4>3 DEF Moved, IngestShape
      <4>5. IngestShape(h) /\ h.op = f.op /\ h.todo = f.todo /\ h.time = f.time
            /\ h.wrote = wrote /\ h.local = f.local
        BY <4>2, <4>3, MovedShape
      <4>6. ASSUME NEW k \in h.wrote PROVE Dated(h, k, rows, orgBackend)
        <5>1. k \in f.wrote /\ k # key
          BY <4>2, <4>5
        <5>2. Dated(f, k, stored, orgBackend)
          BY <4>1, <5>1 DEF SoundIngest
        <5>3. k \in DOMAIN rows /\ rows[k] = stored[k]
          BY <2>1, <5>1, <5>2 DEF Dated
        <5> QED
          BY <4>5, <5>2, <5>3 DEF Dated
      <4>7. f.wrote = {} => h.wrote = {}
        BY <4>2, <4>5
      <4> QED
        BY <1>1, <4>1, <4>4, <4>5, <4>6, <4>7 DEF SoundIngest
    <3> QED
      BY <3>1, <3>2
  <2>5. DOMAIN ingests' = Servers
    BY <1>6
  <2> QED
    BY <1>1, <2>1, <2>2, <2>4, <2>5 DEF IngestsInv
<1> QED
  BY <1>2, <1>5, <1>6 DEF UpsertAsset

\* A run marks what it has not seen, or cannot: either way its account is done
LEMMA MarkIngests ==
  ASSUME OrgInv, NEW w \in Servers, MarkStaleAssets(w)
  PROVE  IngestsInv'
<1>1. /\ orgBackend' = orgBackend /\ seconds' = seconds /\ scans' = scans
      /\ seconds \in Nat /\ DOMAIN ingests = Servers /\ ingests[w].op = "upsert"
      /\ \A v \in Servers : SoundIngest(ingests[v], scans[v], stored, seconds, orgBackend)
      /\ \A k \in DOMAIN stored : stored[k] = [status |-> stored[k].status, seen |-> stored[k].seen]
  BY DEF MarkStaleAssets, IngestStep, OrgInv, ScansInv, IngestsInv
<1>2. PICK rows : rows = stored' /\ rows \in {stored, Staled(w)}
  BY DEF MarkStaleAssets
<1>3. DOMAIN rows = DOMAIN stored
  BY <1>2 DEF Staled
<1>4. ASSUME NEW k \in DOMAIN stored
      PROVE  rows[k].seen = stored[k].seen /\ rows[k] = [status |-> rows[k].status, seen |-> rows[k].seen]
  <2>1. PICK a : a = stored[k] /\ a = [status |-> a.status, seen |-> a.seen]
    BY <1>1
  <2>2. \/ rows[k] = a
        \/ rows[k] = [a EXCEPT !.status = "stale"]
    BY <1>2, <2>1 DEF Staled
  <2>3. PICK stale : stale = "stale"
    OBVIOUS
  <2>4. PICK b : b = [a EXCEPT !.status = stale]
    OBVIOUS
  <2>5. b.seen = a.seen /\ b = [status |-> b.status, seen |-> b.seen]
    BY <2>1, <2>4
  <2> QED
    BY <2>1, <2>2, <2>3, <2>4, <2>5
<1>5. ASSUME NEW v \in Servers
      PROVE  SoundIngest(ingests[v], scans[v], rows, seconds, orgBackend)
  <2>1. PICK g, scan, now, store :
          g = ingests[v] /\ scan = scans[v] /\ now = seconds /\ store = orgBackend
    OBVIOUS
  <2>2. now \in Nat /\ SoundIngest(g, scan, stored, now, store)
    BY <1>1, <2>1
  <2>3. SoundIngest(g, scan, rows, now, store)
    BY <1>3, <1>4, <2>2, StaysSound
  <2> QED
    BY <2>1, <2>3
<1>6. PICK g, scan, lookup, none, yes :
        /\ g = ingests[w] /\ scan = scans[w] /\ lookup = "lookup" /\ none = {} /\ yes = TRUE
  OBVIOUS
<1>7. /\ SoundIngest(g, scan, rows, seconds, orgBackend) /\ IngestShape(g) /\ g.op = "upsert"
      /\ g.local => Tail(g.todo) = <<>>
  <2>1. SoundIngest(g, scan, rows, seconds, orgBackend)
    BY <1>5, <1>6
  <2>2. g.op = "upsert" /\ IngestShape(g)
    BY <1>1, <1>6, <2>1 DEF SoundIngest
  <2>3. ASSUME g.local PROVE Tail(g.todo) = <<>>
    <3>1. PICK report : g.todo = <<report>>
      BY <2>1, <2>2, <2>3 DEF SoundIngest
    <3> QED
      BY <3>1
  <2> QED
    BY <2>1, <2>2, <2>3
<1>8. PICK todo, left, row, failed, h :
        /\ todo = Tail(g.todo) /\ h = Moved(g, lookup, todo, left, row, none, failed)
        /\ ingests' = [ingests EXCEPT ![w] = h]
  <2>1. Marked(w) = Moved(g, lookup, Tail(g.todo), g.left, g.row, none, g.failed)
    BY <1>6, <1>7 DEF Marked, Moved, IngestShape
  <2>2. [Marked(w) EXCEPT !.failed = TRUE] = Moved(g, lookup, Tail(g.todo), g.left, g.row, none, yes)
    BY <1>6, <1>7, <2>1 DEF Moved, IngestShape
  <2>3. PICK h : /\ ingests' = [ingests EXCEPT ![w] = h]
                 /\ h = Marked(w) \/ h = [Marked(w) EXCEPT !.failed = TRUE]
    BY DEF MarkStaleAssets, IngestStep
  <2>4. \/ h = Moved(g, lookup, Tail(g.todo), g.left, g.row, none, g.failed)
        \/ h = Moved(g, lookup, Tail(g.todo), g.left, g.row, none, yes)
    BY <2>1, <2>2, <2>3
  <2>5. \E todo, left, row, failed :
          todo = Tail(g.todo) /\ h = Moved(g, lookup, todo, left, row, none, failed)
    BY <2>4
  <2> QED
    BY <2>3, <2>5
<1>9. SoundIngest(h, scan, rows, seconds, orgBackend)
  <2>1. /\ lookup # "scan" /\ (lookup # "upsert" => none = {})
        /\ g.local => \/ lookup = "upsert" /\ (\E report : todo = <<report>> /\ report.seen = g.time)
                      \/ lookup = "lookup" /\ todo = <<>>
        /\ \A k \in none : Dated(g, k, rows, orgBackend)
    BY <1>6, <1>7, <1>8
  <2> QED
    BY <1>1, <1>7, <1>8, <2>1, MovedSound
<1>10. ASSUME NEW v \in Servers
       PROVE  SoundIngest(ingests'[v], scans'[v], rows, seconds, orgBackend)
  BY <1>1, <1>5, <1>6, <1>8, <1>9
<1>11. DOMAIN ingests' = Servers
  BY <1>1, <1>8
<1> QED
  BY <1>1, <1>2, <1>3, <1>4, <1>10, <1>11 DEF IngestsInv

LEMMA OrgInvInit == OrgInit => OrgInv
<1> SUFFICES ASSUME OrgInit PROVE OrgInv
  OBVIOUS
<1>1. ScansInv
  BY ScansInvInit
<1>2. PICK h : h = FreeServer
  OBVIOUS
<1>3. DOMAIN ingests = Servers /\ DOMAIN stored = {} /\ seconds \in Nat
      /\ \A w \in Servers : ingests[w] = h
  BY <1>1, <1>2 DEF OrgInit, ScansInv
<1>4. IngestShape(h) /\ h.op # "scan" /\ h.time = 0 /\ h.wrote = {} /\ ~ h.local
  BY <1>2, FreeShape
<1>5. ASSUME NEW w \in Servers PROVE SoundIngest(h, scans[w], stored, seconds, orgBackend)
  <2>1. h.time \in Nat /\ h.time <= seconds
    BY <1>3, <1>4
  <2> QED
    BY <1>3, <1>4, <2>1, QuietSound
<1> QED
  BY <1>1, <1>3, <1>5 DEF OrgInv, IngestsInv

LEMMA OrgInvStep == OrgInv /\ [OrgNext]_orgVars => OrgInv'
<1> SUFFICES ASSUME OrgInv, [OrgNext]_orgVars PROVE OrgInv'
  OBVIOUS
<1>1. ScansInv'
  BY ScansInvStep DEF OrgInv
<1>2. CASE UNCHANGED orgVars
  BY <1>2, IngestsKept DEF orgVars, serverVars, scanVars, OrgInv, ScansInv
<1>3. ASSUME OrgNext PROVE IngestsInv'
  BY <1>3, ScanIngests, FreedIngests, LookupIngests, ScannedIngests, UpsertIngests, MarkIngests DEF OrgNext
<1> QED
  BY <1>1, <1>2, <1>3 DEF OrgInv

-----------------------------------------------------------------------------
(* What a run's mark may not do, as a relation of two states. *)

MarkSpares ==
  \A w \in Servers :
    ingests[w].op = "upsert" /\ ingests'[w].op = "lookup" =>
      \A k \in ingests[w].wrote :
        /\ stored[k].status = "active"
        /\ orgBackend = "sqlite" \/ ingests[w].local
        => stored'[k].status = "active"

\* Only the mark takes a run from its upserts to its next account
LEMMA MarksLast ==
  ASSUME OrgInv, OrgNext, NEW w \in Servers, ingests[w].op = "upsert", ingests'[w].op = "lookup"
  PROVE  MarkStaleAssets(w)
<1>1. /\ DOMAIN ingests = Servers
      /\ \A v \in Servers : IngestShape(ingests[v])
  BY DEF OrgInv, IngestsInv, SoundIngest
<1>2. ASSUME NEW v \in Servers, v # w, NEW h, ingests' = [ingests EXCEPT ![v] = h] PROVE FALSE
  BY <1>1, <1>2
<1>3. ASSUME ingests' = ingests PROVE FALSE
  BY <1>3
<1>4. ASSUME NEW v \in Servers,
             \/ PushReport(v) \/ Answered(v) \/ LookupAccount(v) \/ CreateOrgAccount(v)
             \/ FinishIngest(v) \/ LocalScanned(v) \/ MarkStaleAssets(v)
             \/ \E i \in DOMAIN orgRows : LocalSync(v, i)
      PROVE  v = w /\ (\E h : ingests' = [ingests EXCEPT ![v] = h])
  <2>1. \E h : ingests' = [ingests EXCEPT ![v] = h]
    BY <1>4 DEF PushReport, Answered, LookupAccount, CreateOrgAccount, FinishIngest, LocalScanned,
       MarkStaleAssets, LocalSync, IngestStep
  <2> QED
    BY <1>2, <2>1
<1>5. ASSUME NEW v \in Servers, UpsertAsset(v) PROVE FALSE
  <2>1. PICK g, f, upsert : g = ingests[w] /\ f = ingests'[w] /\ upsert = "upsert"
    OBVIOUS
  <2>2. IngestShape(g)
    BY <1>1, <2>1
  <2>3. \E left, wrote, failed : f = Moved(g, upsert, g.todo, left, g.row, wrote, failed)
    <3>1. PICK r, key, left, yes :
            /\ r = CHOOSE a \in ingests[v].left : \A q \in ingests[v].left : a <= q
            /\ key = <<ingests[v].row, r>> /\ left = ingests[v].left \ {r} /\ yes = TRUE
      OBVIOUS
    <3>2. \/ ingests' = [u \in Servers |->
                          IF u = v THEN [[ingests[v] EXCEPT !.left = left] EXCEPT !.wrote = @ \cup {key}]
                          ELSE [ingests[u] EXCEPT !.wrote = @ \ {key}]]
          \/ ingests' = [ingests EXCEPT ![v] = [[ingests[v] EXCEPT !.left = left] EXCEPT !.failed = yes]]
      BY <1>5, <3>1 DEF UpsertAsset
    <3>3. \/ f = [[g EXCEPT !.left = left] EXCEPT !.wrote = @ \cup {key}]
          \/ f = [g EXCEPT !.wrote = @ \ {key}]
          \/ f = [[g EXCEPT !.left = left] EXCEPT !.failed = yes]
          \/ f = g
      BY <1>1, <2>1, <3>2
    <3>4. g.op = upsert
      BY <2>1
    <3>5. \/ f = Moved(g, upsert, g.todo, left, g.row, g.wrote \cup {key}, g.failed)
          \/ f = Moved(g, upsert, g.todo, g.left, g.row, g.wrote \ {key}, g.failed)
          \/ f = Moved(g, upsert, g.todo, left, g.row, g.wrote, yes)
          \/ f = Moved(g, upsert, g.todo, g.left, g.row, g.wrote, g.failed)
      BY <2>2, <3>3, <3>4 DEF Moved, IngestShape
    <3> QED
      BY <3>5
  <2>4. f.op = upsert
    BY <2>2, <2>3, MovedShape
  <2> QED
    BY <2>1, <2>4
<1>6. ASSUME \/ \E p \in Scanners : ScanPage(p) \/ ScanError(p)
             \/ \E r \in Assets : AssetAppears(r) \/ AssetGoes(r)
             \/ \E asked \in BOOLEAN : ListMembers(asked)
             \/ NextMember \/ MemberScanned \/ PushFails \/ PushRejected \/ PushTimesOut \/ SecondPasses
      PROVE  FALSE
  BY <1>3, <1>6 DEF ScanPage, ScanError, ScanStep, AssetAppears, AssetGoes, CloudStep, ListMembers,
     NextMember, MemberScanned, PushFails, PushRejected, PushTimesOut, SecondPasses, serverVars
<1>7. ASSUME \/ PushReport(w) \/ Answered(w) \/ LookupAccount(w) \/ CreateOrgAccount(w)
             \/ FinishIngest(w) \/ LocalScanned(w)
             \/ \E i \in DOMAIN orgRows : LocalSync(w, i)
      PROVE  FALSE
  BY <1>7 DEF PushReport, Answered, LookupAccount, CreateOrgAccount, FinishIngest, LocalScanned, LocalSync
<1> QED
  BY <1>4, <1>5, <1>6, <1>7 DEF OrgNext

LEMMA MarkStep == OrgInv /\ [OrgNext]_orgVars => MarkSpares
<1> SUFFICES ASSUME OrgInv, [OrgNext]_orgVars, NEW w \in Servers,
                    ingests[w].op = "upsert", ingests'[w].op = "lookup", NEW k \in ingests[w].wrote,
                    stored[k].status = "active", orgBackend = "sqlite" \/ ingests[w].local
             PROVE  stored'[k].status = "active"
  BY DEF MarkSpares
<1>1. MarkStaleAssets(w)
  BY MarksLast DEF orgVars, serverVars
<1>2. /\ Dated(ingests[w], k, stored, orgBackend) /\ ingests[w].time \in Nat
  BY DEF OrgInv, IngestsInv, SoundIngest
<1>3. k \in DOMAIN stored /\ ~ (stored[k].seen < ingests[w].time)
  BY <1>2 DEF Dated
<1>4. stored'[k] = stored[k]
  BY <1>1, <1>3 DEF MarkStaleAssets, Staled, NotSeen
<1> QED
  BY <1>4

(***************************************************************************)
(* However local syncs, agents' reports and account changes overlap, the   *)
(* mark that ends a run spares what the run was the last to write, but on  *)
(* a store that keeps the agent's own time.                                *)
(***************************************************************************)
THEOREM ReportKeptTheorem == OrgSpec => ReportKept
<1>1. OrgInv /\ [OrgNext]_orgVars => [MarkSpares]_<<stored, ingests>>
  BY MarkStep
<1> QED
  BY <1>1, OrgInvInit, OrgInvStep, PTL DEF OrgSpec, ReportKept, MarkSpares

=============================================================================
