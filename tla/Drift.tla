------------------------------- MODULE Drift -------------------------------
(***************************************************************************)
(* Drift detection (internal/discovery/drift.go), its store                *)
(* (internal/storage/drift_memory.go) and the operators' decisions         *)
(* (internal/api/drift_handlers.go), over the pools and discovered         *)
(* resources of Imports.                                                   *)
(*                                                                         *)
(* The store holds two kinds of items under one key space: those a         *)
(* detection makes, with a fresh id each (drifts), and the records of      *)
(* decisions on network conflicts, under the conflict's id (records).      *)
(* A detection makes at most one item of a kind for a subject, so its      *)
(* number, the kind and the subject stand for the fresh id.                *)
(***************************************************************************)
EXTENDS Imports

CONSTANT MaxDetections   \* bound: detections started

VARIABLES drifts,         \* m.drifts: items of detections
          records,        \* m.drifts: records of network conflicts, id -> record
          detections      \* detections started

driftStore == <<drifts, records, detections>>

ASSUME DriftAssumption == MaxDetections \in Nat

DriftFails == StoreErrors /\ UNCHANGED driftStore

-----------------------------------------------------------------------------
(* DriftDetector.Detect. *)

\* ListAccounts and ListPools, once for the whole detection
DetectRequest(w, requested) ==
  LET targets == {a \in AccountIds : LiveAccount(a) /\ a \in requested}
  IN /\ job[w] = Idle
     /\ targets # {}
     /\ detections < MaxDetections
     /\ detections' = detections + 1
     /\ Goes(w, [op |-> "detect", run |-> detections + 1, accounts |-> targets,
                 todo |-> targets, listed |-> ListPools, alone |-> TRUE])
     /\ UNCHANGED <<store, req, res, drifts, records>>

Open(S) == {d \in S : d.status = "open"}

SurvivesAccount(item, a) == item.account # a    \* mutant: decisions go too

\* What a new detection of account a leaves alone
Survives(item, a) == item.account # a \/ item.status # "open"

DeleteOpenForAccount(a) ==
  /\ drifts' = {d \in drifts : Survives(d, a)}
  /\ records' = [c \in {k \in DOMAIN records : Survives(records[k], a)} |-> records[c]]
  /\ UNCHANGED detections

DetectClearNothing(w) ==    \* mutant: the account's open items stay
  /\ job[w].op = "detect"
  /\ \E a \in job[w].todo :
       Goes(w, [op |-> "detect_list", run |-> job[w].run, accounts |-> job[w].accounts,
                todo |-> job[w].todo, listed |-> job[w].listed, account |-> a,
                alone |-> job[w].alone])
  /\ UNCHANGED <<store, req, res, driftStore>>

DetectClear(w) ==
  LET j == job[w]
  IN /\ j.op = "detect"
     /\ \E a \in j.todo :
          \/ /\ DeleteOpenForAccount(a)
             /\ Writes(w, [op |-> "detect_list", run |-> j.run, accounts |-> j.accounts,
                           todo |-> j.todo, listed |-> j.listed, account |-> a,
                           alone |-> j.alone])
          \/ DriftFails /\ Goes(w, Idle)
     /\ UNCHANGED <<store, req, res>>

\* listActiveResources; owned are the account's discovered pools by the list
\* made at the start
DetectList(w) ==
  LET j == job[w]
      shown == {r \in Resources : Data[r].account = j.account /\ res[r].active}
      owned == {i \in DOMAIN j.listed : j.listed[i] = j.account /\ pools[i].meta.tag # None}
  IN /\ j.op = "detect_list"
     /\ Goes(w, [op |-> "detect_scan", run |-> j.run, accounts |-> j.accounts,
                 todo |-> j.todo, listed |-> j.listed, account |-> j.account,
                 links |-> [r \in shown |-> res[r].pool],
                 scan |-> {r \in shown : Data[r].cidr # NoCIDR},
                 orphans |-> {i \in owned : \A r \in shown : res[r].pool # i},
                 alone |-> j.alone])
     /\ UNCHANGED <<store, req, res, driftStore>>

\* CreateDriftItem, after which the detection goes on as "then"
Report(w, kind, subject, then) ==
  LET j == job[w]
      d == [run |-> j.run, kind |-> kind, subject |-> subject,
            account |-> j.account, status |-> "open"]
  IN \/ /\ drifts' = drifts \cup {d}
        /\ UNCHANGED <<records, detections>>
        /\ Writes(w, then)
     \/ DriftFails /\ Goes(w, Idle)

\* Pass 1: one active resource; a link to a deleted pool is no mismatch
DetectResource(w) ==
  LET j == job[w]
      r == FirstOf(j.scan)
      p == j.links[r]
      then == [j EXCEPT !.scan = @ \ {r}]
  IN /\ j.op = "detect_scan" /\ j.scan # {}
     /\ IF p = None THEN Report(w, "unmanaged", r, then)
        ELSE IF Live(p) /\ ~ cidrEqual(Data[r].cidr, pools[p].cidr)
          THEN Report(w, "cidr_mismatch", r, then)
        ELSE Goes(w, then) /\ UNCHANGED driftStore
     /\ UNCHANGED <<store, req, res>>

\* Pass 2: one pool no listed resource is linked to
DetectPool(w) ==
  LET j == job[w]
      i == FirstOf(j.orphans)
  IN /\ j.op = "detect_scan" /\ j.scan = {} /\ j.orphans # {}
     /\ Report(w, "orphaned_pool", i, [j EXCEPT !.orphans = @ \ {i}])
     /\ UNCHANGED <<store, req, res>>

DetectNext(w) ==
  LET j == job[w]
      todo == j.todo \ {j.account}
  IN /\ j.op = "detect_scan" /\ j.scan = {} /\ j.orphans = {}
     /\ Goes(w, IF todo = {}
                THEN [op |-> "detected", accounts |-> j.accounts, alone |-> j.alone]
                ELSE [op |-> "detect", run |-> j.run, accounts |-> j.accounts,
                      todo |-> todo, listed |-> j.listed, alone |-> j.alone])
     /\ UNCHANGED <<store, req, res, driftStore>>

DetectReturn(w) ==
  /\ job[w].op = "detected"
  /\ Goes(w, Idle)
  /\ UNCHANGED <<store, req, res, driftStore>>

DetectStep(w) ==
  \/ DetectClear(w)
  \/ DetectList(w)
  \/ DetectResource(w)
  \/ DetectPool(w)
  \/ DetectNext(w)
  \/ DetectReturn(w)

-----------------------------------------------------------------------------
(* POST /drift/{id}/resolve and /ignore, on either kind of item. *)

Decide(status) ==
  /\ \/ \E d \in drifts :
          drifts' = (drifts \ {d}) \cup {[d EXCEPT !.status = status]} /\ UNCHANGED records
     \/ \E c \in DOMAIN records :
          records' = [records EXCEPT ![c].status = status] /\ UNCHANGED drifts
  /\ UNCHANGED detections

-----------------------------------------------------------------------------
(* What a detection is meant to find of an account. *)

Watched(a) == {r \in Resources : Data[r].account = a /\ res[r].active}

Differences(a) ==
  {<<"unmanaged", r>> : r \in {s \in Watched(a) : Data[s].cidr # NoCIDR /\ Unlinked(s)}}
  \cup
  {<<"cidr_mismatch", r>> : r \in {s \in Watched(a) :
      /\ Data[s].cidr # NoCIDR
      /\ ~ Unlinked(s) /\ Live(res[s].pool)
      /\ ~ cidrEqual(Data[s].cidr, pools[res[s].pool].cidr)}}
  \cup
  {<<"orphaned_pool", i>> : i \in {k \in Ids :
      /\ Live(k)
      /\ pools[k].account = a
      /\ pools[k].meta.tag # None
      /\ \A r \in Watched(a) : res[r].pool # k}}

\* A detection during which nobody else wrote leaves, for every account it
\* scanned, one open item per difference and no other: what an earlier
\* detection reported and what has been settled since is gone, whatever was
\* resolved or ignored (Detect, DeleteOpenForAccount).
DetectExact ==
  \A w \in Workers :
    job[w].op = "detected" /\ job[w].alone =>
      \A a \in job[w].accounts :
        LET open == Open({d \in drifts : d.account = a})
        IN /\ {<<d.kind, d.subject>> : d \in open} = Differences(a)
           /\ \A d, e \in open : d.kind = e.kind /\ d.subject = e.subject => d = e

=============================================================================
