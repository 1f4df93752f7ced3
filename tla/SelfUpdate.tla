----------------------------- MODULE SelfUpdate -----------------------------
(***************************************************************************)
(* The upgrade of a server on its own host.  A handler writes a request    *)
(* file; a path unit of systemd starts a script while that file exists;    *)
(* the script writes a status file that the handlers read, and removes the *)
(* request at its end.  Nobody locks a file: a step is one open, read,     *)
(* write or removal, or one command of the script.  The script, the server *)
(* and the host stop at any point.  Versions, release metadata, progress   *)
(* and wording are left out.                                               *)
(***************************************************************************)
EXTENDS Naturals

CONSTANTS Admins,                    \* handlers under way at the same time
          MaxTriggers, MaxCrashes,   \* bounds of a behaviour
          Missing

ASSUME UpdateAssumption ==
  Missing \notin Nat \cup [inode : Nat, id : Nat, whole : BOOLEAN, risky : BOOLEAN]

VARIABLES request,   \* the request file: [inode, id, whole, risky], or Missing
          status,    \* the status file: [state, id], Torn or Missing
          ack,       \* id in the acknowledgement file, or Missing
          script,    \* the run of cloudpam-upgrade.sh, or Missing
          handler,   \* admin -> the request that is handled, or Missing
          triggers, crashes

updateVars == <<request, status, ack, script, handler, triggers, crashes>>

Torn == [state |-> "torn", id |-> Missing]

StatusIs(state) == status # Missing /\ status.state = state

Handles(a, h) == handler' = [handler EXCEPT ![a] = h]

Replies(a) == Handles(a, Missing)

(***************************************************************************)
(* The server                                                              *)
(***************************************************************************)
\* A state the script never writes holds a trigger back.
NotUpgrading == ~ StatusIs("upgrading")

\* A status file that is missing or cannot be decoded does not hold a trigger back.
NotRunning == ~ StatusIs("running")

\* handleTriggerUpgrade up to loadReleases.  "risky" is history: the script runs
\* and does not say so yet.
TriggerUpgrade(a) ==
  /\ handler[a] = Missing /\ triggers < MaxTriggers
  /\ NotRunning
  /\ triggers' = triggers + 1
  /\ Handles(a, [pc |-> "create", id |-> triggers + 1, inode |-> Missing,
                 risky |-> script # Missing /\ ~ StatusIs("running")])
  /\ UNCHANGED <<request, status, ack, script, crashes>>

\* os.Create cuts the file that is there.  There may be no release to ask for, and
\* the directory may not be writable.
CreateRequest(a) ==
  /\ handler[a] # Missing /\ handler[a].pc = "create"
  /\ \/ LET h == handler[a]
            inode == IF request = Missing THEN h.id ELSE request.inode
        IN  /\ request' = [inode |-> inode, id |-> h.id, whole |-> FALSE, risky |-> h.risky]
            /\ Handles(a, [h EXCEPT !.pc = "encode", !.inode = inode])
     \/ Replies(a) /\ UNCHANGED request
  /\ UNCHANGED <<status, ack, script, triggers, crashes>>

\* The file may be gone by now, and what is written to it too.  Requests written
\* over each other need not decode, and a write may fail half-way.
EncodeRequest(a) ==
  /\ handler[a] # Missing /\ handler[a].pc = "encode"
  /\ LET h == handler[a] IN
     IF request # Missing /\ request.inode = h.inode
     THEN \E whole \in BOOLEAN :
            request' = [request EXCEPT !.id = h.id, !.whole = whole, !.risky = h.risky]
     ELSE UNCHANGED request
  /\ Replies(a)
  /\ UNCHANGED <<status, ack, script, triggers, crashes>>

Derived == 0

\* handleAcknowledgeUpgradeStatus: a status without an id has one derived of it.
ReadForAck(a) ==
  /\ handler[a] = Missing
  /\ StatusIs("completed")
  /\ LET id == IF status.id = Missing THEN Derived ELSE status.id IN
     Handles(a, [pc |-> "ack", id |-> id, inode |-> Missing, risky |-> FALSE])
  /\ UNCHANGED <<request, status, ack, script, triggers, crashes>>

WriteAck(a) ==
  /\ handler[a] # Missing /\ handler[a].pc = "ack"
  /\ ack' = handler[a].id
  /\ Replies(a)
  /\ UNCHANGED <<request, status, script, triggers, crashes>>

(***************************************************************************)
(* The path unit and the script                                            *)
(***************************************************************************)
ScriptAt(pc) == script # Missing /\ script.pc = pc

Goes(pc) == script' = [script EXCEPT !.pc = pc]

\* write_status and what comes after it
Announces(state, then) == script' = [script EXCEPT !.pc = "open", !.say = state, !.then = then]

Fails == Announces("failed", "cleanup")

PathExists ==
  /\ request # Missing /\ script = Missing
  /\ script' = [pc |-> "readId", id |-> Missing, say |-> "running", then |-> "pull"]
  /\ handler' = [a \in Admins |-> IF handler[a] = Missing THEN Missing
                                  ELSE [handler[a] EXCEPT !.risky = TRUE]]
  /\ UNCHANGED <<request, status, ack, triggers, crashes>>

\* read_request_field: every field is read of the file as it is then; what does
\* not decode reads as nothing.
Readable == request # Missing /\ request.whole

ReadId ==
  /\ ScriptAt("readId")
  /\ script' = [script EXCEPT !.pc = "readTarget", !.id = IF Readable THEN request.id ELSE Missing]
  /\ UNCHANGED <<request, status, ack, handler, triggers, crashes>>

\* The request is taken away before the work on it.
ClaimTarget ==
  /\ ScriptAt("readTarget")
  /\ IF Readable THEN Announces("running", "pull") ELSE Fails
  /\ request' = Missing
  /\ UNCHANGED <<status, ack, handler, triggers, crashes>>

ReadTarget ==
  /\ ScriptAt("readTarget")
  /\ IF Readable THEN Announces("running", "pull") ELSE Fails
  /\ UNCHANGED <<request, status, ack, handler, triggers, crashes>>

OpenStatus ==
  /\ ScriptAt("open")
  /\ status' = Torn /\ Goes("write")
  /\ UNCHANGED <<request, ack, handler, triggers, crashes>>

WriteStatus ==
  /\ ScriptAt("write")
  /\ status' = [state |-> script.say, id |-> script.id] /\ Goes(script.then)
  /\ UNCHANGED <<request, ack, handler, triggers, crashes>>

PodmanPull ==
  /\ ScriptAt("pull")
  /\ Announces("running", "restart") \/ Fails
  /\ UNCHANGED <<request, status, ack, handler, triggers, crashes>>

\* The server goes down with its handlers.
RestartService ==
  /\ ScriptAt("restart")
  /\ Announces("running", "health") \/ Fails
  /\ handler' = [a \in Admins |-> Missing]
  /\ UNCHANGED <<request, status, ack, triggers, crashes>>

CheckHealth ==
  /\ ScriptAt("health")
  /\ Announces("completed", "cleanup") \/ Fails
  /\ UNCHANGED <<request, status, ack, handler, triggers, crashes>>

\* rm removes the request that is there, whichever it is.
Cleanup ==
  /\ ScriptAt("cleanup")
  /\ request' = Missing /\ script' = Missing
  /\ UNCHANGED <<status, ack, handler, triggers, crashes>>

(***************************************************************************)
(* Crashes                                                                 *)
(***************************************************************************)
\* Killed, timed out by its unit, or stopped by a command that failed under set -e.
ScriptStops ==
  /\ script # Missing /\ crashes < MaxCrashes
  /\ script' = Missing /\ crashes' = crashes + 1
  /\ UNCHANGED <<request, status, ack, handler, triggers>>

ServerStops ==
  /\ crashes < MaxCrashes
  /\ \E a \in Admins : handler[a] # Missing
  /\ handler' = [a \in Admins |-> Missing] /\ crashes' = crashes + 1
  /\ UNCHANGED <<request, status, ack, script, triggers>>

HostStops ==
  /\ script # Missing /\ crashes < MaxCrashes
  /\ \E a \in Admins : handler[a] # Missing
  /\ script' = Missing /\ crashes' = crashes + 1
  /\ handler' = [a \in Admins |-> Missing]
  /\ UNCHANGED <<request, status, ack, triggers>>

UpdateInit ==
  /\ request = Missing /\ status = Missing /\ ack = Missing
  /\ script = Missing /\ handler = [a \in Admins |-> Missing]
  /\ triggers = 0 /\ crashes = 0

ScriptStep ==
  \/ ReadId \/ ReadTarget \/ OpenStatus \/ WriteStatus
  \/ PodmanPull \/ RestartService \/ CheckHealth \/ Cleanup

UpdateNext ==
  \/ \E a \in Admins :
       \/ TriggerUpgrade(a) \/ CreateRequest(a) \/ EncodeRequest(a)
       \/ ReadForAck(a) \/ WriteAck(a)
  \/ PathExists \/ ScriptStep
  \/ ScriptStops \/ ServerStops \/ HostStops

UpdateSpec == UpdateInit /\ [][UpdateNext]_updateVars

\* systemd starts the script while the file exists; every command of the script
\* has a timeout.
UpdateFairness == WF_updateVars(PathExists) /\ WF_updateVars(ScriptStep)

-----------------------------------------------------------------------------
(***************************************************************************)
(* Every run that was announced ends in the status file, whatever stops    *)
(* the script: triggers are refused while the file says "running".  And no *)
(* request is tried for ever.                                              *)
(***************************************************************************)
UpgradeEnds ==
  /\ StatusIs("running") ~> (StatusIs("completed") \/ StatusIs("failed"))
  /\ (request # Missing) ~> (request = Missing)

(***************************************************************************)
(* A trigger that is accepted while nothing else goes on is carried out:   *)
(* the script removes a whole request it has not read only when that       *)
(* request's handler had asked for the status of a run that did not say    *)
(* "running" at that moment, or a run started while it was handled: two    *)
(* handlers that write one file do not lose it.                            *)
(***************************************************************************)
RequestLostOnlyByRace ==
  [][request # Missing /\ request' = Missing /\ request.whole /\ request.id # script.id
       => request.risky]_updateVars

=============================================================================
