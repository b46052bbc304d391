------------------------------ MODULE Recording ------------------------------
(***************************************************************************)
(* One recording from the user's "start" to the job that processes it:     *)
(* RecordingController and its serialized command queue, the manifest that *)
(* points at the recording in progress, RecoveryService, the part of       *)
(* ObsCaptureService that starts, stops, loses and regains the connection, *)
(* RecoveredRecordingHandler, and the handlers of IpcRouter that start,    *)
(* stop and delete.  OBS is an external program that goes on recording     *)
(* when the application crashes and stops recording when it pleases.       *)
(*                                                                         *)
(* Granularity.  An action is the code between two awaits, except that an  *)
(* await nobody can observe the two sides of apart is not a boundary: the  *)
(* manifest in memory and the write of the same state to disk are one step *)
(* because writes are queued and SessionManifestStore.load awaits them, so *)
(* recover()'s save and attach belong to the step that decided on them.    *)
(***************************************************************************)
EXTENDS Naturals, Sequences

CONSTANTS
  Sessions,    \* session ids
  NoSession,   \* no session: an idle OBS, no active session, no manifest
  Elsewhere,   \* a recording directory that belongs to no session
  Overtaking,  \* starts, stops and calls of recover() may overlap
  MaxIncidents \* bound: failures, interruptions and crashes in a behaviour

ASSUME ConstantsAssumption ==
  /\ NoSession \notin Sessions
  /\ Elsewhere \notin Sessions \cup {NoSession}
  /\ Overtaking \in BOOLEAN
  /\ MaxIncidents \in Nat

VARIABLES
  connected,  \* gateway.connected
  obs,        \* the directory OBS records into, NoSession when it is idle
  usable,     \* sessions whose directory holds a finished, valid recording
  disk,       \* the manifest in active-recording.json
  mem,        \* controller.manifest
  queue,      \* the command queue: its head is the command that runs
  recovery,   \* the calls of recover(), by caller
  active,     \* captureStatus.activeSessionId
  phase,      \* captureStatus.phase
  row,        \* sessions.status
  attached,   \* sessions that have a recording path
  jobs,       \* full jobs queued for each session, counted up to 2
  starting,   \* the session of a capture.start that has not returned
  claim,      \* the session a failed start will leave in active
  deleting,   \* the session whose files sessions.delete is removing
  incidents   \* failures so far, for the bound

obsVars == <<connected, obs, usable>>
statusVars == <<active, phase>>
dbVars == <<row, attached, jobs>>
ipcVars == <<starting, claim, deleting>>
vars == <<connected, obs, usable, disk, mem, queue, recovery, active, phase,
          row, attached, jobs, starting, claim, deleting, incidents>>

-----------------------------------------------------------------------------
(* Manifests, commands and recoveries.                                     *)

States == {"ready", "start-intent", "recording", "stop-intent", "finalizing",
           "complete", "interrupted", "failed"}
ActiveStates == {"start-intent", "recording", "stop-intent"}
FinalStates == {"complete", "interrupted", "failed"}

NoManifest == [session |-> NoSession, state |-> "none"]
Named(s, state) == [session |-> s, state |-> state]
Manifest == [session : Sessions, state : States] \cup {NoManifest}

Kinds == {"start", "stop", "finalize", "acknowledge", "provision"}
Callers == {"connect", "reconnect", "start"}

\* who: the session of a start or an acknowledgement, the caller of recover()
\* for the others.  own: this.manifest is the object the command holds.
NewCommand(kind, who) ==
  [kind |-> kind, who |-> who, man |-> NoManifest, own |-> FALSE, pc |-> "begin"]
Command ==
  [kind : Kinds, who : Sessions \cup Callers \cup {NoSession}, man : Manifest,
   own : BOOLEAN,
   pc : {"begin", "intent", "request", "started", "reconcile", "confirmed",
         "query", "stop", "confirm", "stopped", "probe", "handoff"}]

Results == {"none", "failed", "reattached", "conflict", "recovered", "interrupted"}
Idle == [pc |-> "idle", man |-> NoManifest, result |-> "none", aborted |-> FALSE]
Recovery ==
  [pc : {"idle", "retry", "load", "query", "finalize", "apply", "provision"},
   man : Manifest, result : Results, aborted : BOOLEAN]

\* recover() has loaded the manifest and its result is not applied yet.
Recovering(r) == recovery[r].pc \in {"query", "finalize", "apply", "provision"}

Running(kind, pc) ==
  /\ queue # <<>>
  /\ Head(queue).kind = kind /\ Head(queue).pc = pc
  /\ kind \in {"start", "stop"} /\ ~Overtaking => \A r \in Callers : ~Recovering(r)

\* recover() loads the manifest, at any time or, without overtaking, when no
\* start, no stop and no other recovery is under way.
Loading(r) ==
  /\ recovery[r].pc = "load"
  /\ \/ Overtaking
     \/ /\ \A i \in DOMAIN queue : queue[i].kind \notin {"start", "stop"}
        /\ \A other \in Callers : ~Recovering(other)

\* The command gives way to the next; it goes on holding manifest m.
Done == queue' = Tail(queue)
GoesOn(m, own, pc) ==
  queue' = <<[Head(queue) EXCEPT !.man = m, !.own = own, !.pc = pc]>> \o Tail(queue)

Incident == incidents < MaxIncidents /\ incidents' = incidents + 1

\* The manifest of the running command in another state, and what memory
\* holds then: the command's object, or the one attach() put in its place.
InState(state) == [Head(queue).man EXCEPT !.state = state]
Remembered(state) == IF Head(queue).own THEN InState(state) ELSE mem

\* persist(): the state in memory, then on disk.
Persists(state) == mem' = Remembered(state) /\ disk' = InState(state)
PersistFails(state) == Incident /\ mem' = Remembered(state) /\ UNCHANGED disk

\* updateSession on the rows: it throws when the session is gone.
WithStatus(rows, s, status) ==
  IF rows[s] = "deleted" THEN rows ELSE [rows EXCEPT ![s] = status]
SetStatus(s, status) == row' = WithStatus(row, s, status)

OneMore(s) == [jobs EXCEPT ![s] = IF @ = 2 THEN 2 ELSE @ + 1]

-----------------------------------------------------------------------------
(* capture.start                                                           *)

\* What the capture workspace offers, by the status it is shown.
StartOffered == connected /\ phase = "ready"
StopOffered == active # NoSession /\ phase = "recording"

MarkedBeforeItStarts(s) ==  \* a variant with a bug
  /\ StartOffered
  /\ starting = NoSession
  /\ row[s] = "draft" /\ s \notin attached
  /\ connected /\ active = NoSession /\ obs = NoSession
  /\ starting' = s
  /\ phase' = "configuring"
  /\ queue' = Append(queue, NewCommand("start", s))
  /\ SetStatus(s, "recording")
  /\ UNCHANGED <<obsVars, disk, mem, recovery, active, attached, jobs, claim,
                 deleting, incidents>>

\* The IPC handler and ObsCaptureService.start up to controller.start: a draft
\* session, a connection, no active session, an idle OBS (preflight).
Start(s) ==
  /\ StartOffered
  /\ starting = NoSession
  /\ row[s] = "draft" /\ s \notin attached
  /\ connected /\ active = NoSession /\ obs = NoSession
  /\ starting' = s
  /\ phase' = "configuring"
  /\ queue' = Append(queue, NewCommand("start", s))
  /\ UNCHANGED <<obsVars, disk, mem, recovery, active, dbVars, claim,
                 deleting, incidents>>

\* A start that failed returns: the status keeps session c, and the IPC
\* handler makes the session a draft again unless it is c.
StartEnds(c) ==
  /\ active' = c
  /\ phase' = IF c # NoSession THEN "recovering"
              ELSE IF connected THEN "ready" ELSE "disconnected"
  /\ starting' = NoSession
  /\ claim' = NoSession
  /\ IF c = starting THEN UNCHANGED row ELSE SetStatus(starting, "draft")

\* controller.start threw: what the manifest says now decides whether the
\* start is recoverable, and a connected OBS is asked to reconcile it.
StartFails ==
  LET recoverable == IF mem'.state \in ActiveStates THEN mem'.session ELSE NoSession
  IN
  /\ Done
  /\ IF mem' # NoManifest /\ connected
       THEN /\ recovery' = [recovery EXCEPT !["start"].pc = "load"]
            /\ claim' = recoverable
            /\ UNCHANGED <<statusVars, row, starting>>
       ELSE StartEnds(recoverable) /\ UNCHANGED recovery
  /\ UNCHANGED <<obsVars, attached, jobs, deleting>>

StartGoesOn(m, pc) ==
  /\ GoesOn(m, TRUE, pc)
  /\ UNCHANGED <<connected, usable, recovery, statusVars, dbVars, ipcVars>>

\* The manifest that has not been acknowledged yet, in memory or on disk.
OnlyActiveIsPending == IF mem.state \in ActiveStates THEN mem ELSE NoManifest  \* a variant with a bug
Pending == IF mem = NoManifest THEN disk ELSE mem

\* A pending manifest, a lost connection or an active OBS refuses the start.
StartRefused ==
  /\ Running("start", "begin")
  /\ \/ /\ Pending # NoManifest
        /\ mem' = Pending
        /\ UNCHANGED incidents
     \/ /\ Pending = NoManifest
        /\ mem' = mem
        /\ \/ (~connected \/ obs # NoSession) /\ UNCHANGED incidents
           \/ Incident
  /\ UNCHANGED disk
  /\ StartFails

\* The first manifest is on disk before OBS is asked for anything.
StartReady ==
  LET m == Named(Head(queue).who, "ready") IN
  /\ Running("start", "begin")
  /\ Pending = NoManifest
  /\ connected /\ obs = NoSession
  /\ mem' = m
  /\ \/ disk' = m /\ StartGoesOn(m, "intent") /\ UNCHANGED <<obs, incidents>>
     \/ Incident /\ UNCHANGED disk /\ StartFails

StartIntent ==
  /\ Running("start", "intent")
  /\ \/ /\ Persists("start-intent")
        /\ GoesOn(InState("start-intent"), Head(queue).own, "request")
        /\ UNCHANGED <<obsVars, recovery, statusVars, dbVars, ipcVars, incidents>>
     \/ PersistFails("start-intent") /\ StartFails

\* StartRecord.  OBS starts, or refuses because it is recording already, or
\* fails, or is not reached; "started" is a start whose event may arrive.
RequestStart ==
  /\ Running("start", "request")
  /\ \/ /\ connected /\ obs = NoSession
        /\ obs' = Head(queue).man.session
        /\ GoesOn(Head(queue).man, Head(queue).own, "started")
        /\ UNCHANGED incidents
     \/ /\ obs' = obs
        /\ GoesOn(Head(queue).man, Head(queue).own, "reconcile")
        /\ \/ (~connected \/ obs # NoSession) /\ UNCHANGED incidents
           \/ connected /\ Incident
  /\ UNCHANGED <<connected, usable, disk, mem, recovery, statusVars, dbVars, ipcVars>>

\* RecordStateChanged arrives, or 15 seconds pass without it.
AwaitStart ==
  /\ Running("start", "started")
  /\ \/ /\ GoesOn(Head(queue).man, Head(queue).own, "confirmed")
        /\ UNCHANGED incidents
     \/ /\ GoesOn(Head(queue).man, Head(queue).own, "reconcile")
        /\ IF connected THEN Incident ELSE UNCHANGED incidents
  /\ UNCHANGED <<obsVars, disk, mem, recovery, statusVars, dbVars, ipcVars>>

\* GetRecordStatus after a failed or unanswered StartRecord.
ReconcileStart ==
  /\ Running("start", "reconcile")
  /\ \/ /\ connected /\ obs # NoSession
        /\ GoesOn(Head(queue).man, Head(queue).own, "confirmed")
        /\ UNCHANGED <<obsVars, disk, mem, recovery, statusVars, dbVars, ipcVars, incidents>>
     \/ /\ ~connected
        /\ UNCHANGED <<disk, mem, incidents>>
        /\ StartFails
     \/ /\ connected /\ obs = NoSession
        /\ \/ Persists("failed") /\ UNCHANGED incidents
           \/ PersistFails("failed")
        /\ StartFails

\* The recording is confirmed: capture.start returns with an active session.
StartCompletes ==
  /\ Running("start", "confirmed")
  /\ \/ /\ Persists("recording")
        /\ Done
        /\ active' = Head(queue).man.session
        /\ phase' = "recording"
        /\ SetStatus(Head(queue).man.session, "recording")
        /\ starting' = NoSession
        /\ UNCHANGED <<obsVars, recovery, attached, jobs, claim,
                 deleting, incidents>>
     \/ PersistFails("recording") /\ StartFails

-----------------------------------------------------------------------------
(* OBS                                                                     *)

\* The output ends: the file is usable, or it is not (a full disk, a crash
\* of OBS).  A deleted session has no directory to hold it.
OutputEnds ==
  /\ obs' = NoSession
  /\ \/ /\ usable' = usable \cup {s \in Sessions : s = obs /\ row[s] # "deleted"}
        /\ UNCHANGED incidents
     \/ usable' = usable /\ Incident

\* The user stops the recording in OBS, or OBS stops on its own.
ObsStops ==
  /\ obs # NoSession
  /\ OutputEnds
  /\ UNCHANGED <<connected, disk, mem, queue, recovery, statusVars, dbVars, ipcVars>>

\* The user records something else with OBS.
ForeignRecording ==
  /\ obs = NoSession
  /\ obs' = Elsewhere
  /\ Incident
  /\ UNCHANGED <<connected, usable, disk, mem, queue, recovery, statusVars, dbVars,
                 ipcVars>>

-----------------------------------------------------------------------------
(* capture.stop                                                            *)

Stop ==
  /\ StopOffered
  /\ connected /\ active # NoSession
  /\ phase' = "finalizing"
  /\ queue' = Append(queue, NewCommand("stop", NoSession))
  /\ UNCHANGED <<obsVars, disk, mem, recovery, active, dbVars, starting, claim,
                 deleting, incidents>>

\* controller.stop threw: the status and the manifest stay as they are.
StopFails ==
  /\ Done
  /\ UNCHANGED <<obsVars, recovery, statusVars, dbVars, starting, claim, deleting>>

StopIntent ==
  /\ Running("stop", "begin")
  /\ \/ /\ mem.state \notin ActiveStates
        /\ UNCHANGED <<disk, mem, incidents>>
        /\ StopFails
     \/ /\ mem.state \in ActiveStates
        /\ mem' = [mem EXCEPT !.state = "stop-intent"]
        /\ \/ /\ disk' = mem'
              /\ GoesOn(mem', TRUE, "query")
              /\ UNCHANGED <<obsVars, recovery, statusVars, dbVars, ipcVars, incidents>>
           \/ Incident /\ UNCHANGED disk /\ StopFails

\* GetRecordStatus and GetRecordDirectory.
QueryStop ==
  /\ Running("stop", "query")
  /\ UNCHANGED <<disk, mem, incidents>>
  /\ IF connected /\ obs \in {NoSession, Head(queue).man.session}
       THEN /\ GoesOn(Head(queue).man, Head(queue).own,
                      IF obs = NoSession THEN "stopped" ELSE "stop")
            /\ UNCHANGED <<obsVars, recovery, statusVars, dbVars, ipcVars>>
       ELSE StopFails

\* StopRecord: OBS ends the output and says so, or it ends it later, or the
\* reply and the event are lost and the outcome has to be reconciled.
RequestStop ==
  /\ Running("stop", "stop")
  /\ \/ /\ connected /\ obs # NoSession
        /\ OutputEnds
        /\ \E pc \in {"stopped", "confirm"} :
             GoesOn(Head(queue).man, Head(queue).own, pc)
     \/ /\ GoesOn(Head(queue).man, Head(queue).own, "confirm")
        /\ UNCHANGED <<obs, usable, incidents>>
  /\ UNCHANGED <<connected, disk, mem, recovery, statusVars, dbVars, ipcVars>>

\* GetRecordStatus after a StopRecord that failed or was not answered.
ReconcileStop ==
  /\ Running("stop", "confirm")
  /\ UNCHANGED <<disk, mem, incidents>>
  /\ IF connected /\ obs = NoSession
       THEN /\ GoesOn(Head(queue).man, Head(queue).own, "stopped")
            /\ UNCHANGED <<obsVars, recovery, statusVars, dbVars, ipcVars>>
       ELSE StopFails

StopFinalizes ==
  /\ Running("stop", "stopped")
  /\ \/ /\ Persists("finalizing")
        /\ GoesOn(InState("finalizing"), Head(queue).own, "probe")
        /\ UNCHANGED <<obsVars, recovery, statusVars, dbVars, ipcVars, incidents>>
     \/ PersistFails("finalizing") /\ StopFails

\* finalizeArtifacts: the recording is stable and probes, or the stop fails.
StopProbes ==
  /\ Running("stop", "probe")
  /\ \/ /\ Head(queue).man.session \in usable
        /\ \/ /\ Persists("complete")
              /\ GoesOn(InState("complete"), Head(queue).own, "handoff")
              /\ UNCHANGED <<obsVars, recovery, statusVars, dbVars, ipcVars, incidents>>
           \/ PersistFails("complete") /\ StopFails
     \/ /\ \/ Head(queue).man.session \notin usable /\ UNCHANGED incidents
           \/ Incident
        /\ UNCHANGED <<disk, mem>>
        /\ StopFails

\* ObsCaptureService.stop and the IPC handler after it: the recording is
\* attached and queued, or cannot be queued, and is acknowledged either way.
StopHandsOff ==
  LET s == Head(queue).man.session IN
  /\ Running("stop", "handoff")
  /\ active' = NoSession
  /\ phase' = "ready"
  /\ \/ /\ row[s] = "deleted"
        /\ Done
        /\ UNCHANGED <<dbVars, incidents>>
     \/ /\ row[s] # "deleted"
        /\ attached' = attached \cup {s}
        /\ \/ jobs' = OneMore(s) /\ SetStatus(s, "processing") /\ UNCHANGED incidents
           \/ UNCHANGED jobs /\ SetStatus(s, "failed") /\ Incident
        /\ queue' = Append(Tail(queue), NewCommand("acknowledge", s))
  /\ UNCHANGED <<obsVars, disk, mem, recovery, starting, claim, deleting>>

\* acknowledge: only a recording that is over, only of this session.
Acknowledge ==
  LET m == IF mem = NoManifest THEN disk ELSE mem IN
  /\ Running("acknowledge", "begin")
  /\ \/ /\ m.session = Head(queue).who /\ m.state \in FinalStates
        /\ \/ disk' = NoManifest /\ mem' = NoManifest /\ UNCHANGED incidents
           \/ Incident /\ UNCHANGED <<disk, mem>>
     \/ /\ ~(m.session = Head(queue).who /\ m.state \in FinalStates)
        /\ UNCHANGED <<disk, mem, incidents>>
  /\ Done
  /\ UNCHANGED <<obsVars, recovery, statusVars, dbVars, ipcVars>>

-----------------------------------------------------------------------------
(* RecoveryService.recover, for the three callers                          *)

\* connect() threw: the status says what is left of the connection.
ConnectFails == phase' = IF connected THEN "configuring" ELSE "disconnected"

RecoveryFailsUnseen(r) ==  \* a variant with a bug
  /\ recovery' = [recovery EXCEPT ![r] =
       IF r = "reconnect" /\ ~@.aborted THEN [Idle EXCEPT !.pc = "retry"] ELSE Idle]
  /\ UNCHANGED <<obsVars, disk, mem, queue, statusVars, dbVars, ipcVars>>

\* recover() threw: the connection stays as it is, a reconnect tries again,
\* a start gives up.
RecoveryFails(r) ==
  /\ recovery' = [recovery EXCEPT ![r] =
       IF r = "reconnect" /\ ~@.aborted THEN [Idle EXCEPT !.pc = "retry"] ELSE Idle]
  /\ CASE r = "start" -> StartEnds(claim)
       [] r = "connect" -> ConnectFails /\ UNCHANGED <<active, row, starting, claim>>
       [] r = "reconnect" -> UNCHANGED <<statusVars, row, starting, claim>>
  /\ UNCHANGED <<obsVars, disk, mem, queue, attached, jobs, deleting>>

ToFinalize(r, m) ==
  /\ recovery' = [recovery EXCEPT ![r].pc = "finalize", ![r].man = m]
  /\ queue' = Append(queue, NewCommand("finalize", r))

ToApply(r, m, result) ==
  recovery' = [recovery EXCEPT ![r].pc = "apply", ![r].man = m, ![r].result = result]

\* attach(): from here on this.manifest is
\* another object than the one a running command holds.
Attaches(r, m, result) ==
  /\ mem' = m
  /\ queue' = [i \in DOMAIN queue |-> [queue[i] EXCEPT !.own = FALSE]]
  /\ ToApply(r, m, result)

\* There is no manifest: a connect provisions, the others are done.
NothingToRecover(r) ==
  /\ Loading(r)
  /\ disk = NoManifest
  /\ IF r = "connect" /\ ~recovery[r].aborted
       THEN /\ recovery' = [recovery EXCEPT ![r].pc = "provision"]
            /\ queue' = Append(queue, NewCommand("provision", r))
       ELSE recovery' = [recovery EXCEPT ![r] = Idle] /\ UNCHANGED queue
  /\ CASE r = "connect" ->
            /\ IF recovery[r].aborted THEN ConnectFails ELSE UNCHANGED phase
            /\ UNCHANGED <<active, row, starting, claim>>
       [] r = "reconnect" ->
            /\ active' = IF recovery[r].aborted THEN active ELSE NoSession
            /\ phase' = IF recovery[r].aborted THEN phase ELSE "ready"
            /\ UNCHANGED <<row, starting, claim>>
       [] r = "start" -> StartEnds(claim)
  /\ UNCHANGED <<obsVars, disk, mem, attached, jobs, deleting, incidents>>

\* A manifest is loaded: a failed one is attached, a finished one finalized
\* again, and OBS is asked about one that was in progress.
LoadManifest(r) ==
  /\ Loading(r)
  /\ disk # NoManifest
  /\ \/ /\ disk.state = "failed"
        /\ Attaches(r, disk, "failed")
     \/ /\ disk.state # "failed"
        /\ disk.state \in FinalStates \/ ~connected
        /\ ToFinalize(r, disk)
        /\ UNCHANGED mem
     \/ /\ disk.state \notin FinalStates /\ connected
        /\ recovery' = [recovery EXCEPT ![r].pc = "query", ![r].man = disk]
        /\ UNCHANGED <<mem, queue>>
  /\ UNCHANGED <<obsVars, disk, statusVars, dbVars, ipcVars, incidents>>

\* OBS does not answer, or contradicts the manifest, or the manifest cannot be
\* saved; later the lease file that handleRecoveryResult reads or writes fails.
RecoveryThrows(r) ==
  LET m == recovery[r].man IN
  /\ \/ /\ recovery[r].pc = "query"
        /\ \/ ~connected \/ recovery[r].aborted
           \/ obs = m.session /\ m.state \notin ActiveStates
        /\ UNCHANGED incidents
     \/ recovery[r].pc \in {"query", "apply"} /\ ~recovery[r].aborted /\ Incident
  /\ RecoveryFails(r)

\* GetRecordStatus and GetRecordDirectory answer.
QueryRecording(r) ==
  LET m == recovery[r].man IN
  /\ recovery[r].pc = "query"
  /\ connected /\ ~recovery[r].aborted
  /\ \/ /\ obs = m.session /\ m.state \in ActiveStates
        /\ disk' = [m EXCEPT !.state = IF @ = "stop-intent" THEN @ ELSE "recording"]
        /\ Attaches(r, disk', "reattached")
     \/ /\ obs \notin {NoSession, m.session}
        /\ ToApply(r, m, "conflict")
        /\ UNCHANGED <<disk, mem, queue>>
     \/ /\ obs = NoSession /\ m.state = "ready"
        /\ disk' = [m EXCEPT !.state = "failed"]
        /\ Attaches(r, disk', "failed")
     \/ /\ obs = NoSession /\ m.state # "ready"
        /\ ToFinalize(r, m)
        /\ UNCHANGED <<disk, mem>>
  /\ UNCHANGED <<obsVars, statusVars, dbVars, ipcVars, incidents>>

\* finalizeRecovered, in the command queue.
FinalizeRecovered ==
  LET r == Head(queue).who
      m == [recovery[r].man EXCEPT !.state = "finalizing"]
  IN
  /\ Running("finalize", "begin")
  /\ mem' = m
  /\ \/ /\ disk' = m
        /\ GoesOn(m, TRUE, "probe")
        /\ UNCHANGED <<recovery, incidents>>
     \/ /\ Incident
        /\ Done
        /\ ToApply(r, recovery[r].man, "interrupted")
        /\ UNCHANGED disk
  /\ UNCHANGED <<obsVars, statusVars, dbVars, ipcVars>>

ProbeRecovered ==
  LET r == Head(queue).who
      m == recovery[r].man
  IN
  /\ Running("finalize", "probe")
  /\ \/ /\ m.session \in usable
        /\ Persists(IF m.state = "complete" THEN "complete" ELSE "interrupted")
        /\ ToApply(r, m, "recovered")
        /\ UNCHANGED incidents
     \/ /\ \/ m.session \notin usable /\ Persists("interrupted") /\ UNCHANGED incidents
           \/ m.session \in usable /\ Persists("interrupted") /\ Incident
           \/ PersistFails("interrupted")
        /\ ToApply(r, m, "interrupted")
  /\ Done
  /\ UNCHANGED <<obsVars, statusVars, dbVars, ipcVars>>

-----------------------------------------------------------------------------
(* RecoveredRecordingHandler.handle                                        *)

\* No job was ever created for the session.
AnySession(s) == row[s] # "deleted"  \* a variant with a bug
NoJobYet(s) == jobs[s] = 0

QueuedOrNot(s, result, queued) ==  \* a variant with a bug
  CASE result = "reattached" -> WithStatus(row, s, "recording")
    [] result = "failed" -> WithStatus(row, s, "failed")
    [] result = "interrupted" -> WithStatus(row, s, "interrupted")
    [] result = "conflict" -> row
    [] result = "recovered" -> WithStatus(row, s, "processing")

\* The rows after the handler; `queued' says whether enqueue accepted a job.
HandledRows(s, result, queued) ==
  CASE result = "reattached" -> WithStatus(row, s, "recording")
    [] result = "failed" -> WithStatus(row, s, "failed")
    [] result = "interrupted" -> WithStatus(row, s, "interrupted")
    [] result = "conflict" -> row
    [] result = "recovered" ->
         WithStatus(row, s, IF queued \/ ~NoJobYet(s) THEN "processing" ELSE "failed")

\* The recordings it acknowledges.
AcknowledgesUnfinished(s, result) ==  \* a variant with a bug
  row[s] # "deleted" /\ result \in {"failed", "recovered", "interrupted"}
Acknowledges(s, result) ==
  row[s] # "deleted" /\ result \in {"failed", "recovered"}

\* applyRecovery's phase.
PhaseIsTheAction(r) == recovery[r].result  \* a variant with a bug
RecoveredPhase(r) ==
  CASE recovery[r].result = "conflict" -> "recovering"
    [] recovery[r].result = "reattached" ->
         IF recovery[r].man.state = "stop-intent" THEN "finalizing" ELSE "recording"
    [] OTHER -> "ready"

\* handleRecoveryResult: the status, then the handler in the same turn, and
\* the caller's continuation after it.  A cancelled caller drops the result.
ApplyRecovery(r) ==
  LET s == recovery[r].man.session
      result == recovery[r].result
      acknowledgement == IF Acknowledges(s, result)
                           THEN <<NewCommand("acknowledge", s)>> ELSE <<>>
      provisions == r = "connect" /\ result \notin {"reattached", "conflict"}
      fresh == result = "recovered" /\ row[s] # "deleted" /\ NoJobYet(s)
  IN
  /\ recovery[r].pc = "apply"
  /\ ~recovery[r].aborted
  /\ recovery' = [recovery EXCEPT ![r] =
       IF provisions THEN [Idle EXCEPT !.pc = "provision"] ELSE Idle]
  /\ queue' = queue \o acknowledgement
                \o (IF provisions THEN <<NewCommand("provision", r)>> ELSE <<>>)
  /\ attached' = IF result = "recovered" /\ row[s] # "deleted"
                   THEN attached \cup {s} ELSE attached
  /\ \E queued \in BOOLEAN :
       LET rows == HandledRows(s, result, queued) IN
       /\ IF fresh /\ ~queued THEN Incident ELSE UNCHANGED incidents
       /\ queued => fresh
       /\ jobs' = IF queued THEN OneMore(s) ELSE jobs
       /\ ~queued => ~fresh \/ incidents' # incidents
       /\ IF r # "start"
            THEN /\ active' = IF result = "reattached" THEN s ELSE NoSession
                 /\ phase' = RecoveredPhase(r)
                 /\ row' = rows
                 /\ UNCHANGED <<starting, claim>>
            ELSE /\ active' = IF result = "reattached" THEN s ELSE claim
                 /\ phase' = IF result = "reattached" THEN RecoveredPhase(r)
                             ELSE IF claim # NoSession THEN "recovering"
                             ELSE IF connected THEN "ready" ELSE "disconnected"
                 /\ row' = CASE result = "reattached" -> WithStatus(rows, starting, "recording")
                             [] result # "reattached" /\ claim = starting -> rows
                             [] OTHER -> WithStatus(rows, starting, "draft")
                 /\ starting' = NoSession
                 /\ claim' = NoSession
  /\ UNCHANGED <<obsVars, disk, mem, deleting>>

DropRecovery(r) ==
  /\ recovery[r].pc = "apply"
  /\ recovery[r].aborted
  /\ recovery' = [recovery EXCEPT ![r] = Idle]
  /\ IF r = "connect" THEN ConnectFails ELSE UNCHANGED phase
  /\ UNCHANGED <<obsVars, disk, mem, queue, active, dbVars, ipcVars, incidents>>

\* provisionBase, in the command queue: it leaves an active OBS alone.
Provision ==
  /\ Running("provision", "begin")
  /\ \/ /\ connected /\ obs = NoSession /\ ~recovery["connect"].aborted
        /\ active' = NoSession /\ phase' = "ready"
        /\ UNCHANGED incidents
     \/ /\ ~connected \/ obs # NoSession \/ recovery["connect"].aborted
        /\ ConnectFails
        /\ UNCHANGED <<active, incidents>>
     \/ Incident /\ ConnectFails /\ UNCHANGED active
  /\ recovery' = [recovery EXCEPT !["connect"] = Idle]
  /\ Done
  /\ UNCHANGED <<obsVars, disk, mem, dbVars, ipcVars>>

-----------------------------------------------------------------------------
(* The connection                                                          *)

Connect ==
  /\ ~connected
  /\ recovery["connect"] = Idle /\ recovery["reconnect"] = Idle
  /\ connected' = TRUE
  /\ phase' = "configuring"
  /\ recovery' = [recovery EXCEPT !["connect"].pc = "load"]
  /\ UNCHANGED <<obs, usable, disk, mem, queue, active, dbVars, ipcVars, incidents>>

\* handleDisconnect: the active session is kept, or taken from an active
\* manifest, and reconnecting begins unless it is under way.
HandleDisconnect ==
  /\ connected' = FALSE
  /\ active' = IF active = NoSession /\ mem.state \in ActiveStates
                 THEN mem.session ELSE active
  /\ phase' = IF active' # NoSession THEN "recovering" ELSE "disconnected"
  /\ recovery' =
       IF active' # NoSession /\ recovery["reconnect"] = Idle
         THEN [recovery EXCEPT !["reconnect"].pc = "retry"] ELSE recovery

LoseConnection ==
  /\ connected
  /\ Incident
  /\ \/ HandleDisconnect
     \/ connected' = FALSE /\ phase' = "disconnected"  \* close code 4011
        /\ UNCHANGED <<active, recovery>>
  /\ UNCHANGED <<obs, usable, disk, mem, queue, dbVars, ipcVars>>

Disconnect ==
  /\ connected /\ active = NoSession
  /\ recovery["connect"] = Idle /\ recovery["reconnect"] = Idle
  /\ HandleDisconnect
  /\ IF queue = <<>> /\ starting = NoSession THEN UNCHANGED incidents ELSE Incident
  /\ UNCHANGED <<obs, usable, disk, mem, queue, dbVars, ipcVars>>

\* cancelConnect, and stopAutomaticReconnect before a manual connect: the
\* attempt is aborted and the socket closed.
CancelConnect ==
  /\ recovery["connect"] # Idle /\ ~recovery["connect"].aborted
  /\ connected' = FALSE
  /\ phase' = "disconnected"
  /\ recovery' = [recovery EXCEPT !["connect"].aborted = TRUE]
  /\ Incident
  /\ UNCHANGED <<obs, usable, disk, mem, queue, active, dbVars, ipcVars>>

AbortReconnect ==
  /\ recovery["reconnect"] # Idle /\ ~recovery["reconnect"].aborted
  /\ connected' = FALSE
  /\ active' = IF active = NoSession /\ mem.state \in ActiveStates
                 THEN mem.session ELSE active
  /\ phase' = IF active' # NoSession THEN "recovering" ELSE "disconnected"
  /\ recovery' = [recovery EXCEPT !["reconnect"].aborted = TRUE]
  /\ Incident
  /\ UNCHANGED <<obs, usable, disk, mem, queue, dbVars, ipcVars>>

\* One turn of reconnectActiveSession: it reaches OBS, or the 30 seconds are
\* over, or it was aborted.
Reconnect ==
  /\ recovery["reconnect"].pc = "retry"
  /\ ~recovery["reconnect"].aborted
  /\ connected' = TRUE
  /\ recovery' = [recovery EXCEPT !["reconnect"].pc = "load"]
  /\ UNCHANGED <<obs, usable, disk, mem, queue, statusVars, dbVars, ipcVars, incidents>>

EndReconnect ==
  /\ recovery["reconnect"].pc = "retry"
  /\ recovery' = [recovery EXCEPT !["reconnect"] = Idle]
  /\ phase' = IF recovery["reconnect"].aborted THEN phase ELSE "disconnected"
  /\ UNCHANGED <<obsVars, disk, mem, queue, active, dbVars, ipcVars, incidents>>

-----------------------------------------------------------------------------
(* Deletion and crashes                                                    *)

Delete(s) ==
  /\ deleting = NoSession
  /\ row[s] # "deleted"
  /\ s \notin {starting, active}
  /\ deleting' = s
  /\ Incident
  /\ UNCHANGED <<obsVars, disk, mem, queue, recovery, statusVars, dbVars, starting,
                 claim>>

DeleteEnds ==
  /\ deleting # NoSession
  /\ row' = [row EXCEPT ![deleting] = "deleted"]
  /\ usable' = usable \ {deleting}
  /\ attached' = attached \ {deleting}
  /\ jobs' = [jobs EXCEPT ![deleting] = 0]
  /\ deleting' = NoSession
  /\ UNCHANGED <<connected, obs, disk, mem, queue, recovery, statusVars, starting,
                 claim, incidents>>

\* The process ends and is started again: OBS, the manifest file and the
\* database are what is left.
Restarts ==
  /\ Incident
  /\ connected' = FALSE
  /\ mem' = NoManifest
  /\ queue' = <<>>
  /\ recovery' = [r \in Callers |-> Idle]
  /\ active' = NoSession /\ phase' = "disconnected"
  /\ starting' = NoSession /\ claim' = NoSession
  /\ deleting' = NoSession
  /\ UNCHANGED <<obs, usable, disk, jobs>>

\* Anywhere, and between the commit that attaches a recording and the one
\* that queues its job.
Crash == Restarts /\ UNCHANGED <<row, attached>>

CrashInHandoff ==
  \E s \in Sessions :
    /\ \/ Running("stop", "handoff") /\ Head(queue).man.session = s
       \/ \E r \in Callers :
            /\ recovery[r].pc = "apply" /\ ~recovery[r].aborted
            /\ recovery[r].result = "recovered" /\ recovery[r].man.session = s
            /\ s \notin attached
    /\ row[s] # "deleted"
    /\ attached' = attached \cup {s}
    /\ SetStatus(s, "processing")
    /\ Restarts

-----------------------------------------------------------------------------

Init ==
  /\ connected = FALSE
  /\ obs = NoSession
  /\ usable = {}
  /\ disk = NoManifest
  /\ mem = NoManifest
  /\ queue = <<>>
  /\ recovery = [r \in Callers |-> Idle]
  /\ active = NoSession /\ phase = "disconnected"
  /\ row = [s \in Sessions |-> "draft"]
  /\ attached = {}
  /\ jobs = [s \in Sessions |-> 0]
  /\ starting = NoSession /\ claim = NoSession
  /\ deleting = NoSession
  /\ incidents = 0

RunCommand ==
  \/ StartRefused \/ StartReady \/ StartIntent \/ RequestStart \/ AwaitStart
  \/ ReconcileStart \/ StartCompletes
  \/ StopIntent \/ QueryStop \/ RequestStop \/ ReconcileStop \/ StopFinalizes
  \/ StopProbes \/ StopHandsOff \/ Acknowledge
  \/ FinalizeRecovered \/ ProbeRecovered \/ Provision

Recover(r) ==
  \/ NothingToRecover(r) \/ LoadManifest(r) \/ RecoveryThrows(r)
  \/ QueryRecording(r) \/ ApplyRecovery(r) \/ DropRecovery(r)

Next ==
  \/ \E s \in Sessions : Start(s) \/ Delete(s)
  \/ Stop \/ RunCommand
  \/ \E r \in Callers : Recover(r)
  \/ Connect \/ Disconnect \/ CancelConnect \/ AbortReconnect \/ Reconnect
  \/ EndReconnect \/ LoseConnection
  \/ ObsStops \/ ForeignRecording
  \/ DeleteEnds \/ Crash \/ CrashInHandoff

Spec == Init /\ [][Next]_vars

\* The event loop runs what is scheduled; calls to OBS, the disk and the probe
\* end because each has a timeout; reconnecting gives up after 30 seconds.
Fairness ==
  /\ WF_vars(RunCommand)
  /\ \A r \in Callers : WF_vars(Recover(r))
  /\ WF_vars(Reconnect) /\ WF_vars(EndReconnect)

LiveSpec == Spec /\ Fairness

-----------------------------------------------------------------------------
(* Properties                                                              *)

\* The types of the variables.
TypeOK ==
  /\ connected \in BOOLEAN
  /\ obs \in Sessions \cup {NoSession, Elsewhere}
  /\ usable \subseteq Sessions /\ attached \subseteq Sessions
  /\ disk \in Manifest /\ mem \in Manifest
  /\ queue \in Seq(Command)
  /\ recovery \in [Callers -> Recovery]
  /\ phase \in {"disconnected", "configuring", "ready", "recording", "finalizing",
                "recovering"}
  /\ row \in [Sessions -> {"draft", "recording", "processing", "interrupted",
                           "failed", "deleted"}]
  /\ jobs \in [Sessions -> 0..2]
  /\ {active, starting, claim, deleting} \subseteq Sessions \cup {NoSession}
  /\ incidents \in 0..MaxIncidents

\* Whatever OBS records for a session is named by the manifest on disk, so a
\* crash at any moment leaves a pointer to it; the exceptions are a session
\* whose earlier file was handed off already and a session that was deleted.
ManifestBeforeRecording ==
  obs \in Sessions => disk.session = obs \/ obs \in attached \/ row[obs] = "deleted"

\* A session that says it is recording is the one the manifest names: the row,
\* which is written last and read first after a restart, never claims a
\* recording that recovery could not find.
RecordingHasManifest == \A s \in Sessions : row[s] = "recording" => disk.session = s

\* The manifest is given up only after the handoff is complete: a session with
\* a recording, no manifest and no job does not wait for processing.
HandedOffOrReported ==
  \A s \in attached : disk.session # s /\ jobs[s] = 0 =>
    row[s] \notin {"recording", "processing"}

\* ARCHITECTURE.md:28, "finalized artifacts are attached to their session and
\* queued once": stop, a crash in the handoff, recovery at every connection and
\* the retries of a reconnect create one job together.
QueuedOnce == \A s \in Sessions : jobs[s] < 2

\* A manifest is acknowledged before another recording takes its place.
OnePendingRecording ==
  [][disk # NoManifest => disk'.session \in {NoSession, disk.session}]_disk

\* A step that gives up the manifest of a session with a usable recording that
\* the session does not hold leaves a row that says so: the start it came from
\* was reported as failed.
GivenUpOnlyWithItsStart ==
  [][\A s \in usable : disk.session = s /\ disk'.session # s /\ s \notin attached' =>
       row'[s] \in {"draft", "failed", "deleted"}]_<<usable, disk, attached, row>>

\* A session that is recording or processing waits for what becomes of its recording.
Shown == [s \in Sessions |-> CASE row[s] \in {"recording", "processing"} -> "open"
                              [] row[s] = "deleted" -> "deleted"
                              [] OTHER -> "closed"]

Promise == INSTANCE Handoff WITH pending <- disk.session, held <- attached, shown <- Shown

\* Every step of starts, stops, recoveries, failures, deletions and crashes is one that
\* Handoff promises, or changes nothing it speaks of: one recording is pending at a time,
\* is handed off only while it is, is queued once, and is given up only when its job is
\* there or its session waits for nothing.
ImplementsHandoff == Promise!Spec

\* Starts, stops, reconnects and recoveries return, whatever fails and in
\* whatever order they overlap: no call waits for a command behind itself.
CallsReturn ==
  /\ starting # NoSession ~> starting = NoSession
  /\ queue # <<>> ~> queue = <<>>
  /\ \A r \in Callers : recovery[r] # Idle ~> recovery[r] = Idle

\* ARCHITECTURE.md:30, "The active-recording manifest is acknowledged only after
\* media has a durable database handoff": a usable recording is attached to its
\* session or named by the manifest.
AcknowledgedOnlyAfterHandoff ==
  \A s \in usable : s \notin attached /\ row[s] # "deleted" => disk.session = s
=============================================================================
