-------------------------- MODULE ManagedWhisper --------------------------
(***************************************************************************)
(* ManagedWhisperService: the local Whisper container, the leases on it,   *)
(* its idle countdown, and the four operations (set-up, start, stop,       *)
(* status refresh) that may be suspended in a Docker command at the same   *)
(* time.                                                                   *)
(*                                                                         *)
(* Each operation has a variable that names the Docker command it awaits;  *)
(* "none" is a null promise.  A command takes effect in the step that      *)
(* delivers its answer.  Commands that only read and follow one another    *)
(* without a change of the service's own state are one step.               *)
(***************************************************************************)
EXTENDS Naturals, FiniteSets

CONSTANTS
  Clients,    \* callers of acquire(): runs of transcription jobs
  NoClient,   \* the start was asked for by the user, with no signal to cancel it
  MaxFaults   \* bound: Docker commands that fail, hang until killed or time out

ASSUME ConstantsAssumption ==
  /\ IsFiniteSet(Clients)
  /\ NoClient \notin Clients
  /\ MaxFaults \in Nat

VARIABLES
  container,  \* what Docker holds under the managed name
  artifacts,  \* the model files are on disk, verified
  endpoint,   \* this.endpoint is not null
  phase,      \* currentStatus.phase
  client,     \* each caller: "idle", "waiting" in acquire(), or "held", a lease
  active,     \* this.activeTranscriptions
  timer,      \* an idle countdown is armed
  install,    \* installPromise
  start,      \* startPromise: its command, whose signal it obeys, its error code
  preload,    \* the user's start() awaits startPromise
  stop,       \* stopPromise
  refresh,    \* refreshStatus() in flight, and whether it saw a running container
  shutdown,   \* "no", "stopping" (shuttingDown) or "done"
  faults      \* failures so far, for the bound

vars == <<container, artifacts, endpoint, phase, client, active, timer, install,
          start, preload, stop, refresh, shutdown, faults>>
docker == <<container, artifacts>>
callers == <<client, active, preload>>

Phases == {"unavailable", "not-installed", "installing", "stopped", "starting",
           "ready", "busy", "stopping", "error"}
Codes == {"NOT_INSTALLED", "CANCELLED", "START_FAILED", "CONFLICT", "DOCKER"}
StartRecord ==
  [pc : {"none", "checks", "command", "wait", "failing"},
   by : Clients \cup {NoClient}, code : Codes]
RefreshRecord == [pc : {"none", "inspect", "artifacts", "health"}, running : BOOLEAN]
NoStart == [pc |-> "none", by |-> NoClient, code |-> "DOCKER"]
NoRefresh == [pc |-> "none", running |-> FALSE]

Flags ==
  /\ artifacts \in BOOLEAN
  /\ endpoint \in BOOLEAN
  /\ timer \in BOOLEAN
  /\ preload \in BOOLEAN

TypeOK ==
  /\ Flags
  /\ container \in {"absent", "foreign", "stopped", "running"}
  /\ phase \in Phases
  /\ client \in [Clients -> {"idle", "waiting", "held"}]
  /\ active \in Nat
  /\ install \in {"none", "download", "remove", "create"}
  /\ start \in StartRecord
  /\ stop \in {"none", "checks", "command"}
  /\ refresh \in RefreshRecord
  /\ shutdown \in {"no", "stopping", "done"}
  /\ faults \in 0..MaxFaults

Waiting == {c \in Clients : client[c] = "waiting"}
Held == {c \in Clients : client[c] = "held"}

\* Jobs run and the renderer is served.
Open == shutdown = "no"

\* setFailureStatus() for the errors of Docker, after dockerResultError().
FailurePhases == {IF phase = "installing" THEN "error" ELSE phase, "unavailable"}

\* A Docker command fails: the client is missing, the daemon refuses, a time-out.
DockerFails == faults < MaxFaults /\ faults' = faults + 1
DockerAnswers == UNCHANGED faults

\* scheduleIdleStop(): the countdown that is armed afterwards.
IdleStop(leases, hasEndpoint) ==
  timer \/ (Open /\ leases = 0 /\ hasEndpoint)

----------------------------------------------------------------------------
(* Leases.                                                                 *)

\* A second caller waits for the start that is already under way, even when a
\* stop is too; otherwise a stop or a set-up in progress refuses it.
MayStart == start.pc # "none" \/ (install = "none" /\ stop = "none")

EnsureStarted(c) ==
  start' = IF start.pc = "none"
           THEN [pc |-> "checks", by |-> c, code |-> "DOCKER"]
           ELSE start

Acquire(c) ==
  /\ Open
  /\ client[c] = "idle"
  /\ MayStart
  /\ timer' = FALSE
  /\ active' = active + 1
  /\ client' = [client EXCEPT ![c] = "waiting"]
  /\ EnsureStarted(c)
  /\ UNCHANGED <<docker, endpoint, phase, install, preload, stop, refresh,
                 shutdown, faults>>

\* BUSY: the count returns to what it was, and the countdown is armed afresh.
AcquireRefused(c) ==
  /\ Open
  /\ client[c] = "idle"
  /\ ~MayStart
  /\ timer' = (active = 0 /\ endpoint)
  /\ UNCHANGED <<docker, endpoint, phase, callers, install, start, stop, refresh,
                 shutdown, faults>>

\* Fault: the countdown is armed by every release, not by the last one.
ReleaseAlwaysArms(c) ==
  /\ client[c] = "held"
  /\ client' = [client EXCEPT ![c] = "idle"]
  /\ active' = active - 1
  /\ phase' = IF active' = 0 THEN "ready" ELSE "busy"
  /\ timer' = (timer \/ (Open /\ endpoint))
  /\ UNCHANGED <<docker, endpoint, install, start, preload, stop, refresh,
                 shutdown, faults>>

\* Fault: the last release forgets the countdown.
ReleaseQuietly(c) ==
  /\ client[c] = "held"
  /\ client' = [client EXCEPT ![c] = "idle"]
  /\ active' = active - 1
  /\ phase' = IF active' = 0 THEN "ready" ELSE "busy"
  /\ UNCHANGED <<docker, endpoint, timer, install, start, preload, stop, refresh,
                 shutdown, faults>>

Release(c) ==
  /\ client[c] = "held"
  /\ client' = [client EXCEPT ![c] = "idle"]
  /\ active' = active - 1
  /\ phase' = IF active' = 0 THEN "ready" ELSE "busy"
  /\ timer' = IdleStop(active', endpoint)
  /\ UNCHANGED <<docker, endpoint, install, start, preload, stop, refresh,
                 shutdown, faults>>

----------------------------------------------------------------------------
(* Start.                                                                  *)

\* start(): preloads the model without a lease.
Preload ==
  /\ Open
  /\ ~preload
  /\ MayStart
  /\ preload' = TRUE
  /\ EnsureStarted(NoClient)
  /\ UNCHANGED <<docker, endpoint, phase, client, active, timer, install, stop,
                 refresh, shutdown, faults>>

\* The catch of ensureStarted() up to its first await.
StartFails(code) ==
  /\ start' = [start EXCEPT !.pc = "failing", !.code = code]
  /\ endpoint' = FALSE
  /\ timer' = FALSE
  /\ UNCHANGED <<artifacts, callers, install, stop, refresh, shutdown>>

\* The signal of the caller that began the start is aborted.
StartCancelled ==
  /\ start.pc \in {"checks", "command", "wait"}
  /\ start.by # NoClient
  /\ StartFails("CANCELLED")
  /\ DockerAnswers
  /\ UNCHANGED <<container, phase>>

StartChecked ==
  /\ start.pc = "checks"
  /\ \/ /\ DockerFails
        /\ StartFails("DOCKER")
        /\ phase' \in {phase, "unavailable"}
     \/ /\ DockerAnswers
        /\ container = "absent" \/ ~artifacts
        /\ StartFails("NOT_INSTALLED")
        /\ UNCHANGED phase
     \/ /\ DockerAnswers
        /\ container = "foreign" /\ artifacts
        /\ StartFails("CONFLICT")
        /\ UNCHANGED phase
     \/ /\ DockerAnswers
        /\ container \in {"stopped", "running"} /\ artifacts
        /\ start' = [start EXCEPT !.pc =
                       IF container = "running" THEN "wait" ELSE "command"]
        /\ phase' = "starting"
        /\ UNCHANGED <<endpoint, timer, artifacts, callers, install, stop,
                       refresh, shutdown>>
  /\ UNCHANGED container

StartCommanded ==
  /\ start.pc = "command"
  /\ \/ /\ DockerFails
        /\ \E code \in {"START_FAILED", "DOCKER"} : StartFails(code)
        /\ container' \in {container, "running"}
     \/ /\ DockerAnswers
        /\ container' = "running"
        /\ start' = [start EXCEPT !.pc = "wait"]
        /\ UNCHANGED <<endpoint, timer, artifacts, callers, install, stop,
                       refresh, shutdown>>
  /\ UNCHANGED phase

\* waitUntilReady() found the container dead, or its deadline passed.
StartNotReady ==
  /\ start.pc = "wait"
  /\ \/ container # "running" /\ DockerAnswers
     \/ DockerFails
  /\ \E code \in {"START_FAILED", "DOCKER"} : StartFails(code)
  /\ UNCHANGED <<container, phase>>

\* The server answers: every caller that waits gets its lease.
Started ==
  /\ start.pc = "wait"
  /\ container = "running"
  /\ endpoint' = TRUE
  /\ start' = NoStart
  /\ client' = [c \in Clients |->
                  IF client[c] = "waiting" THEN "held" ELSE client[c]]
  /\ phase' = IF active > 0 THEN "busy" ELSE "ready"
  /\ preload' = FALSE
  /\ timer' = IF preload THEN IdleStop(active, TRUE) ELSE timer
  /\ UNCHANGED <<docker, active, install, stop, refresh, shutdown, faults>>

\* Fault: the callers that waited keep their place in the count.
StartUnwoundLeaks ==
  /\ start.pc = "failing"
  /\ container' = IF container = "running" THEN "stopped" ELSE container
  /\ phase' = "error"
  /\ start' = NoStart
  /\ preload' = FALSE
  /\ active' = active
  /\ client' = [c \in Clients |->
                  IF client[c] = "waiting" THEN "idle" ELSE client[c]]
  /\ UNCHANGED <<artifacts, timer, endpoint, install, stop, refresh, shutdown,
                 faults>>

\* Fault: a caller that waited gives its place back twice.
StartUnwoundTwice ==
  /\ start.pc = "failing"
  /\ container' = IF container = "running" THEN "stopped" ELSE container
  /\ phase' = "error"
  /\ start' = NoStart
  /\ preload' = FALSE
  /\ active' = active - 2 * Cardinality(Waiting)
  /\ client' = [c \in Clients |->
                  IF client[c] = "waiting" THEN "idle" ELSE client[c]]
  /\ UNCHANGED <<artifacts, timer, endpoint, install, stop, refresh, shutdown,
                 faults>>

\* Fault: nobody tells the callers that wait.
StartUnwoundSilently ==
  /\ start.pc = "failing"
  /\ container' = IF container = "running" THEN "stopped" ELSE container
  /\ phase' = "error"
  /\ start' = NoStart
  /\ preload' = FALSE
  /\ active' = active
  /\ client' = client
  /\ UNCHANGED <<artifacts, timer, endpoint, install, stop, refresh, shutdown,
                 faults>>

\* stopAfterFailedStart() has ended; the promise rejects and every caller that
\* waits gives its place in the count back.
StartUnwound ==
  /\ start.pc = "failing"
  /\ \/ /\ DockerAnswers
        /\ container' = IF container = "running" THEN "stopped" ELSE container
     \/ /\ DockerFails
        /\ UNCHANGED container
  /\ phase' \in CASE start.code = "NOT_INSTALLED" -> {"not-installed"}
                  [] start.code = "CANCELLED" -> {"stopped"}
                  [] start.code \in {"START_FAILED", "CONFLICT"} -> {"error"}
                  [] start.code = "DOCKER" -> FailurePhases
  /\ start' = NoStart
  /\ preload' = FALSE
  /\ active' = active - Cardinality(Waiting)
  /\ client' = [c \in Clients |->
                  IF client[c] = "waiting" THEN "idle" ELSE client[c]]
  /\ timer' = IF Waiting # {} THEN IdleStop(active', endpoint) ELSE timer
  /\ UNCHANGED <<artifacts, endpoint, install, stop, refresh, shutdown>>

----------------------------------------------------------------------------
(* Stop.                                                                   *)

\* performStop() up to its first await.
BeginStop ==
  /\ stop' = "checks"
  /\ timer' = FALSE

\* Fault: the user's stop does not look at the leases.
StopRegardless ==
  /\ Open
  /\ stop = "none"
  /\ BeginStop
  /\ UNCHANGED <<docker, endpoint, phase, callers, install, start, refresh,
                 shutdown, faults>>

\* stop() by the user and stopIfIdle() before a local summary: never with a lease,
\* but a start or a set-up (stopIfIdle) may be under way.
Stop ==
  /\ Open
  /\ stop = "none"
  /\ active = 0
  /\ BeginStop
  /\ UNCHANGED <<docker, endpoint, phase, callers, install, start, refresh,
                 shutdown, faults>>

\* The countdown ends.  A stop in progress is joined.
TimerFires ==
  /\ timer
  /\ IF active = 0 /\ stop = "none" THEN BeginStop ELSE timer' = FALSE /\ UNCHANGED stop
  /\ UNCHANGED <<docker, endpoint, phase, callers, install, start, refresh,
                 shutdown, faults>>

StopChecked ==
  /\ stop = "checks"
  /\ \/ /\ DockerFails
        /\ phase' \in {phase, "unavailable"}
        /\ stop' = "none"
        /\ UNCHANGED endpoint
     \/ /\ DockerAnswers
        /\ container \in {"absent", "stopped"}
        /\ phase' = IF container = "absent" THEN "not-installed" ELSE "stopped"
        /\ endpoint' = FALSE
        /\ stop' = "none"
     \/ /\ DockerAnswers
        /\ container = "foreign"
        /\ phase' = "error"
        /\ stop' = "none"
        /\ UNCHANGED endpoint
     \/ /\ DockerAnswers
        /\ container = "running"
        /\ phase' = "stopping"
        /\ stop' = "command"
        /\ UNCHANGED endpoint
  /\ UNCHANGED <<docker, callers, timer, install, start, refresh, shutdown>>

StopCommanded ==
  /\ stop = "command"
  /\ stop' = "none"
  /\ \/ /\ DockerAnswers
        /\ container' = IF container = "running" THEN "stopped" ELSE container
        /\ endpoint' = FALSE
        /\ phase' = "stopped"
     \/ /\ DockerFails
        /\ container' \in {container, IF container = "running" THEN "stopped" ELSE container}
        /\ phase' \in {"error"} \cup FailurePhases
        /\ UNCHANGED endpoint
  /\ UNCHANGED <<artifacts, callers, timer, install, start, refresh, shutdown>>
----------------------------------------------------------------------------
(* Set-up.                                                                 *)

\* install(): a countdown that is armed goes on.
Install ==
  /\ Open
  /\ install = "none" /\ start.pc = "none" /\ stop = "none"
  /\ active = 0
  /\ install' = "download"
  /\ phase' = "installing"
  /\ UNCHANGED <<docker, endpoint, callers, timer, start, stop, refresh,
                 shutdown, faults>>

\* The image is pulled and both files are verified; an old container is inspected.
InstallDownloaded ==
  /\ install = "download"
  /\ DockerAnswers
  /\ artifacts' = TRUE
  /\ \/ /\ container # "foreign"
        /\ install' = IF container = "absent" THEN "create" ELSE "remove"
        /\ UNCHANGED phase
     \/ /\ container = "foreign"
        /\ install' = "none"
        /\ phase' = "error"
  /\ UNCHANGED <<container, endpoint, callers, timer, start, stop, refresh, shutdown>>

InstallRemoved ==
  /\ install = "remove"
  /\ DockerAnswers
  /\ container' = "absent"
  /\ install' = "create"
  /\ UNCHANGED <<artifacts, endpoint, phase, callers, timer, start, stop,
                 refresh, shutdown>>

InstallCreated ==
  /\ install = "create"
  /\ DockerAnswers
  /\ container' = "stopped"
  /\ install' = "none"
  /\ endpoint' = FALSE
  /\ phase' = "stopped"
  /\ UNCHANGED <<artifacts, callers, timer, start, stop, refresh, shutdown>>

\* cancelInstall(), or a command or download that fails: what it did may stand.
InstallEnds ==
  /\ install # "none"
  /\ \/ DockerAnswers /\ phase' = "not-installed"
     \/ DockerFails /\ phase' \in {"error"} \cup FailurePhases
  /\ container' \in {container,
                     CASE install = "remove" -> "absent"
                       [] install = "create" -> "stopped"
                       [] install = "download" -> container}
  /\ install' = "none"
  /\ UNCHANGED <<artifacts, endpoint, callers, timer, start, stop, refresh, shutdown>>

----------------------------------------------------------------------------
(* Status.  Nothing keeps another operation from starting while a refresh   *)
(* is suspended.                                                            *)

Status ==
  /\ Open
  /\ refresh.pc = "none"
  /\ install = "none" /\ start.pc = "none" /\ stop = "none"
  /\ refresh' = [pc |-> "inspect", running |-> FALSE]
  /\ UNCHANGED <<docker, endpoint, phase, callers, timer, install, start, stop,
                 shutdown, faults>>

RefreshInspected ==
  /\ refresh.pc = "inspect"
  /\ \/ /\ DockerFails
        /\ phase' \in FailurePhases
        /\ refresh' = NoRefresh
        /\ UNCHANGED <<endpoint, timer>>
     \/ /\ DockerAnswers
        /\ container = "absent"
        /\ phase' = "not-installed"
        /\ endpoint' = FALSE
        /\ timer' = FALSE
        /\ refresh' = NoRefresh
     \/ /\ DockerAnswers
        /\ container = "foreign"
        /\ phase' = "error"
        /\ refresh' = NoRefresh
        /\ UNCHANGED <<endpoint, timer>>
     \/ /\ DockerAnswers
        /\ container \in {"stopped", "running"}
        /\ refresh' = [pc |-> "artifacts", running |-> container = "running"]
        /\ UNCHANGED <<phase, endpoint, timer>>
  /\ UNCHANGED <<docker, callers, install, start, stop, shutdown>>

\* The files are verified: by now the container may not be what it was.
RefreshVerified ==
  /\ refresh.pc = "artifacts"
  /\ \/ /\ ~artifacts
        /\ phase' = "error"
        /\ refresh' = NoRefresh
        /\ UNCHANGED <<endpoint, timer>>
     \/ /\ artifacts /\ ~refresh.running
        /\ phase' = "stopped"
        /\ endpoint' = FALSE
        /\ timer' = FALSE
        /\ refresh' = NoRefresh
     \/ /\ artifacts /\ refresh.running
        /\ endpoint' = TRUE
        /\ refresh' = [refresh EXCEPT !.pc = "health"]
        /\ UNCHANGED <<phase, timer>>
  /\ UNCHANGED <<docker, callers, install, start, stop, shutdown, faults>>

RefreshEnds ==
  /\ refresh.pc = "health"
  /\ refresh' = NoRefresh
  /\ \/ /\ container = "running"
        /\ phase' = IF active > 0 THEN "busy" ELSE "ready"
     \/ phase' = "starting"
  /\ timer' = IdleStop(active, endpoint)
  /\ UNCHANGED <<docker, endpoint, callers, install, start, stop, shutdown, faults>>

----------------------------------------------------------------------------
(* The end of the application.                                             *)

\* prepareToQuit() has blocked and drained the renderer's calls and the queue.
Drained ==
  /\ \A c \in Clients : client[c] = "idle"
  /\ ~preload
  /\ install = "none" /\ start.pc = "none" /\ refresh.pc = "none"

\* Fault: a container that is about to be idle is left to its countdown.
ShutdownLeaves ==
  /\ Open
  /\ Drained
  /\ shutdown' = "stopping"
  /\ active' = 0
  /\ timer' = FALSE
  /\ UNCHANGED <<docker, endpoint, phase, client, preload, install, start, stop,
                 refresh, faults>>

\* shutdown(): a stop that is under way, of the countdown, is joined.
Shutdown ==
  /\ Open
  /\ Drained
  /\ shutdown' = "stopping"
  /\ active' = 0
  /\ timer' = FALSE
  /\ stop' = IF stop = "none" THEN "checks" ELSE stop
  /\ UNCHANGED <<docker, endpoint, phase, client, preload, install, start,
                 refresh, faults>>

ShutdownEnds ==
  /\ shutdown = "stopping"
  /\ stop = "none"
  /\ shutdown' = "done"
  /\ UNCHANGED <<docker, endpoint, phase, callers, timer, install, start, stop,
                 refresh, faults>>

----------------------------------------------------------------------------

\* A fresh process: whatever Docker and the disk hold, it has not looked.
Init ==
  /\ container \in {"absent", "foreign", "stopped", "running"}
  /\ artifacts \in BOOLEAN
  /\ endpoint = FALSE
  /\ phase = "unavailable"
  /\ client = [c \in Clients |-> "idle"]
  /\ active = 0
  /\ timer = FALSE
  /\ install = "none"
  /\ start = NoStart
  /\ preload = FALSE
  /\ stop = "none"
  /\ refresh = NoRefresh
  /\ shutdown = "no"
  /\ faults = 0

StartStep == StartChecked \/ StartCommanded \/ StartNotReady \/ Started \/ StartUnwound
StopStep == StopChecked \/ StopCommanded
InstallStep == InstallDownloaded \/ InstallRemoved \/ InstallCreated \/ InstallEnds
RefreshStep == RefreshInspected \/ RefreshVerified \/ RefreshEnds

Next ==
  \/ \E c \in Clients : Acquire(c) \/ AcquireRefused(c) \/ Release(c)
  \/ Preload \/ StartCancelled \/ StartStep
  \/ Stop \/ TimerFires \/ StopStep
  \/ Install \/ InstallStep
  \/ Status \/ RefreshStep
  \/ Shutdown \/ ShutdownEnds

Spec == Init /\ [][Next]_vars

\* Every command ends, by its time-out at the latest, and timers fire.
Fairness ==
  /\ WF_vars(StartStep) /\ WF_vars(StopStep) /\ WF_vars(InstallStep)
  /\ WF_vars(RefreshStep) /\ WF_vars(TimerFires) /\ WF_vars(ShutdownEnds)

FairSpec == Spec /\ Fairness

----------------------------------------------------------------------------
(* Properties.                                                             *)

\* A countdown runs only when the count is zero and the application is not
\* shutting down: "a new lease cancels that countdown", however many starts,
\* stops and refreshes are suspended when it is taken.
NoCountdownUnderLease == timer => active = 0 /\ Open

\* The count is the number of callers that wait for a lease or hold one,
\* through failed, cancelled, refused and shared starts.
CountIsOfCallers == active = Cardinality(Waiting \cup Held)

\* The application ends with the container stopped, if Docker never failed,
\* also when the stop it joins began before.
ShutdownReleasesVram == shutdown = "done" /\ faults = 0 => container # "running"

\* No stop begins under a lease, nor under a caller that waits for one; and a
\* container dies under a lease only by a stop that began earlier or after
\* another start failed.
StopNeverBeginsUnderALease ==
  [][/\ stop = "none" /\ stop' # "none" => Waiting \cup Held = {}
     /\ container = "running" /\ container' # "running" /\ Held # {} =>
          stop = "command" \/ start.pc = "failing"]_vars

\* "Leases prevent the service from being stopped in the middle of a
\* transcription": the container of a lease runs until the lease is released.
LeaseKeepsContainer == Held # {} => container = "running"

\* Every acquire() is answered, whatever happens to the start it waits for.
AcquireIsAnswered ==
  \A c \in Clients : (client[c] = "waiting") ~> (client[c] # "waiting")

\* A refresh that saw the container stopped is about to say so of a running one:
\* it takes the endpoint and the countdown away.  Its verification of the files
\* would have to outlast a whole start.
StaleRefresh ==
  refresh.pc = "artifacts" /\ ~refresh.running /\ container = "running"

\* "When the final lease is released, a five-minute idle countdown begins": a
\* container that the service knows to be running is used or gets stopped,
\* unless Docker fails or a stale refresh forgets it.
IdleIsStopped ==
  (container = "running" /\ endpoint /\ active = 0)
    ~> (container # "running" \/ active > 0 \/ faults > 0 \/ StaleRefresh)
=============================================================================
