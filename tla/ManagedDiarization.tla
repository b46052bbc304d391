------------------------- MODULE ManagedDiarization -------------------------
(***************************************************************************)
(* ManagedDiarizationService: the container that identifies speakers.  Its *)
(* set-up, start, stop and status refresh may be suspended in a Docker     *)
(* command at the same time, while jobs hold or wait for the container.    *)
(* They share the status that the renderer shows: its phase and the        *)
(* operations it offers.                                                   *)
(*                                                                         *)
(* It differs from ManagedWhisper in three ways that matter: a job is      *)
(* counted before its start, a start is refused (not delayed) by a stop    *)
(* that is under way, and a failed set-up can be cancelled and resumed.    *)
(*                                                                         *)
(* A Docker command takes effect in the step that delivers its answer.     *)
(***************************************************************************)
EXTENDS Naturals, FiniteSets

CONSTANTS
  Jobs,       \* calls of diarize()
  NoJob,      \* the start was asked for by the user, without a signal
  MaxRounds,  \* bound: how often the jobs and the user begin something
  MaxFaults   \* bound: commands and downloads that fail

VARIABLES
  container,  \* what Docker holds under the managed name
  assets,     \* which of the runtime image and the speaker models are there
  endpoint,   \* this.endpoint is not null
  status,     \* currentStatus: the phase and the operations it offers; and whether
              \* it is known to be out of date (a history variable)
  job,        \* each job: "idle", "waiting" for the start, "asking" the server
  activeJobs,
  idleTimer,  \* the countdown is armed
  install,    \* installPromise: its next command, and whether it is cancelled
  start,      \* startPromise: its next command, whose signal it obeys, its error
  userStart,  \* the user's start() awaits startPromise
  stop,       \* stopPromise: its next command
  refresh,    \* refreshStatus() in flight, and what it saw
  shutdown,   \* what shutdown() awaits
  rounds, faults

vars == <<container, assets, endpoint, status, job, activeJobs, idleTimer, install,
          start, userStart, stop, refresh, shutdown, rounds, faults>>
docker == <<container, assets>>
callers == <<job, activeJobs, userStart>>

Phases == {"unavailable", "not-installed", "installing", "stopped", "starting",
           "ready", "busy", "stopping", "error"}
Passing == {"installing", "starting", "stopping", "busy"}
Codes == {"NOT_INSTALLED", "CANCELLED", "START_FAILED", "CONFLICT", "DOCKER"}
Containers == {"absent", "foreign", "stopped", "running"}

NoInstall == [pc |-> "none", cancelled |-> FALSE]
NoStart == [pc |-> "none", by |-> NoJob, code |-> "DOCKER"]
NoRefresh == [pc |-> "none", saw |-> "absent"]

TypeOK ==
  /\ container \in Containers
  /\ assets \subseteq {"image", "models"}
  /\ {endpoint, idleTimer, userStart} \subseteq BOOLEAN
  /\ status \in [phase : Phases, can : SUBSET {"install", "start", "stop"},
                 stale : BOOLEAN]
  /\ job \in [Jobs -> {"idle", "waiting", "asking"}]
  /\ activeJobs \in 0..Cardinality(Jobs)
  /\ install \in [pc : {"none", "checks", "build", "download", "inspect", "create"},
                  cancelled : BOOLEAN]
  /\ start \in [pc : {"none", "checks", "command", "wait", "failing"},
                by : Jobs \cup {NoJob}, code : Codes]
  /\ stop \in {"none", "checks", "command"}
  /\ refresh \in [pc : {"none", "inspect", "artifacts", "health"}, saw : Containers]
  /\ shutdown \in {"no", "install", "start", "stop", "done"}
  /\ rounds \in 0..MaxRounds
  /\ faults \in 0..MaxFaults

Waiting == {j \in Jobs : job[j] = "waiting"}
Open == shutdown = "no"  \* ~shuttingDown
Idle == install.pc = "none" /\ start.pc = "none" /\ stop = "none"
Complete == assets = {"image", "models"}  \* artifactsPresent()
Begins == rounds < MaxRounds /\ rounds' = rounds + 1

----------------------------------------------------------------------------
(* The status.                                                             *)

\* updateStatus(): listeners hear of it in the same step.
Shown(phase, can) == [phase |-> phase, can |-> can, stale |-> FALSE]
ShownInstalled == Shown("stopped", {"start"})
ShownNotInstalled == Shown("not-installed", {"install"})
ShownReady == Shown(IF activeJobs > 0 THEN "busy" ELSE "ready",
                    IF activeJobs > 0 THEN {} ELSE {"stop"})

\* checkStopPrerequisites(), checkPrerequisites() and dockerResultError() show what is
\* missing if they know it.
ShownByChecks == {Shown("unavailable", {}), status}

\* setFailureStatus(): an error of Docker leaves the phase as it is, unless it is
\* "installing".
ShownFailure(code) ==
  IF code # "DOCKER" \/ status.phase = "installing"
  THEN Shown("error", {})
  ELSE [status EXCEPT !.stale = @ \/ status.phase \in Passing]
ShownDockerFailure == {Shown("unavailable", {}), ShownFailure("DOCKER")}

\* runDocker(): refused, killed by its time-out, or the client is missing.
DockerFails == faults < MaxFaults /\ faults' = faults + 1
DockerAnswers == UNCHANGED faults

\* scheduleIdleStop(): the countdown afterwards.
Armed(jobs, hasEndpoint) == idleTimer \/ (Open /\ jobs = 0 /\ hasEndpoint)

----------------------------------------------------------------------------
(* Jobs.                                                                   *)

\* The status that releaseJob() makes of s.
ShownReleased(s, left) ==
  LET offered == (s.can \ {"stop"}) \cup (IF left = 0 /\ endpoint THEN {"stop"} ELSE {})
  IN IF endpoint THEN Shown(IF left = 0 THEN "ready" ELSE "busy", offered)
                 ELSE [s EXCEPT !.can = offered]

\* A variant with a bug: the count is not kept from falling below zero.
JobsLeftBelowZero(ended) == activeJobs - Cardinality(ended)

JobsLeft(ended) ==
  IF activeJobs > Cardinality(ended) THEN activeJobs - Cardinality(ended) ELSE 0

\* A variant with a bug: the last job to end does not arm the countdown.
ReleaseJobsUnarmed(ended) ==
  /\ job' = [j \in Jobs |-> IF j \in ended THEN "idle" ELSE job[j]]
  /\ activeJobs' = JobsLeft(ended)
  /\ UNCHANGED idleTimer

\* releaseJob() for all jobs that end together.
ReleaseJobs(ended) ==
  /\ job' = [j \in Jobs |-> IF j \in ended THEN "idle" ELSE job[j]]
  /\ activeJobs' = JobsLeft(ended)
  /\ idleTimer' = Armed(JobsLeft(ended), endpoint /\ ended # {})

\* ensureStarted(): a start under way is joined; a set-up, a stop or the end of the
\* application refuses.
MayStart == start.pc # "none" \/ (install.pc = "none" /\ stop = "none" /\ Open)

BeginStart(by) ==
  start' = IF start.pc = "none" THEN [pc |-> "checks", by |-> by, code |-> "DOCKER"]
                                ELSE start

\* diarize() up to its first await.
Diarize(j) ==
  /\ Open /\ job[j] = "idle" /\ MayStart /\ Begins
  /\ job' = [job EXCEPT ![j] = "waiting"]
  /\ activeJobs' = activeJobs + 1
  /\ idleTimer' = FALSE
  /\ BeginStart(j)
  /\ UNCHANGED <<docker, endpoint, status, userStart, install, stop, refresh,
                 shutdown, faults>>

\* BUSY: counted, refused and released in one go; the countdown begins anew.
DiarizeRefused(j) ==
  /\ Open /\ job[j] = "idle" /\ ~MayStart /\ Begins
  /\ idleTimer' = (activeJobs = 0 /\ endpoint)
  /\ status' = ShownReleased(status, activeJobs)
  /\ UNCHANGED <<docker, endpoint, callers, install, start, stop, refresh, shutdown,
                 faults>>

\* requestDiarization() answers, fails, times out or is cancelled.
DiarizeEnds(j) ==
  /\ job[j] = "asking"
  /\ ReleaseJobs({j})
  /\ status' = ShownReleased(status, JobsLeft({j}))
  /\ UNCHANGED <<docker, endpoint, userStart, install, start, stop, refresh, shutdown,
                 rounds, faults>>

----------------------------------------------------------------------------
(* Start.                                                                  *)

\* start(): by the user, without a job.
UserStart ==
  /\ Open /\ ~userStart /\ MayStart /\ Begins
  /\ userStart' = TRUE
  /\ BeginStart(NoJob)
  /\ UNCHANGED <<docker, endpoint, status, job, activeJobs, idleTimer, install, stop,
                 refresh, shutdown, faults>>

\* The catch of ensureStarted() up to the first await of stopAfterFailedStart().
StartFails(code) ==
  /\ start' = [start EXCEPT !.pc = "failing", !.code = code]
  /\ endpoint' = FALSE
  /\ idleTimer' = FALSE
StartGoesOn(pc) ==
  /\ start' = [start EXCEPT !.pc = pc]
  /\ UNCHANGED <<endpoint, idleTimer>>

\* The signal of the job that began the start; those that joined cannot cancel it.
StartCancelled ==
  /\ start.pc \in {"checks", "command", "wait"}
  /\ start.by # NoJob
  /\ StartFails("CANCELLED")
  /\ UNCHANGED <<docker, status, callers, install, stop, refresh, shutdown, rounds, faults>>

\* performStart(): directory, platform, Docker, GPU, container, models, image.
StartChecked ==
  /\ start.pc = "checks"
  /\ \/ /\ DockerFails
        /\ \/ StartFails("DOCKER") /\ status' \in ShownByChecks
           \/ StartFails("NOT_INSTALLED") /\ UNCHANGED status
     \/ /\ DockerAnswers
        /\ container = "absent" \/ ~Complete
        /\ StartFails("NOT_INSTALLED")
        /\ UNCHANGED status
     \/ /\ DockerAnswers
        /\ container = "foreign" /\ Complete
        /\ StartFails("CONFLICT")
        /\ UNCHANGED status
     \/ /\ DockerAnswers
        /\ container \in {"stopped", "running"} /\ Complete
        /\ StartGoesOn(IF container = "running" THEN "wait" ELSE "command")
        /\ status' = Shown("starting", {})
  /\ UNCHANGED <<docker, callers, install, stop, refresh, shutdown, rounds>>

StartCommanded ==
  /\ start.pc = "command"
  /\ \/ /\ DockerFails
        /\ \E code \in {"START_FAILED", "DOCKER"} : StartFails(code)
        /\ container' \in {container, "running"}
     \/ /\ DockerAnswers
        /\ StartGoesOn("wait")
        /\ container' = "running"
  /\ UNCHANGED <<assets, status, callers, install, stop, refresh, shutdown, rounds>>

\* A variant with a bug: a container that died while it loaded is polled for ever.
StartNotReadyDocker ==
  /\ start.pc = "wait"
  /\ DockerFails
  /\ StartFails("START_FAILED")
  /\ UNCHANGED <<docker, status, callers, install, stop, refresh, shutdown, rounds>>

\* waitUntilReady(): the container is gone, dead or too slow, or Docker fails.
StartNotReady ==
  /\ start.pc = "wait"
  /\ \/ /\ DockerAnswers
        /\ container # "running"
        /\ StartFails("START_FAILED")
        /\ UNCHANGED status
     \/ /\ DockerFails
        /\ \/ StartFails("START_FAILED") /\ UNCHANGED status
           \/ StartFails("DOCKER") /\ status' \in ShownByChecks
  /\ UNCHANGED <<docker, callers, install, stop, refresh, shutdown, rounds>>

\* The server is ready: every job that waits sends its request; the user's start()
\* arms the countdown.
Started ==
  /\ start.pc = "wait"
  /\ container = "running"
  /\ start' = NoStart
  /\ endpoint' = TRUE
  /\ job' = [j \in Jobs |-> IF job[j] = "waiting" THEN "asking" ELSE job[j]]
  /\ userStart' = FALSE
  /\ idleTimer' = IF userStart THEN Armed(activeJobs, TRUE) ELSE idleTimer
  /\ status' = IF Waiting # {} THEN Shown("busy", {}) ELSE ShownReady
  /\ UNCHANGED <<docker, activeJobs, install, stop, refresh, shutdown, rounds, faults>>

\* A variant with a bug: a start that was cancelled shows nothing of its own.
ShownStartFailureSilent ==
  CASE start.code = "NOT_INSTALLED" -> ShownNotInstalled
    [] start.code = "START_FAILED" -> Shown("error", {"start"})
    [] start.code = "CANCELLED" -> status
    [] OTHER -> ShownFailure(start.code)

\* What the catch of ensureStarted() shows once the container was stopped.
ShownStartFailure ==
  CASE start.code = "NOT_INSTALLED" -> ShownNotInstalled
    [] start.code = "CANCELLED" -> ShownInstalled
    [] start.code = "START_FAILED" -> Shown("error", {"start"})
    [] OTHER -> ShownFailure(start.code)

\* stopAfterFailedStart() has ended, and every caller that waited is told.
StartUnwound ==
  /\ start.pc = "failing"
  /\ \/ /\ DockerAnswers
        /\ container' = IF container = "running" THEN "stopped" ELSE container
     \/ DockerFails /\ UNCHANGED container
  /\ start' = NoStart
  /\ userStart' = FALSE
  /\ ReleaseJobs(Waiting)
  /\ status' = IF Waiting = {} THEN ShownStartFailure
               ELSE ShownReleased(ShownStartFailure, JobsLeft(Waiting))
  /\ UNCHANGED <<assets, endpoint, install, stop, refresh, shutdown, rounds>>

\* The container ends by itself.
ContainerDies ==
  /\ container = "running"
  /\ DockerFails
  /\ container' = "stopped"
  /\ UNCHANGED <<assets, endpoint, status, callers, idleTimer, install, start, stop,
                 refresh, shutdown, rounds>>

----------------------------------------------------------------------------
(* Stop.                                                                   *)

\* stopManagedContainer() up to the first await of performStop().
BeginStop ==
  /\ stop' = "checks"
  /\ idleTimer' = FALSE

\* stop(): refused during a job or a set-up, joined to another stop.
UserStop ==
  /\ Open /\ activeJobs = 0 /\ install.pc = "none" /\ stop = "none" /\ Begins
  /\ BeginStop
  /\ UNCHANGED <<docker, endpoint, status, callers, install, start, refresh, shutdown,
                 faults>>

\* The countdown ends: stopIfIdle(), during a set-up too.
TimerFires ==
  /\ idleTimer
  /\ IF activeJobs = 0 /\ stop = "none" THEN BeginStop
                                        ELSE idleTimer' = FALSE /\ UNCHANGED stop
  /\ UNCHANGED <<docker, endpoint, status, callers, install, start, refresh, shutdown,
                 rounds, faults>>

StopChecked ==
  /\ stop = "checks"
  /\ \/ /\ DockerFails
        /\ status' \in ShownDockerFailure
        /\ stop' = "none"
        /\ UNCHANGED endpoint
     \/ /\ DockerAnswers
        /\ container \in {"absent", "stopped"}
        /\ status' = IF container = "absent" THEN ShownNotInstalled ELSE ShownInstalled
        /\ endpoint' = FALSE
        /\ stop' = "none"
     \/ /\ DockerAnswers
        /\ container = "foreign"
        /\ status' = ShownFailure("CONFLICT")
        /\ stop' = "none"
        /\ UNCHANGED endpoint
     \/ /\ DockerAnswers
        /\ container = "running"
        /\ status' = Shown("stopping", {})
        /\ stop' = "command"
        /\ UNCHANGED endpoint
  /\ UNCHANGED <<docker, callers, idleTimer, install, start, refresh, shutdown, rounds>>

StopCommanded ==
  /\ stop = "command"
  /\ stop' = "none"
  /\ \/ /\ DockerAnswers
        /\ container' = IF container = "running" THEN "stopped" ELSE container
        /\ endpoint' = FALSE
        /\ status' = ShownInstalled
     \/ /\ DockerFails
        /\ container' \in {container, IF container = "running" THEN "stopped" ELSE container}
        /\ status' \in {Shown("error", IF activeJobs = 0 THEN {"stop"} ELSE {}),
                       ShownFailure("DOCKER")}
        /\ UNCHANGED endpoint
  /\ UNCHANGED <<assets, callers, idleTimer, install, start, refresh, shutdown, rounds>>

----------------------------------------------------------------------------
(* Set-up.                                                                 *)

Install ==
  /\ Open /\ Idle /\ activeJobs = 0 /\ Begins
  /\ install' = [pc |-> "checks", cancelled |-> FALSE]
  /\ status' = Shown("installing", {})
  /\ UNCHANGED <<docker, endpoint, callers, idleTimer, start, stop, refresh, shutdown,
                 faults>>

CancelInstall ==
  /\ install.pc # "none" /\ ~install.cancelled
  /\ install' = [install EXCEPT !.cancelled = TRUE]
  /\ UNCHANGED <<docker, endpoint, status, callers, idleTimer, start, stop, refresh,
                 shutdown, rounds, faults>>

\* performInstall() and createContainer(), one command or download after the other.
\* An old container is inspected and removed; a foreign one is a conflict.
InstallAfter == [checks |-> "build", build |-> "download", download |-> "inspect",
                 inspect |-> "create", create |-> "none"]
InstallStep ==
  /\ install.pc # "none" /\ ~install.cancelled
  /\ ~(install.pc = "inspect" /\ container = "foreign")
  /\ install' = [install EXCEPT !.pc = InstallAfter[@]]
  /\ assets' = assets \cup (CASE install.pc = "build" -> {"image"}
                              [] install.pc = "download" -> {"models"}
                              [] OTHER -> {})
  /\ container' = CASE install.pc = "inspect" -> "absent"
                     [] install.pc = "create" -> "stopped"
                     [] OTHER -> container
  /\ endpoint' = (endpoint /\ install.pc # "create")
  /\ status' = CASE install.pc = "checks" -> Shown("installing", {})
                  [] install.pc = "create" -> ShownInstalled
                  [] OTHER -> status
  /\ UNCHANGED <<callers, idleTimer, start, stop, refresh, shutdown, rounds, faults>>

\* The catch of install(): cancelled, a conflict, or a command or download that
\* failed.  What the last command did may stand.
InstallEnds ==
  /\ install.pc # "none"
  /\ \/ /\ install.cancelled
        /\ status' = ShownNotInstalled
        /\ DockerAnswers
     \/ /\ ~install.cancelled
        /\ install.pc = "inspect" /\ container = "foreign"
        /\ status' = Shown("error", {"install"})
        /\ DockerAnswers
     \/ /\ ~install.cancelled
        /\ status' = Shown("error", {"install"})
        /\ DockerFails
  /\ container' \in {container} \cup
       (CASE install.pc = "inspect" /\ container # "foreign" -> {"absent"}
          [] install.pc = "create" -> {"stopped"}
          [] OTHER -> {})
  /\ install' = NoInstall
  /\ UNCHANGED <<assets, endpoint, callers, idleTimer, start, stop, refresh, shutdown,
                 rounds>>

----------------------------------------------------------------------------
(* Status.  Another operation may begin while a refresh is suspended.       *)

Status ==
  /\ Open /\ Idle /\ refresh.pc = "none" /\ Begins
  /\ refresh' = [pc |-> "inspect", saw |-> "absent"]
  /\ UNCHANGED <<docker, endpoint, status, callers, idleTimer, install, start, stop,
                 shutdown, faults>>

RefreshEnds(s) == refresh' = NoRefresh /\ status' = s
Unloaded == endpoint' = FALSE /\ idleTimer' = FALSE

RefreshInspected ==
  /\ refresh.pc = "inspect"
  /\ \/ /\ DockerFails
        /\ \E s \in ShownDockerFailure : RefreshEnds(s)
        /\ UNCHANGED <<endpoint, idleTimer>>
     \/ /\ DockerAnswers
        /\ container = "absent"
        /\ Unloaded
        /\ RefreshEnds(ShownNotInstalled)
     \/ /\ DockerAnswers
        /\ container # "absent"
        /\ refresh' = [pc |-> "artifacts", saw |-> container]
        /\ UNCHANGED <<endpoint, idleTimer, status>>
  /\ UNCHANGED <<docker, callers, install, start, stop, shutdown, rounds>>

\* The models were verified, which takes seconds: what the refresh saw may be old.
RefreshVerified ==
  /\ refresh.pc = "artifacts"
  /\ \/ /\ DockerFails
        /\ Unloaded
        /\ RefreshEnds(ShownNotInstalled)
     \/ /\ DockerFails
        /\ \E s \in ShownDockerFailure : RefreshEnds(s)
        /\ UNCHANGED <<endpoint, idleTimer>>
     \/ /\ ~Complete /\ DockerAnswers
        /\ Unloaded
        /\ RefreshEnds(ShownNotInstalled)
     \/ /\ Complete /\ DockerAnswers /\ refresh.saw = "foreign"
        /\ RefreshEnds(ShownFailure("CONFLICT"))
        /\ UNCHANGED <<endpoint, idleTimer>>
     \/ /\ Complete /\ DockerAnswers /\ refresh.saw = "stopped"
        /\ Unloaded
        /\ RefreshEnds(ShownInstalled)
     \/ /\ Complete /\ DockerAnswers /\ refresh.saw = "running"
        /\ endpoint' = TRUE
        /\ refresh' = [refresh EXCEPT !.pc = "health"]
        /\ UNCHANGED <<idleTimer, status>>
  /\ UNCHANGED <<docker, callers, install, start, stop, shutdown, rounds>>

RefreshedHealth ==
  /\ refresh.pc = "health"
  /\ \E s \in {Shown("starting", IF activeJobs = 0 THEN {"stop"} ELSE {})} \cup
             (IF container = "running" THEN {ShownReady} ELSE {}) :
       RefreshEnds([s EXCEPT !.stale = ~endpoint])
  /\ idleTimer' = Armed(activeJobs, endpoint)
  /\ UNCHANGED <<docker, endpoint, callers, install, start, stop, shutdown, rounds,
                 faults>>

----------------------------------------------------------------------------
(* The end of the application.                                             *)

\* shutdown(): prepareToQuit() drains the callers first, but the service does not
\* rely on it: it waits for a set-up and a start before it stops the container.
Shutdown ==
  /\ Open
  /\ shutdown' = "install"
  /\ idleTimer' = FALSE
  /\ install' = [install EXCEPT !.cancelled = install.pc # "none"]
  /\ UNCHANGED <<docker, endpoint, status, callers, start, stop, refresh, rounds, faults>>

ShutdownAwaitsStart ==
  /\ shutdown = "install" /\ install.pc = "none"
  /\ shutdown' = "start"
  /\ UNCHANGED <<docker, endpoint, status, callers, idleTimer, install, start, stop,
                 refresh, rounds, faults>>

\* A variant with a bug: the container is stopped before the start has ended.
ShutdownStopsAtOnce ==
  /\ shutdown = "start"
  /\ shutdown' = "stop"
  /\ activeJobs' = 0
  /\ IF stop = "none" THEN BeginStop ELSE UNCHANGED <<stop, idleTimer>>
  /\ UNCHANGED <<docker, endpoint, status, job, userStart, install, start, refresh,
                 rounds, faults>>

\* A stop that is under way is joined.
ShutdownStops ==
  /\ shutdown = "start" /\ start.pc = "none"
  /\ shutdown' = "stop"
  /\ activeJobs' = 0
  /\ IF stop = "none" THEN BeginStop ELSE UNCHANGED <<stop, idleTimer>>
  /\ UNCHANGED <<docker, endpoint, status, job, userStart, install, start, refresh,
                 rounds, faults>>

ShutdownEnds ==
  /\ shutdown = "stop" /\ stop = "none"
  /\ shutdown' = "done"
  /\ UNCHANGED <<docker, endpoint, status, callers, idleTimer, install, start, stop,
                 refresh, rounds, faults>>

----------------------------------------------------------------------------

\* A fresh process: whatever Docker and the disk hold, it has not looked.
Init ==
  /\ container \in Containers
  /\ assets \in {{}, {"image", "models"}}
  /\ container \in {"stopped", "running"} => Complete
  /\ endpoint = FALSE
  /\ status = Shown("unavailable", {})
  /\ job = [j \in Jobs |-> "idle"]
  /\ activeJobs = 0
  /\ idleTimer = FALSE
  /\ install = NoInstall
  /\ start = NoStart
  /\ userStart = FALSE
  /\ stop = "none"
  /\ refresh = NoRefresh
  /\ shutdown = "no"
  /\ rounds = 0
  /\ faults = 0

StartStep == StartChecked \/ StartCommanded \/ StartNotReady \/ Started \/ StartUnwound
StopStep == StopChecked \/ StopCommanded
RefreshStep == RefreshInspected \/ RefreshVerified \/ RefreshedHealth
ShutdownStep == ShutdownAwaitsStart \/ ShutdownStops \/ ShutdownEnds

Next ==
  \/ \E j \in Jobs : Diarize(j) \/ DiarizeRefused(j) \/ DiarizeEnds(j)
  \/ UserStart \/ StartCancelled \/ StartStep
  \/ UserStop \/ TimerFires \/ StopStep
  \/ Install \/ CancelInstall \/ InstallStep \/ InstallEnds
  \/ Status \/ RefreshStep
  \/ Shutdown \/ ShutdownStep
  \/ ContainerDies

\* Commands, downloads and requests end, by their time-outs at the latest, and timers
\* fire.
Fairness ==
  /\ WF_vars(StartStep) /\ WF_vars(StopStep) /\ WF_vars(RefreshStep)
  /\ WF_vars(InstallStep \/ InstallEnds) /\ WF_vars(TimerFires)
  /\ WF_vars(ShutdownStep)

Spec == Init /\ [][Next]_vars /\ Fairness

----------------------------------------------------------------------------
(* Properties.                                                             *)

\* The application ends with the container stopped, if Docker never failed: also when
\* a start, a set-up or a stop was under way when shutdown() was called.
ShutdownReleasesVram == shutdown = "done" /\ faults = 0 => container # "running"

Quiet == Idle /\ refresh.pc = "none" /\ activeJobs = 0

\* When nothing is under way, the renderer is not shown a phase that passes by itself
\* with no operation to leave it, however the operations overlapped.  Two exceptions,
\* which are real and last until the next refresh: an error of Docker that
\* setFailureStatus() drops leaves "starting" or "stopping", and a refresh that waits
\* for the server shows "starting" or "busy" although a failed start or a stop has taken
\* the endpoint away meanwhile.
NotStuck ==
  Quiet /\ status.phase \in Passing => status.can # {} \/ status.stale

\* A job never waits for ever for the container, whatever happens to the start that
\* it joined.
JobsAreAnswered == \A j \in Jobs : (job[j] = "waiting") ~> (job[j] # "waiting")

\* A refresh that saw the container stopped and will say so of a running one.
StaleRefresh == refresh.pc = "artifacts" /\ refresh.saw = "stopped"

Unused == container = "running" /\ endpoint /\ activeJobs = 0
UsedOrStopped == container # "running" \/ activeJobs > 0 \/ faults > 0 \/ StaleRefresh

\* "stops after five minutes of inactivity" (docs/speaker-identification.md): a
\* container that the service knows to be running is used or gets stopped, unless
\* Docker fails or a stale refresh forgets it.
IdleIsStopped == Unused ~> UsedOrStopped
=============================================================================
