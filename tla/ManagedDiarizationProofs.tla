---------------------- MODULE ManagedDiarizationProofs ----------------------
(***************************************************************************)
(* What ManagedDiarization promises for any set of jobs and any number of  *)
(* failures: the count of jobs, the end of the application, and that a     *)
(* phase that passes is shown only while something will end it.            *)
(***************************************************************************)
EXTENDS ManagedDiarization, FiniteSetTheorems, TLAPS

DiarizationConstants ==
  NoJob \notin Jobs /\ IsFiniteSet(Jobs) /\ MaxRounds \in Nat /\ MaxFaults \in Nat

Statuses == [phase : Phases, can : SUBSET {"install", "start", "stop"}, stale : BOOLEAN]
Installs == [pc : {"none", "checks", "build", "download", "inspect", "create"},
             cancelled : BOOLEAN]
Starts == [pc : {"none", "checks", "command", "wait", "failing"},
           by : Jobs \cup {NoJob}, code : Codes]
Refreshes == [pc : {"none", "inspect", "artifacts", "health"}, saw : Containers]

\* The jobs in diarize().
Busy == {j \in Jobs : job[j] # "idle"}

\* activeJobs counts them, until the shutdown forgets them.
CountIsOfJobs ==
  \/ activeJobs = Cardinality(Busy)
  \/ shutdown \in {"stop", "done"} /\ activeJobs = 0

\* Whoever waits waits for a start that is under way.
WaitersHaveAStart == start.pc = "none" => Waiting = {} /\ ~userStart

\* The shutdown outlasts the set-up and the start, and what is left is its stop.
ShutdownIsDrained ==
  /\ shutdown \in {"start", "stop", "done"} => install.pc = "none"
  /\ shutdown \in {"stop", "done"} =>
       /\ start.pc = "none"
       /\ faults = 0 /\ (stop = "none" \/ shutdown = "done") => container # "running"

\* A status that nothing has to end.
Lasting(s) == s.phase \in Passing => s.stale

\* Otherwise an operation will end it, or the server is known and a job uses it or the
\* user can stop it.
PassingIsDue == Lasting(status) \/ ~Idle \/ (endpoint /\ (activeJobs # 0 \/ status.can # {}))

Safe == TypeOK /\ CountIsOfJobs /\ WaitersHaveAStart /\ ShutdownIsDrained /\ PassingIsDue

----------------------------------------------------------------------------
(* The count.                                                              *)

LEMMA BusyIsFinite ==
  ASSUME DiarizationConstants
  PROVE  IsFiniteSet(Busy) /\ Cardinality(Busy) \in Nat /\ Cardinality(Busy) <= Cardinality(Jobs)
         /\ IsFiniteSet(Waiting) /\ Cardinality(Waiting) \in Nat
         /\ Cardinality(Jobs) \in Nat
<1>1. Busy \in SUBSET Jobs /\ Waiting \in SUBSET Jobs
  BY DEF Busy, Waiting
<1>2. IsFiniteSet(Jobs)
  BY DEF DiarizationConstants
<1>3. QED
  BY <1>1, <1>2, FS_Subset, FS_CardinalityType

LEMMA BusyIsCounted ==
  ASSUME DiarizationConstants, CountIsOfJobs, shutdown \notin {"stop", "done"}
  PROVE  activeJobs = 0 <=> Busy = {}
  BY BusyIsFinite, FS_EmptySet DEF CountIsOfJobs

\* A job that begins adds one to the count.
LEMMA BeginningCounts ==
  ASSUME DiarizationConstants, TypeOK, CountIsOfJobs, Open, NEW j \in Jobs, job[j] = "idle",
         job' = [job EXCEPT ![j] = "waiting"], activeJobs' = activeJobs + 1
  PROVE  activeJobs' = Cardinality(Busy)' /\ activeJobs' \in 0..Cardinality(Jobs)
         /\ activeJobs' # 0
<1>1. Busy' = Busy \cup {j} /\ j \notin Busy
  BY DEF TypeOK, Busy
<1>2. Cardinality(Busy') = Cardinality(Busy) + 1
  BY <1>1, BusyIsFinite, FS_AddElement
<1>3. activeJobs = Cardinality(Busy)
  BY DEF CountIsOfJobs, Open
<1>4. Busy' \in SUBSET Jobs
  BY DEF Busy
<1>5. Cardinality(Busy') <= Cardinality(Jobs)
  BY <1>4, FS_Subset DEF DiarizationConstants
<1>6. QED
  BY <1>2, <1>3, <1>5, BusyIsFinite

\* The jobs that end are taken off it.
LEMMA EndingCounts ==
  ASSUME DiarizationConstants, TypeOK, CountIsOfJobs, NEW ended, ended \subseteq Busy,
         job' = [j \in Jobs |-> IF j \in ended THEN "idle" ELSE job[j]],
         activeJobs' = JobsLeft(ended), shutdown' = shutdown
  PROVE  CountIsOfJobs' /\ activeJobs' \in 0..Cardinality(Jobs)
<1>1. Busy' = Busy \ ended
  BY DEF TypeOK, Busy
<1>2. IsFiniteSet(ended) /\ Cardinality(ended) \in Nat
  BY BusyIsFinite, FS_Subset, FS_CardinalityType
<1>3. Cardinality(Busy \ ended) = Cardinality(Busy) - Cardinality(Busy \cap ended)
  BY BusyIsFinite, FS_Difference
<1>4. Busy \cap ended = ended
  OBVIOUS
<1>5. Cardinality(Busy') = Cardinality(Busy) - Cardinality(ended) /\ Cardinality(Busy') \in Nat
  <2>1. IsFiniteSet(Busy \ ended)
    BY BusyIsFinite, FS_Subset
  <2>2. Cardinality(Busy \ ended) \in Nat
    BY <2>1, FS_CardinalityType
  <2>3. QED
    BY <1>1, <1>3, <1>4, <2>2
<1>6. CASE activeJobs = Cardinality(Busy)
  BY <1>2, <1>5, <1>6, BusyIsFinite DEF JobsLeft, CountIsOfJobs
<1>7. CASE shutdown \in {"stop", "done"} /\ activeJobs = 0
  BY <1>2, <1>7, BusyIsFinite DEF JobsLeft, CountIsOfJobs
<1>8. QED
  BY <1>6, <1>7 DEF CountIsOfJobs

LEMMA SameJobsCount ==
  ASSUME CountIsOfJobs, UNCHANGED <<job, activeJobs, shutdown>>
  PROVE  CountIsOfJobs'
  BY DEF CountIsOfJobs, Busy

----------------------------------------------------------------------------
(* The status.                                                             *)

LEMMA ShownIsStatus ==
  /\ \A p \in Phases, can \in SUBSET {"install", "start", "stop"} : Shown(p, can) \in Statuses
  /\ ShownInstalled \in Statuses /\ ShownNotInstalled \in Statuses /\ ShownReady \in Statuses
  /\ Lasting(ShownInstalled) /\ Lasting(ShownNotInstalled)
  /\ \A can : Lasting(Shown("error", can)) /\ Lasting(Shown("unavailable", can))
  /\ \A can : Lasting(Shown("ready", can))
<1>1. \A p \in Phases, can \in SUBSET {"install", "start", "stop"} : Shown(p, can) \in Statuses
  BY DEF Statuses, Shown
<1>2. ShownInstalled \in Statuses /\ ShownNotInstalled \in Statuses /\ ShownReady \in Statuses
  BY <1>1 DEF ShownInstalled, ShownNotInstalled, ShownReady, Phases
<1>3. QED
  BY <1>1, <1>2 DEF Lasting, Passing, Shown, ShownInstalled, ShownNotInstalled

LEMMA FailureIsLasting ==
  ASSUME status \in Statuses, NEW code
  PROVE  ShownFailure(code) \in Statuses /\ Lasting(ShownFailure(code))
<1>1. Shown("error", {}) \in Statuses /\ Lasting(Shown("error", {}))
  BY ShownIsStatus DEF Phases
<1>2. ASSUME NEW b \in BOOLEAN
      PROVE  /\ [status EXCEPT !.stale = b] \in Statuses
             /\ [status EXCEPT !.stale = b].phase = status.phase
             /\ [status EXCEPT !.stale = b].stale = b
  BY DEF Statuses
<1>3. (status.stale \/ status.phase \in Passing) \in BOOLEAN
  OBVIOUS
<1>4. QED
  BY <1>1, <1>2, <1>3 DEF ShownFailure, Lasting

LEMMA DockerFailureIsLasting ==
  ASSUME status \in Statuses, NEW s \in ShownDockerFailure
  PROVE  s \in Statuses /\ Lasting(s)
  BY FailureIsLasting, ShownIsStatus DEF ShownDockerFailure, Phases

\* What releaseJob() shows: with the server known, "ready" when no job is left; without it,
\* the phase that was shown.
LEMMA ReleasedIsStatus ==
  ASSUME NEW s \in Statuses, NEW left
  PROVE  /\ ShownReleased(s, left) \in Statuses
         /\ endpoint /\ left = 0 => Lasting(ShownReleased(s, left))
         /\ ~endpoint /\ Lasting(s) => Lasting(ShownReleased(s, left))
<1> DEFINE offered == (s.can \ {"stop"}) \cup (IF left = 0 /\ endpoint THEN {"stop"} ELSE {})
<1>1. offered \in SUBSET {"install", "start", "stop"}
  BY DEF Statuses
<1>2. ShownReleased(s, left) = IF endpoint THEN Shown(IF left = 0 THEN "ready" ELSE "busy", offered)
                               ELSE [s EXCEPT !.can = offered]
  BY DEF ShownReleased
<1> HIDE DEF offered
<1>3. /\ [s EXCEPT !.can = offered] \in Statuses
      /\ [s EXCEPT !.can = offered].phase = s.phase
      /\ [s EXCEPT !.can = offered].stale = s.stale
  BY <1>1 DEF Statuses
<1>4. QED
  BY <1>1, <1>2, <1>3, ShownIsStatus DEF Lasting, Phases

----------------------------------------------------------------------------
(* The types.                                                              *)

Flags == {endpoint, idleTimer, userStart} \subseteq BOOLEAN

LEMMA RecordUpdates ==
  /\ NoInstall \in Installs /\ NoStart \in Starts /\ NoRefresh \in Refreshes
  /\ [pc |-> "checks", cancelled |-> FALSE] \in Installs
  /\ \A i \in Installs, b \in BOOLEAN : [i EXCEPT !.cancelled = b] \in Installs
  /\ \A i \in Installs : i.pc # "none" => [i EXCEPT !.pc = InstallAfter[@]] \in Installs
  /\ \A j \in Jobs \cup {NoJob} : [pc |-> "checks", by |-> j, code |-> "DOCKER"] \in Starts
  /\ \A p \in {"command", "wait"}, s \in Starts : [s EXCEPT !.pc = p] \in Starts
  /\ \A c \in Codes, s \in Starts : [s EXCEPT !.pc = "failing", !.code = c] \in Starts
  /\ \A c \in Containers : [pc |-> "artifacts", saw |-> c] \in Refreshes
  /\ [pc |-> "inspect", saw |-> "absent"] \in Refreshes
  /\ \A r \in Refreshes : [r EXCEPT !.pc = "health"] \in Refreshes
<1>1. NoInstall \in Installs /\ [pc |-> "checks", cancelled |-> FALSE] \in Installs
  BY DEF NoInstall, Installs
<1>2. \A i \in Installs, b \in BOOLEAN : [i EXCEPT !.cancelled = b] \in Installs
  BY DEF Installs
<1>3. ASSUME NEW i \in Installs, i.pc # "none"
      PROVE  [i EXCEPT !.pc = InstallAfter[@]] \in Installs
  <2>1. InstallAfter[i.pc] \in {"none", "checks", "build", "download", "inspect", "create"}
    BY <1>3 DEF InstallAfter, Installs
  <2>2. [i EXCEPT !.pc = InstallAfter[@]] = [i EXCEPT !.pc = InstallAfter[i.pc]]
    BY DEF Installs
  <2> HIDE DEF InstallAfter
  <2>3. QED
    BY <2>1, <2>2 DEF Installs
<1>4. NoStart \in Starts /\ \A j \in Jobs \cup {NoJob} :
        [pc |-> "checks", by |-> j, code |-> "DOCKER"] \in Starts
  BY DEF NoStart, Starts, Codes
<1>5. \A p \in {"command", "wait"}, s \in Starts : [s EXCEPT !.pc = p] \in Starts
  BY DEF Starts
<1>6. \A c \in Codes, s \in Starts : [s EXCEPT !.pc = "failing", !.code = c] \in Starts
  BY DEF Starts
<1>7. NoRefresh \in Refreshes /\ [pc |-> "inspect", saw |-> "absent"] \in Refreshes
      /\ \A c \in Containers : [pc |-> "artifacts", saw |-> c] \in Refreshes
  BY DEF NoRefresh, Refreshes, Containers
<1>8. \A r \in Refreshes : [r EXCEPT !.pc = "health"] \in Refreshes
  BY DEF Refreshes
<1>9. QED
  BY <1>1, <1>2, <1>3, <1>4, <1>5, <1>6, <1>7, <1>8

LEMMA InitIsSafe == ASSUME DiarizationConstants, Init PROVE Safe
<1>1. Busy = {} /\ Waiting = {}
  BY DEF Init, Busy, Waiting
<1>2. CountIsOfJobs
  BY <1>1, FS_EmptySet DEF Init, CountIsOfJobs
<1>3. TypeOK
  <2>1. status \in Statuses
    BY ShownIsStatus DEF Init, Phases
  <2>2. Flags
    BY Zenon DEF Init, Flags
  <2>3. install \in Installs /\ start \in Starts /\ refresh \in Refreshes
    BY RecordUpdates DEF Init
  <2>4. assets \subseteq {"image", "models"} /\ container \in Containers
    BY DEF Init
  <2>5. QED
    BY <2>1, <2>2, <2>3, <2>4, BusyIsFinite
    DEF Init, TypeOK, DiarizationConstants, Flags, Statuses, Installs, Starts, Refreshes
<1>4. PassingIsDue
  BY ShownIsStatus DEF Init, PassingIsDue
<1>5. QED
  BY <1>1, <1>2, <1>3, <1>4 DEF Init, Safe, WaitersHaveAStart, ShutdownIsDrained, NoStart

\* The variables by which the steps are told apart, in their types.
LEMMA TypesOfRecords ==
  ASSUME TypeOK
  PROVE  status \in Statuses /\ install \in Installs /\ start \in Starts
         /\ refresh \in Refreshes /\ Flags
  BY Zenon DEF TypeOK, Statuses, Installs, Starts, Refreshes, Flags

\* Every step keeps the types of the flags.
LEMMA StepKeepsFlags == ASSUME Flags, Next PROVE Flags'
<1> USE DEF Flags, docker, callers
<1>1. ASSUME NEW j \in Jobs, Diarize(j) PROVE Flags'
  BY <1>1, Zenon DEF Diarize
<1>2. ASSUME NEW j \in Jobs, DiarizeRefused(j) PROVE Flags'
  BY <1>2, Zenon DEF DiarizeRefused
<1>3. ASSUME NEW j \in Jobs, DiarizeEnds(j) PROVE Flags'
  BY <1>3, Zenon DEF DiarizeEnds, ReleaseJobs, Armed
<1>4. CASE UserStart
  BY <1>4, Zenon DEF UserStart
<1>5. CASE StartCancelled
  BY <1>5, Zenon DEF StartCancelled, StartFails
<1>6. CASE StartChecked
  BY <1>6, Zenon DEF StartChecked, StartFails, StartGoesOn
<1>7. CASE StartCommanded
  BY <1>7, Zenon DEF StartCommanded, StartFails, StartGoesOn
<1>8. CASE StartNotReady
  BY <1>8, Zenon DEF StartNotReady, StartFails
<1>9. CASE Started
  BY <1>9, Zenon DEF Started, Armed
<1>10. CASE StartUnwound
  BY <1>10, Zenon DEF StartUnwound, ReleaseJobs, Armed
<1>11. CASE UserStop \/ TimerFires
  BY <1>11, Zenon DEF UserStop, TimerFires, BeginStop
<1>12. CASE StopStep
  BY <1>12, Zenon DEF StopStep, StopChecked, StopCommanded
<1>13. CASE Install \/ CancelInstall \/ InstallStep \/ InstallEnds
  BY <1>13, Zenon DEF Install, CancelInstall, InstallStep, InstallEnds
<1>14. CASE Status
  BY <1>14, Zenon DEF Status
<1>15. CASE RefreshInspected
  BY <1>15, Zenon DEF RefreshInspected, Unloaded
<1>16. CASE RefreshVerified
  BY <1>16, Zenon DEF RefreshVerified, Unloaded
<1>17. CASE RefreshedHealth
  BY <1>17, Zenon DEF RefreshedHealth, Armed
<1>18. CASE Shutdown
  BY <1>18, Zenon DEF Shutdown
<1>19. CASE ShutdownStep
  BY <1>19, Zenon DEF ShutdownStep, ShutdownAwaitsStart, ShutdownStops, ShutdownEnds, BeginStop
<1>20. CASE ContainerDies
  BY <1>20, Zenon DEF ContainerDies
<1>21. QED
  BY <1>1, <1>2, <1>3, <1>4, <1>5, <1>6, <1>7, <1>8, <1>9, <1>10, <1>11, <1>12, <1>13,
     <1>14, <1>15, <1>16, <1>17, <1>18, <1>19, <1>20 DEF Next, StartStep, RefreshStep

\* Every step shows a status.
LEMMA StepShowsStatus == ASSUME TypeOK, Next PROVE status' \in Statuses
<1> USE ShownIsStatus, TypesOfRecords DEF Phases
<1>0. \A code : ShownFailure(code) \in Statuses
  BY FailureIsLasting
<1>1. ShownByChecks \subseteq Statuses /\ ShownDockerFailure \subseteq Statuses
  BY <1>0 DEF ShownByChecks, ShownDockerFailure
<1>2. \A s \in Statuses : \A left : ShownReleased(s, left) \in Statuses
  BY ReleasedIsStatus
<1>3. ShownStartFailure \in Statuses
  BY <1>0 DEF ShownStartFailure
<1>4. ASSUME NEW j \in Jobs, Diarize(j) \/ DiarizeRefused(j) \/ DiarizeEnds(j)
      PROVE  status' \in Statuses
  BY <1>2, <1>4 DEF Diarize, DiarizeRefused, DiarizeEnds
<1>5. CASE UserStart \/ StartCancelled \/ StartCommanded \/ UserStop \/ TimerFires
           \/ CancelInstall \/ Status \/ Shutdown \/ ShutdownStep \/ ContainerDies
  BY <1>5 DEF UserStart, StartCancelled, StartCommanded, UserStop, TimerFires,
     CancelInstall, Status, Shutdown, ShutdownStep, ShutdownAwaitsStart, ShutdownStops,
     ShutdownEnds, ContainerDies
<1>6. CASE StartChecked \/ StartNotReady
  BY <1>1, <1>6 DEF StartChecked, StartNotReady
<1>7. CASE Started \/ StartUnwound
  BY <1>2, <1>3, <1>7 DEF Started, StartUnwound
<1>8. CASE StopStep
  BY <1>0, <1>1, <1>8 DEF StopStep, StopChecked, StopCommanded
<1>9. CASE Install \/ InstallStep \/ InstallEnds
  BY <1>9 DEF Install, InstallStep, InstallEnds
<1>10. CASE RefreshInspected
  BY <1>1, <1>10 DEF RefreshInspected, RefreshEnds
<1>11. CASE RefreshVerified
  BY <1>0, <1>1, <1>11 DEF RefreshVerified, RefreshEnds
<1>12. CASE RefreshedHealth
  <2>1. PICK s \in Statuses : status' = [s EXCEPT !.stale = ~endpoint]
    BY <1>12 DEF RefreshedHealth, RefreshEnds
  <2>2. (~endpoint) \in BOOLEAN
    OBVIOUS
  <2>3. \A b \in BOOLEAN : [s EXCEPT !.stale = b] \in Statuses
    BY DEF Statuses
  <2>4. QED
    BY <2>1, <2>2, <2>3
<1>13. QED
  BY <1>4, <1>5, <1>6, <1>7, <1>8, <1>9, <1>10, <1>11, <1>12
  DEF Next, StartStep, RefreshStep

\* Every step keeps what Docker and the operations are.
LEMMA StepKeepsRecords ==
  ASSUME TypeOK, Next
  PROVE  install' \in Installs /\ start' \in Starts /\ refresh' \in Refreshes
<1> USE TypesOfRecords, RecordUpdates
<1>1. install' \in Installs
  <2>1. CASE InstallStep
    BY <2>1 DEF InstallStep
  <2>2. CASE Shutdown
    BY <2>2 DEF Shutdown
  <2>3. CASE CancelInstall
    BY <2>3 DEF CancelInstall
  <2>4. CASE ~InstallStep /\ ~Shutdown /\ ~CancelInstall
    <3>1. install' \in {install, NoInstall, [pc |-> "checks", cancelled |-> FALSE]}
      BY <2>4 DEF Next, Diarize, DiarizeRefused, DiarizeEnds, UserStart, StartCancelled,
         StartStep, StartChecked, StartCommanded, StartNotReady, Started, StartUnwound,
         UserStop, TimerFires, StopStep, StopChecked, StopCommanded, Install, InstallEnds,
         Status, RefreshStep, RefreshInspected, RefreshVerified, RefreshedHealth,
         ShutdownStep, ShutdownAwaitsStart, ShutdownStops, ShutdownEnds, ContainerDies
    <3>2. QED
      BY <3>1
  <2>5. QED
    BY <2>1, <2>2, <2>3, <2>4
<1>2. start' \in Starts
  <2>1. CASE \E code \in Codes : StartFails(code)
    BY <2>1 DEF StartFails
  <2>2. CASE \E pc \in {"command", "wait"} : StartGoesOn(pc)
    BY <2>2 DEF StartGoesOn
  <2>3. CASE \E j \in Jobs \cup {NoJob} : BeginStart(j)
    BY <2>3 DEF BeginStart
  <2>4. CASE start' \in {start, NoStart}
    BY <2>4
  <2>5. CASE StartCancelled \/ StartChecked \/ StartCommanded \/ StartNotReady
    <3>1. (\E code \in Codes : StartFails(code)) \/ \E pc \in {"command", "wait"} : StartGoesOn(pc)
      BY <2>5 DEF StartCancelled, StartChecked, StartCommanded, StartNotReady, Codes
    <3>2. QED
      BY <2>1, <2>2, <3>1
  <2>6. ASSUME ~(StartCancelled \/ StartChecked \/ StartCommanded \/ StartNotReady),
               ~\E j \in Jobs \cup {NoJob} : BeginStart(j)
        PROVE  start' \in {start, NoStart}
    BY <2>6 DEF Next, Diarize, DiarizeRefused, DiarizeEnds, UserStart,
         StartStep, Started, StartUnwound,
         UserStop, TimerFires, StopStep, StopChecked, StopCommanded, Install, InstallEnds,
         InstallStep, CancelInstall, Shutdown,
         Status, RefreshStep, RefreshInspected, RefreshVerified, RefreshedHealth,
         ShutdownStep, ShutdownAwaitsStart, ShutdownStops, ShutdownEnds, ContainerDies
  <2>7. QED
    BY <2>3, <2>4, <2>5, <2>6
<1>3. refresh' \in Refreshes
  <2>1. container \in Containers
    BY DEF TypeOK
  <2>2. CASE RefreshInspected
    BY <2>1, <2>2 DEF RefreshInspected, RefreshEnds
  <2>3. CASE RefreshVerified \/ RefreshedHealth \/ Status
    BY <2>3 DEF RefreshVerified, RefreshedHealth, RefreshEnds, Status
  <2>4. CASE ~RefreshInspected /\ ~RefreshVerified /\ ~RefreshedHealth /\ ~Status
    <3>1. refresh' = refresh
      BY <2>4 DEF Next, Diarize, DiarizeRefused, DiarizeEnds, UserStart, StartCancelled,
         StartStep, StartChecked, StartCommanded, StartNotReady, Started, StartUnwound,
         UserStop, TimerFires, StopStep, StopChecked, StopCommanded, Install, InstallEnds,
         InstallStep, CancelInstall, RefreshStep, Shutdown,
         ShutdownStep, ShutdownAwaitsStart, ShutdownStops, ShutdownEnds, ContainerDies
    <3>2. QED
      BY <3>1
  <2>5. QED
    BY <2>2, <2>3, <2>4
<1>4. QED
  BY <1>1, <1>2, <1>3

LEMMA StepKeepsDocker ==
  ASSUME TypeOK, Next
  PROVE  container' \in Containers /\ assets' \subseteq {"image", "models"}
<1> USE DEF docker
<1>0. container \in Containers /\ assets \subseteq {"image", "models"}
  BY DEF TypeOK
<1>1. CASE InstallStep
  BY <1>0, <1>1 DEF InstallStep, Containers
<1>2. CASE InstallEnds
  BY <1>0, <1>2 DEF InstallEnds, Containers
<1>3. CASE ~InstallStep /\ ~InstallEnds
  <2>1. assets' = assets /\ container' \in {container, "stopped", "running"}
    BY <1>3 DEF Next, Diarize, DiarizeRefused, DiarizeEnds, UserStart, StartCancelled,
       StartStep, StartChecked, StartCommanded, StartNotReady, Started, StartUnwound,
       UserStop, TimerFires, StopStep, StopChecked, StopCommanded, Install,
       CancelInstall, Status, RefreshStep, RefreshInspected, RefreshVerified,
       RefreshedHealth, Shutdown, ShutdownStep, ShutdownAwaitsStart, ShutdownStops,
       ShutdownEnds, ContainerDies
  <2>2. QED
    BY <1>0, <2>1 DEF Containers
<1>4. QED
  BY <1>1, <1>2, <1>3

LEMMA StepKeepsBounds ==
  ASSUME DiarizationConstants, TypeOK, Next
  PROVE  /\ rounds' \in 0..MaxRounds /\ faults' \in 0..MaxFaults
         /\ faults' = 0 => faults = 0
         /\ stop' \in {"none", "checks", "command"}
         /\ shutdown' \in {"no", "install", "start", "stop", "done"}
<1>0. /\ rounds \in 0..MaxRounds /\ faults \in 0..MaxFaults
      /\ stop \in {"none", "checks", "command"}
      /\ shutdown \in {"no", "install", "start", "stop", "done"}
      /\ MaxRounds \in Nat /\ MaxFaults \in Nat
  BY DEF TypeOK, DiarizationConstants
<1>1. Begins \/ UNCHANGED rounds
  BY DEF Next, Diarize, DiarizeRefused, DiarizeEnds, UserStart, StartCancelled,
       StartStep, StartChecked, StartCommanded, StartNotReady, Started, StartUnwound,
       UserStop, TimerFires, StopStep, StopChecked, StopCommanded, Install, InstallStep,
       InstallEnds, CancelInstall, Status, RefreshStep, RefreshInspected, RefreshVerified,
       RefreshedHealth, Shutdown, ShutdownStep, ShutdownAwaitsStart, ShutdownStops,
       ShutdownEnds, ContainerDies
<1>2. DockerFails \/ UNCHANGED faults
  BY DEF Next, Diarize, DiarizeRefused, DiarizeEnds, UserStart, StartCancelled,
       StartStep, StartChecked, StartCommanded, StartNotReady, Started, StartUnwound,
       UserStop, TimerFires, StopStep, StopChecked, StopCommanded, Install, InstallStep,
       InstallEnds, CancelInstall, Status, RefreshStep, RefreshInspected, RefreshVerified,
       RefreshedHealth, Shutdown, ShutdownStep, ShutdownAwaitsStart, ShutdownStops,
       ShutdownEnds, ContainerDies, DockerAnswers
<1>3. stop' \in {stop, "none", "checks", "command"}
  BY DEF Next, Diarize, DiarizeRefused, DiarizeEnds, UserStart, StartCancelled,
       StartStep, StartChecked, StartCommanded, StartNotReady, Started, StartUnwound,
       UserStop, TimerFires, StopStep, StopChecked, StopCommanded, Install, InstallStep,
       InstallEnds, CancelInstall, Status, RefreshStep, RefreshInspected, RefreshVerified,
       RefreshedHealth, Shutdown, ShutdownStep, ShutdownAwaitsStart, ShutdownStops,
       ShutdownEnds, ContainerDies, BeginStop
<1>4. shutdown' \in {shutdown, "install", "start", "stop", "done"}
  BY DEF Next, Diarize, DiarizeRefused, DiarizeEnds, UserStart, StartCancelled,
       StartStep, StartChecked, StartCommanded, StartNotReady, Started, StartUnwound,
       UserStop, TimerFires, StopStep, StopChecked, StopCommanded, Install, InstallStep,
       InstallEnds, CancelInstall, Status, RefreshStep, RefreshInspected, RefreshVerified,
       RefreshedHealth, Shutdown, ShutdownStep, ShutdownAwaitsStart, ShutdownStops,
       ShutdownEnds, ContainerDies
<1>5. rounds' \in 0..MaxRounds
  BY <1>0, <1>1 DEF Begins
<1>6. faults' \in 0..MaxFaults /\ (faults' = 0 => faults = 0)
  BY <1>0, <1>2 DEF DockerFails
<1>7. QED
  BY <1>0, <1>3, <1>4, <1>5, <1>6

\* Every step keeps the count, and the jobs what they are.
LEMMA StepKeepsCount ==
  ASSUME DiarizationConstants, TypeOK, CountIsOfJobs, WaitersHaveAStart, ShutdownIsDrained, Next
  PROVE  /\ CountIsOfJobs' /\ activeJobs' \in 0..Cardinality(Jobs)
         /\ job' \in [Jobs -> {"idle", "waiting", "asking"}]
<1>0. job \in [Jobs -> {"idle", "waiting", "asking"}] /\ activeJobs \in 0..Cardinality(Jobs)
  BY DEF TypeOK
<1>1. ASSUME NEW j \in Jobs, Diarize(j)
      PROVE  /\ CountIsOfJobs' /\ activeJobs' \in 0..Cardinality(Jobs)
             /\ job' \in [Jobs -> {"idle", "waiting", "asking"}]
  BY <1>0, <1>1, BeginningCounts DEF Diarize, CountIsOfJobs
<1>2. ASSUME NEW j \in Jobs, DiarizeEnds(j)
      PROVE  /\ CountIsOfJobs' /\ activeJobs' \in 0..Cardinality(Jobs)
             /\ job' \in [Jobs -> {"idle", "waiting", "asking"}]
  <2>1. {j} \subseteq Busy
    BY <1>2 DEF DiarizeEnds, Busy
  <2>2. /\ job' = [k \in Jobs |-> IF k \in {j} THEN "idle" ELSE job[k]]
        /\ activeJobs' = JobsLeft({j}) /\ shutdown' = shutdown
    BY <1>2 DEF DiarizeEnds, ReleaseJobs
  <2>3. QED
    BY <1>0, <2>1, <2>2, EndingCounts
<1>3. CASE StartUnwound
  <2>1. Waiting \subseteq Busy
    BY DEF Waiting, Busy
  <2>2. /\ job' = [k \in Jobs |-> IF k \in Waiting THEN "idle" ELSE job[k]]
        /\ activeJobs' = JobsLeft(Waiting) /\ shutdown' = shutdown
    BY <1>3 DEF StartUnwound, ReleaseJobs
  <2>3. CountIsOfJobs' /\ activeJobs' \in 0..Cardinality(Jobs)
    BY <2>1, <2>2, EndingCounts
  <2>4. QED
    BY <1>0, <2>2, <2>3
<1>4. CASE Started
  <2>1. Busy' = Busy /\ job' \in [Jobs -> {"idle", "waiting", "asking"}]
        /\ UNCHANGED <<activeJobs, shutdown>>
    BY <1>0, <1>4 DEF Started, Busy
  <2>2. QED
    BY <1>0, <2>1 DEF CountIsOfJobs
<1>5. CASE ShutdownStops
  BY <1>0, <1>5, BusyIsFinite DEF ShutdownStops, CountIsOfJobs
<1>6. CASE ShutdownAwaitsStart \/ ShutdownEnds \/ Shutdown
  BY <1>0, <1>6 DEF ShutdownAwaitsStart, ShutdownEnds, Shutdown, callers, CountIsOfJobs, Open, Busy
<1>7. ASSUME UNCHANGED <<job, activeJobs, shutdown>>
      PROVE  /\ CountIsOfJobs' /\ activeJobs' \in 0..Cardinality(Jobs)
             /\ job' \in [Jobs -> {"idle", "waiting", "asking"}]
  BY <1>0, <1>7, SameJobsCount
<1>8. ASSUME \/ \E j \in Jobs : DiarizeRefused(j)
             \/ UserStart \/ StartCancelled \/ StartChecked \/ StartCommanded \/ StartNotReady
             \/ UserStop \/ TimerFires \/ StopStep \/ Install \/ CancelInstall
             \/ InstallStep \/ InstallEnds \/ Status \/ RefreshStep \/ ContainerDies
      PROVE  UNCHANGED <<job, activeJobs, shutdown>>
  BY <1>8 DEF DiarizeRefused, UserStart, StartCancelled, StartChecked, StartCommanded,
     StartNotReady, UserStop, TimerFires, StopStep, StopChecked, StopCommanded, Install,
     CancelInstall, InstallStep, InstallEnds, Status, RefreshStep, RefreshInspected,
     RefreshVerified, RefreshedHealth, ContainerDies, callers
<1>9. QED
  BY <1>1, <1>2, <1>3, <1>4, <1>5, <1>6, <1>7, <1>8 DEF Next, StartStep, ShutdownStep

LEMMA StepKeepsTypes ==
  ASSUME DiarizationConstants, TypeOK, CountIsOfJobs, WaitersHaveAStart, ShutdownIsDrained, Next
  PROVE  TypeOK'
<1>1. Flags'
  BY TypesOfRecords, StepKeepsFlags
<1>2. QED
  BY <1>1, StepShowsStatus, StepKeepsRecords, StepKeepsDocker, StepKeepsBounds, StepKeepsCount, Zenon
  DEF TypeOK, Flags, Statuses, Installs, Starts, Refreshes, Containers, Phases, Codes

\* Every step but the ends of a start leaves those alone who wait for it.
LEMMA StepKeepsWaiters ==
  ASSUME DiarizationConstants, TypeOK, WaitersHaveAStart, Next
  PROVE  WaitersHaveAStart'
<1>0. job \in [Jobs -> {"idle", "waiting", "asking"}] /\ start \in Starts
  BY TypesOfRecords DEF TypeOK
<1>1. ASSUME NEW j \in Jobs \cup {NoJob}, BeginStart(j) PROVE start'.pc # "none"
  BY <1>1 DEF BeginStart
<1>2. CASE \E j \in Jobs : Diarize(j)
  BY <1>1, <1>2 DEF Diarize, WaitersHaveAStart
<1>3. CASE UserStart
  BY <1>1, <1>3 DEF UserStart, WaitersHaveAStart
<1>4. CASE StartCancelled \/ StartChecked \/ StartCommanded \/ StartNotReady
  <2>1. (\E code \in Codes : StartFails(code)) \/ \E pc \in {"command", "wait"} : StartGoesOn(pc)
    BY <1>4 DEF StartCancelled, StartChecked, StartCommanded, StartNotReady, Codes
  <2>2. start'.pc # "none"
    BY <1>0, <2>1 DEF StartFails, StartGoesOn, Starts
  <2>3. QED
    BY <2>2 DEF WaitersHaveAStart
<1>5. CASE Started \/ StartUnwound
  <2>1. Waiting' = {}
    BY <1>5 DEF Started, StartUnwound, ReleaseJobs, Waiting
  <2>2. ~userStart'
    BY <1>5, Zenon DEF Started, StartUnwound
  <2>3. QED
    BY <2>1, <2>2 DEF WaitersHaveAStart
<1>6. ASSUME NEW j \in Jobs, DiarizeEnds(j) PROVE WaitersHaveAStart'
  <2>1. Waiting' = Waiting
    BY <1>6 DEF DiarizeEnds, ReleaseJobs, Waiting
  <2>2. QED
    BY <1>6, <2>1 DEF DiarizeEnds, WaitersHaveAStart
<1>7. ASSUME UNCHANGED <<job, start, userStart>> PROVE WaitersHaveAStart'
  BY <1>7 DEF WaitersHaveAStart, Waiting
<1>8. ASSUME \/ \E j \in Jobs : DiarizeRefused(j)
             \/ UserStop \/ TimerFires \/ StopStep \/ Install \/ CancelInstall
             \/ InstallStep \/ InstallEnds \/ Status \/ RefreshStep \/ Shutdown
             \/ ShutdownStep \/ ContainerDies
      PROVE  UNCHANGED <<job, start, userStart>>
  BY <1>8 DEF DiarizeRefused, UserStop, TimerFires, StopStep, StopChecked, StopCommanded,
     Install, CancelInstall, InstallStep, InstallEnds, Status, RefreshStep,
     RefreshInspected, RefreshVerified, RefreshedHealth, Shutdown, ShutdownStep,
     ShutdownAwaitsStart, ShutdownStops, ShutdownEnds, ContainerDies, callers
<1>9. QED
  BY <1>2, <1>3, <1>4, <1>5, <1>6, <1>7, <1>8 DEF Next, StartStep

\* Whatever the shutdown has waited for does not begin again.
LEMMA StepKeepsDrained ==
  ASSUME DiarizationConstants, TypeOK, ShutdownIsDrained, Next
  PROVE  ShutdownIsDrained'
<1>0. /\ shutdown \in {"no", "install", "start", "stop", "done"} /\ (faults' = 0 => faults = 0)
      /\ install \in Installs /\ start \in Starts /\ faults \in Nat
  BY StepKeepsBounds, TypesOfRecords DEF TypeOK, DiarizationConstants
<1> USE DEF ShutdownIsDrained
<1>1. ASSUME install.pc = "none", ~Open PROVE install'.pc = "none"
  <2>1. install' \in {install, NoInstall}
    BY <1>1 DEF Next, Diarize, DiarizeRefused, DiarizeEnds, UserStart, StartCancelled,
       StartStep, StartChecked, StartCommanded, StartNotReady, Started, StartUnwound,
       UserStop, TimerFires, StopStep, StopChecked, StopCommanded, Install, InstallStep,
       InstallEnds, CancelInstall, Status, RefreshStep, RefreshInspected, RefreshVerified,
       RefreshedHealth, Shutdown, ShutdownStep, ShutdownAwaitsStart, ShutdownStops,
       ShutdownEnds, ContainerDies
  <2>2. QED
    BY <1>1, <2>1 DEF NoInstall
<1>2. ASSUME start.pc = "none", ~Open PROVE start'.pc = "none"
  <2>1. start' \in {start, NoStart}
    BY <1>2 DEF Next, Diarize, DiarizeRefused, DiarizeEnds, UserStart, StartCancelled,
       StartStep, StartChecked, StartCommanded, StartNotReady, Started, StartUnwound,
       UserStop, TimerFires, StopStep, StopChecked, StopCommanded, Install, InstallStep,
       InstallEnds, CancelInstall, Status, RefreshStep, RefreshInspected, RefreshVerified,
       RefreshedHealth, Shutdown, ShutdownStep, ShutdownAwaitsStart, ShutdownStops,
       ShutdownEnds, ContainerDies
  <2>2. QED
    BY <1>2, <2>1 DEF NoStart
<1>3. ASSUME start.pc = "none", container # "running" PROVE container' # "running"
  BY <1>3 DEF Next, Diarize, DiarizeRefused, DiarizeEnds, UserStart, StartCancelled,
       StartStep, StartChecked, StartCommanded, StartNotReady, Started, StartUnwound,
       UserStop, TimerFires, StopStep, StopChecked, StopCommanded, Install, InstallStep,
       InstallEnds, CancelInstall, Status, RefreshStep, RefreshInspected, RefreshVerified,
       RefreshedHealth, Shutdown, ShutdownStep, ShutdownAwaitsStart, ShutdownStops,
       ShutdownEnds, ContainerDies, docker
<1>4. CASE ShutdownAwaitsStart
  BY <1>4 DEF ShutdownAwaitsStart
<1>5. CASE ShutdownStops
  <2>1. stop' # "none"
    BY <1>5 DEF ShutdownStops, BeginStop
  <2>2. QED
    BY <1>5, <2>1 DEF ShutdownStops
<1>6. CASE ShutdownEnds
  BY <1>6 DEF ShutdownEnds, docker
<1>7. CASE Shutdown
  BY <1>7 DEF Shutdown, Open
<1>8. CASE StopStep
  <2>1. UNCHANGED <<install, start, shutdown>>
    BY <1>8 DEF StopStep, StopChecked, StopCommanded
  <2>2. stop' = "none" /\ faults' = 0 => container' # "running"
    BY <1>0, <1>8 DEF StopStep, StopChecked, StopCommanded, DockerFails, DockerAnswers, docker, TypeOK
  <2>3. QED
    BY <1>0, <1>3, <2>1, <2>2
<1>9. ASSUME ~ShutdownAwaitsStart, ~ShutdownStops, ~ShutdownEnds, ~Shutdown, ~StopStep
      PROVE  ShutdownIsDrained'
  <2>1. shutdown' = shutdown /\ (stop' = "none" => stop = "none")
    BY <1>9 DEF Next, Diarize, DiarizeRefused, DiarizeEnds, UserStart, StartCancelled,
       StartStep, StartChecked, StartCommanded, StartNotReady, Started, StartUnwound,
       UserStop, TimerFires, Install, InstallStep,
       InstallEnds, CancelInstall, Status, RefreshStep, RefreshInspected, RefreshVerified,
       RefreshedHealth, ShutdownStep, ContainerDies, BeginStop
  <2>2. QED
    BY <1>0, <1>1, <1>2, <1>3, <2>1 DEF Open
<1>10. QED
  BY <1>4, <1>5, <1>6, <1>7, <1>8, <1>9

\* An operation that begins or goes on may show what it likes; its end shows what lasts, or
\* what a job or the user can end.
LEMMA StepKeepsDue ==
  ASSUME DiarizationConstants, Safe, Next
  PROVE  PassingIsDue'
<1>0. /\ status \in Statuses /\ install \in Installs /\ start \in Starts
      /\ activeJobs \in Nat /\ TypeOK
  BY TypesOfRecords, BusyIsFinite DEF Safe, TypeOK
<1>s. \A code : Lasting(ShownFailure(code))
  BY <1>0, FailureIsLasting
<1>d. /\ \A s \in ShownDockerFailure : Lasting(s)
      /\ Lasting(ShownInstalled) /\ Lasting(ShownNotInstalled)
      /\ \A can : Lasting(Shown("error", can)) /\ Lasting(Shown("unavailable", can))
  BY <1>0, DockerFailureIsLasting, ShownIsStatus
<1>1. ASSUME ~Idle' \/ Lasting(status') PROVE PassingIsDue'
  BY <1>1 DEF PassingIsDue
<1>2. ASSUME UNCHANGED <<status, activeJobs>>, Idle' => Idle, endpoint => endpoint'
      PROVE  PassingIsDue'
  BY <1>2, Zenon DEF PassingIsDue, Lasting, Safe
<1>3. ASSUME NEW left, activeJobs' = left, endpoint' = endpoint, Idle' => Idle,
             status' = ShownReleased(status, left)
      PROVE  PassingIsDue'
  <2>1. CASE endpoint /\ left = 0
    BY <1>0, <1>1, <1>3, <2>1, ReleasedIsStatus
  <2>2. CASE endpoint /\ left # 0
    BY <1>3, <2>2, Zenon DEF PassingIsDue
  <2>3. CASE ~endpoint
    <3>1. Lasting(status) \/ ~Idle
      BY <2>3, Zenon DEF Safe, PassingIsDue
    <3>2. CASE Lasting(status)
      BY <1>0, <1>1, <1>3, <2>3, <3>2, ReleasedIsStatus
    <3>3. CASE ~Idle
      BY <1>1, <1>3, <3>3
    <3>4. QED
      BY <3>1, <3>2, <3>3
  <2>4. QED
    BY <2>1, <2>2, <2>3
<1>4. ASSUME NEW j \in Jobs, Diarize(j) PROVE PassingIsDue'
  <2>1. start'.pc # "none"
    BY <1>4 DEF Diarize, BeginStart
  <2>2. QED
    BY <1>1, <2>1 DEF Idle
<1>5. ASSUME NEW j \in Jobs, DiarizeRefused(j) PROVE PassingIsDue'
  <2>1. /\ status' = ShownReleased(status, activeJobs) /\ UNCHANGED <<activeJobs, endpoint>>
        /\ UNCHANGED <<install, start, stop>>
    BY <1>5 DEF DiarizeRefused, callers
  <2>2. Idle' => Idle
    BY <2>1 DEF Idle
  <2>3. QED
    BY <1>3, <2>1, <2>2
<1>6. ASSUME NEW j \in Jobs, DiarizeEnds(j) PROVE PassingIsDue'
  <2>1. /\ status' = ShownReleased(status, JobsLeft({j})) /\ activeJobs' = JobsLeft({j})
        /\ UNCHANGED <<endpoint, install, start, stop>>
    BY <1>6 DEF DiarizeEnds, ReleaseJobs
  <2>2. Idle' => Idle
    BY <2>1 DEF Idle
  <2>3. QED
    BY <1>3, <2>1, <2>2
<1>7. CASE UserStart \/ UserStop \/ Install \/ ShutdownStops
           \/ StartCancelled \/ StartChecked \/ StartCommanded \/ StartNotReady
  <2>1. CASE UserStart
    BY <2>1, <1>1 DEF UserStart, BeginStart, Idle
  <2>2. CASE UserStop \/ ShutdownStops
    <3>1. stop' # "none"
      BY <2>2 DEF UserStop, ShutdownStops, BeginStop
    <3>2. QED
      BY <1>1, <3>1 DEF Idle
  <2>3. CASE Install
    BY <2>3, <1>1 DEF Install, Idle
  <2>4. CASE StartCancelled \/ StartChecked \/ StartCommanded \/ StartNotReady
    <3>1. (\E code \in Codes : StartFails(code)) \/ \E pc \in {"command", "wait"} : StartGoesOn(pc)
      BY <2>4 DEF StartCancelled, StartChecked, StartCommanded, StartNotReady, Codes
    <3>2. start'.pc # "none"
      BY <1>0, <3>1 DEF StartFails, StartGoesOn, Starts
    <3>3. QED
      BY <1>1, <3>2 DEF Idle
  <2>5. QED
    BY <1>7, <2>1, <2>2, <2>3, <2>4
<1>8. CASE Started
  <2>1. CASE Waiting # {}
    <3>1. Busy # {} /\ start.pc = "wait"
      BY <1>8, <2>1 DEF Started, Waiting, Busy
    <3>2. shutdown \notin {"stop", "done"}
      BY <3>1 DEF Safe, ShutdownIsDrained
    <3>3. activeJobs # 0
      BY <3>1, <3>2, BusyIsCounted DEF Safe
    <3>4. activeJobs' # 0 /\ endpoint'
      BY <1>8, <3>3 DEF Started
    <3>5. QED
      BY <3>4, Zenon DEF PassingIsDue
  <2>2. CASE Waiting = {} /\ activeJobs = 0
    <3>1. ~(activeJobs > 0)
      BY <2>2
    <3>2. status' = Shown("ready", {"stop"})
      BY <1>8, <2>2, <3>1 DEF Started, ShownReady
    <3>3. QED
      BY <1>1, <3>2, ShownIsStatus
  <2>3. CASE activeJobs # 0
    <3>1. activeJobs' # 0 /\ endpoint'
      BY <1>8, <2>3 DEF Started
    <3>2. QED
      BY <3>1, Zenon DEF PassingIsDue
  <2>4. QED
    BY <2>1, <2>2, <2>3
<1>9. CASE StartUnwound
  <2>1. ShownStartFailure \in Statuses /\ Lasting(ShownStartFailure)
    <3>1. Shown("error", {"start"}) \in Statuses
      BY ShownIsStatus DEF Phases
    <3>2. \A code : ShownFailure(code) \in Statuses
      BY <1>0, FailureIsLasting
    <3>3. QED
      BY <1>s, <1>d, <3>1, <3>2, ShownIsStatus DEF ShownStartFailure
  <2>2. CASE Waiting = {}
    BY <1>1, <1>9, <2>1, <2>2 DEF StartUnwound
  <2>3. CASE Waiting # {}
    <3>1. /\ status' = ShownReleased(ShownStartFailure, JobsLeft(Waiting))
          /\ activeJobs' = JobsLeft(Waiting) /\ endpoint' = endpoint
      BY <1>9, <2>3 DEF StartUnwound, ReleaseJobs
    <3>2. CASE ~(endpoint /\ JobsLeft(Waiting) # 0)
      <4>1. Lasting(ShownReleased(ShownStartFailure, JobsLeft(Waiting)))
        BY <2>1, <3>2, ReleasedIsStatus, Zenon
      <4>2. QED
        BY <1>1, <3>1, <4>1
    <3>3. CASE endpoint /\ JobsLeft(Waiting) # 0
      BY <3>1, <3>3, Zenon DEF PassingIsDue
    <3>4. QED
      BY <3>2, <3>3
  <2>4. QED
    BY <2>2, <2>3
<1>10. CASE TimerFires
  <2>1. CASE stop' = "checks"
    BY <1>1, <2>1 DEF Idle
  <2>2. CASE stop' # "checks"
    <3>1. UNCHANGED <<status, activeJobs, endpoint, install, start, stop>>
      BY <1>10, <2>2 DEF TimerFires, BeginStop, callers
    <3>2. QED
      BY <1>2, <3>1 DEF Idle
  <2>3. QED
    BY <2>1, <2>2
<1>11. CASE StopChecked
  <2>1. CASE stop' = "command"
    BY <1>1, <2>1 DEF Idle
  <2>2. CASE stop' # "command"
    <3>1. status' \in ShownDockerFailure \cup {ShownNotInstalled, ShownInstalled,
                                               ShownFailure("CONFLICT")}
      BY <1>11, <2>2 DEF StopChecked
    <3>2. QED
      BY <1>1, <1>s, <1>d, <3>1
  <2>3. QED
    BY <2>1, <2>2
<1>12. CASE StopCommanded
  <2>1. \/ status' = ShownInstalled \/ status' = ShownFailure("DOCKER")
        \/ \E can : status' = Shown("error", can)
    BY <1>12 DEF StopCommanded
  <2>2. QED
    BY <1>1, <1>s, <1>d, <2>1
<1>13. CASE InstallStep
  <2>1. CASE install.pc = "create"
    BY <1>1, <1>13, <1>d, <2>1 DEF InstallStep
  <2>2. CASE install.pc # "create"
    <3>1. InstallAfter[install.pc] # "none"
      BY <1>0, <1>13, <2>2 DEF InstallStep, Installs, InstallAfter
    <3>2. install'.pc = InstallAfter[install.pc]
      BY <1>0, <1>13 DEF InstallStep, Installs
    <3>3. QED
      BY <1>1, <3>1, <3>2 DEF Idle
  <2>3. QED
    BY <2>1, <2>2
<1>14. CASE InstallEnds
  BY <1>1, <1>14, <1>d DEF InstallEnds
<1>15. CASE CancelInstall \/ Shutdown
  <2>1. install'.pc = install.pc
    BY <1>0, <1>15 DEF CancelInstall, Shutdown, Installs
  <2>2. UNCHANGED <<status, activeJobs, endpoint, start, stop>>
    BY <1>15 DEF CancelInstall, Shutdown, callers
  <2>3. QED
    BY <1>2, <2>1, <2>2 DEF Idle
<1>16. CASE Status \/ ShutdownAwaitsStart \/ ShutdownEnds \/ ContainerDies
  <2>1. UNCHANGED <<status, activeJobs, endpoint, install, start, stop>>
    BY <1>16 DEF Status, ShutdownAwaitsStart, ShutdownEnds, ContainerDies, callers
  <2>2. QED
    BY <1>2, <2>1 DEF Idle
<1>17. CASE RefreshInspected
  <2>1. CASE UNCHANGED status
    <3>1. UNCHANGED <<status, activeJobs, install, start, stop>> /\ (endpoint' = endpoint \/ Lasting(status'))
      BY <1>17, <1>d, <2>1 DEF RefreshInspected, RefreshEnds, callers
    <3>2. QED
      BY <1>1, <1>2, <3>1 DEF Idle
  <2>2. CASE ~UNCHANGED status
    BY <1>1, <1>17, <1>d, <2>2 DEF RefreshInspected, RefreshEnds
  <2>3. QED
    BY <2>1, <2>2
<1>18. CASE RefreshVerified
  <2>1. UNCHANGED <<activeJobs, install, start, stop>>
    BY <1>18 DEF RefreshVerified, callers
  <2>2. Lasting(status') \/ (UNCHANGED status /\ endpoint' = TRUE)
    BY <1>18, <1>s, <1>d DEF RefreshVerified, RefreshEnds
  <2>3. QED
    BY <1>1, <1>2, <2>1, <2>2 DEF Idle
<1>19. CASE RefreshedHealth
  <2>1. PICK s \in {Shown("starting", IF activeJobs = 0 THEN {"stop"} ELSE {}), ShownReady} :
          status' = [s EXCEPT !.stale = ~endpoint]
    BY <1>19 DEF RefreshedHealth, RefreshEnds
  <2>2. UNCHANGED <<activeJobs, endpoint>>
    BY <1>19 DEF RefreshedHealth, callers
  <2>3. [s EXCEPT !.stale = ~endpoint].stale = ~endpoint
        /\ [s EXCEPT !.stale = ~endpoint].phase = s.phase
        /\ [s EXCEPT !.stale = ~endpoint].can = s.can
    BY <2>1 DEF Shown, ShownReady
  <2>4. CASE ~endpoint
    <3>1. status'.stale
      BY <2>1, <2>3, <2>4, Zenon
    <3>2. QED
      BY <1>1, <3>1 DEF Lasting
  <2>5. CASE endpoint /\ activeJobs # 0
    BY <2>2, <2>5, Zenon DEF PassingIsDue
  <2>6. CASE endpoint /\ activeJobs = 0
    <3>1. ~(activeJobs > 0)
      BY <2>6
    <3>2. s.can = {"stop"}
      BY <2>1, <2>6, <3>1 DEF Shown, ShownReady
    <3>3. status'.can # {}
      BY <2>1, <2>3, <3>2
    <3>4. QED
      BY <2>2, <2>6, <3>3, Zenon DEF PassingIsDue
  <2>7. QED
    BY <2>4, <2>5, <2>6
<1>20. QED
  BY <1>4, <1>5, <1>6, <1>7, <1>8, <1>9, <1>10, <1>11, <1>12, <1>13, <1>14, <1>15, <1>16,
     <1>17, <1>18, <1>19 DEF Next, StartStep, StopStep, RefreshStep, ShutdownStep

LEMMA StutterIsSafe == ASSUME Safe, UNCHANGED vars PROVE Safe'
<1>1. TypeOK'
  BY DEF Safe, TypeOK, vars
<1>2. PassingIsDue'
  BY Zenon DEF Safe, PassingIsDue, Lasting, Idle, vars, docker, callers
<1>3. QED
  BY <1>1, <1>2 DEF Safe, vars, CountIsOfJobs, WaitersHaveAStart, ShutdownIsDrained, Waiting,
     Busy, Open

LEMMA NextIsSafe == ASSUME DiarizationConstants, Safe, [Next]_vars PROVE Safe'
<1>1. CASE Next
  BY <1>1, StepKeepsTypes, StepKeepsCount, StepKeepsWaiters, StepKeepsDrained, StepKeepsDue
  DEF Safe
<1>2. QED
  BY <1>1, StutterIsSafe

\* The invariant of the component, whatever the scheduling: the count of jobs, the drained
\* shutdown and the account of every passing phase.
THEOREM AlwaysSafe == ASSUME DiarizationConstants PROVE Init /\ [][Next]_vars => []Safe
<1>1. Init => Safe
  BY InitIsSafe
<1>2. Safe /\ [Next]_vars => Safe'
  BY NextIsSafe
<1>3. QED
  BY <1>1, <1>2, PTL

----------------------------------------------------------------------------
(* What the invariant says.                                                *)

LEMMA SafeStops == ASSUME Safe PROVE ShutdownReleasesVram
BY DEF Safe, ShutdownIsDrained, ShutdownReleasesVram

LEMMA SafeIsNotStuck == ASSUME Safe PROVE NotStuck
<1>1. ASSUME Quiet, status.phase \in Passing PROVE status.can # {} \/ status.stale
  <2>1. Idle /\ ~(activeJobs # 0)
    BY <1>1 DEF Quiet
  <2>2. QED
    BY <1>1, <2>1, Zenon DEF Safe, PassingIsDue, Lasting
<1>2. QED
  BY <1>1 DEF NotStuck

=============================================================================
