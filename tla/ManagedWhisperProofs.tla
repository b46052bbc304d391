----------------------- MODULE ManagedWhisperProofs -----------------------
(***************************************************************************)
(* What ManagedWhisper promises for any set of callers and any number of   *)
(* failures: the count of leases, the countdown, the stops and the end of  *)
(* the application.                                                        *)
(***************************************************************************)
EXTENDS ManagedWhisper, FiniteSetTheorems, TLAPS

\* While a set-up runs nobody waits for a lease or holds one, and no start runs.
InstallIsAlone ==
  install # "none" => active = 0 /\ start.pc = "none" /\ ~preload

\* Somebody who waits waits for a start that is under way.
WaitersHaveAStart ==
  (start.pc = "none" => Waiting = {}) /\ (preload => start.pc # "none")

\* Once the shutdown has begun only its stop is left, and when that has ended
\* without a failure the container is stopped.
ShutdownIsDrained ==
  ~Open => /\ Drained
           /\ stop = "none" /\ faults = 0 => container # "running"
           /\ shutdown = "done" => stop = "none"

Safe ==
  /\ TypeOK
  /\ CountIsOfCallers
  /\ NoCountdownUnderLease
  /\ InstallIsAlone
  /\ WaitersHaveAStart
  /\ ShutdownIsDrained

----------------------------------------------------------------------------
(* The count.                                                              *)

\* Waiting and Held are finite, and have no member in common.
LEMMA CallersAreFinite ==
  /\ IsFiniteSet(Waiting) /\ IsFiniteSet(Held)
  /\ Waiting \cap Held = {}
  /\ Cardinality(Waiting) \in Nat /\ Cardinality(Held) \in Nat
  /\ Cardinality(Waiting \cup Held) = Cardinality(Waiting) + Cardinality(Held)
<1>1. IsFiniteSet(Waiting) /\ IsFiniteSet(Held)
  BY ConstantsAssumption, FS_Subset DEF Waiting, Held
<1>2. Waiting \cap Held = {}
  BY DEF Waiting, Held
<1>3. Cardinality(Waiting) \in Nat /\ Cardinality(Held) \in Nat
  BY <1>1, FS_CardinalityType
<1>4. Cardinality(Waiting \cap Held) = 0
  BY <1>2, FS_EmptySet
<1>5. Cardinality(Waiting \cup Held) =
        Cardinality(Waiting) + Cardinality(Held) - Cardinality(Waiting \cap Held)
  BY <1>1, FS_Union
<1>6. QED
  BY <1>1, <1>2, <1>3, <1>4, <1>5

\* A count of zero means that nobody waits and nobody holds a lease.
LEMMA NobodyCounted ==
  ASSUME CountIsOfCallers
  PROVE  active = 0 <=> Waiting \cup Held = {}
<1>1. IsFiniteSet(Waiting \cup Held)
  BY CallersAreFinite, FS_Union
<1>2. Cardinality(Waiting \cup Held) = 0 <=> Waiting \cup Held = {}
  BY <1>1, FS_EmptySet
<1>3. QED
  BY <1>2 DEF CountIsOfCallers

\* A caller that joins adds one to the count.
LEMMA JoiningCounts ==
  ASSUME TypeOK, CountIsOfCallers, NEW c \in Clients, client[c] = "idle",
         client' = [client EXCEPT ![c] = "waiting"], active' = active + 1
  PROVE  CountIsOfCallers'
<1>1. (Waiting \cup Held)' = (Waiting \cup Held) \cup {c} /\ c \notin Waiting \cup Held
  BY DEF TypeOK, Waiting, Held
<1>2. IsFiniteSet(Waiting \cup Held)
  BY CallersAreFinite, FS_Union
<1>3. Cardinality((Waiting \cup Held) \cup {c}) = Cardinality(Waiting \cup Held) + 1
  BY <1>1, <1>2, FS_AddElement
<1>4. QED
  BY <1>1, <1>3 DEF CountIsOfCallers

\* A caller that leaves takes one off the count.
LEMMA LeavingCounts ==
  ASSUME TypeOK, CountIsOfCallers, NEW c \in Clients, client[c] = "held",
         client' = [client EXCEPT ![c] = "idle"], active' = active - 1
  PROVE  CountIsOfCallers' /\ active' \in Nat
<1>1. (Waiting \cup Held)' = (Waiting \cup Held) \ {c} /\ c \in Waiting \cup Held
  BY DEF TypeOK, Waiting, Held
<1>2. IsFiniteSet(Waiting \cup Held)
  BY CallersAreFinite, FS_Union
<1>3. Cardinality((Waiting \cup Held) \ {c}) = Cardinality(Waiting \cup Held) - 1
  BY <1>1, <1>2, FS_RemoveElement
<1>4. IsFiniteSet((Waiting \cup Held) \ {c}) /\ Cardinality((Waiting \cup Held) \ {c}) \in Nat
  BY <1>2, FS_RemoveElement, FS_CardinalityType, FS_Subset
<1>5. QED
  BY <1>1, <1>3, <1>4 DEF CountIsOfCallers

\* A start that fails takes every waiting caller off the count.
LEMMA UnwindingCounts ==
  ASSUME TypeOK, CountIsOfCallers,
         client' = [c \in Clients |->
                      IF client[c] = "waiting" THEN "idle" ELSE client[c]],
         active' = active - Cardinality(Waiting)
  PROVE  CountIsOfCallers' /\ active' \in Nat /\ active' = Cardinality(Held)
<1>1. (Waiting \cup Held)' = Held
  BY DEF TypeOK, Waiting, Held
<1>2. active = Cardinality(Waiting) + Cardinality(Held)
  BY CallersAreFinite DEF CountIsOfCallers
<1>3. active' = Cardinality(Held)
  BY <1>2, CallersAreFinite
<1>4. QED
  BY <1>1, <1>3, CallersAreFinite DEF CountIsOfCallers

\* A start that succeeds turns waiting callers into holders.
LEMMA GrantingCounts ==
  ASSUME TypeOK, CountIsOfCallers,
         client' = [c \in Clients |->
                      IF client[c] = "waiting" THEN "held" ELSE client[c]],
         active' = active
  PROVE  CountIsOfCallers'
<1>1. (Waiting \cup Held)' = Waiting \cup Held
  BY DEF TypeOK, Waiting, Held
<1>2. QED
  BY <1>1 DEF CountIsOfCallers

\* The count and the callers stay as they are.
LEMMA SameCallersCount ==
  ASSUME CountIsOfCallers, UNCHANGED <<client, active>>
  PROVE  CountIsOfCallers' /\ Waiting' = Waiting /\ Held' = Held
  BY DEF CountIsOfCallers, Waiting, Held

----------------------------------------------------------------------------
(* The inductive invariant.                                                *)

\* The records of a start and of a refresh stay records of their kind.
LEMMA StartUpdates ==
  ASSUME start \in StartRecord,
         NEW p \in {"none", "checks", "command", "wait", "failing"}, NEW k \in Codes
  PROVE  /\ [start EXCEPT !.pc = p] \in StartRecord
         /\ [start EXCEPT !.pc = p, !.code = k] \in StartRecord
  BY DEF StartRecord

LEMMA NewRecords ==
  /\ NoStart \in StartRecord
  /\ NoRefresh \in RefreshRecord
  /\ \A c \in Clients \cup {NoClient} :
       [pc |-> "checks", by |-> c, code |-> "DOCKER"] \in StartRecord
  /\ \A b \in BOOLEAN : [pc |-> "artifacts", running |-> b] \in RefreshRecord
  /\ [pc |-> "inspect", running |-> FALSE] \in RefreshRecord
<1>1. \A b \in BOOLEAN : [pc |-> "artifacts", running |-> b] \in RefreshRecord
  BY DEF RefreshRecord
<1>2. [pc |-> "inspect", running |-> FALSE] \in RefreshRecord
      /\ NoRefresh \in RefreshRecord
  BY DEF RefreshRecord, NoRefresh
<1>3. QED
  BY <1>1, <1>2 DEF StartRecord, NoStart, Codes

LEMMA RefreshUpdates ==
  ASSUME refresh \in RefreshRecord
  PROVE  [refresh EXCEPT !.pc = "health"] \in RefreshRecord
  BY DEF RefreshRecord

LEMMA InitIsSafe == Init => Safe
<1> SUFFICES ASSUME Init PROVE Safe
  OBVIOUS
<1>1. TypeOK
  <2>1. Flags
    BY Zenon DEF Init, Flags
  <2>2. QED
    BY <2>1, ConstantsAssumption, NewRecords DEF Init, TypeOK, Phases
<1>2. Waiting = {} /\ Held = {}
  BY DEF Init, Waiting, Held
<1>3. CountIsOfCallers
  BY <1>2, FS_EmptySet DEF Init, CountIsOfCallers
<1>4. QED
  BY <1>1, <1>2, <1>3 DEF Init, Safe, NoCountdownUnderLease, InstallIsAlone,
                          WaitersHaveAStart, ShutdownIsDrained, Open, NoStart

\* Every step keeps the types of the flags.
LEMMA StepKeepsFlags ==
  ASSUME Safe, Next
  PROVE  Flags'
<1> USE DEF Safe, TypeOK, Flags, docker, callers
<1>1. ASSUME NEW c \in Clients, Acquire(c) PROVE Flags'
  BY <1>1, Zenon DEF Acquire, EnsureStarted
<1>2. ASSUME NEW c \in Clients, AcquireRefused(c) PROVE Flags'
  BY <1>2, Zenon DEF AcquireRefused
<1>3. ASSUME NEW c \in Clients, Release(c) PROVE Flags'
  BY <1>3, Zenon DEF Release, IdleStop, Open
<1>4. CASE Preload
  BY <1>4, Zenon DEF Preload, EnsureStarted
<1>5. CASE StartCancelled
  BY <1>5, Zenon DEF StartCancelled, StartFails
<1>6. CASE StartChecked
  BY <1>6, Zenon DEF StartChecked, StartFails
<1>7. CASE StartCommanded
  BY <1>7, Zenon DEF StartCommanded, StartFails
<1>8. CASE StartNotReady
  BY <1>8, Zenon DEF StartNotReady, StartFails
<1>9. CASE Started
  BY <1>9, Zenon DEF Started, NoStart, IdleStop, Open
<1>10. CASE StartUnwound
  BY <1>10, Zenon DEF StartUnwound, NoStart, IdleStop, Open
<1>11. CASE Stop
  BY <1>11, Zenon DEF Stop, BeginStop
<1>12. CASE TimerFires
  BY <1>12, Zenon DEF TimerFires, BeginStop
<1>13. CASE StopChecked
  BY <1>13, Zenon DEF StopChecked
<1>14. CASE StopCommanded
  BY <1>14, Zenon DEF StopCommanded
<1>15. CASE Install
  BY <1>15, Zenon DEF Install
<1>16. CASE InstallDownloaded
  BY <1>16, Zenon DEF InstallDownloaded
<1>17. CASE InstallRemoved
  BY <1>17, Zenon DEF InstallRemoved
<1>18. CASE InstallCreated
  BY <1>18, Zenon DEF InstallCreated
<1>19. CASE InstallEnds
  BY <1>19, Zenon DEF InstallEnds
<1>20. CASE Status
  BY <1>20, Zenon DEF Status
<1>21. CASE RefreshInspected
  BY <1>21, Zenon DEF RefreshInspected, NoRefresh
<1>22. CASE RefreshVerified
  BY <1>22, Zenon DEF RefreshVerified, NoRefresh
<1>23. CASE RefreshEnds
  BY <1>23, Zenon DEF RefreshEnds, NoRefresh, IdleStop, Open
<1>24. CASE Shutdown
  BY <1>24, Zenon DEF Shutdown
<1>25. CASE ShutdownEnds
  BY <1>25, Zenon DEF ShutdownEnds
<1>26. QED
  BY <1>1, <1>2, <1>3, <1>4, <1>5, <1>6, <1>7, <1>8, <1>9,
     <1>10, <1>11, <1>12, <1>13, <1>14, <1>15, <1>16, <1>17, <1>18,
     <1>19, <1>20, <1>21, <1>22, <1>23, <1>24, <1>25
  DEF Next, StartStep, StopStep, InstallStep, RefreshStep

\* Every step keeps the other types.
LEMMA StepKeepsValues ==
  ASSUME Safe, Next
  PROVE  TypeOK'
<1> USE ConstantsAssumption, StepKeepsFlags, StartUpdates, NewRecords, RefreshUpdates DEF Safe, TypeOK, Phases, FailurePhases, Codes,
        docker, callers, DockerFails, DockerAnswers
<1>1. ASSUME NEW c \in Clients, Acquire(c) PROVE TypeOK'
  BY <1>1 DEF Acquire, EnsureStarted
<1>2. ASSUME NEW c \in Clients, AcquireRefused(c) PROVE TypeOK'
  BY <1>2 DEF AcquireRefused
<1>3. ASSUME NEW c \in Clients, Release(c) PROVE TypeOK'
  BY <1>3, LeavingCounts DEF Release, IdleStop, Open
<1>4. CASE Preload
  BY <1>4 DEF Preload, EnsureStarted
<1>5. CASE StartCancelled
  BY <1>5 DEF StartCancelled, StartFails
<1>6. CASE StartChecked
  BY <1>6 DEF StartChecked, StartFails
<1>7. CASE StartCommanded
  BY <1>7 DEF StartCommanded, StartFails
<1>8. CASE StartNotReady
  <2>1. PICK code \in {"START_FAILED", "DOCKER"} : StartFails(code)
    BY <1>8 DEF StartNotReady
  <2>2. start' \in StartRecord
    BY <2>1 DEF StartFails
  <2>3. faults' \in 0..MaxFaults
    BY <1>8 DEF StartNotReady
  <2>4. QED
    BY <1>8, <2>1, <2>2, <2>3 DEF StartNotReady, StartFails
<1>9. CASE Started
  BY <1>9 DEF Started, NoStart, IdleStop, Open
<1>10. CASE StartUnwound
  <2>1. active' \in Nat
    BY <1>10, UnwindingCounts DEF StartUnwound
  <2>2. phase' \in Phases
    <3>1. start.code \in Codes
      BY DEF StartRecord
    <3>2. FailurePhases \subseteq Phases
      OBVIOUS
    <3>3. QED
      BY <1>10, <3>1, <3>2 DEF StartUnwound
  <2>3. QED
    BY <1>10, <2>1, <2>2 DEF StartUnwound, NoStart, IdleStop, Open
<1>11. CASE Stop
  BY <1>11 DEF Stop, BeginStop
<1>12. CASE TimerFires
  BY <1>12 DEF TimerFires, BeginStop
<1>13. CASE StopChecked
  BY <1>13 DEF StopChecked
<1>14. CASE StopCommanded
  BY <1>14 DEF StopCommanded
<1>15. CASE Install
  BY <1>15 DEF Install
<1>16. CASE InstallDownloaded
  BY <1>16 DEF InstallDownloaded
<1>17. CASE InstallRemoved
  BY <1>17 DEF InstallRemoved
<1>18. CASE InstallCreated
  BY <1>18 DEF InstallCreated
<1>19. CASE InstallEnds
  BY <1>19 DEF InstallEnds
<1>20. CASE Status
  BY <1>20 DEF Status
<1>21. CASE RefreshInspected
  <2>1. refresh' \in RefreshRecord /\ phase' \in Phases
    BY <1>21 DEF RefreshInspected
  <2>2. QED
    BY <1>21, <2>1 DEF RefreshInspected
<1>22. CASE RefreshVerified
  BY <1>22 DEF RefreshVerified, NoRefresh
<1>23. CASE RefreshEnds
  BY <1>23 DEF RefreshEnds, NoRefresh, IdleStop, Open
<1>24. CASE Shutdown
  BY <1>24 DEF Shutdown
<1>25. CASE ShutdownEnds
  BY <1>25 DEF ShutdownEnds
<1>26. QED
  BY <1>1, <1>2, <1>3, <1>4, <1>5, <1>6, <1>7, <1>8, <1>9,
     <1>10, <1>11, <1>12, <1>13, <1>14, <1>15, <1>16, <1>17, <1>18,
     <1>19, <1>20, <1>21, <1>22, <1>23, <1>24, <1>25
  DEF Next, StartStep, StopStep, InstallStep, RefreshStep

\* Every step keeps the count.
LEMMA StepKeepsCount ==
  ASSUME Safe, Next
  PROVE  CountIsOfCallers'
<1> USE DEF Safe
<1>1. ASSUME NEW c \in Clients, Acquire(c) PROVE CountIsOfCallers'
  BY <1>1, JoiningCounts DEF Acquire
<1>2. ASSUME NEW c \in Clients, Release(c) PROVE CountIsOfCallers'
  BY <1>2, LeavingCounts DEF Release
<1>3. CASE Started
  BY <1>3, GrantingCounts DEF Started
<1>4. CASE StartUnwound
  BY <1>4, UnwindingCounts DEF StartUnwound
<1>5. CASE Shutdown
  <2>1. Waiting \cup Held = {}
    BY <1>5 DEF Shutdown, Drained, Waiting, Held
  <2>2. UNCHANGED <<client, active>>
    BY <1>5, <2>1, NobodyCounted DEF Shutdown
  <2>3. QED
    BY <2>2, SameCallersCount
<1>6. ASSUME UNCHANGED <<client, active>> PROVE CountIsOfCallers'
  BY <1>6, SameCallersCount
<1>7. ASSUME NEW c \in Clients, AcquireRefused(c) PROVE UNCHANGED <<client, active>>
  BY <1>7 DEF AcquireRefused, callers
<1>8. ASSUME \/ Preload \/ Stop \/ TimerFires \/ Install \/ Status \/ ShutdownEnds
             \/ StopStep \/ InstallStep \/ RefreshStep
      PROVE  UNCHANGED <<client, active>>
  BY <1>8 DEF Preload, Stop, TimerFires, Install, Status, ShutdownEnds, StopStep,
     StopChecked, StopCommanded, InstallStep, InstallDownloaded, InstallRemoved,
     InstallCreated, InstallEnds, RefreshStep, RefreshInspected, RefreshVerified,
     RefreshEnds, callers
<1>9. ASSUME StartCancelled \/ StartChecked \/ StartCommanded \/ StartNotReady
      PROVE  UNCHANGED <<client, active>>
  BY <1>9 DEF StartCancelled, StartChecked, StartCommanded, StartNotReady, StartFails,
     callers
<1>10. QED
  BY <1>1, <1>2, <1>3, <1>4, <1>5, <1>6, <1>7, <1>8, <1>9 DEF Next, StartStep

\* What the failing and the waiting steps of a start have in common: nobody joins
\* or leaves, and a countdown may only end.
LEMMA StartStepEffect ==
  ASSUME TypeOK, StartCancelled \/ StartChecked \/ StartCommanded \/ StartNotReady
  PROVE  /\ UNCHANGED <<client, active, preload, install, shutdown, stop, refresh>>
         /\ start.pc # "none" /\ start'.pc # "none"
         /\ timer' => timer
<1>1. start'.pc # "none" /\ start.pc # "none"
  BY DEF TypeOK, StartRecord, StartCancelled, StartChecked, StartCommanded,
         StartNotReady, StartFails
<1>2. timer' => timer
  BY Zenon DEF StartCancelled, StartChecked, StartCommanded, StartNotReady, StartFails
<1>3. QED
  BY <1>1, <1>2 DEF StartCancelled, StartChecked, StartCommanded, StartNotReady,
     StartFails, callers

\* A caller with a lease is counted.
LEMMA HolderCounts ==
  ASSUME CountIsOfCallers, NEW c \in Clients, client[c] \in {"held", "waiting"}
  PROVE  active # 0
  BY NobodyCounted DEF Waiting, Held

LEMMA StepKeepsCountdown ==
  ASSUME Safe, Next
  PROVE  NoCountdownUnderLease'
<1> USE DEF Safe, NoCountdownUnderLease
<1>1. ASSUME NEW c \in Clients, Acquire(c) PROVE NoCountdownUnderLease'
  BY <1>1, Zenon DEF Acquire
<1>2. ASSUME NEW c \in Clients, AcquireRefused(c) PROVE NoCountdownUnderLease'
  BY <1>2, Zenon DEF AcquireRefused, callers, Open
<1>3. ASSUME NEW c \in Clients, Release(c) PROVE NoCountdownUnderLease'
  <2>1. ~timer
    BY <1>3, HolderCounts, Zenon DEF Release
  <2>2. QED
    BY <1>3, <2>1, Zenon DEF Release, IdleStop, Open
<1>4. CASE StartCancelled \/ StartChecked \/ StartCommanded \/ StartNotReady
  BY <1>4, StartStepEffect, Zenon DEF Open
<1>5. CASE Started
  BY <1>5, Zenon DEF Started, IdleStop, Open
<1>6. CASE StartUnwound
  <2>1. CASE Waiting = {}
    <3>1. active' = active
      BY <1>6, <2>1, FS_EmptySet DEF StartUnwound, TypeOK
    <3>2. QED
      BY <1>6, <2>1, <3>1, Zenon DEF StartUnwound, Open
  <2>2. CASE Waiting # {}
    <3>1. ~timer
      BY <2>2, NobodyCounted, Zenon
    <3>2. QED
      BY <1>6, <2>2, <3>1, Zenon DEF StartUnwound, IdleStop, Open
  <2>3. QED
    BY <2>1, <2>2
<1>7. ASSUME \/ Preload \/ Stop \/ TimerFires \/ StopStep \/ Install \/ InstallStep
             \/ Status \/ RefreshInspected \/ RefreshVerified
      PROVE  (timer' => timer) /\ UNCHANGED <<active, shutdown>>
  <2>1. UNCHANGED <<active, shutdown>>
    BY <1>7 DEF Preload, Stop, TimerFires, StopStep, StopChecked, StopCommanded,
       Install, InstallStep, InstallDownloaded, InstallRemoved, InstallCreated,
       InstallEnds, Status, RefreshInspected, RefreshVerified, callers
  <2>2. ASSUME Stop \/ TimerFires PROVE timer' => timer
    BY <2>2, Zenon DEF Stop, TimerFires, BeginStop
  <2>3. ASSUME RefreshInspected PROVE timer' => timer
    BY <2>3, Zenon DEF RefreshInspected
  <2>4. ASSUME RefreshVerified PROVE timer' => timer
    BY <2>4, Zenon DEF RefreshVerified
  <2>5. ASSUME Preload \/ StopStep \/ Install \/ InstallStep \/ Status PROVE timer' => timer
    BY <2>5 DEF Preload, StopStep, StopChecked, StopCommanded, Install, InstallStep,
       InstallDownloaded, InstallRemoved, InstallCreated, InstallEnds, Status
  <2>6. QED
    BY <1>7, <2>1, <2>2, <2>3, <2>4, <2>5
<1>8. ASSUME (timer' => timer) /\ UNCHANGED <<active, shutdown>>
      PROVE  NoCountdownUnderLease'
  BY <1>8, Zenon DEF Open
<1>9. CASE RefreshEnds
  BY <1>9, Zenon DEF RefreshEnds, IdleStop, Open, callers
<1>10. CASE Shutdown
  BY <1>10, Zenon DEF Shutdown
<1>11. CASE ShutdownEnds
  <2>1. ~timer
    BY <1>11 DEF ShutdownEnds, Open
  <2>2. QED
    BY <1>11, <2>1, Zenon DEF ShutdownEnds
<1>12. QED
  BY <1>1, <1>2, <1>3, <1>4, <1>5, <1>6, <1>7, <1>8, <1>9, <1>10, <1>11
  DEF Next, StartStep, RefreshStep

\* Every step but an end of a start leaves those alone who wait for one.
LEMMA StepKeepsWaiters ==
  ASSUME Safe, Next
  PROVE  WaitersHaveAStart'
<1> USE DEF Safe, WaitersHaveAStart
<1>1. ASSUME NEW c \in Clients, Acquire(c) PROVE start'.pc # "none"
  BY <1>1 DEF Acquire, EnsureStarted
<1>2. ASSUME Preload PROVE start'.pc # "none"
  BY <1>2 DEF Preload, EnsureStarted
<1>3. CASE StartCancelled \/ StartChecked \/ StartCommanded \/ StartNotReady
  BY <1>3, StartStepEffect
<1>4. CASE Started \/ StartUnwound
  <2>1. Waiting' = {}
    BY <1>4 DEF Started, StartUnwound, Waiting
  <2>2. ~preload'
    BY <1>4, Zenon DEF Started, StartUnwound
  <2>3. QED
    BY <2>1, <2>2
<1>5. ASSUME NEW c \in Clients, Release(c) PROVE WaitersHaveAStart'
  <2>1. Waiting' = Waiting
    BY <1>5 DEF Release, Waiting, TypeOK
  <2>2. QED
    BY <1>5, <2>1 DEF Release
<1>6. ASSUME UNCHANGED <<client, start, preload>> PROVE WaitersHaveAStart'
  BY <1>6 DEF Waiting
<1>7. ASSUME NEW c \in Clients, AcquireRefused(c)
      PROVE  UNCHANGED <<client, start, preload>>
  BY <1>7 DEF AcquireRefused, callers
<1>8. ASSUME \/ Stop \/ TimerFires \/ StopStep \/ Install \/ InstallStep \/ Status
             \/ RefreshStep \/ Shutdown \/ ShutdownEnds
      PROVE  UNCHANGED <<client, start, preload>>
  BY <1>8 DEF Stop, TimerFires, StopStep, StopChecked, StopCommanded, Install,
     InstallStep, InstallDownloaded, InstallRemoved, InstallCreated, InstallEnds,
     Status, RefreshStep, RefreshInspected, RefreshVerified, RefreshEnds, Shutdown,
     ShutdownEnds, callers
<1>9. QED
  BY <1>1, <1>2, <1>3, <1>4, <1>5, <1>6, <1>7, <1>8 DEF Next, StartStep

\* Nobody joins a set-up, and a set-up begins alone.
LEMMA StepKeepsInstallAlone ==
  ASSUME Safe, Next
  PROVE  InstallIsAlone'
<1> USE DEF Safe, InstallIsAlone, WaitersHaveAStart
<1>1. ASSUME NEW c \in Clients, Acquire(c) PROVE install' = "none"
  BY <1>1 DEF Acquire, MayStart
<1>2. ASSUME Preload PROVE install' = "none"
  BY <1>2 DEF Preload, MayStart
<1>3. CASE StartCancelled \/ StartChecked \/ StartCommanded \/ StartNotReady
  BY <1>3, StartStepEffect
<1>4. ASSUME Started \/ StartUnwound PROVE install' = "none"
  BY <1>4 DEF Started, StartUnwound
<1>5. ASSUME NEW c \in Clients, Release(c) PROVE install' = "none"
  BY <1>5, HolderCounts DEF Release
<1>6. CASE Install
  BY <1>6 DEF Install, callers
<1>7. CASE InstallStep
  BY <1>7 DEF InstallStep, InstallDownloaded, InstallRemoved, InstallCreated,
     InstallEnds, callers
<1>8. CASE Shutdown
  BY <1>8 DEF Shutdown, Drained
<1>9. ASSUME NEW c \in Clients, AcquireRefused(c) PROVE InstallIsAlone'
  BY <1>9 DEF AcquireRefused, callers
<1>10. CASE Stop \/ TimerFires \/ StopStep \/ Status \/ RefreshStep \/ ShutdownEnds
  BY <1>10 DEF Stop, TimerFires, StopStep, StopChecked, StopCommanded, Status,
     RefreshStep, RefreshInspected, RefreshVerified, RefreshEnds, ShutdownEnds, callers
<1>11. QED
  BY <1>1, <1>2, <1>3, <1>4, <1>5, <1>6, <1>7, <1>8, <1>9, <1>10 DEF Next, StartStep

\* After the shutdown has begun nothing moves but its stop.
LEMMA StepKeepsDrained ==
  ASSUME Safe, Next
  PROVE  ShutdownIsDrained'
<1> USE DEF Safe, ShutdownIsDrained
<1>1. CASE Shutdown
  BY <1>1 DEF Shutdown, Drained, docker, TypeOK
<1>2. CASE Open /\ ~Shutdown
  <2>1. Open'
    BY <1>2 DEF Open, Next, Acquire, AcquireRefused, Release, Preload, StartCancelled,
       StartStep, StartChecked, StartCommanded, StartNotReady, Started, StartUnwound,
       StartFails, Stop, TimerFires, StopStep, StopChecked, StopCommanded, Install,
       InstallStep, InstallDownloaded, InstallRemoved, InstallCreated, InstallEnds,
       Status, RefreshStep, RefreshInspected, RefreshVerified, RefreshEnds, ShutdownEnds
  <2>2. QED
    BY <2>1
<1>3. CASE ~Open
  <2>1. Drained /\ ~timer
    BY <1>3, Zenon DEF NoCountdownUnderLease
  <2>2. StopChecked \/ StopCommanded \/ ShutdownEnds
    BY <1>3, <2>1 DEF Drained, Next, Acquire, AcquireRefused, Release, Preload,
       StartCancelled, StartStep, StartChecked, StartCommanded, StartNotReady, Started,
       StartUnwound, Stop, TimerFires, StopStep, Install, InstallStep,
       InstallDownloaded, InstallRemoved, InstallCreated, InstallEnds, Status,
       RefreshStep, RefreshInspected, RefreshVerified, RefreshEnds, Shutdown
  <2>3. UNCHANGED <<client, preload, install, start, refresh>>
    BY <2>2 DEF StopChecked, StopCommanded, ShutdownEnds, callers
  <2>4. Drained'
    BY <2>1, <2>3 DEF Drained
  <2>5. stop' = "none" /\ faults' = 0 => container' # "running"
    <3>1. CASE StopChecked
      BY <3>1 DEF StopChecked, DockerFails, DockerAnswers, docker, TypeOK
    <3>2. CASE StopCommanded
      BY <3>2 DEF StopCommanded, DockerFails, DockerAnswers, TypeOK
    <3>3. CASE ShutdownEnds
      BY <1>3, <3>3 DEF ShutdownEnds, docker
    <3>4. QED
      BY <2>2, <3>1, <3>2, <3>3
  <2>6. shutdown' = "done" => stop' = "none"
    BY <1>3, <2>2 DEF StopChecked, StopCommanded, ShutdownEnds
  <2>7. QED
    BY <2>4, <2>5, <2>6
<1>4. QED
  BY <1>1, <1>2, <1>3

LEMMA StutterIsSafe ==
  ASSUME Safe, UNCHANGED vars
  PROVE  Safe'
<1>1. TypeOK'
  BY DEF Safe, TypeOK, Flags, vars
<1>2. QED
  BY <1>1 DEF Safe, vars, CountIsOfCallers, NoCountdownUnderLease, InstallIsAlone,
     WaitersHaveAStart, ShutdownIsDrained, Waiting, Held, Open, Drained

LEMMA AlwaysSafe == Spec => []Safe
<1>1. Init => Safe
  BY InitIsSafe
<1>2. Safe /\ [Next]_vars => Safe'
  <2>1. Safe /\ Next => Safe'
    BY StepKeepsValues, StepKeepsCount, StepKeepsCountdown, StepKeepsInstallAlone,
       StepKeepsWaiters, StepKeepsDrained DEF Safe
  <2>2. QED
    BY <2>1, StutterIsSafe
<1>3. QED
  BY <1>1, <1>2, PTL DEF Spec

----------------------------------------------------------------------------
(* The theorems.                                                           *)

\* Every variable of ManagedWhisperService keeps its type.
THEOREM TypeCorrect == Spec => []TypeOK
<1>1. Safe => TypeOK
  BY DEF Safe
<1>2. QED
  BY <1>1, AlwaysSafe, PTL

\* activeTranscriptions is the number of callers in acquire() or with a lease,
\* through every failed, cancelled, refused and shared start.
THEOREM CountIsExact == Spec => []CountIsOfCallers
<1>1. Safe => CountIsOfCallers
  BY DEF Safe
<1>2. QED
  BY <1>1, AlwaysSafe, PTL

\* scheduleIdleStop() never leaves a countdown armed under a lease or a shutdown.
THEOREM LeasesHaveNoCountdown == Spec => []NoCountdownUnderLease
<1>1. Safe => NoCountdownUnderLease
  BY DEF Safe
<1>2. QED
  BY <1>1, AlwaysSafe, PTL

\* shutdown() ends with the container stopped unless Docker failed.
THEOREM ShutdownStops == Spec => []ShutdownReleasesVram
<1>1. Safe => ShutdownReleasesVram
  <2> SUFFICES ASSUME Safe, shutdown = "done", faults = 0, container = "running"
               PROVE  FALSE
    BY DEF ShutdownReleasesVram
  <2>1. stop = "none"
    BY DEF Safe, ShutdownIsDrained, Open
  <2>2. QED
    BY <2>1 DEF Safe, ShutdownIsDrained, Open
<1>2. QED
  BY <1>1, AlwaysSafe, PTL

\* No stop begins under a lease, and only an older stop or another start's failure
\* takes the container of a lease away.
THEOREM StopsRespectLeases == Spec => StopNeverBeginsUnderALease
<1> DEFINE Respects ==
      /\ stop = "none" /\ stop' # "none" => Waiting \cup Held = {}
      /\ container = "running" /\ container' # "running" /\ Held # {} =>
           stop = "command" \/ start.pc = "failing"
<1>1. Safe /\ [Next]_vars => [Respects]_vars
  <2> SUFFICES ASSUME Safe, Next PROVE Respects
    OBVIOUS
  <2>1. ASSUME stop = "none", stop' # "none" PROVE Waiting \cup Held = {}
    <3>1. Stop \/ TimerFires \/ Shutdown
      BY <2>1 DEF Next, Acquire, AcquireRefused, Release, Preload, StartCancelled,
         StartStep, StartChecked, StartCommanded, StartNotReady, Started, StartUnwound,
         StartFails, StopStep, StopChecked, StopCommanded, Install, InstallStep,
         InstallDownloaded, InstallRemoved, InstallCreated, InstallEnds, Status,
         RefreshStep, RefreshInspected, RefreshVerified, RefreshEnds, ShutdownEnds
    <3>2. CASE Stop \/ TimerFires
      <4>1. active = 0
        BY <2>1, <3>2 DEF Stop, TimerFires
      <4>2. QED
        BY <4>1, NobodyCounted DEF Safe
    <3>3. CASE Shutdown
      BY <3>3 DEF Shutdown, Drained, Waiting, Held
    <3>4. QED
      BY <3>1, <3>2, <3>3
  <2>2. ASSUME container = "running", container' # "running", Held # {}
        PROVE  stop = "command" \/ start.pc = "failing"
    <3>1. install = "none"
      BY <2>2, NobodyCounted DEF Safe, InstallIsAlone
    <3>2. QED
      BY <2>2, <3>1 DEF Next, Acquire, AcquireRefused, Release, Preload, StartCancelled,
         StartStep, StartChecked, StartCommanded, StartNotReady, Started, StartUnwound,
         Stop, TimerFires, StopStep, StopChecked, StopCommanded, Install, InstallStep,
         InstallDownloaded, InstallRemoved, InstallCreated, InstallEnds, Status,
         RefreshStep, RefreshInspected, RefreshVerified, RefreshEnds, Shutdown,
         ShutdownEnds, docker
  <2>3. QED
    BY <2>1, <2>2
<1>2. QED
  BY <1>1, AlwaysSafe, PTL DEF Spec, StopNeverBeginsUnderALease
=============================================================================
