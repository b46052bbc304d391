--------------------------- MODULE ServicesProofs ---------------------------
(***************************************************************************)
(* What the components promise, each for a behaviour of the whole: in one  *)
(* that is about another component it rests in one of its initial states.  *)
(***************************************************************************)
EXTENDS Services, FiniteSetTheorems, TLAPS

----------------------------------------------------------------------------
(* Each component's specification, without its fairness, is implied.       *)

LEMMA ObsRuns == Spec => Obs!Spec
<1>1. Init => Obs!Init
  BY DEF Init, ObsRests
<1>2. [Next]_vars => [Obs!Next]_(Obs!vars)
  <2>1. CASE UNCHANGED vars
    BY <2>1 DEF vars, obsVars, Obs!vars
  <2>2. CASE Next /\ Is("obs")
    BY <2>2 DEF Next, Is
  <2>3. CASE Next /\ ~Is("obs")
    BY <2>3 DEF Next, Others, obsVars, Obs!vars
  <2>4. QED
    BY <2>1, <2>2, <2>3
<1>3. QED
  BY <1>1, <1>2, PTL DEF Spec, Obs!Spec

LEMMA DiarizationRuns == Spec => Diarization!Init /\ [][Diarization!Next]_(Diarization!vars)
<1>1. Init => Diarization!Init
  BY DEF Init, DiarizationRests
<1>2. [Next]_vars => [Diarization!Next]_(Diarization!vars)
  <2>1. CASE UNCHANGED vars
    BY <2>1 DEF vars, diarizationVars, Diarization!vars
  <2>2. CASE Next /\ Is("diarization")
    BY <2>2 DEF Next, Is
  <2>3. CASE Next /\ ~Is("diarization")
    BY <2>3 DEF Next, Others, diarizationVars, Diarization!vars
  <2>4. QED
    BY <2>1, <2>2, <2>3
<1>3. QED
  BY <1>1, <1>2, PTL DEF Spec

LEMMA DiarizationIsSafe == Spec => []Diarization!Safe
<1>1. Diarization!DiarizationConstants
  BY ConstantsAssumption
<1>2. QED
  BY <1>1, DiarizationRuns, Diarization!AlwaysSafe, PTL

\* shutdown() of the diarization ends with its container stopped unless Docker failed, whatever
\* set-up, start, stop or refresh was under way when it was called.
THEOREM ShutdownStops == Spec => []ShutdownReleasesVram
<1>1. Diarization!Safe => ShutdownReleasesVram
  BY Diarization!SafeStops DEF ShutdownReleasesVram
<1>2. QED
  BY <1>1, DiarizationIsSafe, PTL

\* No overlap of jobs, starts, stops, set-ups and refreshes leaves the renderer with a phase that
\* should pass, that nothing ends and that offers nothing, unless it is one of the stale ones.
THEOREM PhasesPass == Spec => []NotStuck
<1>1. Diarization!Safe => NotStuck
  BY Diarization!SafeIsNotStuck DEF NotStuck
<1>2. QED
  BY <1>1, DiarizationIsSafe, PTL

LEMMA ObsAssumed == Obs!ObsConstants
  BY ConstantsAssumption

\* While OBS shows a profile or scene collection of the application, the lease on disk names
\* what the user had chosen, however the user and the operations interleave, but for what was
\* chosen between a look at OBS and the switch that follows it.
THEOREM LeaseNamesTheUsers == Spec => []LeaseKnowsTheWay
<1>1. Obs!Spec => []Obs!LeaseKnowsTheWay
  BY ObsAssumed, Obs!LeaseNamesTheUsers
<1>2. QED
  BY <1>1, ObsRuns, PTL DEF LeaseKnowsTheWay

\* No request that configures OBS reaches the user's own profile or scene collection, with the
\* same exception.
THEOREM OwnStaysAsItWas == Spec => []OwnIsNotReconfigured
<1>1. Obs!Spec => []Obs!OwnIsNotReconfigured
  BY ObsAssumed, Obs!OwnStaysAsItWas
<1>2. QED
  BY <1>1, ObsRuns, PTL DEF OwnIsNotReconfigured

\* When the lease is removed, OBS shows what the user chose last, with the same exception.
THEOREM LeaseEndsRestored == Spec => RestoredBeforeForgotten
<1>1. Obs!Spec => Obs!RestoredBeforeForgotten
  BY ObsAssumed, Obs!LeaseEndsRestored
<1>2. QED
  BY <1>1, ObsRuns, PTL DEF RestoredBeforeForgotten

----------------------------------------------------------------------------
(* The download of an asset.                                               *)

DownloadParts == [len : 0..(AssetSize + 1), good : BOOLEAN]
DownloadPlaces == {"none", "final", "part", "request", "stream", "check"}
DownloadAttempts == [pc : DownloadPlaces, honest : BOOLEAN]

\* What TypeOK says, but for the waste, which attempts bound.
DownloadTyped ==
  /\ final \in {"none", "good", "bad"}
  /\ partial \in DownloadParts
  /\ attempt \in DownloadAttempts
  /\ attempts \in 0..MaxDownloads

\* A partial file that was wasted is whole until it is removed, and what follows is a
\* prefix of the asset as long as the server is honest.
DownloadWaste ==
  \/ wasted = 0
  \/ /\ wasted = 1 /\ attempts > 0
     /\ partial.good \/ (partial.len >= AssetSize /\ attempt.pc \in {"none", "final", "part"})

\* What an honest server sent is the rest of the asset, and an attempt was begun.
DownloadAsked ==
  /\ attempt.pc = "check" /\ attempt.honest => partial.len = AssetSize
  /\ attempt.pc # "none" => attempts > 0

DownloadSafe == DownloadTyped /\ DownloadWaste /\ DownloadAsked

LEMMA DownloadBounds == AssetSize \in Nat /\ AssetSize > 0 /\ MaxDownloads \in Nat
BY ConstantsAssumption

LEMMA DownloadIsTyped == ASSUME DownloadSafe PROVE Download!TypeOK
BY DownloadBounds DEF DownloadSafe, DownloadTyped, DownloadWaste, DownloadParts,
  DownloadAttempts, DownloadPlaces, Download!TypeOK

LEMMA DownloadInit == ASSUME Download!Init PROVE DownloadSafe
BY DownloadBounds DEF Download!Init, DownloadSafe, DownloadTyped, DownloadWaste,
  DownloadAsked, DownloadParts, DownloadAttempts, DownloadPlaces, Download!NoAttempt

\* The two kinds of values that the steps write.
LEMMA DownloadValues ==
  /\ Download!NoAttempt \in DownloadAttempts /\ Download!NoPart \in DownloadParts
  /\ \A pc \in DownloadPlaces, h \in BOOLEAN : [pc |-> pc, honest |-> h] \in DownloadAttempts
  /\ \A pc \in DownloadPlaces, a \in DownloadAttempts :
       [a EXCEPT !.pc = pc] \in DownloadAttempts
  /\ \A n \in 0..(AssetSize + 1), g \in BOOLEAN : [len |-> n, good |-> g] \in DownloadParts
BY DownloadBounds DEF DownloadParts, DownloadAttempts, DownloadPlaces, Download!NoAttempt,
  Download!NoPart

LEMMA DownloadTypes == ASSUME DownloadTyped, Download!Next PROVE DownloadTyped'
<1> USE DownloadBounds DEF DownloadTyped
<1>1. attempt' \in DownloadAttempts
  BY DownloadValues DEF Download!Next, Download!Begin, Download!FinalChecked,
     Download!PartChecked, Download!Responded, Download!Streamed, Download!StreamEnds,
     Download!DownloadChecked, Download!Fails, Download!Crash, Download!Go, Download!Ends,
     DownloadPlaces
<1>2. partial' \in DownloadParts
  <2>1. CASE Download!Streamed
    <3>1. CASE partial.len < AssetSize
      <4>1. partial.len + 1 \in 0..(AssetSize + 1) /\ (partial.good /\ attempt.honest) \in BOOLEAN
        BY <3>1 DEF DownloadParts
      <4>2. QED
        BY <2>1, <3>1, <4>1, DownloadValues DEF Download!Streamed
    <3>2. QED
      BY <2>1, <3>1 DEF Download!Streamed
  <2>2. CASE Download!Crash
    <3>1. PICK kept \in 0..partial.len, good \in BOOLEAN :
            partial' = [len |-> kept, good |-> partial.good /\ good]
      BY <2>2 DEF Download!Crash
    <3>2. kept \in 0..(AssetSize + 1) /\ (partial.good /\ good) \in BOOLEAN
      BY DEF DownloadParts
    <3>3. QED
      BY <3>1, <3>2, DownloadValues
  <2>3. CASE ~Download!Streamed /\ ~Download!Crash
    <3>1. partial' \in {partial, Download!NoPart}
      BY <2>3 DEF Download!Next, Download!Begin, Download!FinalChecked, Download!PartChecked,
         Download!Responded, Download!StreamEnds, Download!DownloadChecked, Download!Fails
    <3>2. QED
      BY <3>1, DownloadValues
  <2>4. QED
    BY <2>1, <2>2, <2>3
<1>3. final' \in {final, "none", "good"} /\ attempts' \in {attempts, attempts + 1}
      /\ (attempts' # attempts => attempts < MaxDownloads)
  BY DEF Download!Next, Download!Begin, Download!FinalChecked, Download!PartChecked,
     Download!Responded, Download!Streamed, Download!StreamEnds, Download!DownloadChecked,
     Download!Fails, Download!Crash
<1>4. QED
  BY <1>1, <1>2, <1>3

\* Every step keeps what is said of the waste.
LEMMA DownloadStep == ASSUME DownloadSafe, Download!Next PROVE DownloadSafe'
<1> USE DownloadBounds DEF DownloadSafe, DownloadWaste, DownloadAsked, Download!NoAttempt,
        Download!NoPart, Download!At, Download!Go, Download!Ends, Download!Whole,
        Download!Verified
<1>0. DownloadTyped'
  BY DownloadTypes
<1>t. /\ attempts \in Nat /\ partial.len \in Nat /\ partial.good \in BOOLEAN
      /\ attempt.honest \in BOOLEAN
      /\ \A pc : [attempt EXCEPT !.pc = pc].pc = pc
      /\ \A pc : [attempt EXCEPT !.pc = pc].honest = attempt.honest
  BY DEF DownloadTyped, DownloadParts, DownloadAttempts
<1>1. CASE Download!Begin
  BY <1>0, <1>t, <1>1 DEF Download!Begin
<1>2. CASE Download!FinalChecked
  <2>1. CASE wasted' = 0 /\ attempt' = Download!NoAttempt
    BY <1>0, <1>2, <2>1 DEF Download!FinalChecked
  <2>2. CASE attempt' = [attempt EXCEPT !.pc = "part"] /\ UNCHANGED wasted
    <3>1. attempt.pc = "final" /\ attempt'.pc = "part" /\ UNCHANGED <<partial, attempts, wasted>>
      BY <1>2, <1>t, <2>2 DEF Download!FinalChecked
    <3>2. QED
      BY <1>0, <3>1
  <2>3. QED
    BY <1>2, <2>1, <2>2 DEF Download!FinalChecked
<1>3. CASE Download!PartChecked
  <2>1. CASE wasted' = 0 /\ attempt' = Download!NoAttempt
    BY <1>0, <1>3, <2>1 DEF Download!PartChecked
  <2>2. CASE /\ partial' = IF partial.len >= AssetSize THEN Download!NoPart ELSE partial
             /\ attempt' = [attempt EXCEPT !.pc = "request"]
             /\ UNCHANGED wasted
    <3>1. attempt.pc = "part" /\ attempt'.pc = "request" /\ UNCHANGED <<attempts, wasted>>
      BY <1>3, <1>t, <2>2 DEF Download!PartChecked
    <3>2. partial'.good \/ (partial' = partial /\ ~(partial.len >= AssetSize))
      BY <2>2
    <3>3. QED
      BY <1>0, <3>1, <3>2
  <2>3. QED
    BY <1>3, <2>1, <2>2 DEF Download!PartChecked
<1>4. CASE Download!Responded
  BY <1>0, <1>t, <1>4 DEF Download!Responded
<1>5. CASE Download!Streamed
  BY <1>0, <1>t, <1>5 DEF Download!Streamed
<1>6. CASE Download!StreamEnds
  BY <1>0, <1>t, <1>6 DEF Download!StreamEnds
<1>7. CASE Download!DownloadChecked
  BY <1>0, <1>t, <1>7 DEF Download!DownloadChecked
<1>8. CASE Download!Fails
  BY <1>0, <1>t, <1>8 DEF Download!Fails
<1>9. CASE Download!Crash
  BY <1>0, <1>t, <1>9 DEF Download!Crash
<1>10. QED
  BY <1>1, <1>2, <1>3, <1>4, <1>5, <1>6, <1>7, <1>8, <1>9 DEF Download!Next

\* And only the asset is given its final name.
LEMMA DownloadPromotes == ASSUME Download!Next PROVE final' # final => final' # "bad"
<1>1. final' \in {final, "none", "good"}
  BY DEF Download!Next, Download!Begin, Download!FinalChecked, Download!PartChecked,
     Download!Responded, Download!Streamed, Download!StreamEnds, Download!DownloadChecked,
     Download!Fails, Download!Crash
<1>2. QED
  BY <1>1

LEMMA DownloadRuns == Spec => Download!Init /\ [][Download!Next]_(Download!vars)
<1>1. Init => Download!Init
  BY DEF Init, DownloadRests
<1>2. [Next]_vars => [Download!Next]_(Download!vars)
  <2>1. CASE UNCHANGED vars
    BY <2>1 DEF vars, downloadVars, Download!vars
  <2>2. CASE Next /\ Is("download")
    BY <2>2 DEF Next, Is
  <2>3. CASE Next /\ ~Is("download")
    BY <2>3 DEF Next, Others, downloadVars, Download!vars
  <2>4. QED
    BY <2>1, <2>2, <2>3
<1>3. QED
  BY <1>1, <1>2, PTL DEF Spec

LEMMA DownloadNext ==
  ASSUME DownloadSafe, [Download!Next]_(Download!vars) PROVE DownloadSafe'
<1>1. CASE UNCHANGED Download!vars
  BY <1>1 DEF Download!vars, DownloadSafe, DownloadTyped, DownloadWaste, DownloadAsked
<1>2. QED
  BY <1>1, DownloadStep

\* The invariant of the download.
LEMMA DownloadIsSafe == Spec => []DownloadSafe
  BY DownloadRuns, DownloadInit, DownloadNext, PTL

\* A damaged partial file costs one attempt at most when the server answers what it is asked,
\* however often attempts fail and the application crashes.
THEOREM DamageEndsAnAttempt == Spec => []DamageIsNotResumedTwice
<1>1. DownloadSafe => DamageIsNotResumedTwice
  BY DEF DownloadSafe, DownloadWaste, DamageIsNotResumedTwice, Download!DamageIsNotResumedTwice
<1>2. QED
  BY <1>1, DownloadIsSafe, PTL

\* Nothing but the asset itself ever gets the final name.
THEOREM OnlyTheAssetIsPromoted == Spec => PromotedIsTheAsset
<1>1. [Download!Next]_(Download!vars) => [final' # final => final' # "bad"]_(Download!vars)
  BY DownloadPromotes
<1>2. QED
  BY <1>1, DownloadRuns, PTL DEF PromotedIsTheAsset, Download!PromotedIsTheAsset

----------------------------------------------------------------------------
(* The connection to OBS.                                                  *)

ConnectionPlaces == Connection!Running \cup Connection!Ended \cup {"none"}
ConnectionAttempts ==
  [pc : ConnectionPlaces, generation : 0..(2 * MaxConnects),
   aborted : BOOLEAN, launched : BOOLEAN, late : BOOLEAN]
ConnectionDialogs ==
  [busy : BOOLEAN, attempt : 0..MaxConnects, cancelling : BOOLEAN, disconnecting : BOOLEAN]

\* The dialog offers one cancel for every connect or disconnect, so that the generation
\* moves on twice for each at most.
GenerationsAreFew ==
  /\ dialogCalls \in 0..MaxConnects
  /\ generation \in 0..(2 * dialogCalls)
  /\ dialog.busy /\ ~dialog.cancelling => generation < 2 * dialogCalls

\* An attempt that has OBS connected was not aborted, and is past connecting.
LinkedIsPast ==
  link # 0 =>
    /\ ~connects[link].aborted
    /\ connects[link].pc \in {"provisioning", "saving", "undoing", "connected", "superseded",
                             "failed"}

ConnectionTyped ==
  /\ connects \in [1..MaxConnects -> ConnectionAttempts]
  /\ active \in 0..MaxConnects /\ link \in 0..MaxConnects
  /\ dialog \in ConnectionDialogs

ConnectionSafe == ConnectionTyped /\ GenerationsAreFew /\ LinkedIsPast

LEMMA ConnectionBounds == MaxConnects \in Nat
BY ConstantsAssumption

LEMMA ConnectionIsEnough ==
  ASSUME ConnectionSafe PROVE Connection!TypeOK /\ Connection!CancelledIsNotConnected
<1>1. Connection!TypeOK
  BY ConnectionBounds DEF ConnectionSafe, ConnectionTyped, GenerationsAreFew,
     ConnectionAttempts, ConnectionPlaces, ConnectionDialogs, Connection!TypeOK,
     Connection!Attempts
<1>2. Connection!CancelledIsNotConnected
  BY DEF ConnectionSafe, LinkedIsPast, Connection!CancelledIsNotConnected, Connection!At
<1>3. QED
  BY <1>1, <1>2

\* The values that the steps write.
LEMMA ConnectionValues ==
  /\ Connection!NoAttempt \in ConnectionAttempts /\ ~Connection!NoAttempt.aborted
  /\ \A a \in ConnectionAttempts, pc \in ConnectionPlaces :
       /\ [a EXCEPT !.pc = pc] \in ConnectionAttempts
       /\ [a EXCEPT !.pc = pc].pc = pc
       /\ [a EXCEPT !.pc = pc].aborted = a.aborted
       /\ [a EXCEPT !.pc = pc, !.launched = TRUE] \in ConnectionAttempts
       /\ \A g \in 0..(2 * MaxConnects) :
            [a EXCEPT !.pc = pc, !.generation = g] \in ConnectionAttempts
  /\ \A a \in ConnectionAttempts :
       /\ [a EXCEPT !.aborted = TRUE] \in ConnectionAttempts
       /\ [a EXCEPT !.late = TRUE] \in ConnectionAttempts
       /\ [a EXCEPT !.late = TRUE].pc = a.pc /\ [a EXCEPT !.late = TRUE].aborted = a.aborted
<1>1. Connection!NoAttempt \in ConnectionAttempts /\ ~Connection!NoAttempt.aborted
  BY ConnectionBounds DEF Connection!NoAttempt, ConnectionAttempts, ConnectionPlaces
<1>2. ASSUME NEW a \in ConnectionAttempts
      PROVE  /\ [a EXCEPT !.aborted = TRUE] \in ConnectionAttempts
             /\ [a EXCEPT !.late = TRUE] \in ConnectionAttempts
             /\ [a EXCEPT !.late = TRUE].pc = a.pc /\ [a EXCEPT !.late = TRUE].aborted = a.aborted
  BY DEF ConnectionAttempts
<1>3. ASSUME NEW a \in ConnectionAttempts, NEW pc \in ConnectionPlaces
      PROVE  /\ [a EXCEPT !.pc = pc] \in ConnectionAttempts
             /\ [a EXCEPT !.pc = pc].pc = pc
             /\ [a EXCEPT !.pc = pc].aborted = a.aborted
             /\ [a EXCEPT !.pc = pc, !.launched = TRUE] \in ConnectionAttempts
             /\ \A g \in 0..(2 * MaxConnects) :
                  [a EXCEPT !.pc = pc, !.generation = g] \in ConnectionAttempts
  BY DEF ConnectionAttempts
<1>4. QED
  BY <1>1, <1>2, <1>3

\* And those of the dialog.
LEMMA DialogValues ==
  ASSUME NEW d \in ConnectionDialogs
  PROVE  /\ [d EXCEPT !.busy = FALSE, !.cancelling = FALSE] \in ConnectionDialogs
         /\ [d EXCEPT !.busy = FALSE, !.disconnecting = FALSE] \in ConnectionDialogs
         /\ [d EXCEPT !.busy = FALSE, !.attempt = 0] \in ConnectionDialogs
         /\ [d EXCEPT !.busy = TRUE, !.disconnecting = TRUE] \in ConnectionDialogs
         /\ [d EXCEPT !.attempt = 0, !.cancelling = TRUE] \in ConnectionDialogs
         /\ ~[d EXCEPT !.busy = FALSE, !.cancelling = FALSE].busy
         /\ ~[d EXCEPT !.busy = FALSE, !.disconnecting = FALSE].busy
         /\ ~[d EXCEPT !.busy = FALSE, !.attempt = 0].busy
         /\ [d EXCEPT !.attempt = 0, !.cancelling = TRUE].cancelling
         /\ \A i \in 0..MaxConnects : [d EXCEPT !.busy = TRUE, !.attempt = i] \in ConnectionDialogs
<1>0. 0 \in 0..MaxConnects
  BY ConnectionBounds
<1>1. [d EXCEPT !.busy = FALSE, !.cancelling = FALSE] \in ConnectionDialogs
  BY DEF ConnectionDialogs
<1>2. [d EXCEPT !.busy = FALSE, !.disconnecting = FALSE] \in ConnectionDialogs
  BY DEF ConnectionDialogs
<1>3. [d EXCEPT !.busy = FALSE, !.attempt = 0] \in ConnectionDialogs
  BY <1>0 DEF ConnectionDialogs
<1>4. [d EXCEPT !.busy = TRUE, !.disconnecting = TRUE] \in ConnectionDialogs
  BY DEF ConnectionDialogs
<1>5. [d EXCEPT !.attempt = 0, !.cancelling = TRUE] \in ConnectionDialogs
  BY <1>0 DEF ConnectionDialogs
<1>6. ASSUME NEW i \in 0..MaxConnects
      PROVE  [d EXCEPT !.busy = TRUE, !.attempt = i] \in ConnectionDialogs
  BY DEF ConnectionDialogs
<1>7. /\ ~[d EXCEPT !.busy = FALSE, !.cancelling = FALSE].busy
      /\ ~[d EXCEPT !.busy = FALSE, !.disconnecting = FALSE].busy
      /\ ~[d EXCEPT !.busy = FALSE, !.attempt = 0].busy
      /\ [d EXCEPT !.attempt = 0, !.cancelling = TRUE].cancelling
  BY DEF ConnectionDialogs
<1>8. QED
  BY <1>1, <1>2, <1>3, <1>4, <1>5, <1>6, <1>7

LEMMA ConnectionInit == ASSUME Connection!Init PROVE ConnectionSafe
<1>1. Connection!NoAttempt \in ConnectionAttempts
  BY ConnectionBounds DEF Connection!NoAttempt, ConnectionAttempts, ConnectionPlaces
<1>2. QED
  BY <1>1, ConnectionBounds DEF Connection!Init, Connection!Attempts, Connection!Idle,
     ConnectionSafe, ConnectionTyped, ConnectionDialogs, GenerationsAreFew, LinkedIsPast

\* What a step of an attempt does to the attempts.
LEMMA ConnectionGoes ==
  ASSUME ConnectionTyped, NEW i \in 1..MaxConnects,
         NEW pc \in Connection!Running \cup Connection!Ended, Connection!Go(i, pc)
  PROVE  /\ connects' \in [1..MaxConnects -> ConnectionAttempts]
         /\ connects'[i].pc = pc
         /\ ~connects[i].aborted => ~connects'[i].aborted
         /\ \A j \in 1..MaxConnects : j # i => connects'[j] = connects[j]
<1> DEFINE new == IF pc \in Connection!Ended THEN [Connection!NoAttempt EXCEPT !.pc = pc]
                  ELSE [connects[i] EXCEPT !.pc = pc]
<1>1. connects' = [connects EXCEPT ![i] = new]
  BY DEF Connection!Go
<1>2. connects[i] \in ConnectionAttempts
  BY DEF ConnectionTyped
<1>3. /\ new \in ConnectionAttempts /\ new.pc = pc
      /\ ~connects[i].aborted => ~new.aborted
  BY <1>2, ConnectionValues DEF ConnectionPlaces
<1> HIDE DEF new
<1>4. QED
  BY <1>1, <1>3 DEF ConnectionTyped

\* A step of an attempt that makes no connection.
LEMMA ConnectionStays ==
  ASSUME ConnectionSafe, NEW i \in 1..MaxConnects,
         NEW pc \in Connection!Running \cup Connection!Ended, Connection!Go(i, pc),
         active' \in 0..MaxConnects, link' \in {link, 0},
         UNCHANGED <<generation, dialog, dialogCalls>>,
         link' = i => pc \in {"saving", "undoing", "connected", "superseded", "failed"}
  PROVE  ConnectionSafe'
<1>0. /\ connects' \in [1..MaxConnects -> ConnectionAttempts]
      /\ connects'[i].pc = pc
      /\ ~connects[i].aborted => ~connects'[i].aborted
      /\ \A j \in 1..MaxConnects : j # i => connects'[j] = connects[j]
  BY ConnectionGoes DEF ConnectionSafe
<1>1. ConnectionTyped'
  BY <1>0, ConnectionBounds DEF ConnectionSafe, ConnectionTyped
<1>2. GenerationsAreFew'
  BY DEF ConnectionSafe, GenerationsAreFew
<1>3. LinkedIsPast'
  <2>1. CASE link' = i
    BY <1>0, <2>1, ConnectionBounds DEF ConnectionSafe, LinkedIsPast
  <2>2. CASE link' # i
    BY <1>0, <2>2 DEF ConnectionSafe, ConnectionTyped, LinkedIsPast
  <2>3. QED
    BY <2>1, <2>2
<1>4. QED
  BY <1>1, <1>2, <1>3 DEF ConnectionSafe

LEMMA ConnectionStep ==
  ASSUME ConnectionSafe, NEW i \in 1..MaxConnects, Connection!Step(i)
  PROVE  ConnectionSafe'
<1> USE ConnectionBounds DEF Connection!At
<1>p. \A pc \in {"connecting", "locating", "reading", "launching", "waiting", "provisioning",
                "saving", "undoing", "connected", "failed", "refused", "cancelled",
                "superseded"} : pc \in Connection!Running \cup Connection!Ended
  BY DEF Connection!Running, Connection!Ended
<1>0. /\ active \in 0..MaxConnects /\ link \in 0..MaxConnects /\ i # 0 /\ i \in 0..MaxConnects
      /\ link = i => ~connects[i].aborted /\
           connects[i].pc \in {"provisioning", "saving", "undoing", "connected", "superseded",
                              "failed"}
  BY ConnectionBounds DEF ConnectionSafe, ConnectionTyped, LinkedIsPast
<1>1. CASE Connection!Linked(i)
  <2>1. /\ link' = i /\ Connection!Go(i, "provisioning") /\ ~connects[i].aborted
        /\ UNCHANGED <<generation, active, dialog, dialogCalls>>
    BY <1>1 DEF Connection!Linked
  <2>2. "provisioning" \in Connection!Running \cup Connection!Ended
    BY <1>p
  <2>3. /\ connects' \in [1..MaxConnects -> ConnectionAttempts]
        /\ connects'[i].pc = "provisioning" /\ ~connects'[i].aborted
    BY <2>1, <2>2, ConnectionGoes DEF ConnectionSafe
  <2>4. QED
    BY <1>0, <2>1, <2>3 DEF ConnectionSafe, ConnectionTyped, GenerationsAreFew, LinkedIsPast
<1>2. CASE \/ Connection!PasswordRead(i) \/ Connection!Unavailable(i) \/ Connection!Rejected(i)
           \/ Connection!Located(i) \/ Connection!SettingsRead(i) \/ Connection!Retries(i)
           \/ Connection!Aborted(i)
  <2>1. link # i /\ UNCHANGED <<generation, link, dialog, dialogCalls>>
    BY <1>0, <1>2 DEF Connection!PasswordRead, Connection!Unavailable, Connection!Rejected,
       Connection!Located, Connection!SettingsRead, Connection!Retries, Connection!TriesOn,
       Connection!Aborted
  <2>2. active' \in {0, active, i}
    BY <1>2 DEF Connection!PasswordRead, Connection!Unavailable, Connection!Rejected,
       Connection!Located, Connection!SettingsRead, Connection!Retries, Connection!TriesOn,
       Connection!Aborted,
       Connection!Leaves
  <2>3. PICK pc \in Connection!Running \cup Connection!Ended : Connection!Go(i, pc)
    BY <1>p, <1>2 DEF Connection!PasswordRead, Connection!Unavailable, Connection!Rejected,
       Connection!Located, Connection!SettingsRead, Connection!Retries, Connection!TriesOn,
       Connection!Aborted,
       Connection!Leaves
  <2>4. active' \in 0..MaxConnects /\ link' \in {link, 0} /\ link' # i
    BY <1>0, <2>1, <2>2
  <2>5. QED
    BY <2>1, <2>3, <2>4, ConnectionStays
<1>3. CASE Connection!Launched(i)
  <2>1. link # i /\ UNCHANGED <<generation, link, dialog, dialogCalls>> /\ active' \in {0, active}
    BY <1>0, <1>3 DEF Connection!Launched, Connection!Leaves
  <2>2. CASE Connection!Leaves(i, "failed")
    <3>1. Connection!Go(i, "failed") /\ "failed" \in Connection!Running \cup Connection!Ended
      BY <1>p, <2>2 DEF Connection!Leaves
    <3>2. active' \in 0..MaxConnects /\ link' \in {link, 0} /\ link' # i
      BY <1>0, <2>1
    <3>3. QED
      BY <2>1, <3>1, <3>2, ConnectionStays
  <2>3. CASE connects' = [connects EXCEPT ![i].pc = "waiting", ![i].launched = TRUE]
    <3>1. connects[i] \in ConnectionAttempts
      BY DEF ConnectionSafe, ConnectionTyped
    <3>2. [connects[i] EXCEPT !.pc = "waiting", !.launched = TRUE] \in ConnectionAttempts
      BY <1>p, <3>1, ConnectionValues DEF ConnectionPlaces
    <3>3. connects' = [connects EXCEPT ![i] = [connects[i] EXCEPT !.pc = "waiting", !.launched = TRUE]]
      BY <2>3 DEF ConnectionSafe, ConnectionTyped
    <3>4. connects' \in [1..MaxConnects -> ConnectionAttempts]
          /\ \A j \in 1..MaxConnects : j # i => connects'[j] = connects[j]
      BY <3>2, <3>3 DEF ConnectionSafe, ConnectionTyped
    <3>5. ConnectionTyped' /\ LinkedIsPast'
      BY <1>0, <2>1, <3>4 DEF ConnectionSafe, ConnectionTyped, LinkedIsPast
    <3>6. GenerationsAreFew'
      BY <2>1 DEF ConnectionSafe, GenerationsAreFew
    <3>7. QED
      BY <3>5, <3>6 DEF ConnectionSafe
  <2>4. QED
    BY <1>3, <2>2, <2>3 DEF Connection!Launched
<1>4. CASE \/ Connection!Provisioned(i) \/ Connection!ProvisionFails(i) \/ Connection!Saved(i)
           \/ Connection!Undone(i)
  <2>1. UNCHANGED <<generation, dialog, dialogCalls>> /\ active' \in {0, active}
    BY <1>4 DEF Connection!Provisioned, Connection!ProvisionFails, Connection!Saved,
       Connection!Undone, Connection!Leaves, Connection!TriesOn
  <2>2. PICK pc \in Connection!Running \cup Connection!Ended :
          /\ Connection!Go(i, pc)
          /\ \/ link' = link /\ pc \in {"saving", "undoing", "connected", "superseded", "failed"}
             \/ link' = 0
    BY <1>p, <1>4 DEF Connection!Provisioned, Connection!ProvisionFails, Connection!Saved,
       Connection!Undone, Connection!Leaves, Connection!TriesOn
  <2>3. /\ active' \in 0..MaxConnects /\ link' \in {link, 0}
        /\ link' = i => pc \in {"saving", "undoing", "connected", "superseded", "failed"}
    BY <1>0, <2>1, <2>2
  <2>4. QED
    BY <2>1, <2>2, <2>3, ConnectionStays
<1>5. QED
  BY <1>1, <1>2, <1>3, <1>4 DEF Connection!Step

\* The dialog, the deadline, and OBS itself.
LEMMA ConnectionDialog ==
  ASSUME ConnectionSafe,
         \/ Connection!Connect \/ Connection!Cancel \/ Connection!CancelReturns
         \/ Connection!Disconnect \/ Connection!DisconnectReturns \/ Connection!ConnectionLost
         \/ \E i \in 1..MaxConnects : Connection!DeadlinePasses(i) \/ Connection!ConnectReturns(i)
  PROVE  ConnectionSafe'
<1> USE ConnectionBounds DEF ConnectionSafe, ConnectionTyped
<1>0. /\ dialogCalls \in Nat /\ generation \in Nat /\ dialogCalls <= MaxConnects
      /\ generation <= 2 * dialogCalls
      /\ dialog.busy /\ ~dialog.cancelling => generation < 2 * dialogCalls
  BY DEF GenerationsAreFew
<1>v. dialog \in ConnectionDialogs
  OBVIOUS
<1>1. CASE Connection!Connect
  <2> DEFINE new == [Connection!NoAttempt EXCEPT !.pc = "password", !.generation = generation + 1]
  <2>1. "password" \in ConnectionPlaces
    BY DEF ConnectionPlaces, Connection!Running
  <2>2. /\ dialogCalls < MaxConnects /\ dialogCalls' = dialogCalls + 1
        /\ generation' = generation + 1 /\ link = 0 /\ UNCHANGED <<active, link>>
        /\ dialog' = [dialog EXCEPT !.busy = TRUE, !.attempt = dialogCalls + 1]
        /\ connects' = [connects EXCEPT ![dialogCalls + 1] = new]
    BY <1>1 DEF Connection!Connect, Connection!OffersConnect
  <2>3. generation + 1 \in 0..(2 * MaxConnects)
    BY <1>0, <2>2
  <2>4. new \in ConnectionAttempts
    BY <2>1, <2>3, ConnectionValues
  <2> HIDE DEF new
  <2>d. dialogCalls + 1 \in 1..MaxConnects /\ dialogCalls + 1 \in 0..MaxConnects
    BY <1>0, <2>2, SMTT(30)
  <2>e. dialog' \in ConnectionDialogs
    BY <1>v, <2>2, <2>d, DialogValues
  <2>5. ConnectionTyped'
    BY <2>2, <2>4, <2>d, <2>e
  <2>6. GenerationsAreFew'
    BY <1>0, <2>2 DEF GenerationsAreFew
  <2>7. QED
    BY <2>2, <2>5, <2>6 DEF LinkedIsPast
<1>2. CASE Connection!Cancel
  <2>1. /\ dialog.busy /\ ~dialog.cancelling /\ generation' = generation + 1
        /\ dialog' = [dialog EXCEPT !.attempt = 0, !.cancelling = TRUE]
        /\ UNCHANGED <<active, dialogCalls>>
    BY <1>2 DEF Connection!Cancel
  <2>2. GenerationsAreFew' /\ dialog' \in ConnectionDialogs
    <3>1. dialog'.cancelling /\ dialog' \in ConnectionDialogs
      BY <1>v, <2>1, DialogValues
    <3>2. GenerationsAreFew'
      BY <1>0, <2>1, <3>1 DEF GenerationsAreFew
    <3>3. QED
      BY <3>1, <3>2, SMTT(30)
  <2>3. CASE active = 0
    BY <1>2, <2>1, <2>2, <2>3 DEF Connection!Cancel, LinkedIsPast
  <2>4. CASE active # 0
    <3>1. link' = 0 /\ connects' = [connects EXCEPT ![active] =
                                     [connects[active] EXCEPT !.aborted = TRUE]]
      BY <1>2, <2>4 DEF Connection!Cancel
    <3>2. [connects[active] EXCEPT !.aborted = TRUE] \in ConnectionAttempts
      <4>1. connects[active] \in ConnectionAttempts
        BY <2>4
      <4>2. QED
        BY <4>1, ConnectionValues
    <3>3. connects' \in [1..MaxConnects -> ConnectionAttempts]
      BY <3>1, <3>2
    <3>4. QED
      BY <2>1, <2>2, <3>1, <3>3 DEF LinkedIsPast
  <2>5. QED
    BY <2>3, <2>4
<1>3. CASE \/ Connection!CancelReturns \/ Connection!DisconnectReturns \/ Connection!ConnectionLost
           \/ \E i \in 1..MaxConnects : Connection!ConnectReturns(i)
  <2>1. /\ link' \in {link, 0} /\ UNCHANGED <<generation, connects, active, dialogCalls>>
        /\ dialog' \in {dialog, [dialog EXCEPT !.busy = FALSE, !.cancelling = FALSE],
                       [dialog EXCEPT !.busy = FALSE, !.disconnecting = FALSE],
                       [dialog EXCEPT !.busy = FALSE, !.attempt = 0]}
    BY <1>3, SMTT(30) DEF Connection!CancelReturns, Connection!DisconnectReturns,
       Connection!ConnectionLost, Connection!ConnectReturns
  <2>2. dialog' \in ConnectionDialogs
    BY <1>v, <2>1, DialogValues
  <2>3. dialog' = dialog \/ ~dialog'.busy
    BY <1>v, <2>1, DialogValues
  <2>4. GenerationsAreFew'
    BY <1>0, <2>1, <2>3 DEF GenerationsAreFew
  <2>5. QED
    BY <2>1, <2>2, <2>4 DEF LinkedIsPast
<1>4. CASE Connection!Disconnect
  <2>1. /\ dialogCalls < MaxConnects /\ dialogCalls' = dialogCalls + 1
        /\ UNCHANGED <<generation, connects, active, link>>
        /\ dialog' = [dialog EXCEPT !.busy = TRUE, !.disconnecting = TRUE]
    BY <1>4 DEF Connection!Disconnect
  <2>2. GenerationsAreFew'
    BY <1>0, <2>1, SMTT(30) DEF GenerationsAreFew
  <2>3. dialog' \in ConnectionDialogs
    BY <1>v, <2>1, DialogValues
  <2>4. QED
    BY <2>1, <2>2, <2>3 DEF LinkedIsPast
<1>5. ASSUME NEW i \in 1..MaxConnects, Connection!DeadlinePasses(i) PROVE ConnectionSafe'
  <2>1. /\ UNCHANGED <<generation, active, link, dialog, dialogCalls>>
        /\ connects' = [connects EXCEPT ![i] = [connects[i] EXCEPT !.late = TRUE]]
    BY <1>5 DEF Connection!DeadlinePasses
  <2>2. [connects[i] EXCEPT !.late = TRUE] \in ConnectionAttempts
    <3>1. connects[i] \in ConnectionAttempts
      OBVIOUS
    <3>2. QED
      BY <3>1, ConnectionValues
  <2>3. /\ connects' \in [1..MaxConnects -> ConnectionAttempts]
        /\ \A j \in 1..MaxConnects : connects'[j].pc = connects[j].pc
                                    /\ connects'[j].aborted = connects[j].aborted
    <3>1. connects[i] \in ConnectionAttempts
      OBVIOUS
    <3>2. [connects[i] EXCEPT !.late = TRUE].pc = connects[i].pc
          /\ [connects[i] EXCEPT !.late = TRUE].aborted = connects[i].aborted
      BY <3>1, ConnectionValues
    <3>3. QED
      BY <2>1, <2>2, <3>2
  <2>4. QED
    BY <2>1, <2>3 DEF LinkedIsPast, GenerationsAreFew
<1>6. QED
  BY <1>1, <1>2, <1>3, <1>4, <1>5

LEMMA ConnectionNext ==
  ASSUME ConnectionSafe, [Connection!Next]_(Connection!vars) PROVE ConnectionSafe'
<1>1. CASE UNCHANGED Connection!vars
  BY <1>1 DEF Connection!vars, ConnectionSafe, ConnectionTyped, GenerationsAreFew, LinkedIsPast
<1>2. CASE Connection!Next
  BY <1>2, ConnectionStep, ConnectionDialog DEF Connection!Next, Connection!Attempts
<1>3. QED
  BY <1>1, <1>2

LEMMA ConnectionRuns == Spec => Connection!Init /\ [][Connection!Next]_(Connection!vars)
<1>1. Init => Connection!Init
  BY DEF Init
<1>2. [Next]_vars => [Connection!Next]_(Connection!vars)
  <2>1. CASE UNCHANGED vars
    BY <2>1 DEF vars, connectionVars, Connection!vars
  <2>2. CASE Next /\ Is("connection")
    BY <2>2 DEF Next, Is
  <2>3. CASE Next /\ ~Is("connection")
    BY <2>3 DEF Next, Others, connectionVars, Connection!vars
  <2>4. QED
    BY <2>1, <2>2, <2>3
<1>3. QED
  BY <1>1, <1>2, PTL DEF Spec

\* The invariant of the connection.
LEMMA ConnectionIsSafe == Spec => []ConnectionSafe
  BY ConnectionRuns, ConnectionInit, ConnectionNext, PTL

\* An attempt to connect to OBS that the user was told is cancelled has not left OBS
\* connected, however cancels, retries and password prompts interleave.
THEOREM CancelledLeavesNoConnection == Spec => []CancelledIsNotConnected
<1>1. ConnectionSafe => CancelledIsNotConnected
  BY ConnectionIsEnough DEF CancelledIsNotConnected
<1>2. QED
  BY <1>1, ConnectionIsSafe, PTL
----------------------------------------------------------------------------
(* The settings of the providers, with one credential and with several.    *)

SettingsSafe ==
  /\ Is("settings") => Settings!Safe
  /\ Is("credentials") => Credentials!Safe

LEMMA SettingsInit == Init => SettingsSafe
<1>1. ASSUME Init, Is("settings") PROVE Settings!Safe
  BY <1>1, ConstantsAssumption, Settings!InitIsSafe DEF Init
<1>2. ASSUME Init, Is("credentials") PROVE Credentials!Safe
  BY <1>2, ConstantsAssumption, Credentials!InitIsSafe DEF Init, Is
<1>3. QED
  BY <1>1, <1>2 DEF SettingsSafe

LEMMA SettingsNext == SettingsSafe /\ [Next]_vars => SettingsSafe'
<1>1. ASSUME SettingsSafe, [Next]_vars, Is("settings")' PROVE Settings!Safe'
  <2>1. Is("settings") /\ (Settings!Next \/ UNCHANGED settingsVars)
    BY <1>1 DEF Next, Others, vars, Is
  <2>2. [Settings!Next]_(Settings!vars)
    BY <2>1 DEF settingsVars, Settings!vars
  <2>3. QED
    BY <1>1, <2>1, <2>2, ConstantsAssumption, Settings!NextIsSafe DEF SettingsSafe
<1>2. ASSUME SettingsSafe, [Next]_vars, Is("credentials")' PROVE Credentials!Safe'
  <2>1. Is("credentials") /\ (Credentials!Next \/ UNCHANGED settingsVars)
    BY <1>2 DEF Next, Others, vars, Is
  <2>2. [Credentials!Next]_(Credentials!vars)
    BY <2>1 DEF settingsVars, Credentials!vars
  <2>3. QED
    BY <1>2, <2>1, <2>2, ConstantsAssumption, Credentials!NextIsSafe DEF SettingsSafe
<1>3. QED
  BY <1>1, <1>2 DEF SettingsSafe

\* A credential that no failed call has touched is the one the user stored last, whatever saves,
\* removals, failures of the disk and restarts came between.
THEOREM StoredStaysAsEntered == Spec => []StoredIsEntered
<1>1. SettingsSafe => StoredIsEntered
  BY Settings!SafeIsEntered, Credentials!SafeIsEntered DEF SettingsSafe, StoredIsEntered
<1>2. QED
  BY <1>1, SettingsInit, SettingsNext, PTL DEF Spec

----------------------------------------------------------------------------
(* The summary engine.                                                     *)

LEMMA EngineRuns == Spec => Engine!Spec
<1>1. Init => Engine!Init
  BY DEF Init, EngineRests
<1>2. [Next]_vars => [Engine!Next]_(Engine!vars)
  <2>1. CASE UNCHANGED vars
    BY <2>1 DEF vars, engineVars, Engine!vars
  <2>2. CASE Next /\ Is("engine")
    BY <2>2 DEF Next, Is
  <2>3. CASE Next /\ ~Is("engine")
    BY <2>3 DEF Next, Others, engineVars, Engine!vars
  <2>4. QED
    BY <2>1, <2>2, <2>3
<1>3. QED
  BY <1>1, <1>2, PTL DEF Spec, Engine!Spec

\* createGroundedSummary(), engine.ts: through every reduction and repair, the draft of a
\* meeting cites only what was cited in a draft that was made from the chunk with the utterance.
THEOREM MeetingsAreGrounded == Spec => []EvidenceIsGrounded
<1>1. Engine!EngineConstants
  BY ConstantsAssumption
<1>2. Engine!Spec => []Engine!EvidenceIsGrounded
  BY <1>1, Engine!EvidenceStaysGrounded
<1>3. QED
  BY <1>2, EngineRuns, PTL DEF EvidenceIsGrounded

\* composeLectureNotes(), engine.ts: whichever worker answers first, the summary of a lecture has
\* every chapter of every segment, in order, and neighbours have different titles.
THEOREM LecturesAreInOrder == Spec => []SpokenOrder
<1>1. Engine!EngineConstants
  BY ConstantsAssumption
<1>2. Engine!Spec => []Engine!SpokenOrder
  BY <1>1, Engine!SpokenOrderHolds
<1>3. QED
  BY <1>2, EngineRuns, PTL DEF SpokenOrder

----------------------------------------------------------------------------
(* The transcript and the summary of a session in the renderer.            *)

NotesDocs ==
  [rev : Nat, from : Nat, edits : SUBSET Nat, byHand : BOOLEAN, own : BOOLEAN]
NotesViews == [t : NotesDocs, s : NotesDocs, stale : BOOLEAN]
NotesTabs == [name : {"t", "s"}, draft : NotesDocs, dirty : BOOLEAN, busy : BOOLEAN]
NotesJobs == [pc : {"none", "running"}, from : Nat]

\* What changes the transcript, what fetches both documents, and what is of the other session.
NotesWrites == {"save", "rename"}
NotesGets == {"open", "refresh"}
NotesAbroad == {"visit", "elsewhere"}
NotesCalls ==
  [kind : NotesWrites \cup NotesGets \cup NotesAbroad \cup {"generate", "retry"},
   doc : NotesDocs, next : Nat, by : Nat]
    \cup [kind : {"saveSummary"}, doc : {d \in NotesDocs : d.byHand}, next : Nat, by : Nat]
NotesReplies ==
  [kind : NotesWrites \cup {"saveSummary", "generate", "refused", "ended"},
   doc : NotesDocs, next : Nat, by : Nat]
    \cup [kind : NotesAbroad, doc : {d \in NotesDocs : ~d.own}, next : Nat, by : Nat]
    \cup [kind : NotesGets, doc : NotesViews, next : Nat, by : Nat]

\* What TypeOK says, and what is in the queues.
NotesTyped ==
  /\ transcript \in NotesDocs /\ summary \in NotesDocs
  /\ summaryJob \in NotesJobs /\ waiting \in Seq({"summary", "full"})
  /\ selected \in {"this", "opening", "other"}
  /\ details \in NotesViews
  /\ tab \in NotesTabs
  /\ saved \subseteq Nat /\ blind \in BOOLEAN
  /\ edits \in Nat /\ jobs \in Nat /\ opens \in Nat
  /\ calls \in Seq(NotesCalls) /\ inbox \in Seq(NotesReplies)

\* The details are fetched once more.
NotesPending ==
  \/ summaryJob.pc = "running"
  \/ \E i \in 1..Len(calls) : calls[i].kind \in NotesGets
  \/ \E i \in 1..Len(inbox) : inbox[i].kind = "ended"

\* What a reply brings to the view when it arrives.
TranscriptOf(m) == IF m.kind \in NotesGets THEN m.doc.t ELSE m.doc
SummaryOf(m) == IF m.kind \in NotesGets THEN m.doc.s ELSE m.doc
MarksStale(m) == m.kind \in NotesWrites \/ (m.kind \in NotesGets /\ m.doc.stale)

\* One of these kinds is in the queue; each of them is as it should be or is followed.
Brings(queue, kinds) == \E i \in 1..Len(queue) : queue[i].kind \in kinds
Follows(queue, kinds, later, good) ==
  \A i \in 1..Len(queue) :
    queue[i].kind \in kinds =>
      queue[i] \in good \/ \E j \in (i + 1)..Len(queue) : queue[j].kind \in later

\* An opening is on the way as long as there are no details.
NotesOpening ==
  Editors!Loaded =>
    /\ \A i \in 1..Len(calls) : calls[i].kind # "open"
    /\ \A i \in 1..Len(inbox) : inbox[i].kind # "open"

\* The last reply on the way to the view is current; if there is none, the view is, unless
\* it shows a transcript of the other session.
TranscriptKinds == NotesWrites \cup NotesGets
LatestTranscripts == {m \in NotesReplies : NotesPending \/ TranscriptOf(m) = transcript}
TranscriptFollows ==
  /\ Follows(inbox, TranscriptKinds, TranscriptKinds, LatestTranscripts)
  /\ Editors!Loaded =>
       \/ details.t = transcript \/ ~details.t.own
       \/ NotesPending \/ Brings(inbox, TranscriptKinds)

SummaryKinds == NotesGets \cup {"saveSummary"}
LatestSummaries == {m \in NotesReplies : NotesPending \/ SummaryOf(m) = summary}
SummaryFollows ==
  /\ Follows(inbox, SummaryKinds, SummaryKinds, LatestSummaries)
  /\ Editors!Loaded => details.s = summary \/ NotesPending \/ Brings(inbox, SummaryKinds)

\* A mark that is missing is not due.
StaleKinds == TranscriptKinds \cup SummaryKinds
Unmarked == Editors!Stored.stale /\ ~summary.byHand
RightMarks == {m \in NotesReplies : NotesPending \/ (Unmarked => MarksStale(m))}
StaleFollows ==
  /\ Follows(inbox, StaleKinds, StaleKinds, RightMarks)
  /\ Editors!Loaded =>
       (Unmarked => details.stale) \/ NotesPending \/ Brings(inbox, StaleKinds)

\* Of some messages one at most is on its way.
Has(queue, some) == \E i \in 1..Len(queue) : queue[i] \in some
OneIn(queue, some) ==
  \A i \in 1..Len(queue), j \in 1..Len(queue) :
    queue[i] \in some /\ queue[j] \in some => i = j
AnyOf(queue, other, some) == Has(queue, some) \/ Has(other, some)
OneOf(queue, other, some) ==
  OneIn(queue, some) /\ OneIn(other, some) /\ ~(Has(queue, some) /\ Has(other, some))

\* The editor that is open is busy with one request at most, and no request is of an editor
\* that is yet to be opened.
NotesMessages == NotesCalls \cup NotesReplies
NotesAsked == {"save", "rename", "saveSummary", "generate", "elsewhere", "refused"}
NotesRequests == {m \in NotesMessages : m.kind \in NotesAsked}
NotesOurs == {m \in NotesRequests : m.by = opens}
NotesLater == {m \in NotesRequests : m.by > opens}
NotesEditorAsks ==
  /\ OneOf(calls, inbox, NotesOurs)
  /\ AnyOf(calls, inbox, NotesOurs) => tab.busy
  /\ ~AnyOf(calls, inbox, NotesLater)

\* One change of the transcript is on its way at a time, from the editor that is open.
NotesChanges == {m \in NotesMessages : m.kind \in NotesWrites}
NotesTheirs == {m \in NotesChanges : m.by # opens}
NotesEditorWaits ==
  Editors!Loaded =>
    /\ ~AnyOf(calls, inbox, NotesTheirs)
    /\ AnyOf(calls, inbox, NotesChanges) => tab.name = "t"

\* Every copy from which the transcript may be replaced has the saved edits, unless a reply
\* that brings them is on its way.
WithSaved == {m \in NotesReplies : saved \subseteq TranscriptOf(m).edits}
Survives(document) == document.own => saved \subseteq document.edits
SavedIsSent == \A i \in 1..Len(calls) : calls[i].kind = "save" => Survives(calls[i].doc)
SavedFollows == Follows(inbox, TranscriptKinds, NotesWrites, WithSaved)
SavedIsShown ==
  Editors!Loaded =>
    \/ Brings(inbox, NotesWrites)
    \/ Survives(details.t) /\ (tab.name = "t" => Survives(tab.draft))
NotesKept == saved \subseteq transcript.edits /\ SavedIsSent /\ SavedFollows /\ SavedIsShown

NotesSafe ==
  /\ NotesTyped /\ NotesOpening /\ NotesEditorAsks
  /\ TranscriptFollows /\ SummaryFollows /\ StaleFollows
  /\ ~blind => OneOf(calls, inbox, NotesChanges) /\ NotesEditorWaits /\ NotesKept

LEMMA DocsUpdates ==
  ASSUME NEW d \in NotesDocs
  PROVE  /\ \A n \in Nat : [d EXCEPT !.edits = d.edits \cup {n}] \in NotesDocs
         /\ [d EXCEPT !.byHand = TRUE] \in NotesDocs
         /\ [d EXCEPT !.byHand = TRUE].byHand
BY DEF NotesDocs

LEMMA NoDocumentIsDoc ==
  /\ Editors!NoDocument \in NotesDocs
  /\ \A n \in Nat : [Editors!NoDocument EXCEPT !.from = n] \in NotesDocs
  /\ \A n \in Nat : [Editors!NoDocument EXCEPT !.edits = {n}] \in NotesDocs
  /\ \A n \in Nat : [Editors!NoDocument EXCEPT !.rev = n] \in NotesDocs
  /\ Editors!NoDetails \in NotesViews
BY DEF Editors!NoDocument, Editors!NoDetails, NotesDocs, NotesViews

LEMMA ForeignIsDoc == Editors!Foreign \in {d \in NotesDocs : ~d.own}
BY DEF Editors!Foreign, Editors!NoDocument, NotesDocs

LEMMA TabUpdates ==
  ASSUME NEW b \in NotesTabs
  PROVE  /\ b.draft \in NotesDocs /\ b.dirty \in BOOLEAN /\ b.busy \in BOOLEAN
         /\ b.name \in {"t", "s"}
         /\ \A busy \in BOOLEAN : [b EXCEPT !.busy = busy] \in NotesTabs
         /\ \A d \in NotesDocs : [b EXCEPT !.draft = d, !.dirty = FALSE] \in NotesTabs
         /\ \A d \in NotesDocs, busy \in BOOLEAN :
              [b EXCEPT !.draft = d, !.dirty = FALSE, !.busy = busy] \in NotesTabs
         /\ \A n \in Nat :
              [b EXCEPT !.draft.edits = b.draft.edits \cup {n}, !.dirty = TRUE] \in NotesTabs
BY DEF NotesTabs, NotesDocs

LEMMA FreshIsTab ==
  ASSUME NEW name \in {"t", "s"}, NEW v \in NotesViews
  PROVE  Editors!Fresh(name, v) \in NotesTabs
BY DEF NotesTabs, NotesViews, Editors!Fresh

LEMMA ViewUpdates ==
  ASSUME NEW v \in NotesViews
  PROVE  /\ v.t \in NotesDocs /\ v.s \in NotesDocs /\ v.stale \in BOOLEAN
         /\ \A d \in NotesDocs : [v EXCEPT !.t = d, !.stale = TRUE] \in NotesViews
         /\ \A d \in NotesDocs : [v EXCEPT !.s = d, !.stale = FALSE] \in NotesViews
BY DEF NotesViews

\* A written document, one fact at a time.
LEMMA DocNumbers == \A d \in NotesDocs : d.rev \in Nat /\ d.rev + 1 \in Nat /\ d.from \in Nat
BY DEF NotesDocs

LEMMA WrittenDoc ==
  \A d \in NotesDocs : \A n \in Nat :
    /\ [d EXCEPT !.rev = n] \in NotesDocs
    /\ [d EXCEPT !.rev = n].edits = d.edits
    /\ [d EXCEPT !.rev = n].byHand = d.byHand
BY DEF NotesDocs

\* A queue gets one more, and loses its first.
Gets(queue, after, m) ==
  /\ Len(queue) \in Nat /\ Len(after) = Len(queue) + 1
  /\ after[Len(queue) + 1] = m
  /\ \A i \in 1..Len(queue) : after[i] = queue[i]
Drops(queue, after, m) ==
  /\ Len(queue) \in Nat /\ Len(queue) > 0 /\ Len(after) = Len(queue) - 1
  /\ m = queue[1]
  /\ \A i \in 1..Len(after) : after[i] = queue[i + 1]

LEMMA Appending ==
  ASSUME NEW S, NEW queue \in Seq(S), NEW m \in S
  PROVE  Append(queue, m) \in Seq(S) /\ Gets(queue, Append(queue, m), m)
BY DEF Gets

LEMMA Tailing ==
  ASSUME NEW S, NEW queue \in Seq(S), queue # <<>>
  PROVE  /\ Tail(queue) \in Seq(S) /\ Head(queue) \in S
         /\ Drops(queue, Tail(queue), Head(queue))
<1>1. Len(queue) \in Nat /\ Len(queue) > 0 /\ Head(queue) = queue[1]
  OBVIOUS
<1>2. Tail(queue) \in Seq(S) /\ Len(Tail(queue)) = Len(queue) - 1
  OBVIOUS
<1>3. \A i \in 1..Len(Tail(queue)) : Tail(queue)[i] = queue[i + 1]
  OBVIOUS
<1>4. Head(queue) \in S
  OBVIOUS
<1>5. QED
  BY <1>1, <1>2, <1>3, <1>4 DEF Drops

\* What a step does to the queues.
NotesSends(m) == m \in NotesCalls /\ calls' \in Seq(NotesCalls) /\ Gets(calls, calls', m)
NotesHandles(m) == m \in NotesCalls /\ calls' \in Seq(NotesCalls) /\ Drops(calls, calls', m)
NotesAnswers(m) == m \in NotesReplies /\ inbox' \in Seq(NotesReplies) /\ Gets(inbox, inbox', m)
NotesArrives(m) == m \in NotesReplies /\ inbox' \in Seq(NotesReplies) /\ Drops(inbox, inbox', m)

LEMMA NotesSending ==
  ASSUME NotesTyped, NEW m \in NotesCalls, Editors!Send(m)
  PROVE  NotesSends(m)
BY Appending DEF NotesTyped, Editors!Send, NotesSends

LEMMA NotesHandling ==
  ASSUME NotesTyped, calls # <<>>, calls' = Tail(calls)
  PROVE  NotesHandles(Head(calls))
BY Tailing DEF NotesTyped, NotesHandles

LEMMA NotesAnswering ==
  ASSUME NotesTyped, NEW m \in NotesReplies, inbox' = Append(inbox, m)
  PROVE  NotesAnswers(m)
BY Appending DEF NotesTyped, NotesAnswers

LEMMA NotesArriving ==
  ASSUME NotesTyped, inbox # <<>>, inbox' = Tail(inbox)
  PROVE  NotesArrives(Head(inbox))
BY Tailing DEF NotesTyped, NotesArrives

\* A message, by its fields.
NotesMessage(kind, d, n, b) == [kind |-> kind, doc |-> d, next |-> n, by |-> b]
Plain == NotesWrites \cup NotesGets \cup NotesAbroad \cup {"generate", "retry"}

LEMMA MessageFields ==
  \A kind, d, n, b :
    /\ NotesMessage(kind, d, n, b).kind = kind
    /\ NotesMessage(kind, d, n, b).doc = d
    /\ NotesMessage(kind, d, n, b).next = n
    /\ NotesMessage(kind, d, n, b).by = b
BY DEF NotesMessage

LEMMA CallsAre ==
  ASSUME NEW d \in NotesDocs, NEW n \in Nat, NEW b \in Nat
  PROVE  /\ \A kind \in Plain : NotesMessage(kind, d, n, b) \in NotesCalls
         /\ d.byHand => NotesMessage("saveSummary", d, n, b) \in NotesCalls
BY DEF NotesMessage, NotesCalls, Plain

LEMMA RepliesAre ==
  ASSUME NEW n \in Nat, NEW b \in Nat
  PROVE  /\ \A kind \in NotesWrites, d \in NotesDocs : NotesMessage(kind, d, n, b) \in NotesReplies
         /\ \A d \in NotesDocs :
              /\ NotesMessage("saveSummary", d, n, b) \in NotesReplies
              /\ NotesMessage("generate", d, n, b) \in NotesReplies
              /\ NotesMessage("refused", d, n, b) \in NotesReplies
              /\ NotesMessage("ended", d, n, b) \in NotesReplies
         /\ \A kind \in NotesAbroad : \A d \in NotesDocs :
              ~d.own => NotesMessage(kind, d, n, b) \in NotesReplies
         /\ \A kind \in NotesGets : \A v \in NotesViews :
              NotesMessage(kind, v, n, b) \in NotesReplies
BY DEF NotesMessage, NotesReplies

LEMMA CallIs ==
  \A kind, d, n, b :
    /\ Editors!Call(kind, d) = NotesMessage(kind, d, 0, opens)
    /\ [Editors!Call(kind, d) EXCEPT !.next = n] = NotesMessage(kind, d, n, opens)
    /\ [Editors!Call(kind, d) EXCEPT !.by = b] = NotesMessage(kind, d, 0, b)
BY DEF Editors!Call, NotesMessage

LEMMA CallFields ==
  ASSUME NEW m \in NotesCalls
  PROVE  /\ m.doc \in NotesDocs /\ m.next \in Nat /\ m.by \in Nat
         /\ m.kind \in Plain \cup {"saveSummary"}
         /\ m.kind = "saveSummary" => m.doc.byHand
         /\ m = NotesMessage(m.kind, m.doc, m.next, m.by)
         /\ \A d : [m EXCEPT !.doc = d] = NotesMessage(m.kind, d, m.next, m.by)
<1>1. \/ m \in [kind : Plain, doc : NotesDocs, next : Nat, by : Nat]
      \/ m \in [kind : {"saveSummary"}, doc : {d \in NotesDocs : d.byHand}, next : Nat, by : Nat]
  BY DEF NotesCalls, Plain
<1>2. m.kind = "saveSummary" => m.doc.byHand
  BY <1>1 DEF Plain, NotesWrites, NotesGets, NotesAbroad
<1>3. m.doc \in NotesDocs /\ m.next \in Nat /\ m.by \in Nat
  BY <1>1
<1>4. m.kind \in Plain \cup {"saveSummary"}
  BY <1>1
<1>5. m = NotesMessage(m.kind, m.doc, m.next, m.by)
  BY <1>1 DEF NotesMessage
<1>6. \A d : [m EXCEPT !.doc = d] = NotesMessage(m.kind, d, m.next, m.by)
  BY <1>1 DEF NotesMessage
<1>7. QED
  BY <1>2, <1>3, <1>4, <1>5, <1>6

LEMMA ReplyFields ==
  ASSUME NEW m \in NotesReplies
  PROVE  /\ m.next \in Nat /\ m.by \in Nat
         /\ m.kind \in NotesWrites \cup NotesGets \cup NotesAbroad
                         \cup {"saveSummary", "generate", "refused", "ended"}
         /\ m.kind \in NotesGets => m.doc \in NotesViews
         /\ m.kind \notin NotesGets => m.doc \in NotesDocs
         /\ m.kind \in NotesAbroad => ~m.doc.own
<1>1. \/ m \in [kind : NotesWrites \cup {"saveSummary", "generate", "refused", "ended"},
                doc : NotesDocs, next : Nat, by : Nat]
      \/ m \in [kind : NotesAbroad, doc : {d \in NotesDocs : ~d.own}, next : Nat, by : Nat]
      \/ m \in [kind : NotesGets, doc : NotesViews, next : Nat, by : Nat]
  BY DEF NotesReplies
<1>2. QED
  BY <1>1 DEF NotesWrites, NotesGets, NotesAbroad

NotesQueues == calls \in Seq(NotesCalls) /\ inbox \in Seq(NotesReplies)
NotesStored ==
  /\ transcript \in NotesDocs /\ summary \in NotesDocs
  /\ summaryJob \in NotesJobs /\ waiting \in Seq({"summary", "full"})
  /\ saved \subseteq Nat
NotesShown == details \in NotesViews /\ tab \in NotesTabs /\ blind \in BOOLEAN
NotesCounted ==
  /\ selected \in {"this", "opening", "other"}
  /\ edits \in Nat /\ jobs \in Nat /\ opens \in Nat

LEMMA NotesParts == NotesTyped <=> NotesQueues /\ NotesStored /\ NotesShown /\ NotesCounted
BY DEF NotesTyped, NotesQueues, NotesStored, NotesShown, NotesCounted

LEMMA SavingIsBoolean == Editors!Saving \in BOOLEAN
BY DEF Editors!Saving

\* The user edits, resets, goes to another tab or session, or asks for something.
NotesEdits ==
  /\ UNCHANGED <<calls, details, blind, opens>>
  /\ tab'.name = tab.name /\ tab'.busy = tab.busy
  /\ tab.name = "t" =>
       \/ tab.draft.edits \subseteq tab'.draft.edits /\ tab'.draft.own = tab.draft.own
       \/ tab'.draft = details.t
NotesMounts ==
  /\ UNCHANGED <<calls, details>> /\ blind' = (blind \/ Editors!Saving) /\ opens' = opens + 1
  /\ tab'.name = "t" => tab'.draft = details.t
NotesReopens ==
  /\ ~Editors!Loaded' /\ UNCHANGED blind /\ opens' = opens + 1
  /\ \E c \in NotesCalls : c.kind \in {"open", "visit"} /\ NotesSends(c)
NotesAsks(c) ==
  /\ ~tab.busy /\ NotesSends(c) /\ c.by = opens /\ UNCHANGED <<details, blind, opens>>
  /\ tab'.name = tab.name /\ tab'.draft = tab.draft /\ tab'.busy
  /\ \/ c.kind \in {"saveSummary", "generate"} /\ Editors!Loaded
     \/ c.kind = "elsewhere"
     \/ /\ c.kind \in NotesWrites /\ Editors!Loaded /\ tab.name = "t"
        /\ c.kind = "save" => c.doc = tab.draft
NotesRetries ==
  /\ UNCHANGED <<details, tab, blind, opens>> /\ Editors!Loaded
  /\ \E c \in NotesCalls : c.kind = "retry" /\ NotesSends(c)
NotesRenders ==
  /\ UNCHANGED <<transcript, summary, summaryJob, waiting, saved, inbox>>
  /\ \/ NotesEdits \/ NotesMounts \/ NotesReopens \/ NotesRetries
     \/ \E c \in NotesCalls : NotesAsks(c)

LEMMA RendererStores ==
  ASSUME Editors!Renderer
  PROVE  UNCHANGED <<transcript, summary, summaryJob, waiting, inbox, saved>>
BY DEF Editors!Renderer, Editors!OpenTab, Editors!Leave, Editors!Return, Editors!Select,
       Editors!ChangeElsewhere, Editors!EditTranscript, Editors!EditSummary, Editors!Edited,
       Editors!Reset, Editors!SaveTranscript, Editors!ChangeSpeakers, Editors!SaveSummary,
       Editors!Generate, Editors!Retry, Editors!database, Editors!pipeline, Editors!history

LEMMA RendererCounts ==
  ASSUME NotesCounted, Editors!Renderer
  PROVE  NotesCounted'
<1> USE DEF NotesCounted
<1>1. ASSUME NEW name \in {"t", "s"}, Editors!OpenTab(name) PROVE NotesCounted'
  BY <1>1 DEF Editors!OpenTab
<1>2. CASE Editors!Leave \/ Editors!Return
  BY <1>2 DEF Editors!Leave, Editors!Return, Editors!Select
<1>3. CASE Editors!ChangeElsewhere \/ Editors!Edited \/ Editors!ChangeSpeakers
  BY <1>3 DEF Editors!ChangeElsewhere, Editors!Edited, Editors!ChangeSpeakers
<1>4. CASE Editors!Reset \/ Editors!SaveTranscript \/ Editors!SaveSummary
  BY <1>4 DEF Editors!Reset, Editors!SaveTranscript, Editors!SaveSummary, Editors!counters
<1>5. CASE Editors!Generate \/ Editors!Retry
  BY <1>5 DEF Editors!Generate, Editors!Retry
<1>6. QED
  BY <1>1, <1>2, <1>3, <1>4, <1>5
  DEF Editors!Renderer, Editors!EditTranscript, Editors!EditSummary

\* A step of the renderer, by what it sends and shows.
NotesRendered == calls' \in Seq(NotesCalls) /\ NotesShown'

LEMMA Mounting ==
  ASSUME NotesTyped, NEW name \in {"t", "s"}, Editors!OpenTab(name)
  PROVE  NotesRendered /\ NotesMounts
<1>1. /\ details \in NotesViews /\ blind \in BOOLEAN /\ calls \in Seq(NotesCalls)
      /\ UNCHANGED <<calls, details>> /\ tab' = Editors!Fresh(name, details)
      /\ blind' = (blind \/ Editors!Saving) /\ opens' = opens + 1
  BY DEF Editors!OpenTab, NotesTyped
<1>2. tab' \in NotesTabs /\ (tab'.name = "t" => tab'.draft = details.t)
  BY <1>1, FreshIsTab DEF Editors!Fresh
<1>3. blind' \in BOOLEAN
  BY <1>1, SavingIsBoolean
<1>4. QED
  BY <1>1, <1>2, <1>3 DEF NotesRendered, NotesShown, NotesMounts

LEMMA Reopening ==
  ASSUME NotesTyped, Editors!Leave \/ Editors!Return
  PROVE  NotesRendered /\ NotesReopens
<1>1. PICK kind \in {"open", "visit"} :
        Editors!Send(Editors!Call(kind, Editors!NoDocument))
  BY DEF Editors!Leave, Editors!Return, Editors!Select
<1>2. /\ details' = Editors!NoDetails /\ tab' = Editors!Fresh("t", Editors!NoDetails)
      /\ UNCHANGED blind /\ opens' = opens + 1 /\ opens \in Nat /\ blind \in BOOLEAN
  BY DEF Editors!Leave, Editors!Return, Editors!Select, Editors!history, NotesTyped
<1> DEFINE c == NotesMessage(kind, Editors!NoDocument, 0, opens)
<1>3. c \in NotesCalls /\ c.kind = kind
  BY <1>2, NoDocumentIsDoc, CallsAre, MessageFields DEF Plain, NotesGets, NotesAbroad
<1>4. NotesSends(c)
  BY <1>1, <1>3, CallIs, NotesSending
<1>5. ~Editors!Loaded'
  BY <1>2 DEF Editors!Loaded, Editors!NoDetails, Editors!NoDocument
<1>6. NotesReopens
  BY <1>2, <1>3, <1>4, <1>5 DEF NotesReopens
<1>7. details' \in NotesViews /\ tab' \in NotesTabs
  BY <1>2, NoDocumentIsDoc, FreshIsTab
<1>8. QED
  BY <1>2, <1>4, <1>6, <1>7 DEF NotesRendered, NotesShown, NotesSends

LEMMA Editing ==
  ASSUME NotesTyped, Editors!Edited
  PROVE  NotesRendered /\ NotesEdits
<1>1. /\ tab \in NotesTabs /\ tab.draft \in NotesDocs /\ edits + 1 \in Nat
      /\ details \in NotesViews /\ blind \in BOOLEAN /\ calls \in Seq(NotesCalls)
  <2>1. /\ tab \in NotesTabs /\ edits \in Nat
        /\ details \in NotesViews /\ blind \in BOOLEAN /\ calls \in Seq(NotesCalls)
    BY DEF NotesTyped
  <2>2. tab.draft \in NotesDocs
    BY <2>1, TabUpdates
  <2>3. QED
    BY <2>1, <2>2
<1>2. /\ UNCHANGED <<calls, details, blind, opens>>
      /\ tab' = [tab EXCEPT !.draft.edits = tab.draft.edits \cup {edits + 1}, !.dirty = TRUE]
  BY DEF Editors!Edited, Editors!history
<1>3. tab' \in NotesTabs
  BY <1>1, <1>2, TabUpdates
<1>4. /\ tab'.name = tab.name /\ tab'.busy = tab.busy
      /\ tab'.draft.edits = tab.draft.edits \cup {edits + 1} /\ tab'.draft.own = tab.draft.own
  BY <1>1, <1>2 DEF NotesTabs, NotesDocs
<1>5. QED
  BY <1>1, <1>2, <1>3, <1>4 DEF NotesRendered, NotesShown, NotesEdits

LEMMA Resetting ==
  ASSUME NotesTyped, Editors!Reset
  PROVE  NotesRendered /\ NotesEdits
<1>1. /\ UNCHANGED <<calls, details, blind, opens>> /\ tab.name = "t" /\ ~tab.busy
      /\ tab' = Editors!Fresh("t", details)
      /\ details \in NotesViews /\ blind \in BOOLEAN /\ calls \in Seq(NotesCalls)
      /\ tab.busy \in BOOLEAN
  BY TabUpdates DEF Editors!Reset, Editors!Unsaved, Editors!history, Editors!counters, NotesTyped
<1>2. tab' \in NotesTabs
  BY <1>1, FreshIsTab
<1>3. tab'.name = tab.name /\ tab'.draft = details.t /\ tab'.busy = tab.busy
  BY <1>1 DEF Editors!Fresh
<1>4. QED
  BY <1>1, <1>2, <1>3 DEF NotesRendered, NotesShown, NotesEdits

\* What the requests have in common.
LEMMA Asking ==
  ASSUME NotesTyped, NEW c \in NotesCalls, Editors!Send(c), c.by = opens, ~tab.busy,
         tab' = [tab EXCEPT !.busy = TRUE], UNCHANGED <<details, blind, opens>>,
         \/ c.kind \in {"saveSummary", "generate"} /\ Editors!Loaded
         \/ c.kind = "elsewhere"
         \/ /\ c.kind \in NotesWrites /\ Editors!Loaded /\ tab.name = "t"
            /\ c.kind = "save" => c.doc = tab.draft
  PROVE  NotesRendered /\ \E m \in NotesCalls : NotesAsks(m)
<1>1. tab \in NotesTabs /\ details \in NotesViews /\ blind \in BOOLEAN
  BY DEF NotesTyped
<1>2. tab' \in NotesTabs
  BY <1>1, TabUpdates
<1>3. tab'.name = tab.name /\ tab'.draft = tab.draft /\ tab'.busy
  BY <1>1 DEF NotesTabs
<1>4. NotesSends(c)
  BY NotesSending
<1>5. NotesAsks(c)
  BY <1>3, <1>4 DEF NotesAsks
<1>6. QED
  BY <1>1, <1>2, <1>4, <1>5 DEF NotesRendered, NotesShown, NotesSends

LEMMA Requesting ==
  ASSUME NotesTyped,
         \/ Editors!SaveTranscript \/ Editors!ChangeSpeakers \/ Editors!SaveSummary
         \/ Editors!Generate \/ Editors!ChangeElsewhere
  PROVE  NotesRendered /\ \E m \in NotesCalls : NotesAsks(m)
<1>0. tab.draft \in NotesDocs /\ edits + 1 \in Nat /\ opens \in Nat /\ 0 \in Nat
  <2>1. tab \in NotesTabs /\ edits \in Nat /\ opens \in Nat
    BY DEF NotesTyped
  <2>2. tab.draft \in NotesDocs
    BY <2>1, TabUpdates
  <2>3. QED
    BY <2>1, <2>2
<1>1. /\ ~tab.busy /\ tab' = [tab EXCEPT !.busy = TRUE] /\ UNCHANGED <<details, blind, opens>>
  BY DEF Editors!SaveTranscript, Editors!ChangeSpeakers, Editors!SaveSummary, Editors!Generate,
         Editors!ChangeElsewhere, Editors!Unsaved, Editors!history, Editors!counters
<1>2. CASE Editors!SaveTranscript
  <2> DEFINE c == NotesMessage("save", tab.draft, 0, opens)
  <2>1. c \in NotesCalls /\ c.kind = "save" /\ c.doc = tab.draft /\ c.by = opens
    BY <1>0, CallsAre, MessageFields DEF Plain, NotesWrites
  <2>2. Editors!Send(c) /\ Editors!Loaded /\ tab.name = "t"
    BY <1>2, CallIs DEF Editors!SaveTranscript, Editors!Unsaved
  <2>3. QED
    BY <1>1, <2>1, <2>2, Asking DEF NotesWrites
<1>3. CASE Editors!ChangeSpeakers
  <2>1. edits' = edits + 1 /\ Editors!Loaded /\ tab.name = "t"
    BY <1>3 DEF Editors!ChangeSpeakers
  <2>2. CASE tab.dirty
    <3> DEFINE c == NotesMessage("save", tab.draft, edits + 1, opens)
    <3>1. c \in NotesCalls /\ c.kind = "save" /\ c.doc = tab.draft /\ c.by = opens
      BY <1>0, CallsAre, MessageFields DEF Plain, NotesWrites
    <3>2. Editors!Send(c)
      BY <1>3, <2>1, <2>2, CallIs DEF Editors!ChangeSpeakers
    <3>3. QED
      BY <1>1, <2>1, <3>1, <3>2, Asking DEF NotesWrites
  <2>3. CASE ~tab.dirty
    <3> DEFINE d == [Editors!NoDocument EXCEPT !.edits = {edits + 1}]
               c == NotesMessage("rename", d, 0, opens)
    <3>1. d \in NotesDocs
      BY <1>0, NoDocumentIsDoc
    <3>2. c \in NotesCalls /\ c.kind = "rename" /\ c.by = opens
      BY <1>0, <3>1, CallsAre, MessageFields DEF Plain, NotesWrites
    <3>3. Editors!Send(c)
      <4>1. Editors!Send(Editors!Rename(edits'))
        BY <1>3, <2>3 DEF Editors!ChangeSpeakers
      <4>2. Editors!Rename(edits') = c
        BY <2>1, CallIs DEF Editors!Rename
      <4>3. QED
        BY <4>1, <4>2
    <3> HIDE DEF c
    <3>4. QED
      BY <1>1, <2>1, <3>2, <3>3, Asking DEF NotesWrites
  <2>4. QED
    BY <2>2, <2>3
<1>4. CASE Editors!SaveSummary
  <2> DEFINE d == [tab.draft EXCEPT !.byHand = TRUE]
             c == NotesMessage("saveSummary", d, 0, opens)
  <2>1. d \in NotesDocs /\ d.byHand
    BY <1>0, DocsUpdates
  <2> HIDE DEF d
  <2>2. c \in NotesCalls /\ c.kind = "saveSummary" /\ c.by = opens
    BY <1>0, <2>1, CallsAre, MessageFields
  <2>3. Editors!Send(c) /\ Editors!Loaded
    BY <1>4, CallIs DEF Editors!SaveSummary, Editors!Unsaved, d
  <2>4. QED
    BY <1>1, <2>2, <2>3, Asking
<1>5. CASE Editors!Generate
  <2> DEFINE c == NotesMessage("generate", Editors!NoDocument, 0, opens)
  <2>1. c \in NotesCalls /\ c.kind = "generate" /\ c.by = opens
    BY <1>0, NoDocumentIsDoc, CallsAre, MessageFields DEF Plain
  <2>2. Editors!Send(c) /\ Editors!Loaded
    BY <1>5, CallIs DEF Editors!Generate
  <2>3. QED
    BY <1>1, <2>1, <2>2, Asking
<1>6. CASE Editors!ChangeElsewhere
  <2> DEFINE c == NotesMessage("elsewhere", Editors!NoDocument, edits + 1, opens)
  <2>1. c \in NotesCalls /\ c.kind = "elsewhere" /\ c.by = opens
    BY <1>0, NoDocumentIsDoc, CallsAre, MessageFields DEF Plain, NotesAbroad
  <2>2. Editors!Send(c)
    BY <1>6, CallIs DEF Editors!ChangeElsewhere
  <2>3. QED
    BY <1>1, <2>1, <2>2, Asking
<1>7. QED
  BY <1>2, <1>3, <1>4, <1>5, <1>6

LEMMA Retrying ==
  ASSUME NotesTyped, Editors!Retry
  PROVE  NotesRendered /\ NotesRetries
<1>1. /\ UNCHANGED <<details, tab, blind, opens>> /\ opens \in Nat /\ NotesShown /\ Editors!Loaded
      /\ Editors!Send(NotesMessage("retry", Editors!NoDocument, 0, opens))
  BY NotesParts, CallIs DEF Editors!Retry, Editors!history, NotesTyped
<1> DEFINE c == NotesMessage("retry", Editors!NoDocument, 0, opens)
<1>2. c \in NotesCalls /\ c.kind = "retry"
  BY <1>1, NoDocumentIsDoc, CallsAre, MessageFields DEF Plain
<1>3. NotesSends(c)
  BY <1>1, <1>2, NotesSending
<1>4. QED
  BY <1>1, <1>2, <1>3 DEF NotesRendered, NotesShown, NotesRetries, NotesSends

LEMMA Rendering == ASSUME NotesTyped, Editors!Renderer PROVE NotesTyped' /\ NotesRenders
<1>1. /\ UNCHANGED <<transcript, summary, summaryJob, waiting, inbox, saved>>
      /\ NotesStored' /\ NotesCounted' /\ inbox' \in Seq(NotesReplies)
  <2>1. UNCHANGED <<transcript, summary, summaryJob, waiting, inbox, saved>> /\ NotesCounted'
    BY RendererStores, RendererCounts, NotesParts
  <2>2. QED
    BY <2>1 DEF NotesTyped, NotesStored
<1>2. /\ NotesRendered
      /\ \/ NotesEdits \/ NotesMounts \/ NotesReopens \/ NotesRetries
         \/ \E c \in NotesCalls : NotesAsks(c)
  BY Mounting, Reopening, Editing, Resetting, Requesting, Retrying
  DEF Editors!Renderer, Editors!EditTranscript, Editors!EditSummary
<1>3. NotesTyped'
  BY <1>1, <1>2 DEF NotesTyped, NotesRendered, NotesStored, NotesShown, NotesCounted
<1>4. QED
  BY <1>1, <1>2, <1>3 DEF NotesRenders

\* A transcript is written: the reply brings it.
NotesWrote(m) ==
  /\ NotesHandles(Head(calls)) /\ NotesAnswers(m)
  /\ Head(calls).kind \in NotesWrites /\ m.kind \in NotesWrites
  /\ m.by = Head(calls).by /\ m.doc = transcript'
  /\ \/ /\ Head(calls).kind = "save" /\ Head(calls).doc.own
        /\ transcript'.edits = Head(calls).doc.edits
     \/ transcript'.edits = transcript.edits \cup Head(calls).doc.edits
  /\ saved' = saved \cup transcript'.edits
  /\ UNCHANGED <<summary, summaryJob, details, tab, blind, opens>>

\* Another request is answered, or is refused.
NotesAnswered(m) ==
  /\ NotesHandles(Head(calls)) /\ NotesAnswers(m) /\ m.by = Head(calls).by
  /\ UNCHANGED <<transcript, summaryJob, details, tab, saved, blind, opens>>
  /\ \/ m.kind = "saveSummary" /\ Head(calls).kind = m.kind /\ m.doc = summary' /\ summary'.byHand
     \/ /\ UNCHANGED summary
        /\ \/ m.kind \in NotesAbroad \cup {"generate"} /\ Head(calls).kind = m.kind
           \/ m.kind = "refused" /\ Head(calls).kind \in NotesAsked
           \/ m.kind \in NotesGets /\ Head(calls).kind = m.kind /\ m.doc = Editors!Stored

\* A job is queued, begins, perhaps with another transcript, and ends.
NotesRequeues ==
  /\ NotesHandles(Head(calls)) /\ Head(calls).kind = "retry"
  /\ UNCHANGED <<transcript, summary, summaryJob, inbox, details, tab, saved, blind, opens>>
NotesBegins ==
  /\ summaryJob'.pc = "running"
  /\ UNCHANGED <<summary, calls, inbox, details, tab, blind, opens>>
  /\ UNCHANGED <<transcript, saved>> \/ saved' = {}
NotesEnds(m) ==
  /\ m.kind = "ended" /\ NotesAnswers(m)
  /\ UNCHANGED <<transcript, calls, details, tab, saved, blind, opens>>

LEMMA WritingIsAnswered ==
  ASSUME NotesTyped, Editors!HandleSave \/ Editors!HandleRename
  PROVE  NotesTyped' /\ \E m \in NotesReplies : NotesWrote(m)
<1> DEFINE c == Head(calls)
<1>0. /\ transcript \in NotesDocs /\ transcript.rev + 1 \in Nat /\ saved \subseteq Nat
  BY DocNumbers DEF NotesTyped
<1>1. NotesHandles(c) /\ c.kind \in NotesWrites
  BY NotesHandling DEF Editors!HandleSave, Editors!HandleRename, Editors!Handled, NotesWrites
<1>2. c \in NotesCalls /\ c.doc \in NotesDocs /\ c.next \in Nat /\ c.by \in Nat
  BY <1>1, CallFields DEF NotesHandles
<1>3. /\ UNCHANGED <<summary, summaryJob, waiting, selected, details, tab, blind, edits, jobs, opens>>
      /\ inbox' = Append(inbox, [c EXCEPT !.doc = transcript'])
  BY DEF Editors!HandleSave, Editors!HandleRename, Editors!counters, Editors!pipeline,
         Editors!Reply
<1>4. PICK d \in NotesDocs :
        /\ transcript' = [d EXCEPT !.rev = transcript.rev + 1] /\ saved' = saved \cup d.edits
        /\ \/ c.kind = "save" /\ c.doc.own /\ d.edits = c.doc.edits
           \/ d.edits = transcript.edits \cup c.doc.edits
  <2>1. CASE Editors!HandleSave
    BY <1>2, <2>1 DEF Editors!HandleSave, Editors!Persist, Editors!Handled
  <2>2. CASE Editors!HandleRename
    <3> DEFINE d == [transcript EXCEPT !.edits = transcript.edits \cup c.doc.edits]
    <3>1. d \in NotesDocs /\ d.edits = transcript.edits \cup c.doc.edits
      BY <1>0, <1>2 DEF NotesDocs
    <3>2. transcript' = [d EXCEPT !.rev = transcript.rev + 1] /\ saved' = saved \cup d.edits
      BY <2>2 DEF Editors!HandleRename, Editors!Persist
    <3>3. QED
      BY <3>1, <3>2
  <2>3. QED
    BY <2>1, <2>2
<1>5. transcript' \in NotesDocs /\ transcript'.edits = d.edits
  BY <1>0, <1>4, WrittenDoc
<1>6. saved' \subseteq Nat
  BY <1>0, <1>4 DEF NotesDocs
<1> DEFINE m == NotesMessage(c.kind, transcript', c.next, c.by)
<1>7. m \in NotesReplies /\ m.kind = c.kind /\ m.doc = transcript' /\ m.by = c.by
  BY <1>1, <1>2, <1>5, RepliesAre, MessageFields, SMTT(30)
<1>8. NotesAnswers(m)
  BY <1>2, <1>3, <1>7, CallFields, NotesAnswering
<1>9. NotesWrote(m)
  BY <1>1, <1>3, <1>4, <1>5, <1>7, <1>8 DEF NotesWrote
<1>10. NotesTyped'
  BY <1>1, <1>3, <1>5, <1>6, <1>8 DEF NotesTyped, NotesHandles, NotesAnswers
<1>11. QED
  BY <1>7, <1>9, <1>10

LEMMA CallIsAnswered ==
  ASSUME NotesTyped,
         \/ Editors!HandleSaveSummary \/ Editors!HandleGenerate \/ Editors!Refuse
         \/ Editors!HandleGet \/ Editors!HandleElsewhere
  PROVE  NotesTyped' /\ \E m \in NotesReplies : NotesAnswered(m)
<1> DEFINE c == Head(calls)
<1>0. /\ transcript \in NotesDocs /\ summary \in NotesDocs /\ summary.rev + 1 \in Nat
      /\ opens \in Nat /\ waiting \in Seq({"summary", "full"}) /\ 0 \in Nat
  BY DocNumbers DEF NotesTyped
<1>1. NotesHandles(c)
  BY NotesHandling
  DEF Editors!HandleSaveSummary, Editors!HandleGenerate, Editors!Refuse, Editors!HandleGet,
      Editors!HandleElsewhere, Editors!Handled
<1>2. /\ c \in NotesCalls /\ c.doc \in NotesDocs /\ c.next \in Nat /\ c.by \in Nat
      /\ c.kind = "saveSummary" => c.doc.byHand
      /\ \A d : [c EXCEPT !.doc = d] = NotesMessage(c.kind, d, c.next, c.by)
  BY <1>1, CallFields DEF NotesHandles
<1>3. UNCHANGED <<transcript, summaryJob, selected, details, tab, saved, blind, edits, jobs, opens>>
  BY DEF Editors!HandleSaveSummary, Editors!HandleGenerate, Editors!Refuse, Editors!HandleGet,
         Editors!HandleElsewhere, Editors!database, Editors!pipeline, Editors!history,
         Editors!counters
<1>4. ASSUME NEW m \in NotesReplies, inbox' = Append(inbox, m), m.by = c.by,
             summary' \in NotesDocs, waiting' \in Seq({"summary", "full"}),
             \/ m.kind = "saveSummary" /\ c.kind = m.kind /\ m.doc = summary' /\ summary'.byHand
             \/ /\ UNCHANGED summary
                /\ \/ m.kind \in NotesAbroad \cup {"generate"} /\ c.kind = m.kind
                   \/ m.kind = "refused" /\ c.kind \in NotesAsked
                   \/ m.kind \in NotesGets /\ c.kind = m.kind /\ m.doc = Editors!Stored
      PROVE  NotesTyped' /\ NotesAnswered(m)
  <2>1. NotesAnswers(m)
    BY <1>4, NotesAnswering
  <2>2. NotesAnswered(m)
    BY <1>1, <1>3, <1>4, <2>1 DEF NotesAnswered
  <2>3. NotesTyped'
    BY <1>1, <1>3, <1>4, <2>1 DEF NotesTyped, NotesHandles, NotesAnswers
  <2>4. QED
    BY <2>2, <2>3
<1>5. CASE Editors!HandleSaveSummary
  <2>1. /\ c.kind = "saveSummary" /\ UNCHANGED waiting
        /\ summary' = [c.doc EXCEPT !.rev = summary.rev + 1]
        /\ inbox' = Append(inbox, [c EXCEPT !.doc = summary'])
    BY <1>5 DEF Editors!HandleSaveSummary, Editors!Handled, Editors!PersistSummary,
                Editors!pipeline, Editors!Reply
  <2>2. summary' \in NotesDocs /\ summary'.byHand
    BY <1>0, <1>2, <2>1, WrittenDoc
  <2> DEFINE m == NotesMessage("saveSummary", summary', c.next, c.by)
  <2>3. m \in NotesReplies /\ m.kind = "saveSummary" /\ m.doc = summary' /\ m.by = c.by
    BY <1>2, <2>2, RepliesAre, MessageFields
  <2>4. inbox' = Append(inbox, m)
    BY <1>2, <2>1
  <2>5. QED
    BY <1>0, <1>4, <2>1, <2>2, <2>3, <2>4
<1>6. CASE Editors!HandleGenerate
  <2>1. /\ c.kind = "generate" /\ UNCHANGED summary /\ waiting' = Append(waiting, "summary")
        /\ inbox' = Append(inbox, [c EXCEPT !.doc = Editors!NoDocument])
    BY <1>6 DEF Editors!HandleGenerate, Editors!Handled, Editors!database, Editors!Reply
  <2>2. waiting' \in Seq({"summary", "full"})
    BY <1>0, <2>1
  <2> DEFINE m == NotesMessage("generate", Editors!NoDocument, c.next, c.by)
  <2>3. m \in NotesReplies /\ m.kind = "generate" /\ m.by = c.by
    BY <1>2, NoDocumentIsDoc, RepliesAre, MessageFields
  <2>4. inbox' = Append(inbox, m)
    BY <1>2, <2>1
  <2>5. QED
    BY <1>0, <1>4, <2>1, <2>2, <2>3, <2>4
<1>7. CASE Editors!Refuse
  <2>1. /\ c.kind \in NotesAsked /\ UNCHANGED <<summary, waiting>>
        /\ inbox' = Append(inbox, [Editors!Call("refused", Editors!NoDocument) EXCEPT !.by = c.by])
    BY <1>7 DEF Editors!Refuse, Editors!Handled, Editors!database, Editors!pipeline, NotesAsked
  <2> DEFINE m == NotesMessage("refused", Editors!NoDocument, 0, c.by)
  <2>2. m \in NotesReplies /\ m.kind = "refused" /\ m.by = c.by
    <3>1. \A d \in NotesDocs : NotesMessage("refused", d, 0, c.by) \in NotesReplies
      BY <1>2, RepliesAre
    <3>2. QED
      BY <3>1, NoDocumentIsDoc, MessageFields
  <2>3. inbox' = Append(inbox, m)
    BY <2>1, CallIs
  <2>4. QED
    BY <1>0, <1>4, <2>1, <2>2, <2>3
<1>8. CASE Editors!HandleGet
  <2>1. /\ c.kind \in NotesGets /\ UNCHANGED <<summary, waiting>>
        /\ inbox' = Append(inbox, [c EXCEPT !.doc = Editors!Stored])
    BY <1>8 DEF Editors!HandleGet, Editors!Handled, Editors!database, Editors!pipeline,
                Editors!Reply, NotesGets
  <2>2. Editors!Stored \in NotesViews
    BY <1>0 DEF NotesViews, Editors!Stored
  <2> DEFINE m == NotesMessage(c.kind, Editors!Stored, c.next, c.by)
  <2>3. /\ m \in NotesReplies /\ m.kind = c.kind /\ m.doc = Editors!Stored /\ m.by = c.by
        /\ inbox' = Append(inbox, m)
    BY <1>2, <2>1, <2>2, RepliesAre, MessageFields
  <2>4. QED
    BY <1>0, <1>4, <2>1, <2>3
<1>9. CASE Editors!HandleElsewhere
  <2>1. /\ c.kind \in NotesAbroad /\ UNCHANGED <<summary, waiting>>
        /\ inbox' = Append(inbox, [c EXCEPT !.doc = Editors!Foreign])
    BY <1>9 DEF Editors!HandleElsewhere, Editors!Handled, Editors!database, Editors!pipeline,
                Editors!Reply, NotesAbroad
  <2> DEFINE m == NotesMessage(c.kind, Editors!Foreign, c.next, c.by)
  <2>2. /\ m \in NotesReplies /\ m.kind = c.kind /\ m.by = c.by /\ inbox' = Append(inbox, m)
    BY <1>2, <2>1, ForeignIsDoc, RepliesAre, MessageFields
  <2>3. QED
    BY <1>0, <1>4, <2>1, <2>2
<1>10. QED
  BY <1>5, <1>6, <1>7, <1>8, <1>9

LEMMA JobMoves ==
  ASSUME NotesTyped,
         Editors!HandleRetry \/ Editors!JobReads \/ Editors!JobTranscribes \/ Editors!JobEnds
  PROVE  NotesTyped' /\ (NotesRequeues \/ NotesBegins \/ \E m \in NotesReplies : NotesEnds(m))
<1>0. /\ transcript \in NotesDocs /\ transcript.rev \in Nat /\ transcript.rev + 1 \in Nat
      /\ summary \in NotesDocs /\ summary.rev + 1 \in Nat
      /\ summaryJob.from \in Nat /\ opens \in Nat
      /\ waiting \in Seq({"summary", "full"}) /\ saved \subseteq Nat
  BY DocNumbers DEF NotesTyped, NotesJobs
<1>1. CASE Editors!HandleRetry
  <2>1. /\ calls # <<>> /\ calls' = Tail(calls) /\ Head(calls).kind = "retry"
        /\ waiting' = Append(waiting, "full")
        /\ UNCHANGED <<transcript, summary, summaryJob, inbox, selected, details, tab, saved,
                       blind, edits, jobs, opens>>
    BY <1>1 DEF Editors!HandleRetry, Editors!Handled, Editors!database, Editors!history,
                Editors!counters
  <2>2. NotesHandles(Head(calls)) /\ waiting' \in Seq({"summary", "full"})
    BY <1>0, <2>1, NotesHandling
  <2>3. QED
    BY <2>1, <2>2 DEF NotesRequeues, NotesTyped, NotesHandles
<1>2. CASE Editors!JobReads
  <2>1. /\ waiting # <<>> /\ waiting' = Tail(waiting)
        /\ summaryJob' = [pc |-> "running", from |-> transcript.rev]
        /\ UNCHANGED <<transcript, summary, calls, inbox, selected, details, tab, saved, blind,
                       edits, jobs, opens>>
    BY <1>2 DEF Editors!JobReads, Editors!Begins, Editors!database, Editors!history,
                Editors!counters
  <2>2. /\ summaryJob' \in NotesJobs /\ summaryJob'.pc = "running"
        /\ waiting' \in Seq({"summary", "full"})
    BY <1>0, <2>1 DEF NotesJobs
  <2>3. QED
    BY <2>1, <2>2 DEF NotesBegins, NotesTyped
<1>3. CASE Editors!JobTranscribes
  <2>1. /\ waiting # <<>> /\ waiting' = Tail(waiting)
        /\ transcript' = [Editors!NoDocument EXCEPT !.rev = transcript.rev + 1]
        /\ summaryJob' = [pc |-> "running", from |-> transcript'.rev] /\ saved' = {}
        /\ UNCHANGED <<summary, calls, inbox, selected, details, tab, blind, edits, jobs, opens>>
    BY <1>3 DEF Editors!JobTranscribes, Editors!Begins, Editors!counters
  <2>2. transcript' \in NotesDocs
    BY <1>0, <2>1, NoDocumentIsDoc
  <2>3. transcript'.rev \in Nat
    BY <2>2, DocNumbers
  <2>4. /\ summaryJob' \in NotesJobs /\ summaryJob'.pc = "running"
        /\ waiting' \in Seq({"summary", "full"})
    BY <1>0, <2>1, <2>3 DEF NotesJobs
  <2>5. QED
    BY <2>1, <2>2, <2>4 DEF NotesBegins, NotesTyped
<1>4. CASE Editors!JobEnds
  <2> DEFINE made == [Editors!NoDocument EXCEPT !.from = summaryJob.from]
             m == NotesMessage("ended", Editors!NoDocument, 0, opens)
  <2>1. /\ summaryJob' = [pc |-> "none", from |-> 0]
        /\ summary' = [made EXCEPT !.rev = summary.rev + 1] \/ UNCHANGED summary
        /\ UNCHANGED <<transcript, waiting, calls, selected, details, tab, saved, blind, edits,
                       jobs, opens>>
        /\ inbox' = Append(inbox, Editors!Call("ended", Editors!NoDocument))
    BY <1>4 DEF Editors!JobEnds, Editors!Idle, Editors!PersistSummary, Editors!history,
                Editors!counters
  <2>2. made \in NotesDocs
    BY <1>0, NoDocumentIsDoc
  <2> HIDE DEF made
  <2>3. summary' \in NotesDocs
    BY <1>0, <2>1, <2>2, WrittenDoc
  <2>4. m \in NotesReplies /\ m.kind = "ended"
    <3>1. \A d \in NotesDocs : NotesMessage("ended", d, 0, opens) \in NotesReplies
      BY <1>0, RepliesAre
    <3>2. QED
      BY <3>1, NoDocumentIsDoc, MessageFields
  <2>5. NotesAnswers(m)
    BY <2>1, <2>4, CallIs, NotesAnswering
  <2>6. NotesEnds(m)
    BY <2>1, <2>4, <2>5 DEF NotesEnds
  <2>7. summaryJob' \in NotesJobs
    BY <2>1 DEF NotesJobs
  <2>8. NotesTyped'
    BY <2>1, <2>3, <2>5, <2>7 DEF NotesTyped, NotesAnswers
  <2>9. QED
    BY <2>4, <2>6, <2>8
<1>5. QED
  BY <1>1, <1>2, <1>3, <1>4

\* A reply or event has arrived and is shown.
NotesMoves(m) ==
  NotesArrives(m) /\ UNCHANGED <<transcript, summary, summaryJob, saved, opens>>
NotesBusy(m) == tab'.name = tab.name /\ tab'.busy = Editors!Busy(m)
NotesRenames == NotesWrites \cup {"elsewhere"}

NotesShowsWrite(m) ==
  /\ NotesMoves(m) /\ m.kind \in NotesRenames /\ UNCHANGED blind /\ NotesBusy(m)
  /\ details' = IF Editors!Loaded THEN [details EXCEPT !.t = m.doc, !.stale = TRUE] ELSE details
  /\ tab'.draft = IF Editors!Loaded /\ tab.name = "t" THEN m.doc ELSE tab.draft
  /\ IF m.next = 0 THEN UNCHANGED calls
     ELSE \E c \in NotesCalls :
            /\ NotesSends(c) /\ c.by = m.by
            /\ \/ m.kind \in NotesWrites /\ c.kind = "rename"
               \/ m.kind = "elsewhere" /\ c.kind = "elsewhere"
NotesShowsSummary(m) ==
  /\ NotesMoves(m) /\ m.kind = "saveSummary" /\ UNCHANGED <<blind, calls>> /\ NotesBusy(m)
  /\ details' = IF Editors!Loaded THEN [details EXCEPT !.s = m.doc, !.stale = FALSE] ELSE details
  /\ tab.name = "t" => tab'.draft = tab.draft
NotesShowsNothing(m) ==
  /\ NotesMoves(m) /\ UNCHANGED <<blind, calls, details>> /\ tab'.draft = tab.draft
  /\ \/ m.kind \in {"generate", "refused"} /\ NotesBusy(m)
     \/ m.kind = "visit" /\ UNCHANGED tab
NotesEnded(m) ==
  /\ NotesMoves(m) /\ m.kind = "ended" /\ UNCHANGED <<blind, details, tab>>
  /\ \E c \in NotesCalls : c.kind = "refresh" /\ NotesSends(c)
NotesFetched(m) ==
  /\ tab'.name = tab.name /\ tab'.busy = tab.busy
  /\ details' = m.doc /\ (tab.name = "t" => tab'.draft = m.doc.t)
NotesRefreshes(m) ==
  /\ NotesMoves(m) /\ m.kind = "refresh" /\ UNCHANGED <<blind, calls>>
  /\ IF Editors!Loaded THEN NotesFetched(m) ELSE UNCHANGED <<details, tab>>
NotesOpens(m) ==
  /\ NotesMoves(m) /\ m.kind = "open" /\ UNCHANGED calls /\ inbox' = Tail(inbox)
  /\ blind' = (blind \/ Editors!Saving)
  /\ \/ UNCHANGED <<details, tab>>
     \/ /\ ~Editors!Loaded /\ "open" \notin Editors!Kinds(calls \o Tail(inbox))
        /\ NotesFetched(m)

NotesShows(m) ==
  \/ NotesShowsWrite(m) \/ NotesShowsSummary(m) \/ NotesShowsNothing(m) \/ NotesEnded(m)
  \/ NotesRefreshes(m) \/ NotesOpens(m)

\* What no arrival changes.
LEMMA ArrivalsKeep ==
  ASSUME NotesTyped, Editors!Arrive
  PROVE  /\ NotesMoves(Head(inbox)) /\ Head(inbox) \in NotesReplies /\ inbox' = Tail(inbox)
         /\ UNCHANGED <<waiting, edits, jobs>> /\ selected' \in {"this", "opening", "other"}
<1>1. inbox # <<>> /\ inbox' = Tail(inbox)
  BY DEF Editors!Arrive, Editors!TranscriptSaved, Editors!SummarySaved, Editors!Answered,
         Editors!JobEnded, Editors!Refreshed, Editors!Opened, Editors!Visited, Editors!Arrives
<1>2. UNCHANGED <<transcript, summary, summaryJob, waiting, saved, edits, jobs, opens>>
  BY DEF Editors!Arrive, Editors!TranscriptSaved, Editors!SummarySaved, Editors!Answered,
         Editors!JobEnded, Editors!Refreshed, Editors!Opened, Editors!Visited,
         Editors!database, Editors!pipeline, Editors!history, Editors!counters
<1>3. selected' \in {"this", "opening", "other"}
  BY DEF Editors!Arrive, Editors!TranscriptSaved, Editors!SummarySaved, Editors!Answered,
         Editors!JobEnded, Editors!Refreshed, Editors!Opened, Editors!Visited, NotesTyped
<1>4. NotesArrives(Head(inbox))
  BY <1>1, NotesArriving
<1>5. QED
  BY <1>1, <1>2, <1>3, <1>4 DEF NotesMoves, NotesArrives

\* The draft and whether the editor is busy.
LEMMA Busying ==
  ASSUME NotesTyped, NEW m, NEW d \in NotesDocs
  PROVE  /\ Editors!Busy(m) \in BOOLEAN
         /\ tab' = [tab EXCEPT !.busy = Editors!Busy(m)] =>
              tab' \in NotesTabs /\ NotesBusy(m) /\ tab'.draft = tab.draft
         /\ tab' = [tab EXCEPT !.draft = d, !.dirty = FALSE, !.busy = Editors!Busy(m)] =>
              tab' \in NotesTabs /\ NotesBusy(m) /\ tab'.draft = d
<1>1. tab \in NotesTabs
  BY DEF NotesTyped
<1>2. Editors!Busy(m) \in BOOLEAN
  BY <1>1, TabUpdates DEF Editors!Busy
<1>3. ASSUME tab' = [tab EXCEPT !.busy = Editors!Busy(m)]
      PROVE  tab' \in NotesTabs /\ NotesBusy(m) /\ tab'.draft = tab.draft
  <2>1. tab' \in NotesTabs
    BY <1>1, <1>2, <1>3, TabUpdates
  <2>2. tab'.name = tab.name /\ tab'.busy = Editors!Busy(m) /\ tab'.draft = tab.draft
    BY <1>1, <1>3 DEF NotesTabs
  <2>3. QED
    BY <2>1, <2>2 DEF NotesBusy
<1>4. ASSUME tab' = [tab EXCEPT !.draft = d, !.dirty = FALSE, !.busy = Editors!Busy(m)]
      PROVE  tab' \in NotesTabs /\ NotesBusy(m) /\ tab'.draft = d
  <2>1. tab' \in NotesTabs
    BY <1>1, <1>2, <1>4, TabUpdates
  <2>2. tab'.name = tab.name /\ tab'.busy = Editors!Busy(m) /\ tab'.draft = d
    BY <1>1, <1>4 DEF NotesTabs
  <2>3. QED
    BY <2>1, <2>2 DEF NotesBusy
<1>5. QED
  BY <1>2, <1>3, <1>4

LEMMA WriteIsShown ==
  ASSUME NotesTyped, Editors!TranscriptSaved
  PROVE  NotesShowsWrite(Head(inbox)) /\ NotesRendered
<1> DEFINE m == Head(inbox)
<1>1. NotesMoves(m) /\ m \in NotesReplies
  BY ArrivalsKeep DEF Editors!Arrive
<1>2. m.kind \in NotesRenames
  BY DEF Editors!TranscriptSaved, Editors!Arrives, Editors!Renames, NotesRenames, NotesWrites
<1>3. m.doc \in NotesDocs /\ m.next \in Nat /\ m.by \in Nat
  BY <1>1, <1>2, ReplyFields DEF NotesRenames, NotesGets, NotesWrites
<1>4. /\ details' = IF Editors!Loaded THEN [details EXCEPT !.t = m.doc, !.stale = TRUE]
                                      ELSE details
      /\ UNCHANGED blind /\ blind \in BOOLEAN /\ details \in NotesViews
      /\ calls \in Seq(NotesCalls)
  BY DEF Editors!TranscriptSaved, Editors!history, NotesTyped
<1>5. details' \in NotesViews
  BY <1>3, <1>4, ViewUpdates
<1>6. /\ tab' \in NotesTabs /\ NotesBusy(m)
      /\ tab'.draft = IF Editors!Loaded /\ tab.name = "t" THEN m.doc ELSE tab.draft
  <2>1. tab' = IF Editors!Loaded /\ tab.name = "t"
               THEN [tab EXCEPT !.draft = m.doc, !.dirty = FALSE, !.busy = Editors!Busy(m)]
               ELSE [tab EXCEPT !.busy = Editors!Busy(m)]
    BY DEF Editors!TranscriptSaved, Editors!Receives
  <2>2. CASE Editors!Loaded /\ tab.name = "t"
    <3>1. tab' = [tab EXCEPT !.draft = m.doc, !.dirty = FALSE, !.busy = Editors!Busy(m)]
      BY <2>1, <2>2
    <3>2. QED
      BY <1>3, <2>2, <3>1, Busying
  <2>3. CASE ~(Editors!Loaded /\ tab.name = "t")
    <3>1. tab' = [tab EXCEPT !.busy = Editors!Busy(m)]
      BY <2>1, <2>3
    <3>2. QED
      BY <1>3, <2>3, <3>1, Busying
  <2>4. QED
    BY <2>2, <2>3
<1>7. IF m.next = 0 THEN UNCHANGED calls
      ELSE \E c \in NotesCalls :
             /\ NotesSends(c) /\ c.by = m.by
             /\ \/ m.kind \in NotesWrites /\ c.kind = "rename"
                \/ m.kind = "elsewhere" /\ c.kind = "elsewhere"
  <2>1. CASE m.next = 0
    BY <2>1 DEF Editors!TranscriptSaved, Editors!Continues
  <2>2. CASE m.next # 0 /\ m.kind = "elsewhere"
    <3> DEFINE c == NotesMessage("elsewhere", Editors!NoDocument, 0, m.by)
    <3>1. Editors!Send([Editors!Call("elsewhere", Editors!NoDocument) EXCEPT !.by = m.by])
      BY <2>2 DEF Editors!TranscriptSaved, Editors!Continues
    <3>2. Editors!Send(c)
      BY <3>1, CallIs
    <3>3. c \in NotesCalls /\ c.kind = "elsewhere" /\ c.by = m.by
      <4>1. \A d \in NotesDocs : NotesMessage("elsewhere", d, 0, m.by) \in NotesCalls
        BY <1>3, CallsAre DEF Plain, NotesAbroad
      <4>2. QED
        BY <4>1, NoDocumentIsDoc, MessageFields
    <3>4. QED
      BY <2>2, <3>2, <3>3, NotesSending
  <2>3. CASE m.next # 0 /\ m.kind # "elsewhere"
    <3> DEFINE d == [Editors!NoDocument EXCEPT !.edits = {m.next}]
               c == NotesMessage("rename", d, 0, m.by)
    <3>1. Editors!Send([Editors!Rename(m.next) EXCEPT !.by = m.by])
      BY <2>3 DEF Editors!TranscriptSaved, Editors!Continues
    <3>2. Editors!Send(c)
      <4>1. Editors!Rename(m.next) = Editors!Call("rename", d)
        BY DEF Editors!Rename
      <4> HIDE DEF d
      <4>2. [Editors!Call("rename", d) EXCEPT !.by = m.by] = c
        BY CallIs
      <4>3. QED
        BY <3>1, <4>1, <4>2
    <3>3. d \in NotesDocs
      BY <1>3, NoDocumentIsDoc
    <3> HIDE DEF d
    <3>4. c \in NotesCalls /\ c.kind = "rename" /\ c.by = m.by
      <4>1. NotesMessage("rename", d, 0, m.by) \in NotesCalls
        BY <1>3, <3>3, CallsAre DEF Plain, NotesWrites
      <4>2. QED
        BY <4>1, MessageFields
    <3>5. QED
      BY <1>2, <2>3, <3>2, <3>4, NotesSending DEF NotesRenames
  <2>4. QED
    BY <2>1, <2>2, <2>3
<1>8. calls' \in Seq(NotesCalls)
  BY <1>4, <1>7 DEF NotesSends
<1>9. QED
  BY <1>1, <1>2, <1>4, <1>5, <1>6, <1>7, <1>8 DEF NotesShowsWrite, NotesRendered, NotesShown

LEMMA SummaryIsShown ==
  ASSUME NotesTyped, Editors!SummarySaved
  PROVE  NotesShowsSummary(Head(inbox)) /\ NotesRendered
<1> DEFINE m == Head(inbox)
<1>1. NotesMoves(m) /\ m \in NotesReplies
  BY ArrivalsKeep DEF Editors!Arrive
<1>2. m.kind = "saveSummary"
  BY DEF Editors!SummarySaved, Editors!Arrives
<1>3. m.doc \in NotesDocs
  BY <1>1, <1>2, ReplyFields DEF NotesGets
<1>4. /\ details' = IF Editors!Loaded THEN [details EXCEPT !.s = m.doc, !.stale = FALSE]
                                      ELSE details
      /\ UNCHANGED <<blind, calls>> /\ blind \in BOOLEAN /\ details \in NotesViews
      /\ calls \in Seq(NotesCalls)
  BY DEF Editors!SummarySaved, Editors!history, NotesTyped
<1>5. details' \in NotesViews
  BY <1>3, <1>4, ViewUpdates
<1>6. tab' \in NotesTabs /\ NotesBusy(m) /\ (tab.name = "t" => tab'.draft = tab.draft)
  <2>1. tab' = IF Editors!Loaded /\ tab.name = "s"
               THEN [tab EXCEPT !.draft = m.doc, !.dirty = FALSE, !.busy = Editors!Busy(m)]
               ELSE [tab EXCEPT !.busy = Editors!Busy(m)]
    BY DEF Editors!SummarySaved, Editors!Receives
  <2>2. CASE Editors!Loaded /\ tab.name = "s"
    <3>1. tab' = [tab EXCEPT !.draft = m.doc, !.dirty = FALSE, !.busy = Editors!Busy(m)]
      BY <2>1, <2>2
    <3>2. QED
      BY <1>3, <2>2, <3>1, Busying
  <2>3. CASE ~(Editors!Loaded /\ tab.name = "s")
    <3>1. tab' = [tab EXCEPT !.busy = Editors!Busy(m)]
      BY <2>1, <2>3
    <3>2. QED
      BY <1>3, <2>3, <3>1, Busying
  <2>4. QED
    BY <2>2, <2>3
<1>7. QED
  BY <1>1, <1>2, <1>4, <1>5, <1>6 DEF NotesShowsSummary, NotesRendered, NotesShown

LEMMA NothingIsShown ==
  ASSUME NotesTyped, Editors!Answered \/ Editors!Visited \/ Editors!JobEnded
  PROVE  (NotesShowsNothing(Head(inbox)) \/ NotesEnded(Head(inbox))) /\ NotesRendered
<1> DEFINE m == Head(inbox)
<1>1. NotesMoves(m) /\ m \in NotesReplies
  BY ArrivalsKeep DEF Editors!Arrive
<1>2. UNCHANGED <<details, blind>> /\ blind \in BOOLEAN /\ details \in NotesViews
      /\ calls \in Seq(NotesCalls) /\ tab \in NotesTabs /\ opens \in Nat
  BY DEF Editors!Answered, Editors!Visited, Editors!JobEnded, Editors!history, NotesTyped
<1>3. CASE Editors!Answered
  <2>1. /\ m.kind \in {"generate", "refused"} /\ UNCHANGED calls
        /\ tab' = [tab EXCEPT !.busy = Editors!Busy(m)]
    BY <1>3 DEF Editors!Answered, Editors!Arrives
  <2>2. tab' \in NotesTabs /\ NotesBusy(m) /\ tab'.draft = tab.draft
    BY <2>1, NoDocumentIsDoc, Busying
  <2>3. QED
    BY <1>1, <1>2, <2>1, <2>2 DEF NotesShowsNothing, NotesRendered, NotesShown
<1>4. CASE Editors!Visited
  <2>1. m.kind = "visit" /\ UNCHANGED <<calls, tab>>
    BY <1>4 DEF Editors!Visited, Editors!Arrives
  <2>2. QED
    BY <1>1, <1>2, <2>1 DEF NotesShowsNothing, NotesRendered, NotesShown
<1>5. CASE Editors!JobEnded
  <2> DEFINE c == NotesMessage("refresh", Editors!NoDocument, 0, opens)
  <2>1. m.kind = "ended" /\ UNCHANGED tab /\ Editors!Send(c)
    BY <1>5, CallIs DEF Editors!JobEnded, Editors!Arrives
  <2>2. c \in NotesCalls /\ c.kind = "refresh"
    <3>1. \A d \in NotesDocs : NotesMessage("refresh", d, 0, opens) \in NotesCalls
      BY <1>2, CallsAre DEF Plain, NotesGets
    <3>2. QED
      BY <3>1, NoDocumentIsDoc, MessageFields
  <2>3. NotesSends(c)
    BY <2>1, <2>2, NotesSending
  <2>4. QED
    BY <1>1, <1>2, <2>1, <2>2, <2>3 DEF NotesEnded, NotesRendered, NotesShown, NotesSends
<1>6. QED
  BY <1>3, <1>4, <1>5

\* The details that were fetched are shown.
LEMMA Fetching ==
  ASSUME NotesTyped, NEW m, m.doc \in NotesViews, Editors!Shows(m.doc)
  PROVE  details' \in NotesViews /\ tab' \in NotesTabs /\ NotesFetched(m)
<1> DEFINE d == Editors!Fresh(tab.name, m.doc).draft
<1>1. details' = m.doc /\ tab' = [tab EXCEPT !.draft = d, !.dirty = FALSE] /\ tab \in NotesTabs
  BY DEF Editors!Shows, NotesTyped
<1>2. d \in NotesDocs /\ (tab.name = "t" => d = m.doc.t)
  BY ViewUpdates DEF Editors!Fresh
<1>3. tab' \in NotesTabs
  BY <1>1, <1>2, TabUpdates
<1>4. tab'.name = tab.name /\ tab'.busy = tab.busy /\ tab'.draft = d
  BY <1>1 DEF NotesTabs
<1>5. QED
  BY <1>1, <1>2, <1>3, <1>4 DEF NotesFetched

LEMMA DetailsAreShown ==
  ASSUME NotesTyped, Editors!Refreshed \/ Editors!Opened
  PROVE  (NotesRefreshes(Head(inbox)) \/ NotesOpens(Head(inbox))) /\ NotesRendered
<1> DEFINE m == Head(inbox)
<1>1. NotesMoves(m) /\ m \in NotesReplies /\ inbox' = Tail(inbox)
  BY ArrivalsKeep DEF Editors!Arrive
<1>2. m.kind \in NotesGets
  BY DEF Editors!Refreshed, Editors!Opened, Editors!Arrives, NotesGets
<1>3. m.doc \in NotesViews
  BY <1>1, <1>2, ReplyFields
<1>4. UNCHANGED calls /\ blind \in BOOLEAN /\ details \in NotesViews /\ tab \in NotesTabs
      /\ calls \in Seq(NotesCalls)
  BY DEF Editors!Refreshed, Editors!Opened, NotesTyped
<1>5. CASE Editors!Refreshed
  <2>1. /\ m.kind = "refresh" /\ UNCHANGED blind
        /\ IF Editors!Loaded THEN Editors!Shows(m.doc) ELSE UNCHANGED <<details, tab>>
    BY <1>5 DEF Editors!Refreshed, Editors!Arrives, Editors!history
  <2>2. CASE Editors!Loaded
    BY <1>1, <1>3, <1>4, <2>1, <2>2, Fetching DEF NotesRefreshes, NotesRendered, NotesShown
  <2>3. CASE ~Editors!Loaded
    BY <1>1, <1>4, <2>1, <2>3 DEF NotesRefreshes, NotesRendered, NotesShown
  <2>4. QED
    BY <2>2, <2>3
<1>6. CASE Editors!Opened
  <2>1. /\ m.kind = "open" /\ blind' = (blind \/ Editors!Saving)
        /\ \/ UNCHANGED <<details, tab>>
           \/ /\ ~Editors!Loaded /\ "open" \notin Editors!Kinds(calls \o Tail(inbox))
              /\ Editors!Shows(m.doc)
    BY <1>6 DEF Editors!Opened, Editors!Arrives, Editors!Last
  <2>2. blind' \in BOOLEAN
    BY <1>4, <2>1, SavingIsBoolean
  <2>3. CASE UNCHANGED <<details, tab>>
    BY <1>1, <1>4, <2>1, <2>2, <2>3 DEF NotesOpens, NotesRendered, NotesShown
  <2>4. CASE ~UNCHANGED <<details, tab>>
    <3>1. details' \in NotesViews /\ tab' \in NotesTabs /\ NotesFetched(m)
      BY <1>3, <2>1, <2>4, Fetching
    <3>2. QED
      BY <1>1, <1>4, <2>1, <2>2, <2>4, <3>1 DEF NotesOpens, NotesRendered, NotesShown
  <2>5. QED
    BY <2>3, <2>4
<1>7. QED
  BY <1>5, <1>6

LEMMA Arriving ==
  ASSUME NotesTyped, Editors!Arrive
  PROVE  NotesTyped' /\ \E m \in NotesReplies : NotesShows(m)
<1>1. NotesShows(Head(inbox)) /\ NotesRendered
  BY WriteIsShown, SummaryIsShown, NothingIsShown, DetailsAreShown DEF Editors!Arrive, NotesShows
<1>2. NotesTyped'
  BY <1>1, ArrivalsKeep
  DEF NotesTyped, NotesMoves, NotesArrives, NotesRendered, NotesShown
<1>3. QED
  BY <1>1, <1>2, ArrivalsKeep

\* Every step, by what it does to the queues and the view.
NotesStep ==
  \/ NotesRenders \/ NotesRequeues \/ NotesBegins
  \/ \E m \in NotesReplies : NotesWrote(m) \/ NotesAnswered(m) \/ NotesEnds(m) \/ NotesShows(m)

LEMMA NotesSteps == ASSUME NotesTyped, Editors!Next PROVE NotesTyped' /\ NotesStep
<1>1. CASE Editors!Renderer
  BY <1>1, Rendering DEF NotesStep
<1>2. CASE Editors!HandleSave \/ Editors!HandleRename
  BY <1>2, WritingIsAnswered DEF NotesStep
<1>3. CASE \/ Editors!HandleSaveSummary \/ Editors!HandleGenerate \/ Editors!Refuse
           \/ Editors!HandleGet \/ Editors!HandleElsewhere
  BY <1>3, CallIsAnswered DEF NotesStep
<1>4. CASE Editors!HandleRetry \/ Editors!JobReads \/ Editors!JobTranscribes \/ Editors!JobEnds
  BY <1>4, JobMoves DEF NotesStep
<1>5. CASE Editors!Arrive
  BY <1>5, Arriving DEF NotesStep
<1>6. QED
  BY <1>1, <1>2, <1>3, <1>4, <1>5 DEF Editors!Next, Editors!Main
\* The kinds on the way.
LEMMA KindsAre ==
  ASSUME NotesTyped, NEW rest \in Seq(NotesReplies)
  PROVE  /\ \A i \in 1..Len(calls) : calls[i].kind \in Editors!Kinds(calls \o rest)
         /\ \A i \in 1..Len(rest) : rest[i].kind \in Editors!Kinds(calls \o rest)
<1>1. /\ calls \in Seq(NotesCalls \cup NotesReplies) /\ rest \in Seq(NotesCalls \cup NotesReplies)
      /\ Len(calls) \in Nat /\ Len(rest) \in Nat
  BY DEF NotesTyped
<1>2. /\ Len(calls \o rest) = Len(calls) + Len(rest)
      /\ \A i \in 1..Len(calls) : (calls \o rest)[i] = calls[i]
      /\ \A i \in 1..Len(rest) : (calls \o rest)[Len(calls) + i] = rest[i]
  BY <1>1
<1>3. \A i \in 1..(Len(calls) + Len(rest)) : (calls \o rest)[i].kind \in Editors!Kinds(calls \o rest)
  BY <1>2 DEF Editors!Kinds
<1>4. ASSUME NEW i \in 1..Len(rest) PROVE rest[i].kind \in Editors!Kinds(calls \o rest)
  <2>1. Len(calls) + i \in 1..(Len(calls) + Len(rest))
    BY <1>1
  <2>2. QED
    BY <1>2, <1>3, <2>1
<1>5. \A i \in 1..Len(calls) : i \in 1..(Len(calls) + Len(rest))
  BY <1>1
<1>6. QED
  BY <1>2, <1>3, <1>4, <1>5

LEMMA FollowsGets ==
  ASSUME NEW q, NEW q2, NEW m, NEW kinds, NEW later, NEW good, NEW good2,
         Follows(q, kinds, later, good), Gets(q, q2, m),
         good \subseteq good2 \/ m.kind \in later,
         m.kind \in kinds => m \in good2
  PROVE  Follows(q2, kinds, later, good2)
<1>1. SUFFICES ASSUME NEW i \in 1..Len(q2), q2[i].kind \in kinds
               PROVE  q2[i] \in good2 \/ \E j \in (i + 1)..Len(q2) : q2[j].kind \in later
  BY DEF Follows
<1>2. CASE i = Len(q) + 1
  BY <1>1, <1>2 DEF Gets
<1>3. CASE i \in 1..Len(q)
  <2>1. q2[i] = q[i] /\ (q[i] \in good \/ \E j \in (i + 1)..Len(q) : q[j].kind \in later)
    BY <1>1, <1>3 DEF Gets, Follows
  <2>2. CASE q[i] \in good
    <3>1. CASE good \subseteq good2
      BY <2>1, <2>2, <3>1
    <3>2. CASE m.kind \in later
      <4>1. Len(q) + 1 \in (i + 1)..Len(q2) /\ q2[Len(q) + 1] = m
        BY <1>3 DEF Gets
      <4>2. QED
        BY <3>2, <4>1
    <3>3. QED
      BY <3>1, <3>2
  <2>3. ASSUME NEW j \in (i + 1)..Len(q), q[j].kind \in later
        PROVE  \E k \in (i + 1)..Len(q2) : q2[k].kind \in later
    <3>1. j \in (i + 1)..Len(q2) /\ q2[j] = q[j]
      BY <1>3 DEF Gets
    <3>2. QED
      BY <2>3, <3>1
  <2>4. QED
    BY <2>1, <2>2, <2>3
<1>4. QED
  BY <1>2, <1>3 DEF Gets

LEMMA FollowsDrops ==
  ASSUME NEW q, NEW q2, NEW m, NEW kinds, NEW later, NEW good, NEW good2,
         Follows(q, kinds, later, good), Drops(q, q2, m), good \subseteq good2
  PROVE  /\ Follows(q2, kinds, later, good2)
         /\ m.kind \in kinds => m \in good \/ Brings(q2, later)
<1>1. ASSUME NEW i \in 1..Len(q2), q2[i].kind \in kinds
      PROVE  q2[i] \in good2 \/ \E j \in (i + 1)..Len(q2) : q2[j].kind \in later
  <2>1. i + 1 \in 1..Len(q) /\ q2[i] = q[i + 1]
    BY DEF Drops
  <2>2. q[i + 1] \in good \/ \E j \in (i + 2)..Len(q) : q[j].kind \in later
    BY <1>1, <2>1 DEF Follows
  <2>3. ASSUME NEW j \in (i + 2)..Len(q), q[j].kind \in later
        PROVE  \E k \in (i + 1)..Len(q2) : q2[k].kind \in later
    <3>1. j - 1 \in (i + 1)..Len(q2) /\ j - 1 \in 1..Len(q2) /\ q2[j - 1] = q[j]
      BY DEF Drops
    <3>2. QED
      BY <2>3, <3>1
  <2>4. QED
    BY <2>1, <2>2, <2>3
<1>2. ASSUME m.kind \in kinds PROVE m \in good \/ Brings(q2, later)
  <2>1. q[1] = m /\ 1 \in 1..Len(q)
    BY DEF Drops
  <2>2. m \in good \/ \E j \in 2..Len(q) : q[j].kind \in later
    BY <1>2, <2>1 DEF Follows
  <2>3. ASSUME NEW j \in 2..Len(q), q[j].kind \in later PROVE Brings(q2, later)
    <3>1. j - 1 \in 1..Len(q2) /\ q2[j - 1] = q[j]
      BY DEF Drops
    <3>2. QED
      BY <2>3, <3>1 DEF Brings
  <2>4. QED
    BY <2>2, <2>3
<1>3. QED
  BY <1>1, <1>2 DEF Follows

LEMMA BringsGets ==
  ASSUME NEW q, NEW q2, NEW m, NEW kinds, Gets(q, q2, m)
  PROVE  Brings(q2, kinds) <=> Brings(q, kinds) \/ m.kind \in kinds
<1>1. /\ Len(q) \in Nat /\ Len(q2) = Len(q) + 1 /\ q2[Len(q) + 1] = m
      /\ \A i \in 1..Len(q) : q2[i] = q[i]
  BY DEF Gets
<1>2. Len(q) + 1 \in 1..Len(q2) /\ \A i \in 1..Len(q2) : i \in 1..Len(q) \/ i = Len(q) + 1
  BY <1>1
<1>3. \A i \in 1..Len(q) : i \in 1..Len(q2)
  BY <1>1
<1>4. QED
  BY <1>1, <1>2, <1>3 DEF Brings

LEMMA BringsDrops ==
  ASSUME NEW q, NEW q2, NEW m, NEW kinds, Drops(q, q2, m)
  PROVE  Brings(q, kinds) <=> Brings(q2, kinds) \/ m.kind \in kinds
<1>1. /\ Len(q) \in Nat /\ Len(q) > 0 /\ Len(q2) = Len(q) - 1 /\ m = q[1]
      /\ \A i \in 1..Len(q2) : q2[i] = q[i + 1]
  BY DEF Drops
<1>2. \A i \in 1..Len(q) : i = 1 \/ (i - 1 \in 1..Len(q2) /\ q2[i - 1] = q[i])
  BY <1>1
<1>3. 1 \in 1..Len(q) /\ \A i \in 1..Len(q2) : i + 1 \in 1..Len(q)
  BY <1>1
<1>4. QED
  BY <1>1, <1>2, <1>3 DEF Brings

LEMMA FollowsMore ==
  ASSUME NEW q, NEW kinds, NEW later, NEW good, NEW good2,
         Follows(q, kinds, later, good), good \subseteq good2
  PROVE  Follows(q, kinds, later, good2)
BY DEF Follows

LEMMA HasGets ==
  ASSUME NEW q, NEW q2, NEW m, NEW some, Gets(q, q2, m)
  PROVE  Has(q2, some) <=> Has(q, some) \/ m \in some
<1>1. /\ Len(q) \in Nat /\ Len(q2) = Len(q) + 1 /\ q2[Len(q) + 1] = m
      /\ \A i \in 1..Len(q) : q2[i] = q[i]
  BY DEF Gets
<1>2. Len(q) + 1 \in 1..Len(q2) /\ \A i \in 1..Len(q2) : i \in 1..Len(q) \/ i = Len(q) + 1
  BY <1>1
<1>3. \A i \in 1..Len(q) : i \in 1..Len(q2)
  BY <1>1
<1>4. QED
  BY <1>1, <1>2, <1>3 DEF Has

LEMMA HasDrops ==
  ASSUME NEW q, NEW q2, NEW m, NEW some, Drops(q, q2, m)
  PROVE  Has(q, some) <=> Has(q2, some) \/ m \in some
<1>1. /\ Len(q) \in Nat /\ Len(q) > 0 /\ Len(q2) = Len(q) - 1 /\ m = q[1]
      /\ \A i \in 1..Len(q2) : q2[i] = q[i + 1]
  BY DEF Drops
<1>2. \A i \in 1..Len(q) : i = 1 \/ (i - 1 \in 1..Len(q2) /\ q2[i - 1] = q[i])
  BY <1>1
<1>3. 1 \in 1..Len(q) /\ \A i \in 1..Len(q2) : i + 1 \in 1..Len(q)
  BY <1>1
<1>4. QED
  BY <1>1, <1>2, <1>3 DEF Has

LEMMA OneGets ==
  ASSUME NEW q, NEW q2, NEW m, NEW some, OneIn(q, some), Gets(q, q2, m),
         m \notin some \/ ~Has(q, some)
  PROVE  OneIn(q2, some)
<1>1. /\ Len(q) \in Nat /\ q2[Len(q) + 1] = m /\ \A i \in 1..Len(q) : q2[i] = q[i]
      /\ \A i \in 1..Len(q2) : i \in 1..Len(q) \/ i = Len(q) + 1
  BY DEF Gets
<1>2. CASE m \notin some
  BY <1>1, <1>2 DEF OneIn
<1>3. CASE ~Has(q, some)
  BY <1>1, <1>3 DEF OneIn, Has
<1>4. QED
  BY <1>2, <1>3

LEMMA OneDrops ==
  ASSUME NEW q, NEW q2, NEW m, NEW some, OneIn(q, some), Drops(q, q2, m)
  PROVE  OneIn(q2, some) /\ (m \in some => ~Has(q2, some))
<1>1. /\ q[1] = m /\ 1 \in 1..Len(q)
      /\ \A i \in 1..Len(q2) : q2[i] = q[i + 1] /\ i + 1 \in 1..Len(q) /\ i + 1 # 1
  BY DEF Drops
<1>2. ASSUME NEW i \in 1..Len(q2), NEW j \in 1..Len(q2), q2[i] \in some, q2[j] \in some
      PROVE  i = j
  <2>1. i + 1 = j + 1
    BY <1>1, <1>2 DEF OneIn
  <2>2. QED
    BY <2>1
<1>3. ASSUME m \in some, NEW i \in 1..Len(q2), q2[i] \in some PROVE FALSE
  BY <1>1, <1>3 DEF OneIn
<1>4. QED
  BY <1>2, <1>3 DEF OneIn, Has

\* Of some messages one at most is in both queues: it stays so when one is sent, handled
\* and answered, handled without an answer, or has arrived.
LEMMA OneSent ==
  ASSUME NEW q, NEW q2, NEW r, NEW m, NEW some, OneOf(q, r, some), Gets(q, q2, m),
         m \in some => ~AnyOf(q, r, some)
  PROVE  OneOf(q2, r, some) /\ (AnyOf(q2, r, some) <=> AnyOf(q, r, some) \/ m \in some)
<1>1. OneIn(q2, some) /\ (Has(q2, some) <=> Has(q, some) \/ m \in some)
  BY OneGets, HasGets DEF OneOf, AnyOf
<1>2. QED
  BY <1>1 DEF OneOf, AnyOf

LEMMA OneAnswered ==
  ASSUME NEW q, NEW q2, NEW r, NEW r2, NEW c, NEW m, NEW some, OneOf(q, r, some),
         Drops(q, q2, c), Gets(r, r2, m), m \in some => c \in some
  PROVE  /\ OneOf(q2, r2, some) /\ (AnyOf(q2, r2, some) => AnyOf(q, r, some))
         /\ c \in some => ~Has(q2, some)
<1>1. /\ OneIn(q2, some) /\ (c \in some => ~Has(q2, some))
      /\ Has(q, some) <=> Has(q2, some) \/ c \in some
  BY OneDrops, HasDrops DEF OneOf
<1>2. OneIn(r2, some) /\ (Has(r2, some) <=> Has(r, some) \/ m \in some)
  BY <1>1, OneGets, HasGets DEF OneOf
<1>3. QED
  BY <1>1, <1>2 DEF OneOf, AnyOf

LEMMA OneHandled ==
  ASSUME NEW q, NEW q2, NEW r, NEW c, NEW some, OneOf(q, r, some), Drops(q, q2, c)
  PROVE  OneOf(q2, r, some) /\ (AnyOf(q2, r, some) => AnyOf(q, r, some))
BY OneDrops, HasDrops DEF OneOf, AnyOf

LEMMA OneAdded ==
  ASSUME NEW q, NEW r, NEW r2, NEW m, NEW some, OneOf(q, r, some), Gets(r, r2, m), m \notin some
  PROVE  OneOf(q, r2, some) /\ (AnyOf(q, r2, some) => AnyOf(q, r, some))
BY OneGets, HasGets DEF OneOf, AnyOf

LEMMA OneArrived ==
  ASSUME NEW q, NEW r, NEW r2, NEW m, NEW some, OneOf(q, r, some), Drops(r, r2, m)
  PROVE  /\ OneOf(q, r2, some) /\ (AnyOf(q, r2, some) => AnyOf(q, r, some))
         /\ m \in some => ~AnyOf(q, r2, some)
<1>1. /\ OneIn(r2, some) /\ (m \in some => ~Has(r2, some))
      /\ Has(r, some) <=> Has(r2, some) \/ m \in some
  BY OneDrops, HasDrops DEF OneOf
<1>2. QED
  BY <1>1 DEF OneOf, AnyOf

LEMMA NoneIsOne == ASSUME NEW q, NEW r, NEW some, ~AnyOf(q, r, some) PROVE OneOf(q, r, some)
BY DEF AnyOf, OneOf, OneIn, Has

LEMMA FewerHave ==
  ASSUME NEW q, NEW r, NEW some, NEW fewer, fewer \subseteq some, ~AnyOf(q, r, some)
  PROVE  ~AnyOf(q, r, fewer)
BY DEF AnyOf, Has

\* An arrival takes a reply, and a request may follow.
LEMMA ShowsDrop ==
  ASSUME NEW m, NotesShows(m)
  PROVE  /\ Drops(inbox, inbox', m) /\ m \in NotesReplies
         /\ UNCHANGED <<transcript, summary, summaryJob, saved, opens>>
BY DEF NotesShows, NotesShowsWrite, NotesShowsSummary, NotesShowsNothing, NotesEnded,
       NotesRefreshes, NotesOpens, NotesMoves, NotesArrives

LEMMA ShowsSend ==
  ASSUME NEW m, NotesShows(m)
  PROVE  \/ UNCHANGED calls
         \/ \E c \in NotesCalls :
              /\ NotesSends(c) /\ c.kind \notin {"save", "open"}
              /\ \/ c.kind \in NotesRenames /\ m.kind \in NotesRenames /\ c.by = m.by
                    /\ (c.kind \in NotesWrites <=> m.kind \in NotesWrites)
                    /\ m.next # 0 /\ NotesBusy(m)
                 \/ c.kind = "refresh" /\ m.kind = "ended"
BY DEF NotesShows, NotesShowsWrite, NotesShowsSummary, NotesShowsNothing, NotesEnded,
       NotesRefreshes, NotesOpens, NotesRenames, NotesWrites

LEMMA ShowsKeepTab ==
  ASSUME NEW m, NotesShows(m)
  PROVE  /\ tab'.name = tab.name
         /\ tab'.busy = tab.busy \/ (m.kind \in NotesAsked /\ NotesBusy(m))
<1>1. CASE NotesShowsWrite(m)
  BY <1>1 DEF NotesShowsWrite, NotesRenames, NotesWrites, NotesAsked, NotesBusy
<1>2. CASE NotesShowsSummary(m)
  BY <1>2 DEF NotesShowsSummary, NotesAsked, NotesBusy
<1>3. CASE NotesShowsNothing(m)
  BY <1>3 DEF NotesShowsNothing, NotesAsked, NotesBusy
<1>4. CASE NotesEnded(m) \/ NotesRefreshes(m) \/ NotesOpens(m)
  BY <1>4 DEF NotesEnded, NotesRefreshes, NotesOpens, NotesFetched
<1>5. QED
  BY <1>1, <1>2, <1>3, <1>4 DEF NotesShows

LEMMA EditorAsksStep ==
  ASSUME NotesTyped, NotesEditorAsks, NotesStep
  PROVE  NotesEditorAsks'
<1> USE DEF NotesEditorAsks
<1>1. UNCHANGED opens => NotesOurs' = NotesOurs /\ NotesLater' = NotesLater
  BY DEF NotesOurs, NotesLater
<1>2. opens' = opens + 1 => NotesOurs' \subseteq NotesLater /\ NotesLater' \subseteq NotesLater
  <2>1. \A m \in NotesRequests : m.by \in Nat
    BY CallFields, ReplyFields DEF NotesRequests, NotesMessages
  <2>2. opens \in Nat
    BY DEF NotesTyped
  <2>3. QED
    BY <2>1, <2>2 DEF NotesOurs, NotesLater
<1>3. NotesOurs \subseteq NotesRequests /\ NotesLater \subseteq NotesRequests
  BY DEF NotesOurs, NotesLater
<1>4. OneOf(calls, inbox, NotesLater)
  BY NoneIsOne
<1>5. CASE UNCHANGED <<calls, inbox, opens>> /\ tab'.busy = tab.busy
  BY <1>1, <1>5
<1>6. CASE NotesMounts /\ UNCHANGED inbox
  <2>1. UNCHANGED <<calls, inbox>> /\ opens' = opens + 1
    BY <1>6 DEF NotesMounts
  <2>2. ~AnyOf(calls', inbox', NotesOurs') /\ ~AnyOf(calls', inbox', NotesLater')
    BY <1>2, <2>1, FewerHave
  <2>3. QED
    BY <2>2, NoneIsOne
<1>7. CASE NotesReopens /\ UNCHANGED inbox
  <2>1. PICK c \in NotesCalls : c \notin NotesRequests /\ Gets(calls, calls', c)
    BY <1>7 DEF NotesReopens, NotesSends, NotesRequests, NotesAsked
  <2>2. ~AnyOf(calls', inbox', NotesLater)
    BY <1>3, <1>4, <1>7, <2>1, OneSent
  <2>3. opens' = opens + 1
    BY <1>7 DEF NotesReopens
  <2>4. ~AnyOf(calls', inbox', NotesOurs') /\ ~AnyOf(calls', inbox', NotesLater')
    BY <1>2, <2>2, <2>3, FewerHave
  <2>5. QED
    BY <2>4, NoneIsOne
<1>8. CASE NotesRetries /\ UNCHANGED inbox
  <2>1. PICK c \in NotesCalls : c \notin NotesRequests /\ Gets(calls, calls', c)
    BY <1>8 DEF NotesRetries, NotesSends, NotesRequests, NotesAsked
  <2>2. /\ ~AnyOf(calls', inbox', NotesLater) /\ OneOf(calls', inbox', NotesOurs)
        /\ AnyOf(calls', inbox', NotesOurs) <=> AnyOf(calls, inbox, NotesOurs)
    BY <1>3, <1>4, <1>8, <2>1, OneSent
  <2>3. QED
    BY <1>1, <1>8, <2>2 DEF NotesRetries
<1>9. ASSUME NEW c \in NotesCalls, NotesAsks(c), UNCHANGED inbox PROVE NotesEditorAsks'
  <2>1. /\ Gets(calls, calls', c) /\ c.by = opens /\ ~tab.busy /\ tab'.busy /\ UNCHANGED opens
    BY <1>9 DEF NotesAsks, NotesSends
  <2>2. c \notin NotesLater
    <3>1. ~(opens > opens)
      BY DEF NotesTyped
    <3>2. QED
      BY <2>1, <3>1 DEF NotesLater
  <2>3. ~AnyOf(calls', inbox', NotesLater) /\ OneOf(calls', inbox', NotesOurs)
    BY <1>4, <1>9, <2>1, <2>2, OneSent
  <2>4. QED
    BY <1>1, <2>1, <2>3
<1>10. ASSUME NEW m \in NotesReplies, NotesWrote(m) \/ NotesAnswered(m) PROVE NotesEditorAsks'
  <2>1. /\ Drops(calls, calls', Head(calls)) /\ Gets(inbox, inbox', m)
        /\ UNCHANGED <<tab, opens>> /\ m.by = Head(calls).by /\ Head(calls) \in NotesMessages
    BY <1>10 DEF NotesWrote, NotesAnswered, NotesHandles, NotesAnswers, NotesMessages
  <2>2. m.kind \in NotesAsked => Head(calls).kind \in NotesAsked
    BY <1>10 DEF NotesWrote, NotesAnswered, NotesAsked, NotesWrites, NotesAbroad, NotesGets
  <2>3. /\ m \in NotesOurs => Head(calls) \in NotesOurs
        /\ m \in NotesLater => Head(calls) \in NotesLater
    BY <2>1, <2>2 DEF NotesOurs, NotesLater, NotesRequests
  <2>4. /\ OneOf(calls', inbox', NotesOurs) /\ ~AnyOf(calls', inbox', NotesLater)
        /\ AnyOf(calls', inbox', NotesOurs) => AnyOf(calls, inbox, NotesOurs)
    BY <1>4, <2>1, <2>3, OneAnswered
  <2>5. QED
    BY <1>1, <2>1, <2>4
<1>11. CASE NotesRequeues
  <2>1. Drops(calls, calls', Head(calls)) /\ UNCHANGED <<inbox, tab, opens>>
    BY <1>11 DEF NotesRequeues, NotesHandles
  <2>2. /\ OneOf(calls', inbox', NotesOurs) /\ ~AnyOf(calls', inbox', NotesLater)
        /\ AnyOf(calls', inbox', NotesOurs) => AnyOf(calls, inbox, NotesOurs)
    BY <1>4, <2>1, OneHandled
  <2>3. QED
    BY <1>1, <2>1, <2>2
<1>12. ASSUME NEW m \in NotesReplies, NotesEnds(m) PROVE NotesEditorAsks'
  <2>1. /\ Gets(inbox, inbox', m) /\ UNCHANGED <<calls, tab, opens>> /\ m \notin NotesRequests
    BY <1>12 DEF NotesEnds, NotesAnswers, NotesRequests, NotesAsked
  <2>2. /\ OneOf(calls', inbox', NotesOurs) /\ ~AnyOf(calls', inbox', NotesLater)
        /\ AnyOf(calls', inbox', NotesOurs) => AnyOf(calls, inbox, NotesOurs)
    BY <1>3, <1>4, <2>1, OneAdded
  <2>3. QED
    BY <1>1, <2>1, <2>2
<1>13. ASSUME NEW m \in NotesReplies, NotesShows(m) PROVE NotesEditorAsks'
  <2>1. Drops(inbox, inbox', m) /\ UNCHANGED opens
    BY <1>13, ShowsDrop
  <2>2. /\ OneOf(calls, inbox', NotesOurs) /\ ~AnyOf(calls, inbox', NotesLater)
        /\ AnyOf(calls, inbox', NotesOurs) => AnyOf(calls, inbox, NotesOurs)
        /\ m \in NotesOurs => ~AnyOf(calls, inbox', NotesOurs)
        /\ m \notin NotesLater
    <3>1. Has(inbox, NotesLater) <=> Has(inbox', NotesLater) \/ m \in NotesLater
      BY <2>1, HasDrops
    <3>2. QED
      BY <1>4, <2>1, <3>1, OneArrived DEF AnyOf
  <2>3. m \notin NotesOurs => tab'.busy = tab.busy
    BY <1>13, ShowsKeepTab
    DEF NotesOurs, NotesRequests, NotesMessages, NotesBusy, Editors!Busy
  <2>4. CASE UNCHANGED calls
    BY <1>1, <2>1, <2>2, <2>3, <2>4
  <2>5. ASSUME NEW c \in NotesCalls, NotesSends(c), c.kind = "refresh"
        PROVE  NotesEditorAsks'
    <3>1. Gets(calls, calls', c) /\ c \notin NotesRequests
      BY <2>5 DEF NotesSends, NotesRequests, NotesAsked
    <3>2. /\ OneOf(calls', inbox', NotesOurs) /\ ~AnyOf(calls', inbox', NotesLater)
          /\ AnyOf(calls', inbox', NotesOurs) <=> AnyOf(calls, inbox', NotesOurs)
      BY <1>3, <2>2, <3>1, OneSent, NoneIsOne
    <3>3. QED
      BY <1>1, <2>1, <2>2, <2>3, <3>2
  <2>6. ASSUME NEW c \in NotesCalls, NotesSends(c), c.kind \in NotesRenames,
               m.kind \in NotesRenames, c.by = m.by, m.next # 0, NotesBusy(m)
        PROVE  NotesEditorAsks'
    <3>1. /\ Gets(calls, calls', c) /\ c \in NotesRequests /\ m \in NotesRequests
      BY <2>6
      DEF NotesSends, NotesRequests, NotesMessages, NotesAsked, NotesRenames, NotesWrites
    <3>2. (c \in NotesOurs <=> m \in NotesOurs) /\ c \notin NotesLater
      BY <2>2, <2>6, <3>1 DEF NotesOurs, NotesLater
    <3>3. /\ OneOf(calls', inbox', NotesOurs) /\ ~AnyOf(calls', inbox', NotesLater)
          /\ AnyOf(calls', inbox', NotesOurs) <=>
               AnyOf(calls, inbox', NotesOurs) \/ c \in NotesOurs
      BY <2>2, <3>1, <3>2, OneSent, NoneIsOne
    <3>4. m \in NotesOurs => tab'.busy
      BY <2>6 DEF NotesOurs, NotesBusy, Editors!Busy
    <3>5. QED
      BY <1>1, <2>1, <2>2, <2>3, <3>2, <3>3, <3>4
  <2>7. QED
    BY <1>13, <2>4, <2>5, <2>6, ShowsSend
<1>14. QED
  BY <1>5, <1>6, <1>7, <1>8, <1>9, <1>10, <1>11, <1>12, <1>13
  DEF NotesStep, NotesRenders, NotesEdits, NotesBegins

LEMMA OpeningStep ==
  ASSUME NotesTyped, NotesOpening, NotesStep
  PROVE  NotesOpening'
<1> DEFINE NoOpening == /\ \A i \in 1..Len(calls) : calls[i].kind # "open"
                        /\ \A i \in 1..Len(inbox) : inbox[i].kind # "open"
<1>0. SUFFICES ASSUME Editors!Loaded' PROVE NoOpening'
  BY DEF NotesOpening
<1>1. CASE UNCHANGED <<calls, inbox, details>>
  BY <1>0, <1>1 DEF NotesOpening, Editors!Loaded
<1>2. CASE NotesReopens
  BY <1>0, <1>2 DEF NotesReopens
<1>3. ASSUME NEW c \in NotesCalls, NotesSends(c), c.kind # "open", UNCHANGED inbox, Editors!Loaded
      PROVE  NoOpening'
  <2>1. Gets(calls, calls', c)
    BY <1>3 DEF NotesSends
  <2>2. \A i \in 1..Len(calls') : calls'[i].kind # "open"
    BY <1>3, <2>1 DEF Gets, NotesOpening
  <2>3. QED
    BY <1>3, <2>2 DEF NotesOpening
<1>4. CASE NotesRenders
  <2>1. Editors!Loaded \/ NotesReopens
    BY <1>0, <1>4
    DEF NotesRenders, NotesEdits, NotesMounts, NotesRetries, NotesAsks, Editors!Loaded
  <2>2. \/ UNCHANGED <<calls, inbox, details>> \/ NotesReopens
        \/ \E c \in NotesCalls : NotesSends(c) /\ c.kind # "open" /\ UNCHANGED inbox
    BY <1>4
    DEF NotesRenders, NotesEdits, NotesMounts, NotesRetries, NotesAsks, NotesWrites
  <2>3. QED
    BY <1>1, <1>2, <1>3, <2>1, <2>2
<1>5. CASE NotesRequeues
  <2>1. /\ Drops(calls, calls', Head(calls)) /\ UNCHANGED <<inbox, details>>
    BY <1>5 DEF NotesRequeues, NotesHandles
  <2>2. Editors!Loaded
    BY <1>0, <2>1 DEF Editors!Loaded
  <2>3. \A i \in 1..Len(calls') : calls'[i].kind # "open"
    BY <2>1, <2>2 DEF NotesOpening, Drops
  <2>4. QED
    BY <2>1, <2>2, <2>3 DEF NotesOpening
<1>6. ASSUME NEW m \in NotesReplies, NotesWrote(m) \/ NotesAnswered(m)
      PROVE  NoOpening'
  <2>1. /\ Drops(calls, calls', Head(calls)) /\ Gets(inbox, inbox', m) /\ UNCHANGED details
        /\ m.kind \in NotesWrites \cup {"refused"} \/ m.kind = Head(calls).kind
    BY <1>6 DEF NotesWrote, NotesAnswered, NotesHandles, NotesAnswers
  <2>2. Editors!Loaded
    BY <1>0, <2>1 DEF Editors!Loaded
  <2>3. Head(calls).kind # "open" /\ \A i \in 1..Len(calls') : calls'[i].kind # "open"
    BY <2>1, <2>2 DEF NotesOpening, Drops
  <2>4. m.kind # "open"
    BY <2>1, <2>3 DEF NotesWrites
  <2>5. \A i \in 1..Len(inbox') : inbox'[i].kind # "open"
    BY <2>1, <2>2, <2>4 DEF Gets, NotesOpening
  <2>6. QED
    BY <2>3, <2>5
<1>7. ASSUME NEW m \in NotesReplies, NotesEnds(m)
      PROVE  NoOpening'
  <2>1. Gets(inbox, inbox', m) /\ Editors!Loaded /\ m.kind = "ended" /\ UNCHANGED calls
    BY <1>0, <1>7 DEF NotesEnds, NotesAnswers, Editors!Loaded
  <2>2. QED
    BY <2>1 DEF Gets, NotesOpening
<1>8. ASSUME NEW m \in NotesReplies, NotesShows(m), ~NotesOpens(m)
      PROVE  NoOpening'
  <2>1. Drops(inbox, inbox', m)
    BY <1>8, ShowsDrop
  <2>2. UNCHANGED calls \/ \E c \in NotesCalls : c.kind # "open" /\ Gets(calls, calls', c)
    BY <1>8, ShowsSend DEF NotesSends
  <2>3. Editors!Loaded
    BY <1>0, <1>8
    DEF NotesShows, NotesShowsWrite, NotesShowsSummary, NotesShowsNothing, NotesEnded,
        NotesRefreshes, Editors!Loaded
  <2>4. \A i \in 1..Len(calls') : calls'[i].kind # "open"
    BY <2>2, <2>3 DEF Gets, NotesOpening
  <2>5. \A i \in 1..Len(inbox') : inbox'[i].kind # "open"
    BY <2>1, <2>3 DEF Drops, NotesOpening
  <2>6. QED
    BY <2>4, <2>5
<1>9. ASSUME NEW m \in NotesReplies, NotesOpens(m)
      PROVE  NoOpening'
  <2>1. Drops(inbox, inbox', m) /\ UNCHANGED calls /\ inbox' = Tail(inbox)
        /\ inbox' \in Seq(NotesReplies)
    BY <1>9 DEF NotesOpens, NotesMoves, NotesArrives
  <2>2. CASE UNCHANGED <<details, tab>>
    BY <1>0, <2>1, <2>2 DEF Drops, NotesOpening, Editors!Loaded
  <2>3. CASE "open" \notin Editors!Kinds(calls \o Tail(inbox))
    BY <2>1, <2>3, KindsAre
  <2>4. QED
    BY <1>9, <2>2, <2>3 DEF NotesOpens
<1>10. QED
  BY <1>1, <1>4, <1>5, <1>6, <1>7, <1>8, <1>9 DEF NotesStep, NotesBegins

\* A step that shows nothing else and neither answers nor takes a reply.
LEMMA QuietStep ==
  ASSUME NotesRenders \/ NotesRequeues
  PROVE  /\ UNCHANGED <<transcript, summary, summaryJob, saved, inbox>>
         /\ Editors!Loaded' => UNCHANGED details /\ Editors!Loaded
BY DEF NotesRenders, NotesEdits, NotesMounts, NotesReopens, NotesAsks, NotesRetries,
       NotesRequeues, Editors!Loaded

\* What the view shows when a reply has arrived.
LEMMA ArrivalShows ==
  ASSUME NotesTyped, NotesOpening, Editors!Loaded', NEW m, NotesShows(m)
  PROVE  /\ Editors!Loaded \/ m.kind = "open"
         /\ m.kind \in TranscriptKinds => details'.t = TranscriptOf(m)
         /\ m.kind \notin TranscriptKinds => details'.t = details.t \/ ~details'.t.own
         /\ m.kind \in SummaryKinds => details'.s = SummaryOf(m)
         /\ m.kind \notin SummaryKinds => details'.s = details.s
         /\ m.kind \in StaleKinds => details'.stale = MarksStale(m)
         /\ m.kind \notin StaleKinds => details'.stale = details.stale \/ details'.stale
<1> USE DEF TranscriptKinds, SummaryKinds, StaleKinds, NotesWrites, NotesGets
<1>0. /\ details \in NotesViews /\ 1 \in 1..Len(inbox) /\ inbox[1] = m /\ m \in NotesReplies
  BY ShowsDrop DEF NotesTyped, Drops
<1>1. CASE NotesShowsWrite(m)
  <2>1. Editors!Loaded /\ m.kind \in NotesRenames
        /\ details' = [details EXCEPT !.t = m.doc, !.stale = TRUE]
    BY <1>1 DEF NotesShowsWrite, Editors!Loaded
  <2>2. details'.t = m.doc /\ details'.s = details.s /\ details'.stale = TRUE
    BY <1>0, <2>1 DEF NotesViews
  <2>3. m.kind = "elsewhere" => ~m.doc.own
    BY <1>0, ReplyFields DEF NotesAbroad
  <2>4. CASE m.kind = "elsewhere"
    BY <2>1, <2>2, <2>3, <2>4
  <2>5. CASE m.kind \in NotesWrites
    BY <2>1, <2>2, <2>5 DEF TranscriptOf, MarksStale
  <2>6. QED
    BY <2>1, <2>4, <2>5 DEF NotesRenames
<1>2. CASE NotesShowsSummary(m)
  <2>1. Editors!Loaded /\ m.kind = "saveSummary"
        /\ details' = [details EXCEPT !.s = m.doc, !.stale = FALSE]
    BY <1>2 DEF NotesShowsSummary, Editors!Loaded
  <2>2. details'.t = details.t /\ details'.s = m.doc /\ details'.stale = FALSE
    BY <1>0, <2>1 DEF NotesViews
  <2>3. QED
    BY <2>1, <2>2 DEF SummaryOf, MarksStale
<1>3. CASE NotesShowsNothing(m) \/ NotesEnded(m)
  <2>1. Editors!Loaded /\ m.kind \in {"generate", "refused", "visit", "ended"} /\ details' = details
    BY <1>3 DEF NotesShowsNothing, NotesEnded, Editors!Loaded
  <2>2. QED
    BY <2>1
<1>4. ASSUME m.kind \in NotesGets, details' = m.doc
      PROVE  /\ m.kind \in TranscriptKinds /\ details'.t = TranscriptOf(m)
             /\ m.kind \in SummaryKinds /\ details'.s = SummaryOf(m)
             /\ m.kind \in StaleKinds /\ details'.stale = MarksStale(m)
  <2>1. m.doc.stale \in BOOLEAN /\ m.kind \notin NotesWrites
    BY <1>0, <1>4, ReplyFields, ViewUpdates
  <2>2. MarksStale(m) = m.doc.stale
    BY <1>4, <2>1 DEF MarksStale
  <2>3. QED
    BY <1>4, <2>2 DEF TranscriptOf, SummaryOf
<1>5. CASE NotesRefreshes(m)
  <2>1. Editors!Loaded /\ m.kind \in NotesGets /\ details' = m.doc
    BY <1>5 DEF NotesRefreshes, NotesFetched, Editors!Loaded
  <2>2. QED
    BY <1>4, <2>1
<1>6. CASE NotesOpens(m)
  <2>1. ~Editors!Loaded /\ m.kind = "open"
    BY <1>0, <1>6 DEF NotesOpens, NotesOpening
  <2>2. details' = m.doc
    BY <1>6, <2>1 DEF NotesOpens, NotesFetched, Editors!Loaded
  <2>3. QED
    BY <1>4, <2>1, <2>2
<1>7. QED
  BY <1>1, <1>2, <1>3, <1>5, <1>6 DEF NotesShows

\* What fetches the details is on the way until the reply is.
NotesFetches == \E m \in NotesReplies : NotesAnswered(m) /\ m.kind \in NotesGets

LEMMA AnsweredGets == ASSUME NEW m, NotesAnswers(m) PROVE inbox' # inbox
<1>1. Len(inbox) \in Nat /\ Len(inbox') = Len(inbox) + 1
  BY DEF NotesAnswers, Gets
<1>2. QED
  BY <1>1

LEMMA PendingStep ==
  ASSUME NotesTyped, NotesStep
  PROVE  /\ NotesBegins \/ (\E m \in NotesReplies : NotesEnds(m)) => NotesPending'
         /\ NotesPending /\ ~NotesFetches => NotesPending'
<1>1. NotesPending <=> \/ summaryJob.pc = "running"
                       \/ Brings(calls, NotesGets) \/ Brings(inbox, {"ended"})
  BY DEF NotesPending, Brings
<1>2. NotesPending' <=> \/ summaryJob'.pc = "running"
                        \/ Brings(calls', NotesGets) \/ Brings(inbox', {"ended"})
  BY DEF NotesPending, Brings
<1>3. ASSUME NEW c, NotesSends(c)
      PROVE  Brings(calls', NotesGets) <=> Brings(calls, NotesGets) \/ c.kind \in NotesGets
  BY <1>3, BringsGets DEF NotesSends
<1>4. ASSUME NEW c, NotesHandles(c), c.kind \notin NotesGets
      PROVE  Brings(calls, NotesGets) => Brings(calls', NotesGets)
  BY <1>4, BringsDrops DEF NotesHandles
<1>5. ASSUME NEW m, NotesAnswers(m)
      PROVE  Brings(inbox', {"ended"}) <=> Brings(inbox, {"ended"}) \/ m.kind = "ended"
  BY <1>5, BringsGets DEF NotesAnswers
<1>6. ASSUME NEW m, NotesShows(m)
      PROVE  /\ Brings(inbox, {"ended"}) <=> Brings(inbox', {"ended"}) \/ m.kind = "ended"
             /\ UNCHANGED summaryJob
  BY <1>6, BringsDrops, ShowsDrop
<1>7. NotesBegins => NotesPending'
  BY <1>2 DEF NotesBegins
<1>8. ASSUME NEW m \in NotesReplies, NotesEnds(m) PROVE NotesPending'
  BY <1>2, <1>5, <1>8 DEF NotesEnds
<1>9. ASSUME NotesPending, ~NotesFetches, NotesRenders PROVE NotesPending'
  <2>1. UNCHANGED calls \/ \E c \in NotesCalls : NotesSends(c)
    BY <1>9 DEF NotesRenders, NotesEdits, NotesMounts, NotesReopens, NotesAsks, NotesRetries
  <2>2. UNCHANGED <<summaryJob, inbox>>
    BY <1>9 DEF NotesRenders
  <2>3. QED
    BY <1>1, <1>2, <1>3, <1>9, <2>1, <2>2
<1>10. ASSUME NotesPending, ~NotesFetches, NotesRequeues PROVE NotesPending'
  <2>1. NotesHandles(Head(calls)) /\ Head(calls).kind \notin NotesGets
        /\ UNCHANGED <<summaryJob, inbox>>
    BY <1>10 DEF NotesRequeues, NotesGets
  <2>2. QED
    BY <1>1, <1>2, <1>4, <1>10, <2>1
<1>11. ASSUME NotesPending, ~NotesFetches, NEW m \in NotesReplies, NotesWrote(m) \/ NotesAnswered(m)
       PROVE  NotesPending'
  <2>1. NotesHandles(Head(calls)) /\ NotesAnswers(m) /\ UNCHANGED summaryJob
    BY <1>11 DEF NotesWrote, NotesAnswered
  <2>2. Head(calls).kind \notin NotesGets
    BY <1>11
    DEF NotesWrote, NotesAnswered, NotesFetches, NotesWrites, NotesGets, NotesAbroad, NotesAsked
  <2>3. QED
    BY <1>1, <1>2, <1>4, <1>5, <1>11, <2>1, <2>2
<1>12. ASSUME NotesPending, ~NotesFetches, NEW m \in NotesReplies, NotesShows(m)
       PROVE  NotesPending'
  <2>1. UNCHANGED calls \/ \E c \in NotesCalls : NotesSends(c)
    BY <1>12, ShowsSend
  <2>2. m.kind = "ended" => \E c \in NotesCalls : NotesSends(c) /\ c.kind \in NotesGets
    BY <1>12
    DEF NotesShows, NotesShowsWrite, NotesShowsSummary, NotesShowsNothing, NotesEnded,
        NotesRefreshes, NotesOpens, NotesRenames, NotesWrites, NotesGets
  <2>3. QED
    BY <1>1, <1>2, <1>3, <1>6, <1>12, <2>1, <2>2
<1>13. QED
  BY <1>7, <1>8, <1>9, <1>10, <1>11, <1>12 DEF NotesStep

\* As long as they are, nothing else needs to be on the way.
LEMMA PendingFollows ==
  ASSUME NotesTyped', NotesPending'
  PROVE  TranscriptFollows' /\ SummaryFollows' /\ StaleFollows'
<1>1. \A i \in 1..Len(inbox') : inbox'[i] \in NotesReplies
  BY DEF NotesTyped
<1>2. QED
  BY <1>1
  DEF TranscriptFollows, SummaryFollows, StaleFollows, LatestTranscripts, LatestSummaries,
      RightMarks, Follows

\* The steps after which nothing fetches the details.
LEMMA SettledStep ==
  ASSUME NotesTyped, NotesStep, ~NotesPending'
  PROVE  /\ NotesRenders \/ NotesRequeues
              \/ \E m \in NotesReplies : NotesWrote(m) \/ NotesAnswered(m) \/ NotesShows(m)
         /\ ~NotesFetches => ~NotesPending
BY PendingStep DEF NotesStep

LEMMA TranscriptStep ==
  ASSUME NotesTyped, NotesTyped', NotesOpening, TranscriptFollows, NotesStep
  PROVE  TranscriptFollows'
<1> USE DEF TranscriptFollows
<1>0. SUFFICES ASSUME ~NotesPending' PROVE TranscriptFollows'
  BY PendingFollows
<1>1. CASE NotesRenders \/ NotesRequeues
  <2>1. UNCHANGED <<transcript, inbox>> /\ (Editors!Loaded' => UNCHANGED details /\ Editors!Loaded)
    BY <1>1, QuietStep
  <2>2. ~NotesPending
    BY <1>0, <2>1, SettledStep, AnsweredGets DEF NotesFetches, NotesAnswered
  <2>3. LatestTranscripts' = LatestTranscripts
    BY <1>0, <2>1, <2>2 DEF LatestTranscripts
  <2>4. QED
    BY <2>1, <2>2, <2>3
<1>2. ASSUME NEW m \in NotesReplies, NotesWrote(m) PROVE TranscriptFollows'
  <2>1. Gets(inbox, inbox', m) /\ m.kind \in TranscriptKinds /\ m.kind \notin NotesGets
        /\ m.doc = transcript'
    BY <1>2 DEF NotesWrote, NotesAnswers, TranscriptKinds, NotesGets, NotesWrites
  <2>2. m \in LatestTranscripts'
    BY <2>1 DEF LatestTranscripts, TranscriptOf
  <2>3. Follows(inbox', TranscriptKinds, TranscriptKinds, LatestTranscripts')
    BY <2>1, <2>2, FollowsGets
  <2>4. Brings(inbox', TranscriptKinds)
    BY <2>1, BringsGets
  <2>5. QED
    BY <2>3, <2>4
<1>3. ASSUME NEW m \in NotesReplies, NotesAnswered(m) PROVE TranscriptFollows'
  <2>1. Gets(inbox, inbox', m) /\ UNCHANGED <<transcript, details>>
    BY <1>3 DEF NotesAnswered, NotesAnswers
  <2>2. Brings(inbox', TranscriptKinds) <=>
          Brings(inbox, TranscriptKinds) \/ m.kind \in TranscriptKinds
    BY <2>1, BringsGets
  <2>3. CASE m.kind \in NotesGets
    <3>1. m \in LatestTranscripts' /\ m.kind \in TranscriptKinds
      BY <1>3, <2>1, <2>3
      DEF NotesAnswered, LatestTranscripts, TranscriptOf, Editors!Stored, TranscriptKinds,
          NotesGets, NotesAbroad
    <3>2. Follows(inbox', TranscriptKinds, TranscriptKinds, LatestTranscripts')
      BY <2>1, <3>1, FollowsGets
    <3>3. QED
      BY <2>2, <3>1, <3>2
  <2>4. CASE m.kind \notin NotesGets
    <3>1. m.kind \notin TranscriptKinds /\ ~NotesFetches
      BY <1>3, <2>4
      DEF NotesAnswered, TranscriptKinds, NotesWrites, NotesGets, NotesAbroad, NotesAsked,
          NotesFetches
    <3>2. ~NotesPending
      BY <1>0, <3>1, SettledStep
    <3>3. LatestTranscripts' = LatestTranscripts
      BY <1>0, <2>1, <3>2 DEF LatestTranscripts
    <3>4. Follows(inbox', TranscriptKinds, TranscriptKinds, LatestTranscripts')
      BY <2>1, <3>1, <3>3, FollowsGets
    <3>5. QED
      BY <2>1, <2>2, <3>2, <3>4 DEF Editors!Loaded
  <2>5. QED
    BY <2>3, <2>4
<1>4. ASSUME NEW m \in NotesReplies, NotesShows(m) PROVE TranscriptFollows'
  <2>1. Drops(inbox, inbox', m) /\ UNCHANGED transcript
    BY <1>4, ShowsDrop
  <2>2. ~NotesPending
    <3>1. ~NotesFetches
      BY <2>1 DEF NotesFetches, NotesAnswered, NotesAnswers, Gets, Drops
    <3>2. QED
      BY <1>0, <3>1, SettledStep
  <2>3. LatestTranscripts' = LatestTranscripts
    BY <1>0, <2>1, <2>2 DEF LatestTranscripts
  <2>4. /\ Follows(inbox', TranscriptKinds, TranscriptKinds, LatestTranscripts')
        /\ m.kind \in TranscriptKinds =>
             m \in LatestTranscripts \/ Brings(inbox', TranscriptKinds)
    BY <2>1, <2>3, FollowsDrops
  <2>5. ASSUME Editors!Loaded'
        PROVE  \/ details'.t = transcript' \/ ~details'.t.own
               \/ Brings(inbox', TranscriptKinds)
    <3>1. CASE m.kind \in TranscriptKinds
      BY <1>4, <2>1, <2>2, <2>4, <2>5, <3>1, ArrivalShows DEF LatestTranscripts
    <3>2. CASE m.kind \notin TranscriptKinds
      <4>1. (details'.t = details.t \/ ~details'.t.own) /\ Editors!Loaded
        BY <1>4, <2>5, <3>2, ArrivalShows DEF TranscriptKinds, NotesGets
      <4>2. Brings(inbox, TranscriptKinds) => Brings(inbox', TranscriptKinds)
        BY <2>1, <3>2, BringsDrops
      <4>3. QED
        BY <2>1, <2>2, <4>1, <4>2
    <3>3. QED
      BY <3>1, <3>2
  <2>6. QED
    BY <2>4, <2>5
<1>5. QED
  BY <1>0, <1>1, <1>2, <1>3, <1>4, SettledStep

LEMMA SummaryStep ==
  ASSUME NotesTyped, NotesTyped', NotesOpening, SummaryFollows, NotesStep
  PROVE  SummaryFollows'
<1> USE DEF SummaryFollows
<1>0. SUFFICES ASSUME ~NotesPending' PROVE SummaryFollows'
  BY PendingFollows
<1>1. CASE NotesRenders \/ NotesRequeues
  <2>1. UNCHANGED <<summary, inbox>> /\ (Editors!Loaded' => UNCHANGED details /\ Editors!Loaded)
    BY <1>1, QuietStep
  <2>2. ~NotesPending
    BY <1>0, <2>1, SettledStep, AnsweredGets DEF NotesFetches, NotesAnswered
  <2>3. LatestSummaries' = LatestSummaries
    BY <1>0, <2>1, <2>2 DEF LatestSummaries
  <2>4. QED
    BY <2>1, <2>2, <2>3
<1>2. ASSUME NEW m \in NotesReplies, NotesWrote(m) \/ NotesAnswered(m) PROVE SummaryFollows'
  <2>1. Gets(inbox, inbox', m) /\ UNCHANGED details
    BY <1>2 DEF NotesWrote, NotesAnswered, NotesAnswers
  <2>2. Brings(inbox', SummaryKinds) <=> Brings(inbox, SummaryKinds) \/ m.kind \in SummaryKinds
    BY <2>1, BringsGets
  <2>3. CASE m.kind \in SummaryKinds
    <3>1. m \in LatestSummaries'
      BY <1>2, <2>3
      DEF NotesWrote, NotesAnswered, LatestSummaries, SummaryOf, Editors!Stored, SummaryKinds,
          NotesGets, NotesAbroad, NotesWrites
    <3>2. Follows(inbox', SummaryKinds, SummaryKinds, LatestSummaries')
      BY <2>1, <2>3, <3>1, FollowsGets
    <3>3. QED
      BY <2>2, <2>3, <3>2
  <2>4. CASE m.kind \notin SummaryKinds
    <3>1. UNCHANGED summary /\ ~NotesFetches
      BY <1>2, <2>4
      DEF NotesWrote, NotesAnswered, SummaryKinds, NotesWrites, NotesGets, NotesAbroad,
          NotesAsked, NotesFetches
    <3>2. ~NotesPending
      BY <1>0, <3>1, SettledStep
    <3>3. LatestSummaries' = LatestSummaries
      BY <1>0, <3>1, <3>2 DEF LatestSummaries
    <3>4. Follows(inbox', SummaryKinds, SummaryKinds, LatestSummaries')
      BY <2>1, <2>4, <3>3, FollowsGets
    <3>5. QED
      BY <2>1, <2>2, <3>1, <3>2, <3>4 DEF Editors!Loaded
  <2>5. QED
    BY <2>3, <2>4
<1>3. ASSUME NEW m \in NotesReplies, NotesShows(m) PROVE SummaryFollows'
  <2>1. Drops(inbox, inbox', m) /\ UNCHANGED summary
    BY <1>3, ShowsDrop
  <2>2. ~NotesPending
    <3>1. ~NotesFetches
      BY <2>1 DEF NotesFetches, NotesAnswered, NotesAnswers, Gets, Drops
    <3>2. QED
      BY <1>0, <3>1, SettledStep
  <2>3. LatestSummaries' = LatestSummaries
    BY <1>0, <2>1, <2>2 DEF LatestSummaries
  <2>4. /\ Follows(inbox', SummaryKinds, SummaryKinds, LatestSummaries')
        /\ m.kind \in SummaryKinds => m \in LatestSummaries \/ Brings(inbox', SummaryKinds)
    BY <2>1, <2>3, FollowsDrops
  <2>5. ASSUME Editors!Loaded'
        PROVE  details'.s = summary' \/ Brings(inbox', SummaryKinds)
    <3>1. CASE m.kind \in SummaryKinds
      BY <1>3, <2>1, <2>2, <2>4, <2>5, <3>1, ArrivalShows DEF LatestSummaries
    <3>2. CASE m.kind \notin SummaryKinds
      <4>1. details'.s = details.s /\ Editors!Loaded
        BY <1>3, <2>5, <3>2, ArrivalShows DEF SummaryKinds, NotesGets
      <4>2. Brings(inbox, SummaryKinds) => Brings(inbox', SummaryKinds)
        BY <2>1, <3>2, BringsDrops
      <4>3. QED
        BY <2>1, <2>2, <4>1, <4>2
    <3>3. QED
      BY <3>1, <3>2
  <2>6. QED
    BY <2>4, <2>5
<1>4. QED
  BY <1>0, <1>1, <1>2, <1>3, SettledStep

LEMMA StaleStep ==
  ASSUME NotesTyped, NotesTyped', NotesOpening, StaleFollows, NotesStep
  PROVE  StaleFollows'
<1> USE DEF StaleFollows
<1>0. SUFFICES ASSUME ~NotesPending' PROVE StaleFollows'
  BY PendingFollows
<1>1. ASSUME UNCHANGED <<transcript, summary>>, ~NotesPending
      PROVE  RightMarks' = RightMarks /\ (Unmarked' <=> Unmarked)
  <2>1. Unmarked' <=> Unmarked
    BY <1>1 DEF Unmarked, Editors!Stored
  <2>2. QED
    BY <1>0, <1>1, <2>1 DEF RightMarks
<1>2. CASE NotesRenders \/ NotesRequeues
  <2>1. /\ UNCHANGED <<transcript, summary, inbox>>
        /\ Editors!Loaded' => UNCHANGED details /\ Editors!Loaded
    BY <1>2, QuietStep
  <2>2. ~NotesPending
    BY <1>0, <2>1, SettledStep, AnsweredGets DEF NotesFetches, NotesAnswered
  <2>3. RightMarks' = RightMarks /\ (Unmarked' <=> Unmarked)
    BY <1>1, <2>1, <2>2
  <2>4. QED
    BY <2>1, <2>2, <2>3
<1>3. ASSUME NEW m \in NotesReplies, NotesWrote(m) \/ NotesAnswered(m) PROVE StaleFollows'
  <2>1. Gets(inbox, inbox', m) /\ UNCHANGED details
    BY <1>3 DEF NotesWrote, NotesAnswered, NotesAnswers
  <2>2. Brings(inbox', StaleKinds) <=> Brings(inbox, StaleKinds) \/ m.kind \in StaleKinds
    BY <2>1, BringsGets
  <2>3. CASE m.kind \in StaleKinds
    <3>1. Unmarked' => MarksStale(m)
      <4>1. CASE NotesWrote(m)
        BY <4>1 DEF NotesWrote, MarksStale
      <4>2. CASE NotesAnswered(m) /\ m.kind = "saveSummary"
        BY <4>2 DEF NotesAnswered, NotesGets, NotesAbroad, Unmarked
      <4>3. CASE NotesAnswered(m) /\ m.kind \in NotesGets
        <5>1. m.doc = Editors!Stored /\ UNCHANGED <<transcript, summary>>
          BY <4>3 DEF NotesAnswered, NotesGets, NotesAbroad
        <5>2. Unmarked' => m.doc.stale
          BY <5>1 DEF Unmarked, Editors!Stored
        <5>3. QED
          BY <4>3, <5>2 DEF MarksStale
      <4>4. CASE NotesAnswered(m) /\ m.kind \in NotesWrites
        BY <4>4 DEF MarksStale
      <4>5. QED
        BY <1>3, <2>3, <4>1, <4>2, <4>3, <4>4 DEF StaleKinds, TranscriptKinds, SummaryKinds
    <3>2. m \in RightMarks'
      BY <3>1 DEF RightMarks
    <3>3. Follows(inbox', StaleKinds, StaleKinds, RightMarks')
      BY <2>1, <2>3, <3>2, FollowsGets
    <3>4. QED
      BY <2>2, <2>3, <3>3
  <2>4. CASE m.kind \notin StaleKinds
    <3>1. UNCHANGED <<transcript, summary>> /\ ~NotesFetches
      BY <1>3, <2>4
      DEF NotesWrote, NotesAnswered, StaleKinds, TranscriptKinds, SummaryKinds, NotesWrites,
          NotesGets, NotesAbroad, NotesAsked, NotesFetches
    <3>2. ~NotesPending
      BY <1>0, <3>1, SettledStep
    <3>3. RightMarks' = RightMarks /\ (Unmarked' <=> Unmarked)
      BY <1>1, <3>1, <3>2
    <3>4. Follows(inbox', StaleKinds, StaleKinds, RightMarks')
      BY <2>1, <2>4, <3>3, FollowsGets
    <3>5. QED
      BY <2>1, <2>2, <3>2, <3>3, <3>4 DEF Editors!Loaded
  <2>5. QED
    BY <2>3, <2>4
<1>4. ASSUME NEW m \in NotesReplies, NotesShows(m) PROVE StaleFollows'
  <2>1. Drops(inbox, inbox', m) /\ UNCHANGED <<transcript, summary>>
    BY <1>4, ShowsDrop
  <2>2. ~NotesPending
    <3>1. ~NotesFetches
      BY <2>1 DEF NotesFetches, NotesAnswered, NotesAnswers, Gets, Drops
    <3>2. QED
      BY <1>0, <3>1, SettledStep
  <2>3. RightMarks' = RightMarks /\ (Unmarked' <=> Unmarked)
    BY <1>1, <2>1, <2>2
  <2>4. /\ Follows(inbox', StaleKinds, StaleKinds, RightMarks')
        /\ m.kind \in StaleKinds => m \in RightMarks \/ Brings(inbox', StaleKinds)
    BY <2>1, <2>3, FollowsDrops
  <2>5. ASSUME Editors!Loaded'
        PROVE  (Unmarked' => details'.stale) \/ Brings(inbox', StaleKinds)
    <3>1. CASE m.kind \in StaleKinds
      BY <1>4, <2>2, <2>3, <2>4, <2>5, <3>1, ArrivalShows DEF RightMarks
    <3>2. CASE m.kind \notin StaleKinds
      <4>1. (details'.stale = details.stale \/ details'.stale) /\ Editors!Loaded
        BY <1>4, <2>5, <3>2, ArrivalShows DEF StaleKinds, SummaryKinds, NotesGets
      <4>2. Brings(inbox, StaleKinds) => Brings(inbox', StaleKinds)
        BY <2>1, <3>2, BringsDrops
      <4>3. QED
        BY <2>2, <2>3, <4>1, <4>2
    <3>3. QED
      BY <3>1, <3>2
  <2>6. QED
    BY <2>4, <2>5
<1>5. QED
  BY <1>0, <1>2, <1>3, <1>4, SettledStep

NotesWriteSafe == OneOf(calls, inbox, NotesChanges) /\ NotesEditorWaits /\ NotesKept

\* A change of the transcript is one of the kinds that write it.
LEMMA ChangesBring ==
  ASSUME NotesTyped
  PROVE  /\ Has(calls, NotesChanges) <=> Brings(calls, NotesWrites)
         /\ Has(inbox, NotesChanges) <=> Brings(inbox, NotesWrites)
<1>1. /\ \A i \in 1..Len(calls) : calls[i] \in NotesMessages
      /\ \A i \in 1..Len(inbox) : inbox[i] \in NotesMessages
  BY DEF NotesTyped, NotesMessages
<1>2. QED
  BY <1>1 DEF Has, Brings, NotesChanges

LEMMA NotSaving == ASSUME NotesTyped, ~Editors!Saving PROVE ~AnyOf(calls, inbox, NotesChanges)
<1>1. Editors!Kinds(calls \o inbox) \cap NotesWrites = {}
  BY DEF Editors!Saving, NotesWrites
<1>2. /\ \A i \in 1..Len(calls) : calls[i].kind \in Editors!Kinds(calls \o inbox)
      /\ \A i \in 1..Len(inbox) : inbox[i].kind \in Editors!Kinds(calls \o inbox)
  BY KindsAre DEF NotesTyped
<1>3. ~Brings(calls, NotesWrites) /\ ~Brings(inbox, NotesWrites)
  BY <1>1, <1>2 DEF Brings
<1>4. QED
  BY <1>3, ChangesBring DEF AnyOf

\* A blind step does not come before a step that is not.
LEMMA BlindStays ==
  ASSUME NotesTyped, NotesStep, ~blind'
  PROVE  /\ ~blind
         /\ NotesMounts \/ (\E m \in NotesReplies : NotesOpens(m)) =>
              ~AnyOf(calls, inbox, NotesChanges)
<1>1. NotesMounts \/ (\E m \in NotesReplies : NotesOpens(m)) => ~blind /\ ~Editors!Saving
  BY DEF NotesMounts, NotesOpens
<1>2. UNCHANGED blind \/ NotesMounts \/ (\E m \in NotesReplies : NotesOpens(m))
  BY DEF NotesStep, NotesRenders, NotesEdits, NotesReopens, NotesAsks, NotesRetries,
         NotesRequeues, NotesBegins, NotesEnds, NotesWrote, NotesAnswered, NotesShows,
         NotesShowsWrite, NotesShowsSummary, NotesShowsNothing, NotesEnded, NotesRefreshes
<1>3. QED
  BY <1>1, <1>2, NotSaving

\* Changes of the transcript, of some editors: a reply is on its way when the request was.
LEMMA ChangesStep ==
  ASSUME NotesTyped, NotesStep, NEW some, some \subseteq NotesChanges,
         OneOf(calls, inbox, some),
         \A m \in NotesChanges, c \in NotesChanges : m.by = c.by => (m \in some <=> c \in some),
         \A c \in NotesCalls : NotesAsks(c) /\ c \in some => ~AnyOf(calls, inbox, some)
  PROVE  /\ OneOf(calls', inbox', some)
         /\ \/ AnyOf(calls', inbox', some) => AnyOf(calls, inbox, some)
            \/ \E c \in NotesCalls : NotesAsks(c) /\ c \in some
<1>1. CASE UNCHANGED <<calls, inbox>>
  BY <1>1
<1>2. ASSUME NEW c \in NotesCalls, NotesSends(c), c \notin some, UNCHANGED inbox
      PROVE  /\ OneOf(calls', inbox', some)
             /\ AnyOf(calls', inbox', some) => AnyOf(calls, inbox, some)
  <2>1. Gets(calls, calls', c)
    BY <1>2 DEF NotesSends
  <2>2. QED
    BY <1>2, <2>1, OneSent
<1>3. ASSUME NEW c \in NotesCalls, NotesAsks(c), c \in some, UNCHANGED inbox
      PROVE  OneOf(calls', inbox', some)
  <2>1. Gets(calls, calls', c) /\ ~AnyOf(calls, inbox, some)
    BY <1>3 DEF NotesAsks, NotesSends
  <2>2. QED
    BY <1>3, <2>1, OneSent
<1>4. CASE NotesRenders
  <2>1. \/ UNCHANGED <<calls, inbox>>
        \/ \E c \in NotesCalls :
             /\ NotesSends(c) /\ UNCHANGED inbox
             /\ NotesAsks(c) \/ c.kind \notin NotesWrites
    BY <1>4
    DEF NotesRenders, NotesEdits, NotesMounts, NotesReopens, NotesAsks, NotesRetries, NotesWrites
  <2>2. \A c : c.kind \notin NotesWrites => c \notin some
    BY DEF NotesChanges
  <2>3. QED
    BY <1>1, <1>2, <1>3, <2>1, <2>2
<1>5. ASSUME NEW m \in NotesReplies, NotesWrote(m) \/ NotesAnswered(m)
      PROVE  /\ OneOf(calls', inbox', some)
             /\ AnyOf(calls', inbox', some) => AnyOf(calls, inbox, some)
  <2>1. /\ Drops(calls, calls', Head(calls)) /\ Gets(inbox, inbox', m)
        /\ m.by = Head(calls).by /\ Head(calls) \in NotesMessages
        /\ m.kind \in NotesWrites => Head(calls).kind \in NotesWrites
    BY <1>5
    DEF NotesWrote, NotesAnswered, NotesHandles, NotesAnswers, NotesMessages, NotesWrites,
        NotesGets, NotesAbroad
  <2>2. m \in some => Head(calls) \in some
    BY <2>1 DEF NotesChanges
  <2>3. QED
    BY <2>1, <2>2, OneAnswered
<1>6. CASE NotesRequeues
  <2>1. Drops(calls, calls', Head(calls)) /\ UNCHANGED inbox
    BY <1>6 DEF NotesRequeues, NotesHandles
  <2>2. QED
    BY <2>1, OneHandled
<1>7. CASE NotesBegins
  BY <1>1, <1>7 DEF NotesBegins
<1>8. ASSUME NEW m \in NotesReplies, NotesEnds(m)
      PROVE  /\ OneOf(calls', inbox', some)
             /\ AnyOf(calls', inbox', some) => AnyOf(calls, inbox, some)
  <2>1. Gets(inbox, inbox', m) /\ UNCHANGED calls /\ m \notin some
    BY <1>8 DEF NotesEnds, NotesAnswers, NotesChanges, NotesWrites
  <2>2. QED
    BY <2>1, OneAdded
<1>9. ASSUME NEW m \in NotesReplies, NotesShows(m)
      PROVE  /\ OneOf(calls', inbox', some)
             /\ AnyOf(calls', inbox', some) => AnyOf(calls, inbox, some)
  <2>1. Drops(inbox, inbox', m)
    BY <1>9, ShowsDrop
  <2>2. /\ OneOf(calls, inbox', some) /\ (AnyOf(calls, inbox', some) => AnyOf(calls, inbox, some))
        /\ m \in some => ~AnyOf(calls, inbox', some) /\ AnyOf(calls, inbox, some)
    BY <2>1, OneArrived, HasDrops DEF AnyOf
  <2>3. ASSUME NEW c \in NotesCalls, NotesSends(c),
               c.kind \in NotesWrites => m.kind \in NotesWrites /\ c.by = m.by
        PROVE  /\ OneOf(calls', inbox', some)
               /\ AnyOf(calls', inbox', some) => AnyOf(calls, inbox, some)
    <3>1. Gets(calls, calls', c)
      BY <2>3 DEF NotesSends
    <3>2. c \in some => m \in some
      BY <2>3 DEF NotesChanges, NotesMessages
    <3>3. /\ OneOf(calls', inbox', some)
          /\ AnyOf(calls', inbox', some) <=> AnyOf(calls, inbox', some) \/ c \in some
      BY <2>2, <3>1, <3>2, OneSent
    <3>4. QED
      BY <2>2, <3>2, <3>3
  <2>4. \/ UNCHANGED calls
        \/ \E c \in NotesCalls :
             NotesSends(c) /\ (c.kind \in NotesWrites => m.kind \in NotesWrites /\ c.by = m.by)
    BY <1>9, ShowsSend DEF NotesWrites
  <2>5. QED
    BY <2>2, <2>3, <2>4
<1>10. QED
  BY <1>4, <1>5, <1>6, <1>7, <1>8, <1>9 DEF NotesStep

\* The editor asks for a change only when there is none.
LEMMA AsksAlone ==
  ASSUME NotesEditorAsks, NotesEditorWaits, NEW c \in NotesCalls, NotesAsks(c),
         c.kind \in NotesWrites
  PROVE  ~AnyOf(calls, inbox, NotesChanges)
<1>1. /\ Editors!Loaded /\ ~AnyOf(calls, inbox, NotesOurs) /\ ~AnyOf(calls, inbox, NotesTheirs)
  BY DEF NotesAsks, NotesEditorAsks, NotesEditorWaits, NotesWrites
<1>2. NotesChanges \subseteq NotesOurs \cup NotesTheirs
  BY DEF NotesChanges, NotesOurs, NotesTheirs, NotesRequests, NotesAsked, NotesWrites
<1>3. QED
  BY <1>1, <1>2 DEF AnyOf, Has

LEMMA OneWriteStep ==
  ASSUME NotesTyped, NotesEditorAsks, NotesWriteSafe, NotesStep
  PROVE  OneOf(calls', inbox', NotesChanges)
<1>1. \A c \in NotesCalls : NotesAsks(c) /\ c \in NotesChanges => ~AnyOf(calls, inbox, NotesChanges)
  BY AsksAlone DEF NotesWriteSafe, NotesChanges
<1>2. OneOf(calls, inbox, NotesChanges)
  BY DEF NotesWriteSafe
<1>3. QED
  BY <1>1, <1>2, ChangesStep

LEMMA EditorWaitsStep ==
  ASSUME NotesTyped, NotesEditorAsks, NotesWriteSafe, NotesStep, ~blind'
  PROVE  NotesEditorWaits'
<1> USE DEF NotesEditorWaits
<1>0. OneOf(calls, inbox, NotesChanges) /\ NotesEditorWaits
  BY DEF NotesWriteSafe
<1>1. SUFFICES ASSUME Editors!Loaded'
               PROVE  /\ ~AnyOf(calls', inbox', NotesTheirs')
                      /\ AnyOf(calls', inbox', NotesChanges') => tab'.name = "t"
  OBVIOUS
<1>2. \A c \in NotesCalls : NotesAsks(c) /\ c \in NotesChanges => ~AnyOf(calls, inbox, NotesChanges)
  BY <1>0, AsksAlone DEF NotesChanges
<1>3. /\ NotesChanges' = NotesChanges /\ NotesTheirs' \subseteq NotesChanges
      /\ NotesTheirs \subseteq NotesChanges
  BY DEF NotesChanges, NotesTheirs
<1>4. \/ AnyOf(calls', inbox', NotesChanges) => AnyOf(calls, inbox, NotesChanges)
      \/ \E c \in NotesCalls : NotesAsks(c) /\ c \in NotesChanges
  BY <1>0, <1>2, ChangesStep
<1>5. CASE NotesMounts \/ \E m \in NotesReplies : NotesOpens(m)
  <2>1. ~AnyOf(calls, inbox, NotesChanges)
    BY <1>5, BlindStays
  <2>2. ~AnyOf(calls', inbox', NotesChanges)
    <3>1. CASE NotesMounts /\ UNCHANGED inbox
      BY <2>1, <3>1 DEF NotesMounts
    <3>2. ASSUME NEW m \in NotesReplies, NotesOpens(m)
          PROVE  ~AnyOf(calls', inbox', NotesChanges)
      <4>1. UNCHANGED calls /\ Drops(inbox, inbox', m)
        BY <3>2 DEF NotesOpens, NotesMoves, NotesArrives
      <4>2. QED
        BY <2>1, <4>1, HasDrops DEF AnyOf
    <3>3. CASE NotesMounts /\ ~UNCHANGED inbox
      BY <2>1, <1>4, <3>3 DEF NotesMounts, NotesAsks, NotesSends, Gets
    <3>4. QED
      BY <1>5, <3>1, <3>2, <3>3
  <2>3. QED
    BY <1>3, <2>2, FewerHave
<1>6. CASE ~NotesMounts /\ ~ \E m \in NotesReplies : NotesOpens(m)
  <2>1. Editors!Loaded /\ tab'.name = tab.name /\ UNCHANGED opens
    <3>1. CASE NotesRenders
      BY <1>1, <1>6, <3>1
      DEF NotesRenders, NotesEdits, NotesReopens, NotesAsks, NotesRetries, Editors!Loaded
    <3>2. CASE NotesRequeues \/ NotesBegins
      BY <1>1, <3>2 DEF NotesRequeues, NotesBegins, Editors!Loaded
    <3>3. ASSUME NEW m \in NotesReplies, NotesWrote(m) \/ NotesAnswered(m) \/ NotesEnds(m)
          PROVE  Editors!Loaded /\ tab'.name = tab.name /\ UNCHANGED opens
      BY <1>1, <3>3 DEF NotesWrote, NotesAnswered, NotesEnds, Editors!Loaded
    <3>4. ASSUME NEW m \in NotesReplies, NotesShows(m)
          PROVE  Editors!Loaded /\ tab'.name = tab.name /\ UNCHANGED opens
      <4>1. Editors!Loaded
        BY <1>1, <1>6, <3>4
        DEF NotesShows, NotesShowsWrite, NotesShowsSummary, NotesShowsNothing, NotesEnded,
            NotesRefreshes, Editors!Loaded
      <4>2. QED
        BY <3>4, <4>1, ShowsKeepTab, ShowsDrop
    <3>5. QED
      BY <3>1, <3>2, <3>3, <3>4 DEF NotesStep
  <2>2. NotesTheirs' = NotesTheirs
    BY <2>1 DEF NotesTheirs
  <2>3. ~AnyOf(calls, inbox, NotesTheirs) /\ OneOf(calls, inbox, NotesTheirs)
    BY <1>0, <2>1, NoneIsOne
  <2>4. \A c \in NotesCalls : NotesAsks(c) => c \notin NotesTheirs
    BY DEF NotesAsks, NotesTheirs
  <2>5. \A m \in NotesChanges, c \in NotesChanges :
          m.by = c.by => (m \in NotesTheirs <=> c \in NotesTheirs)
    BY DEF NotesTheirs
  <2>6. ~AnyOf(calls', inbox', NotesTheirs)
    BY <1>3, <2>3, <2>4, <2>5, ChangesStep
  <2>7. AnyOf(calls', inbox', NotesChanges) => tab'.name = "t"
    <3>1. ASSUME NEW c \in NotesCalls, NotesAsks(c), c \in NotesChanges PROVE tab'.name = "t"
      BY <3>1 DEF NotesAsks, NotesChanges, NotesWrites
    <3>2. QED
      BY <1>0, <1>4, <2>1, <3>1
  <2>8. QED
    BY <1>3, <2>2, <2>6, <2>7
<1>7. QED
  BY <1>5, <1>6

LEMMA SentGets ==
  ASSUME SavedIsSent, UNCHANGED saved, NEW c, NotesSends(c), c.kind = "save" => Survives(c.doc)
  PROVE  SavedIsSent'
BY DEF SavedIsSent, NotesSends, Gets, Survives

LEMMA SentDrops ==
  ASSUME SavedIsSent, UNCHANGED saved, NEW c, NotesHandles(c)
  PROVE  SavedIsSent'
<1>1. \A i \in 1..Len(calls') : calls'[i] = calls[i + 1] /\ i + 1 \in 1..Len(calls)
  BY DEF NotesHandles, Drops
<1>2. QED
  BY <1>1 DEF SavedIsSent, Survives

\* The renderer's own steps.
LEMMA RendererKeeps ==
  ASSUME NotesTyped, NotesEditorAsks, NotesWriteSafe, NotesStep, ~blind', NotesRenders
  PROVE  NotesKept'
<1>0. /\ saved \subseteq transcript.edits /\ SavedIsSent /\ SavedFollows /\ SavedIsShown
      /\ NotesEditorWaits /\ UNCHANGED <<transcript, saved, inbox>>
  BY DEF NotesWriteSafe, NotesKept, NotesRenders
<1>1. saved' \subseteq transcript'.edits /\ SavedFollows'
  BY <1>0 DEF SavedFollows, WithSaved
<1>2. ASSUME ~AnyOf(calls, inbox, NotesChanges), Editors!Loaded
      PROVE  /\ ~Brings(inbox, NotesWrites)
             /\ Survives(details.t) /\ (tab.name = "t" => Survives(tab.draft))
  <2>1. ~Brings(inbox, NotesWrites)
    BY <1>2, ChangesBring DEF AnyOf
  <2>2. QED
    BY <1>0, <1>2, <2>1 DEF SavedIsShown
<1>3. CASE NotesEdits
  <2>1. SavedIsSent'
    BY <1>0, <1>3 DEF NotesEdits, SavedIsSent, Survives
  <2>2. SavedIsShown'
    BY <1>0, <1>3 DEF NotesEdits, SavedIsShown, Survives, Editors!Loaded
  <2>3. QED
    BY <1>1, <2>1, <2>2 DEF NotesKept
<1>4. CASE NotesMounts
  <2>1. ~AnyOf(calls, inbox, NotesChanges)
    BY <1>4, BlindStays
  <2>2. SavedIsSent'
    BY <1>0, <1>4 DEF NotesMounts, SavedIsSent, Survives
  <2>3. SavedIsShown'
    BY <1>0, <1>2, <1>4, <2>1 DEF NotesMounts, SavedIsShown, Survives, Editors!Loaded
  <2>4. QED
    BY <1>1, <2>2, <2>3 DEF NotesKept
<1>5. CASE NotesReopens
  <2>1. SavedIsSent'
    BY <1>0, <1>5, SentGets DEF NotesReopens
  <2>2. SavedIsShown'
    BY <1>5 DEF NotesReopens, SavedIsShown
  <2>3. QED
    BY <1>1, <2>1, <2>2 DEF NotesKept
<1>6. CASE NotesRetries
  <2>1. SavedIsSent'
    BY <1>0, <1>6, SentGets DEF NotesRetries
  <2>2. SavedIsShown'
    BY <1>0, <1>6 DEF NotesRetries, SavedIsShown, Survives, Editors!Loaded
  <2>3. QED
    BY <1>1, <2>1, <2>2 DEF NotesKept
<1>7. ASSUME NEW c \in NotesCalls, NotesAsks(c) PROVE NotesKept'
  <2>1. c.kind = "save" => Survives(c.doc)
    <3>1. ASSUME c.kind = "save"
          PROVE  /\ ~AnyOf(calls, inbox, NotesChanges) /\ Editors!Loaded
                 /\ tab.name = "t" /\ c.doc = tab.draft
      BY <1>0, <1>7, <3>1, AsksAlone DEF NotesWriteSafe, NotesAsks, NotesWrites
    <3>2. QED
      BY <1>2, <3>1
  <2>2. SavedIsSent'
    BY <1>0, <1>7, <2>1, SentGets DEF NotesAsks
  <2>3. SavedIsShown'
    BY <1>0, <1>7 DEF NotesAsks, SavedIsShown, Survives, Editors!Loaded
  <2>4. QED
    BY <1>1, <2>2, <2>3 DEF NotesKept
<1>8. QED
  BY <1>3, <1>4, <1>5, <1>6, <1>7 DEF NotesRenders

\* What the draft of the transcript's editor is when a reply has arrived.
LEMMA DraftShows ==
  ASSUME NotesTyped, NotesOpening, Editors!Loaded', NEW m, NotesShows(m), tab.name = "t"
  PROVE  /\ m.kind \in TranscriptKinds => tab'.draft = TranscriptOf(m)
         /\ m.kind \notin TranscriptKinds => tab'.draft = tab.draft \/ ~tab'.draft.own
<1> USE DEF TranscriptKinds, NotesWrites, NotesGets
<1>0. 1 \in 1..Len(inbox) /\ inbox[1] = m /\ m \in NotesReplies
  BY ShowsDrop DEF Drops
<1>1. CASE NotesShowsWrite(m)
  <2>1. m.kind \in NotesRenames /\ tab'.draft = m.doc
    BY <1>1 DEF NotesShowsWrite, Editors!Loaded
  <2>2. m.kind = "elsewhere" => ~m.doc.own
    BY <1>0, ReplyFields DEF NotesAbroad
  <2>3. QED
    BY <2>1, <2>2 DEF NotesRenames, TranscriptOf
<1>2. CASE NotesShowsSummary(m)
  BY <1>2 DEF NotesShowsSummary
<1>3. CASE NotesShowsNothing(m) \/ NotesEnded(m)
  BY <1>3 DEF NotesShowsNothing, NotesEnded
<1>4. CASE NotesRefreshes(m)
  BY <1>4 DEF NotesRefreshes, NotesFetched, Editors!Loaded, TranscriptOf
<1>5. CASE NotesOpens(m)
  <2>1. ~Editors!Loaded /\ m.kind = "open"
    BY <1>0, <1>5 DEF NotesOpens, NotesOpening
  <2>2. QED
    BY <1>5, <2>1 DEF NotesOpens, NotesFetched, Editors!Loaded, TranscriptOf
<1>6. QED
  BY <1>1, <1>2, <1>3, <1>4, <1>5 DEF NotesShows

LEMMA KeptStep ==
  ASSUME NotesTyped, NotesTyped', NotesOpening, NotesEditorAsks, NotesWriteSafe, NotesStep, ~blind'
  PROVE  NotesKept'
<1>0. /\ saved \subseteq transcript.edits /\ SavedIsSent /\ SavedFollows /\ SavedIsShown
      /\ OneOf(calls, inbox, NotesChanges)
  BY DEF NotesWriteSafe, NotesKept
<1>1. ASSUME NEW m \in NotesReplies, NotesWrote(m) PROVE NotesKept'
  <2>1. /\ Drops(calls, calls', Head(calls)) /\ Gets(inbox, inbox', m)
        /\ Head(calls) \in NotesCalls /\ Head(calls).kind \in NotesWrites
        /\ m.kind \in NotesWrites /\ m.doc = transcript'
        /\ \/ /\ Head(calls).kind = "save" /\ Head(calls).doc.own
              /\ transcript'.edits = Head(calls).doc.edits
           \/ transcript'.edits = transcript.edits \cup Head(calls).doc.edits
        /\ saved' = saved \cup transcript'.edits
    BY <1>1 DEF NotesWrote, NotesHandles, NotesAnswers
  <2>2. saved' \subseteq transcript'.edits
    <3>1. CASE transcript'.edits = transcript.edits \cup Head(calls).doc.edits
      BY <1>0, <2>1, <3>1
    <3>2. CASE /\ Head(calls).kind = "save" /\ Head(calls).doc.own
               /\ transcript'.edits = Head(calls).doc.edits
      <4>1. Head(calls) = calls[1] /\ 1 \in 1..Len(calls)
        BY <2>1 DEF Drops
      <4>2. saved \subseteq Head(calls).doc.edits
        BY <1>0, <3>2, <4>1 DEF SavedIsSent, Survives
      <4>3. QED
        BY <2>1, <3>2, <4>2
    <3>3. QED
      BY <2>1, <3>1, <3>2
  <2>3. ~Brings(calls', NotesWrites)
    <3>1. Head(calls) \in NotesChanges
      BY <2>1 DEF NotesChanges, NotesMessages
    <3>2. ~Has(calls', NotesChanges)
      BY <1>0, <2>1, <3>1, OneDrops DEF OneOf
    <3>3. \A i \in 1..Len(calls') : calls'[i] \in NotesMessages
      BY DEF NotesTyped, NotesMessages
    <3>4. QED
      BY <3>2, <3>3 DEF Has, Brings, NotesChanges
  <2>4. SavedIsSent'
    BY <2>3 DEF SavedIsSent, Brings, NotesWrites
  <2>5. m \in WithSaved'
    BY <2>1, <2>2 DEF WithSaved, TranscriptOf, NotesWrites, NotesGets
  <2>6. SavedFollows'
    BY <1>0, <2>1, <2>5, FollowsGets DEF SavedFollows
  <2>7. Brings(inbox', NotesWrites)
    BY <2>1, BringsGets
  <2>8. QED
    BY <2>2, <2>4, <2>6, <2>7 DEF NotesKept, SavedIsShown
<1>2. ASSUME NEW m \in NotesReplies, NotesAnswers(m), m.kind \notin NotesWrites,
             UNCHANGED <<transcript, details, tab, saved>>, SavedIsSent',
             m.kind \in TranscriptKinds => m.doc.t = transcript
      PROVE  NotesKept'
  <2>1. Gets(inbox, inbox', m) /\ WithSaved' = WithSaved
    BY <1>2 DEF NotesAnswers, WithSaved
  <2>2. m.kind \in TranscriptKinds => m \in WithSaved
    BY <1>0, <1>2 DEF WithSaved, TranscriptOf, TranscriptKinds
  <2>3. SavedFollows'
    BY <1>0, <2>1, <2>2, FollowsGets DEF SavedFollows
  <2>4. Brings(inbox, NotesWrites) => Brings(inbox', NotesWrites)
    BY <2>1, BringsGets
  <2>5. SavedIsShown'
    BY <1>0, <1>2, <2>4 DEF SavedIsShown, Survives, Editors!Loaded
  <2>6. QED
    BY <1>0, <1>2, <2>3, <2>5 DEF NotesKept
<1>3. ASSUME NEW m \in NotesReplies, NotesAnswered(m) PROVE NotesKept'
  <2>1. NotesHandles(Head(calls)) /\ NotesAnswers(m)
        /\ UNCHANGED <<transcript, details, tab, saved>>
    BY <1>3 DEF NotesAnswered
  <2>2. m.kind \notin NotesWrites /\ (m.kind \in TranscriptKinds => m.doc.t = transcript)
    BY <1>3
    DEF NotesAnswered, NotesWrites, NotesGets, NotesAbroad, TranscriptKinds, Editors!Stored
  <2>3. SavedIsSent'
    BY <1>0, <2>1, SentDrops
  <2>4. QED
    BY <1>2, <2>1, <2>2, <2>3
<1>4. ASSUME NEW m \in NotesReplies, NotesEnds(m)
      PROVE  NotesKept'
  <2>1. NotesAnswers(m) /\ UNCHANGED <<transcript, calls, details, tab, saved>>
    BY <1>4 DEF NotesEnds
  <2>2. SavedIsSent' /\ m.kind \notin TranscriptKinds /\ m.kind \notin NotesWrites
    BY <1>0, <1>4, <2>1
    DEF NotesEnds, SavedIsSent, Survives, TranscriptKinds, NotesWrites, NotesGets
  <2>3. QED
    BY <1>2, <2>1, <2>2
<1>5. ASSUME NEW m \in NotesReplies, NotesShows(m)
      PROVE  NotesKept'
  <2>1. Drops(inbox, inbox', m) /\ UNCHANGED <<transcript, saved>> /\ WithSaved' = WithSaved
    BY <1>5, ShowsDrop DEF WithSaved
  <2>2. /\ SavedFollows'
        /\ m.kind \in TranscriptKinds => m \in WithSaved \/ Brings(inbox', NotesWrites)
    BY <1>0, <2>1, FollowsDrops DEF SavedFollows
  <2>3. SavedIsSent'
    <3>1. UNCHANGED calls \/ \E c \in NotesCalls : c.kind # "save" /\ NotesSends(c)
      BY <1>5, ShowsSend
    <3>2. CASE UNCHANGED calls
      BY <1>0, <2>1, <3>2 DEF SavedIsSent, Survives
    <3>3. QED
      BY <1>0, <2>1, <3>1, <3>2, SentGets
  <2>4. ASSUME Editors!Loaded', ~Brings(inbox', NotesWrites)
        PROVE  Survives(details.t)' /\ (tab'.name = "t" => Survives(tab.draft)')
    <3>0. tab'.name = tab.name
      BY <1>5, ShowsKeepTab
    <3>1. CASE m.kind \in TranscriptKinds
      <4>1. saved \subseteq TranscriptOf(m).edits /\ details'.t = TranscriptOf(m)
        BY <1>5, <2>2, <2>4, <3>1, ArrivalShows DEF WithSaved
      <4>2. tab'.name = "t" => tab'.draft = TranscriptOf(m)
        BY <1>5, <2>4, <3>0, <3>1, DraftShows
      <4>3. QED
        BY <2>1, <4>1, <4>2 DEF Survives
    <3>2. CASE m.kind \notin TranscriptKinds
      <4>1. Editors!Loaded /\ (details'.t = details.t \/ ~details'.t.own)
        BY <1>5, <2>4, <3>2, ArrivalShows DEF TranscriptKinds, NotesGets
      <4>2. tab'.name = "t" => tab'.draft = tab.draft \/ ~tab'.draft.own
        BY <1>5, <2>4, <3>0, <3>2, DraftShows
      <4>3. ~Brings(inbox, NotesWrites)
        BY <2>1, <2>4, <3>2, BringsDrops DEF TranscriptKinds
      <4>4. Survives(details.t) /\ (tab.name = "t" => Survives(tab.draft))
        BY <1>0, <4>1, <4>3 DEF SavedIsShown
      <4>5. QED
        BY <2>1, <3>0, <4>1, <4>2, <4>4 DEF Survives
    <3>3. QED
      BY <3>1, <3>2
  <2>5. SavedIsShown'
    BY <2>4 DEF SavedIsShown
  <2>6. QED
    BY <1>0, <2>1, <2>2, <2>3, <2>5 DEF NotesKept
<1>6. CASE NotesRequeues
  <2>1. NotesHandles(Head(calls)) /\ UNCHANGED <<transcript, saved, inbox, details, tab>>
    BY <1>6 DEF NotesRequeues
  <2>2. SavedIsSent'
    BY <1>0, <2>1, SentDrops
  <2>3. SavedFollows' /\ SavedIsShown' /\ saved' \subseteq transcript'.edits
    BY <1>0, <2>1 DEF SavedFollows, WithSaved, SavedIsShown, Survives, Editors!Loaded
  <2>4. QED
    BY <2>2, <2>3 DEF NotesKept
<1>7. CASE NotesBegins
  <2>1. CASE UNCHANGED <<transcript, saved>>
    <3>1. UNCHANGED <<calls, inbox, details, tab>>
      BY <1>7 DEF NotesBegins
    <3>2. /\ SavedIsSent' /\ SavedFollows' /\ SavedIsShown' /\ saved' \subseteq transcript'.edits
      BY <1>0, <2>1, <3>1
      DEF SavedIsSent, SavedFollows, WithSaved, SavedIsShown, Survives, Editors!Loaded
    <3>3. QED
      BY <3>2 DEF NotesKept
  <2>2. CASE saved' = {}
    <3>1. \A i \in 1..Len(inbox') : inbox'[i] \in NotesReplies
      BY DEF NotesTyped
    <3>2. SavedFollows'
      BY <2>2, <3>1 DEF SavedFollows, WithSaved, Follows
    <3>3. SavedIsSent' /\ SavedIsShown' /\ saved' \subseteq transcript'.edits
      BY <2>2 DEF SavedIsSent, SavedIsShown, Survives
    <3>4. QED
      BY <3>2, <3>3 DEF NotesKept
  <2>3. QED
    BY <1>7, <2>1, <2>2 DEF NotesBegins
<1>8. QED
  BY <1>1, <1>3, <1>4, <1>5, <1>6, <1>7, RendererKeeps DEF NotesStep

LEMMA NotesInit == ASSUME Editors!Init PROVE NotesSafe
<1>1. /\ calls = <<>> /\ inbox = <<>> /\ waiting = <<>> /\ saved = {} /\ blind = FALSE
      /\ edits = 0 /\ jobs = 0 /\ opens = 0 /\ selected = "this"
      /\ transcript = [Editors!NoDocument EXCEPT !.rev = 1] /\ summary = Editors!NoDocument
      /\ summaryJob = [pc |-> "none", from |-> 0]
      /\ details = [Editors!NoDetails EXCEPT !.t = transcript]
      /\ tab = Editors!Fresh("t", details)
  BY DEF Editors!Init, Editors!Idle
<1>2. /\ Len(calls) = 0 /\ Len(inbox) = 0
      /\ calls \in Seq(NotesCalls) /\ inbox \in Seq(NotesReplies)
      /\ waiting \in Seq({"summary", "full"})
  BY <1>1
<1>3. transcript \in NotesDocs /\ summary \in NotesDocs
  BY <1>1, NoDocumentIsDoc
<1>4. details.t = transcript /\ details.s = summary /\ details \in NotesViews
  BY <1>1, <1>3, NoDocumentIsDoc DEF Editors!NoDetails, NotesViews
<1>5. tab \in NotesTabs
  BY <1>1, <1>4, FreshIsTab
<1>6. NotesTyped
  BY <1>1, <1>2, <1>3, <1>4, <1>5 DEF NotesTyped, NotesJobs
<1>7. NotesOpening /\ \A kinds, later, good : Follows(inbox, kinds, later, good)
  BY <1>2 DEF NotesOpening, Follows
<1>8. ~Unmarked
  BY <1>1 DEF Unmarked, Editors!Stored, Editors!NoDocument
<1>9. TranscriptFollows /\ SummaryFollows /\ StaleFollows
  BY <1>4, <1>7, <1>8 DEF TranscriptFollows, SummaryFollows, StaleFollows
<1>10. \A some : ~AnyOf(calls, inbox, some) /\ OneOf(calls, inbox, some)
  BY <1>2, NoneIsOne DEF AnyOf, Has
<1>11. NotesEditorAsks /\ NotesEditorWaits
  BY <1>10 DEF NotesEditorAsks, NotesEditorWaits
<1>12. NotesKept
  BY <1>1, <1>2, <1>7 DEF NotesKept, SavedIsSent, SavedFollows, SavedIsShown, Survives
<1>13. QED
  BY <1>6, <1>7, <1>9, <1>10, <1>11, <1>12 DEF NotesSafe

LEMMA NotesNext == ASSUME NotesSafe, [Editors!Next]_(Editors!vars) PROVE NotesSafe'
<1>1. NotesTyped' /\ NotesStep
  <2>1. CASE Editors!Next
    BY <2>1, NotesSteps DEF NotesSafe
  <2>2. CASE UNCHANGED Editors!vars
    BY <2>2 DEF NotesSafe, NotesTyped, NotesStep, NotesRenders, NotesEdits, Editors!vars
  <2>3. QED
    BY <2>1, <2>2
<1>2. /\ NotesOpening' /\ NotesEditorAsks'
      /\ TranscriptFollows' /\ SummaryFollows' /\ StaleFollows'
  BY <1>1, OpeningStep, EditorAsksStep, TranscriptStep, SummaryStep, StaleStep DEF NotesSafe
<1>3. ASSUME ~blind'
      PROVE  OneOf(calls', inbox', NotesChanges) /\ NotesEditorWaits' /\ NotesKept'
  <2>1. NotesWriteSafe
    BY <1>1, <1>3, BlindStays DEF NotesSafe, NotesWriteSafe
  <2>2. QED
    BY <1>1, <1>3, <2>1, OneWriteStep, EditorWaitsStep, KeptStep DEF NotesSafe
<1>4. NotesChanges' = NotesChanges
  BY DEF NotesChanges
<1>5. QED
  BY <1>1, <1>2, <1>3, <1>4 DEF NotesSafe

LEMMA NotesRun == Spec => Editors!Init /\ [][Editors!Next]_(Editors!vars)
<1>1. Init => Editors!Init
  BY DEF Init
<1>2. [Next]_vars => [Editors!Next]_(Editors!vars)
  <2>1. CASE UNCHANGED vars
    BY <2>1 DEF vars, editorsVars, Editors!vars
  <2>2. CASE Next /\ Is("editors")
    BY <2>2 DEF Next, Is
  <2>3. CASE Next /\ ~Is("editors")
    BY <2>3 DEF Next, Others, editorsVars, Editors!vars
  <2>4. QED
    BY <2>1, <2>2, <2>3
<1>3. QED
  BY <1>1, <1>2, PTL DEF Spec

LEMMA NotesAreSafe == Spec => []NotesSafe
  BY NotesRun, NotesInit, NotesNext, PTL

LEMMA NotesTypes == Spec => []Editors!TypeOK
<1>1. NotesSafe => Editors!TypeOK
  BY SMTT(30)
  DEF NotesSafe, NotesTyped, Editors!TypeOK, NotesDocs, NotesViews, NotesTabs, NotesJobs,
      Editors!Documents
<1>2. QED
  BY <1>1, NotesAreSafe, PTL

\* When nothing is on its way, no job runs and none waits, the view shows the latest transcript
\* and summary and, unless it was saved by hand, marks a summary of an older transcript, in
\* whatever order saves, renames, jobs, openings and their replies went.  The exception, as in
\* App.tsx:405: it shows the transcript of the other session when a rename there was answered
\* only after the user had come back.
THEOREM ViewFollows == Spec => []ViewIsCurrent
<1>1. NotesSafe => ViewIsCurrent
  <2>1. SUFFICES ASSUME NotesSafe, Editors!Quiet, Editors!Loaded
                 PROVE  /\ details.t = transcript \/ ~details.t.own
                        /\ details.s = summary
                        /\ Editors!Stored.stale => details.stale \/ summary.byHand
    BY DEF ViewIsCurrent, Editors!ViewIsCurrent
  <2>2. Len(calls) = 0 /\ Len(inbox) = 0 /\ summaryJob.pc = "none"
    BY <2>1 DEF Editors!Quiet, Editors!Idle
  <2>3. ~NotesPending /\ \A kinds : ~Brings(inbox, kinds)
    BY <2>2 DEF NotesPending, Brings
  <2>4. QED
    BY <2>1, <2>3
    DEF NotesSafe, TranscriptFollows, SummaryFollows, StaleFollows, Unmarked
<1>2. QED
  BY <1>1, NotesAreSafe, PTL

\* A saved edit of the transcript is never lost to a later save, although a save replaces the
\* whole document, as long as no editor was opened before an earlier save was answered and no
\* job transcribed anew since.
THEOREM SavedEditsStay == Spec => []SavedEditsSurvive
<1>1. NotesSafe => SavedEditsSurvive
  BY DEF NotesSafe, NotesKept, SavedEditsSurvive, Editors!SavedEditsSurvive
<1>2. QED
  BY <1>1, NotesAreSafe, PTL

----------------------------------------------------------------------------
(* AppShell: the application around its services, starting and quitting.    *)

\* The part of TypeOK that the rest depends on.
ShellPlaced ==
  /\ startup \in {"initializing", "loading", "up", "failed"}
  /\ containers \subseteq Shell!Managed

\* The awaits of a quit that has not shut anything down, those that come after the
\* operations were drained, after the recording was dealt with, and so on.
Undone == {"no", "drain", "ask", "stop", "restore"}
PastDrain == {"ask", "stop", "restore", "queue", "whisper", "diarization", "done"}
PastAsk == {"restore", "queue", "whisper", "diarization", "done"}
PastQueue == {"whisper", "diarization", "done"}
PastWhisper == {"diarization", "done"}

\* Nothing is shut down before the quit can no longer be given up, and the database last.
ShutInOrder ==
  /\ quit \in Undone => down = {}
  /\ "database" \in down => quit = "done"
  /\ quit = "no" => ~blocked

\* A quit with a router has locked the renderer out, and waited for its operations.
LockedOut ==
  /\ quit = "drain" => blocked
  /\ ~early /\ quit # "no" => startup # "initializing"
  /\ ~early /\ quit \in PastDrain => blocked /\ Shell!Pending = {}

\* What each step of a quit leaves behind stays so.
LeftBehind ==
  ~early =>
    /\ quit \in PastAsk => recorded # "active"
    /\ quit \in PastQueue => "queue" \in down /\ ~processing
    /\ quit \in PastWhisper => "whisper" \notin containers \ refused
    /\ quit = "done" => "diarization" \notin containers \ refused

Orderly == ShellPlaced /\ ShutInOrder /\ LockedOut /\ LeftBehind

----------------------------------------------------------------------------

LEMMA OrderlyQuits == ASSUME Orderly PROVE Shell!QuitIsAllOrNothing
<1>1. ASSUME "database" \in down, ~early
      PROVE  Shell!Pending = {} /\ ~processing /\ containers \subseteq refused /\ recorded # "active"
  <2>1. quit = "done"
    BY <1>1 DEF Orderly, ShutInOrder
  <2>2. Shell!Pending = {} /\ ~processing /\ recorded # "active"
    BY <1>1, <2>1 DEF Orderly, LockedOut, LeftBehind, PastDrain, PastAsk, PastQueue
  <2>3. containers \subseteq refused
    BY <1>1, <2>1 DEF Orderly, ShellPlaced, LeftBehind, PastWhisper, Shell!Managed
  <2>4. QED
    BY <2>2, <2>3
<1>2. ASSUME quit = "no" PROVE ~blocked /\ down = {}
  BY <1>2 DEF Orderly, ShutInOrder, Undone
<1>3. QED
  BY <1>1, <1>2 DEF Shell!QuitIsAllOrNothing

LEMMA ShellInit == ASSUME Shell!Init PROVE Orderly
BY DEF Shell!Init, Orderly, ShellPlaced, ShutInOrder, LockedOut, LeftBehind, PastDrain, PastAsk,
  PastQueue, PastWhisper

\* Starting changes only how far it is, and does not go back.
LEMMA StartingIsOrderly ==
  ASSUME Orderly, Shell!Initialized \/ Shell!Loaded \/ Shell!StartupFails
  PROVE  Orderly'
<1>1. startup' \in {"loading", "up", "failed"}
  BY DEF Shell!Initialized, Shell!Loaded, Shell!StartupFails
<1>2. UNCHANGED <<operations, blocked, quit, recorded, processing, containers, down, refused, early>>
  BY DEF Shell!Initialized, Shell!Loaded, Shell!StartupFails
<1>3. QED
  BY <1>1, <1>2 DEF Orderly, ShellPlaced, ShutInOrder, LockedOut, LeftBehind, Shell!Pending

\* An operation is admitted only before a quit or, without a router, never blocked.
LEMMA InvokeIsOrderly ==
  ASSUME Orderly, NEW o \in Ops, NEW kind \in {"work", "install", "user"}, Shell!Invoke(o, kind)
  PROVE  Orderly'
<1>1. ~blocked
  BY DEF Shell!Invoke
<1>2. ~(~early /\ quit \in PastDrain)
  BY <1>1 DEF Orderly, LockedOut
<1>3. UNCHANGED <<startup, blocked, quit, recorded, processing, containers, down, refused, early>>
  BY DEF Shell!Invoke
<1>4. QED
  BY <1>2, <1>3 DEF Orderly, ShellPlaced, ShutInOrder, LockedOut, LeftBehind

\* What an operation that ends has done was done before the drain was over.
LEMMA OperationEndIsOrderly ==
  ASSUME Orderly, NEW o \in Ops, Shell!DialogCloses(o) \/ Shell!Ends(o)
  PROVE  Orderly'
<1>1. o \in Shell!Pending
  BY DEF Shell!DialogCloses, Shell!Ends, Shell!Pending
<1>2. ~(~early /\ quit \in PastDrain)
  BY <1>1 DEF Orderly, LockedOut
<1>3. UNCHANGED <<startup, blocked, quit, processing, down, refused, early>>
  BY DEF Shell!DialogCloses, Shell!Ends
<1>4. containers' \subseteq Shell!Managed
  BY DEF Shell!DialogCloses, Shell!Ends, Orderly, ShellPlaced
<1>5. QED
  BY <1>2, <1>3, <1>4 DEF Orderly, ShellPlaced, ShutInOrder, LockedOut, LeftBehind, PastDrain,
     PastAsk, PastQueue, PastWhisper

LEMMA JobIsOrderly ==
  ASSUME Orderly, Shell!JobBegins \/ Shell!JobEnds \/ \E c \in Shell!Managed : Shell!JobLeases(c)
  PROVE  Orderly'
<1>1. UNCHANGED <<startup, operations, blocked, quit, recorded, down, refused, early>>
  BY DEF Shell!JobBegins, Shell!JobEnds, Shell!JobLeases
<1>2. ShutInOrder' /\ LockedOut'
  BY <1>1 DEF Orderly, ShutInOrder, LockedOut, Shell!Pending
<1>3. CASE Shell!JobBegins \/ Shell!JobEnds
  BY <1>1, <1>2, <1>3 DEF Shell!JobBegins, Shell!JobEnds, Orderly, ShellPlaced, LeftBehind
<1>4. ASSUME NEW c \in Shell!Managed, Shell!JobLeases(c) PROVE Orderly'
  <2>1. processing /\ containers' = containers \cup {c} /\ processing' = processing
    BY <1>4 DEF Shell!JobLeases
  <2>2. ~(~early /\ quit \in PastQueue)
    BY <2>1 DEF Orderly, LeftBehind
  <2>3. QED
    BY <1>1, <1>2, <2>1, <2>2 DEF Orderly, ShellPlaced, LeftBehind, PastQueue, PastWhisper
<1>5. QED
  BY <1>3, <1>4

LEMMA RequestIsOrderly == ASSUME Orderly, Shell!QuitRequested PROVE Orderly'
<1>1. /\ quit = "no" /\ quit' = IF Shell!Registered THEN "drain" ELSE "ask"
      /\ blocked' = Shell!Registered /\ early' = ~Shell!Registered
      /\ UNCHANGED <<startup, recorded, processing, containers, down, refused>>
  BY DEF Shell!QuitRequested
<1>2. ShellPlaced' /\ ShutInOrder'
  BY <1>1 DEF Orderly, ShellPlaced, ShutInOrder, Undone
<1>3. CASE Shell!Registered
  BY <1>1, <1>2, <1>3 DEF Orderly, LockedOut, LeftBehind, PastDrain, PastAsk, PastQueue,
     PastWhisper, Shell!Registered
<1>4. CASE ~Shell!Registered
  BY <1>1, <1>2, <1>4 DEF Orderly, LockedOut, LeftBehind
<1>5. QED
  BY <1>3, <1>4

----------------------------------------------------------------------------
(* The steps of a quit.                                                    *)

\* Up to the restoration nothing is shut down, and the recording decides.
LEMMA AskingIsOrderly ==
  ASSUME Orderly,
         \/ Shell!Drained \/ Shell!NothingToStop \/ Shell!UserCancels \/ Shell!UserLeavesIt
         \/ Shell!UserStops \/ Shell!Stopped \/ Shell!StopFails \/ Shell!Restored
  PROVE  Orderly'
<1> USE DEF Orderly, ShellPlaced, ShutInOrder, LockedOut, LeftBehind, Undone, PastDrain, PastAsk,
        PastQueue, PastWhisper, Shell!Pending
<1>1. CASE Shell!Drained
  BY <1>1 DEF Shell!Drained
<1>2. CASE Shell!NothingToStop
  BY <1>2 DEF Shell!NothingToStop, Shell!Asks
<1>3. CASE Shell!UserCancels \/ Shell!StopFails
  BY <1>3 DEF Shell!UserCancels, Shell!StopFails, Shell!GivesUp, Shell!Asks
<1>4. CASE Shell!UserLeavesIt
  BY <1>4 DEF Shell!UserLeavesIt, Shell!Asks
<1>5. CASE Shell!UserStops
  BY <1>5 DEF Shell!UserStops, Shell!Asks
<1>6. CASE Shell!Stopped
  BY <1>6 DEF Shell!Stopped
<1>7. CASE Shell!Restored
  BY <1>7 DEF Shell!Restored
<1>8. QED
  BY <1>1, <1>2, <1>3, <1>4, <1>5, <1>6, <1>7

\* A quit with a router that goes on has it still.
LEMMA StillRegistered ==
  ASSUME Orderly, Shell!Alive, ~early, quit # "no" PROVE Shell!Registered
BY DEF Orderly, ShellPlaced, LockedOut, Shell!Alive, Shell!Registered

LEMMA QueueShutIsOrderly == ASSUME Orderly, Shell!ShutsQueue \/ Shell!QueueIsDown PROVE Orderly'
<1> USE DEF Orderly, ShellPlaced, ShutInOrder, LockedOut, LeftBehind, Undone, PastDrain, PastAsk,
        PastQueue, PastWhisper, Shell!Pending
<1>1. CASE Shell!ShutsQueue
  BY <1>1 DEF Shell!ShutsQueue
<1>2. CASE Shell!QueueIsDown
  <2>1. ~early => "queue" \in down /\ ~processing
    BY <1>2, StillRegistered DEF Shell!QueueIsDown
  <2>2. QED
    BY <1>2, <2>1 DEF Shell!QueueIsDown
<1>3. QED
  BY <1>1, <1>2

LEMMA ContainerShut ==
  ASSUME Orderly, NEW c \in Shell!Managed, Shell!ShutsContainer(c)
  PROVE  /\ containers' \subseteq containers /\ refused \subseteq refused'
         /\ c \notin containers' \ refused'
BY DEF Shell!ShutsContainer

LEMMA ContainersShutIsOrderly ==
  ASSUME Orderly, Shell!ShutsWhisper \/ Shell!ShutsDiarization
  PROVE  Orderly'
<1> USE DEF Orderly, ShellPlaced, ShutInOrder, LockedOut, LeftBehind, Undone, PastDrain, PastAsk,
        PastQueue, PastWhisper, Shell!Pending
<1>1. CASE Shell!ShutsWhisper
  <2>1. /\ containers' \subseteq containers /\ refused \subseteq refused'
        /\ "whisper" \notin containers' \ refused'
    BY <1>1, ContainerShut DEF Shell!ShutsWhisper, Shell!Managed
  <2>2. quit = "whisper" /\ quit' = "diarization" /\ down' = down \cup {"whisper"}
        /\ UNCHANGED <<startup, operations, blocked, recorded, processing, early>>
    BY <1>1 DEF Shell!ShutsWhisper, Shell!ShutsContainer
  <2>3. QED
    BY <2>1, <2>2
<1>2. CASE Shell!ShutsDiarization
  <2>1. /\ containers' \subseteq containers /\ refused \subseteq refused'
        /\ "diarization" \notin containers' \ refused'
    BY <1>2, ContainerShut DEF Shell!ShutsDiarization, Shell!Managed
  <2>2. /\ quit = "diarization" /\ quit' = "done"
        /\ down' = down \cup {"diarization", "database"}
        /\ UNCHANGED <<startup, operations, blocked, recorded, processing, early>>
    BY <1>2 DEF Shell!ShutsDiarization, Shell!ShutsContainer
  <2>3. QED
    BY <2>1, <2>2
<1>3. QED
  BY <1>1, <1>2

----------------------------------------------------------------------------

LEMMA ShellNext == ASSUME Orderly, [Shell!Next]_(Shell!vars) PROVE Orderly'
<1>1. CASE UNCHANGED Shell!vars
  BY <1>1 DEF Shell!vars, Orderly, ShellPlaced, ShutInOrder, LockedOut, LeftBehind, Shell!Pending
<1>2. CASE Shell!Initialized \/ Shell!Loaded \/ Shell!StartupFails
  BY <1>2, StartingIsOrderly
<1>3. ASSUME NEW o \in Ops, NEW kind \in {"work", "install", "user"}, Shell!Invoke(o, kind)
      PROVE  Orderly'
  BY <1>3, InvokeIsOrderly
<1>4. CASE Shell!OperationEnds
  BY <1>4, OperationEndIsOrderly DEF Shell!OperationEnds
<1>5. CASE Shell!JobBegins \/ Shell!JobEnds \/ \E c \in Shell!Managed : Shell!JobLeases(c)
  BY <1>5, JobIsOrderly
<1>6. CASE Shell!QuitRequested
  BY <1>6, RequestIsOrderly
<1>7. CASE Shell!QuitStep
  BY <1>7, AskingIsOrderly, QueueShutIsOrderly, ContainersShutIsOrderly DEF Shell!QuitStep
<1>8. QED
  BY <1>1, <1>2, <1>3, <1>4, <1>5, <1>6, <1>7 DEF Shell!Next

LEMMA ShellRuns == Spec => Shell!Init /\ [][Shell!Next]_(Shell!vars)
<1>1. Init => Shell!Init
  BY DEF Init, ShellRests
<1>2. [Next]_vars => [Shell!Next]_(Shell!vars)
  <2>1. CASE UNCHANGED vars
    BY <2>1 DEF vars, shellVars, Shell!vars
  <2>2. CASE Next /\ Is("shell")
    BY <2>2 DEF Next, Is
  <2>3. CASE Next /\ ~Is("shell")
    BY <2>3 DEF Next, Others, shellVars, Shell!vars
  <2>4. QED
    BY <2>1, <2>2, <2>3
<1>3. QED
  BY <1>1, <1>2, PTL DEF Spec

\* The invariant: a quit that had a router is locked and drained before it asks, and each
\* of its steps leaves behind what no later step of anybody can undo.
LEMMA OrderlyAlways == Spec => []Orderly
  BY ShellRuns, ShellInit, ShellNext, PTL

\* prepareToQuit(), index.ts:240: when the database is closed nothing is in progress and
\* nothing of the application runs on but a container that Docker did not stop; a quit that was
\* given up has shut nothing down and admits the renderer again.
THEOREM QuitAllOrNothing == Spec => []QuitIsAllOrNothing
<1>1. Orderly => QuitIsAllOrNothing
  BY OrderlyQuits DEF QuitIsAllOrNothing
<1>2. QED
  BY <1>1, OrderlyAlways, PTL

----------------------------------------------------------------------------
(* MediaRange: a partial answer has the bytes that its header names.       *)

\* The part of TypeOK that the arithmetic needs.
RangeNumbered ==
  /\ size \in Nat
  /\ range \in [start : Nat \cup {Media!Blank}, end : Nat \cup {Media!Blank}]

RangeServed == RangeNumbered /\ Media!RangeIsServed

LEMMA InitIsServed == ASSUME MaxSize \in Nat, Media!Init PROVE RangeServed
<1>1. 0..MaxSize \subseteq Nat
  OBVIOUS
<1>2. RangeNumbered
  BY <1>1 DEF Media!Init, RangeNumbered, Media!Numbers
<1>3. QED
  BY <1>2 DEF Media!Init, RangeServed, Media!RangeIsServed, Media!NoBytes

\* A header that names a byte of the file is not refused, and the answer has what it names.
LEMMA SatisfiableIsServed ==
  ASSUME RangeNumbered, ~Media!Foreign, ~Media!Unsatisfiable
  PROVE  /\ Media!First <= Media!Last
         /\ Media!First..Media!Last = {b \in 0..(size - 1) : Media!Named(b)}
<1> USE DEF RangeNumbered, Media!Foreign, Media!Unsatisfiable, Media!Blank, Media!First, Media!Last,
        Media!Larger, Media!Smaller
<1>1. CASE range.start = Media!Blank
  <2>1. range.end \in Nat /\ range.end > 0 /\ size > 0
    BY <1>1
  <2>2. Media!Last = size - 1 /\ Media!First = IF size - range.end < 0 THEN 0 ELSE size - range.end
    BY <1>1, <2>1
  <2>3. \A b : Media!Named(b) <=> b >= size - range.end
    BY <1>1 DEF Media!Named
  <2>4. QED
    BY <2>1, <2>2, <2>3
<1>2. CASE range.start # Media!Blank /\ range.end = Media!Blank
  <2>1. range.start \in Nat /\ range.start < size /\ Media!Last = size - 1 /\ Media!First = range.start
    BY <1>2
  <2>2. \A b : Media!Named(b) <=> b >= range.start
    BY <1>2 DEF Media!Named
  <2>3. QED
    BY <2>1, <2>2
<1>3. CASE range.start # Media!Blank /\ range.end # Media!Blank
  <2>1. /\ range.start \in Nat /\ range.end \in Nat
        /\ range.start < size /\ Media!First = range.start
        /\ Media!Last = IF range.end < size - 1 THEN range.end ELSE size - 1
        /\ Media!Last >= range.start
    BY <1>3
  <2>2. \A b : Media!Named(b) <=> b \in range.start..range.end
    BY <1>3 DEF Media!Named
  <2>3. QED
    BY <2>1, <2>2
<1>4. QED
  BY <1>1, <1>2, <1>3

\* What is refused names no byte of the file.
LEMMA UnsatisfiableNamesNothing ==
  ASSUME RangeNumbered, ~Media!Foreign, Media!Unsatisfiable
  PROVE  \A b \in 0..(size - 1) : ~Media!Named(b)
<1> USE DEF RangeNumbered, Media!Foreign, Media!Unsatisfiable, Media!Blank, Media!Last, Media!Smaller
<1>1. CASE size = 0
  BY <1>1
<1>2. CASE size # 0 /\ range.start = Media!Blank
  <2>1. \A b : Media!Named(b) <=> b >= size - range.end
    BY <1>2 DEF Media!Named
  <2>2. range.end = 0
    BY <1>2
  <2>3. QED
    BY <2>1, <2>2
<1>3. CASE size # 0 /\ range.start # Media!Blank /\ range.end = Media!Blank
  <2>1. \A b : Media!Named(b) <=> b >= range.start
    BY <1>3 DEF Media!Named
  <2>2. range.start \in Nat /\ range.start >= size
    BY <1>3
  <2>3. QED
    BY <2>1, <2>2
<1>4. CASE size # 0 /\ range.start # Media!Blank /\ range.end # Media!Blank
  <2>1. \A b : Media!Named(b) <=> b \in range.start..range.end
    BY <1>4 DEF Media!Named
  <2>2. /\ range.start \in Nat /\ range.end \in Nat
        /\ range.start >= size \/ range.end < range.start
    BY <1>4
  <2>3. QED
    BY <2>1, <2>2
<1>5. QED
  BY <1>1, <1>2, <1>3, <1>4

LEMMA RespondIsServed == ASSUME RangeServed, Media!Respond PROVE RangeServed'
<1>1. UNCHANGED <<size, range>>
  BY DEF Media!Respond
<1>2. RangeNumbered'
  BY <1>1 DEF RangeServed, RangeNumbered
<1>3. CASE Media!Foreign
  <2>1. answer' = [status |-> 200, first |-> 0, last |-> size - 1]
    BY <1>3 DEF Media!Respond
  <2>2. QED
    BY <1>1, <1>2, <1>3, <2>1 DEF RangeServed, Media!RangeIsServed, Media!Foreign
<1>4. CASE ~Media!Foreign /\ Media!Unsatisfiable
  <2>1. answer'.status = 416
    BY <1>4 DEF Media!Respond, Media!NoBytes
  <2>2. \A b \in 0..(size - 1) : ~Media!Named(b)
    BY <1>4, UnsatisfiableNamesNothing DEF RangeServed
  <2>3. (\A b \in 0..(size - 1) : ~Media!Named(b))'
    BY <1>1, <2>2 DEF Media!Named
  <2>4. QED
    BY <1>2, <2>1, <2>3 DEF RangeServed, Media!RangeIsServed
<1>5. CASE ~Media!Foreign /\ ~Media!Unsatisfiable
  <2>1. answer' = [status |-> 206, first |-> Media!First, last |-> Media!Last]
    BY <1>5 DEF Media!Respond
  <2>2. Media!First <= Media!Last /\ Media!First..Media!Last = {b \in 0..(size - 1) : Media!Named(b)}
    BY <1>5, SatisfiableIsServed DEF RangeServed
  <2>3. (answer.first <= answer.last
         /\ answer.first..answer.last = {b \in 0..(size - 1) : Media!Named(b)})'
    BY <1>1, <2>1, <2>2 DEF Media!Named
  <2>4. QED
    BY <1>2, <2>1, <2>3 DEF RangeServed, Media!RangeIsServed
<1>6. QED
  BY <1>3, <1>4, <1>5

LEMMA MediaRuns == Spec => Media!Spec
<1>1. Init => Media!Init
  <2>1. MaxSize \in Nat
    BY ConstantsAssumption
  <2>2. MediaRests => Media!Init
    BY <2>1 DEF MediaRests, Media!Init, Media!Numbers
  <2>3. QED
    BY <2>2 DEF Init
<1>2. [Next]_vars => [Media!Next]_(Media!vars)
  <2>1. CASE UNCHANGED vars
    BY <2>1 DEF vars, mediaVars, Media!vars
  <2>2. CASE Next /\ Is("media")
    BY <2>2 DEF Next, Is
  <2>3. CASE Next /\ ~Is("media")
    BY <2>3 DEF Next, Others, mediaVars, Media!vars
  <2>4. QED
    BY <2>1, <2>2, <2>3
<1>3. QED
  BY <1>1, <1>2, PTL DEF Spec, Media!Spec

\* mediaFileResponse() and parseByteRange(), MediaFileServer.ts:40: the bytes that are
\* streamed are those that the header names, for every size and every pair of numbers.
THEOREM RangesAreServed == Spec => []Media!RangeIsServed
<1>1. Media!Init => RangeServed
  BY InitIsServed, ConstantsAssumption
<1>2. RangeServed /\ [Media!Next]_(Media!vars) => RangeServed'
  <2>1. CASE Media!Respond
    BY <2>1, RespondIsServed
  <2>2. CASE UNCHANGED Media!vars
    BY <2>2 DEF Media!vars, RangeServed, RangeNumbered, Media!RangeIsServed, Media!Named,
                Media!Foreign
  <2>3. QED
    BY <2>1, <2>2 DEF Media!Next
<1>3. RangeServed => Media!RangeIsServed
  BY DEF RangeServed
<1>4. QED
  BY <1>1, <1>2, <1>3, MediaRuns, PTL DEF Media!Spec

----------------------------------------------------------------------------
(* DiarizationMerge: each word gets the speaker that overlaps it most.     *)

\* The place of a segment in the order of the segments.
LEMMA PrecedesOrders ==
  ASSUME segments \in Seq(Merge!Segments), NEW i \in 1..Len(segments), NEW j \in 1..Len(segments)
  PROVE  /\ ~Merge!Precedes(i, i)
         /\ i # j => Merge!Precedes(i, j) \/ Merge!Precedes(j, i)
         /\ \A k \in 1..Len(segments) :
              Merge!Precedes(i, j) /\ Merge!Precedes(j, k) => Merge!Precedes(i, k)
<1>1. \A k \in 1..Len(segments) : segments[k].start \in Int /\ segments[k].end \in Int
  <2>1. Horizon \in Nat
    BY ConstantsAssumption
  <2>2. \A k \in 1..Len(segments) : segments[k] \in Merge!Segments
    OBVIOUS
  <2>3. QED
    BY <2>1, <2>2 DEF Merge!Segments, Merge!Times
<1>2. Len(segments) \in Nat
  OBVIOUS
<1>3. QED
  BY <1>1, <1>2 DEF Merge!Precedes

LEMMA SameCardinality == \A S : Merge!Cardinality(S) = Cardinality(S)
  BY DEF Merge!Cardinality, Cardinality

LEMMA BeforeIsARank ==
  ASSUME segments \in Seq(Merge!Segments)
  PROVE  /\ \A i \in 1..Len(segments) : Merge!Before(i) \in 0..(Len(segments) - 1)
         /\ \A n \in 1..Len(segments) : \E i \in 1..Len(segments) :
              /\ Merge!Before(i) = n - 1
              /\ \A j \in 1..Len(segments) : Merge!Before(j) = n - 1 => j = i
<1> DEFINE N == Len(segments)
           B(i) == {j \in 1..N : Merge!Precedes(j, i)}
           rank == [i \in 1..N |-> Cardinality(B(i)) + 1]
<1>0. N \in Nat /\ DOMAIN segments = 1..N
  OBVIOUS
<1>2. \A i \in 1..N : Merge!Before(i) = Cardinality(B(i))
  BY <1>0, SameCardinality DEF Merge!Before
<1> HIDE DEF N
<1>1. N \in Nat /\ IsFiniteSet(1..N) /\ Cardinality(1..N) = N
  BY <1>0, FS_Interval
<1>3. \A i \in 1..N : IsFiniteSet(B(i)) /\ Cardinality(B(i)) \in 0..(N - 1)
  <2> TAKE i \in 1..N
  <2>1. i \notin B(i) /\ B(i) \subseteq (1..N) \ {i}
    BY PrecedesOrders DEF N
  <2>2. IsFiniteSet((1..N) \ {i}) /\ Cardinality((1..N) \ {i}) = N - 1
    BY <1>1, FS_RemoveElement
  <2> HIDE DEF B
  <2>3. IsFiniteSet(B(i)) /\ Cardinality(B(i)) <= N - 1
    BY <2>1, <2>2, FS_Subset
  <2>4. Cardinality(B(i)) \in Nat
    BY <2>3, FS_CardinalityType
  <2>5. QED
    BY <1>1, <2>3, <2>4
<1>4. ASSUME NEW i \in 1..N, NEW j \in 1..N, Merge!Precedes(i, j)
      PROVE  Cardinality(B(i)) < Cardinality(B(j))
  <2>1. B(i) \subseteq B(j) /\ i \in B(j) /\ i \notin B(i)
    BY <1>4, PrecedesOrders DEF N
  <2> HIDE DEF B
  <2>2. IsFiniteSet(B(j)) /\ Cardinality(B(j)) \in Nat /\ Cardinality(B(i)) \in Nat
    BY <1>1, <1>3
  <2>3. Cardinality(B(i)) <= Cardinality(B(j)) /\ Cardinality(B(i)) # Cardinality(B(j))
    BY <2>1, <2>2, FS_Subset
  <2>4. QED
    BY <2>2, <2>3
<1>5. \A i, j \in 1..N : Cardinality(B(i)) = Cardinality(B(j)) => i = j
  <2> SUFFICES ASSUME NEW i \in 1..N, NEW j \in 1..N, i # j
               PROVE  Cardinality(B(i)) # Cardinality(B(j))
    OBVIOUS
  <2>1. Merge!Precedes(i, j) \/ Merge!Precedes(j, i)
    BY PrecedesOrders DEF N
  <2>2. Cardinality(B(i)) \in Nat /\ Cardinality(B(j)) \in Nat
    <3> HIDE DEF B
    <3>1. QED
      BY <1>1, <1>3
  <2>3. Cardinality(B(i)) < Cardinality(B(j)) \/ Cardinality(B(j)) < Cardinality(B(i))
    BY <1>4, <2>1
  <2> HIDE DEF B
  <2>4. QED
    BY <2>2, <2>3
<1> HIDE DEF B
<1>6. rank \in [1..N -> 1..N] /\ \A i, j \in 1..N : rank[i] = rank[j] => i = j
  BY <1>1, <1>3, <1>5
<1>7. rank \in Injection(1..N, 1..N)
  BY <1>6 DEF Injection, IsInjective
<1>8. rank \in Surjection(1..N, 1..N)
  BY <1>1, <1>7, FS_Injection
<1>9. ASSUME NEW n \in 1..N
      PROVE  \E i \in 1..N : /\ Merge!Before(i) = n - 1
                             /\ \A j \in 1..N : Merge!Before(j) = n - 1 => j = i
  <2>1. PICK i \in 1..N : rank[i] = n
    BY <1>8 DEF Surjection
  <2>2. Cardinality(B(i)) = n - 1
    BY <1>1, <1>3, <2>1
  <2>3. QED
    BY <1>2, <1>5, <2>2
<1>10. QED
  BY <1>2, <1>3, <1>9 DEF N

\* Sorting neither loses nor adds a segment.
LEMMA OrderedIsComplete ==
  ASSUME segments \in Seq(Merge!Segments)
  PROVE  /\ \A n \in 1..Len(segments) : Merge!Ordered[n] \in Merge!Segments
         /\ \A n \in 1..Len(segments) : \E i \in 1..Len(segments) : Merge!Ordered[n] = segments[i]
         /\ \A i \in 1..Len(segments) : \E n \in 1..Len(segments) : Merge!Ordered[n] = segments[i]
<1> DEFINE N == Len(segments)
           At(n) == CHOOSE i \in 1..N : Merge!Before(i) = n - 1
<1>1. /\ N \in Nat /\ DOMAIN segments = 1..N
      /\ \A i \in 1..N : segments[i] \in Merge!Segments
  OBVIOUS
<1>2. \A n \in 1..N : Merge!Ordered[n] = segments[At(n)]
  BY <1>1 DEF Merge!Ordered
<1>3. \A n \in 1..N : /\ At(n) \in 1..N /\ Merge!Before(At(n)) = n - 1
                      /\ \A j \in 1..N : Merge!Before(j) = n - 1 => j = At(n)
  BY BeforeIsARank
<1>4. \A i \in 1..N : Merge!Before(i) + 1 \in 1..N /\ Merge!Before(i) = (Merge!Before(i) + 1) - 1
  <2> TAKE i \in 1..N
  <2>1. Merge!Before(i) \in 0..(N - 1)
    BY BeforeIsARank
  <2> DEFINE b == Merge!Before(i)
  <2> HIDE DEF b, N
  <2>2. b + 1 \in 1..N /\ b = (b + 1) - 1
    BY <1>1, <2>1 DEF b
  <2>3. QED
    BY <2>2 DEF b
<1> HIDE DEF N, At
<1>5. \A i \in 1..N : \E n \in 1..N : At(n) = i
  BY <1>3, <1>4
<1>6. QED
  BY <1>1, <1>2, <1>3, <1>5 DEF N

LEMMA OverlapType ==
  ASSUME NEW segment \in Merge!Segments, NEW a \in Nat, NEW b \in Nat
  PROVE  Merge!Overlap(segment, a, b) \in Int /\ Merge!Distance(segment, a, b) \in Int
<1>1. segment.start \in Int /\ segment.end \in Int
  BY ConstantsAssumption DEF Merge!Segments, Merge!Times
<1>2. \A x, y \in Int : Merge!Max({x, y}) \in {x, y} /\ Merge!Min({x, y}) \in {x, y}
  <2> TAKE x, y \in Int
  <2>0. x >= y \/ y >= x
    OBVIOUS
  <2>1. \E m \in {x, y} : \A z \in {x, y} : m >= z
    BY <2>0
  <2>2. \E m \in {x, y} : \A z \in {x, y} : m =< z
    BY <2>0
  <2>3. Merge!Max({x, y}) \in {x, y}
    BY <2>1 DEF Merge!Max
  <2>4. Merge!Min({x, y}) \in {x, y}
    BY <2>2 DEF Merge!Min
  <2>5. QED
    BY <2>3, <2>4
<1>3. Merge!Overlap(segment, a, b) \in Int
  <2> DEFINE hi == Merge!Min({b, segment.end})
             lo == Merge!Max({a, segment.start})
  <2>1. hi \in {b, segment.end} /\ lo \in {a, segment.start}
    <3>1. a \in Int /\ b \in Int
      OBVIOUS
    <3>2. QED
      BY <1>1, <1>2, <3>1, Zenon
  <2>2. Merge!Overlap(segment, a, b) = hi - lo
    BY DEF Merge!Overlap
  <2> HIDE DEF hi, lo
  <2>3. hi \in Int /\ lo \in Int
    BY <1>1, <2>1
  <2>4. QED
    BY <2>2, <2>3
<1>4. Merge!Distance(segment, a, b) \in Int
  BY <1>1 DEF Merge!Distance
<1>5. QED
  BY <1>3, <1>4

\* The overlaps, distances and speakers of the segments in their order.
MergeOver(a, b) == [n \in 1..Len(segments) |-> Merge!Overlap(Merge!Ordered[n], a, b)]
MergeFar(a, b) == [n \in 1..Len(segments) |-> Merge!Distance(Merge!Ordered[n], a, b)]
MergeSpeaker == [n \in 1..Len(segments) |-> Merge!Ordered[n].speaker]

MergeLooks(found, over, far, speaker) ==
  [best     |-> IF over > found.overlap THEN speaker ELSE found.best,
   overlap  |-> IF over > found.overlap THEN over ELSE found.overlap,
   nearest  |-> IF found.nearest = NoSpeaker \/ far < found.distance THEN speaker
                ELSE found.nearest,
   distance |-> IF found.nearest = NoSpeaker \/ far < found.distance THEN far
                ELSE found.distance]

\* What has been found among the first n segments: the largest overlap that is more than 0,
\* the least distance, and that the overlaps have a largest.
OverFound(n, over, speaker, f) ==
  /\ f.overlap \in Int /\ f.overlap >= 0
  /\ \A k \in 1..n : over[k] <= f.overlap
  /\ f.best = NoSpeaker => f.overlap = 0
  /\ f.best # NoSpeaker =>
       f.overlap > 0 /\ \E k \in 1..n : over[k] = f.overlap /\ speaker[k] = f.best

NearFound(n, far, speaker, f) ==
  /\ f.distance \in Int
  /\ n = 0 => f.nearest = NoSpeaker
  /\ n # 0 =>
       /\ f.nearest # NoSpeaker
       /\ \A k \in 1..n : f.distance <= far[k]
       /\ \E k \in 1..n : far[k] = f.distance /\ speaker[k] = f.nearest

MostFound(n, over) == n # 0 => \E m \in 1..n : \A k \in 1..n : over[k] <= over[m]

LEMMA OverStep ==
  ASSUME NEW n \in Nat, n # 0, NEW over, \A k \in 1..n : over[k] \in Int, NEW speaker,
         NEW far, NEW f, NEW g, OverFound(n - 1, over, speaker, f),
         speaker[n] # NoSpeaker, g = MergeLooks(f, over[n], far, speaker[n])
  PROVE  OverFound(n, over, speaker, g)
<1>1. /\ g.best = IF over[n] > f.overlap THEN speaker[n] ELSE f.best
      /\ g.overlap = IF over[n] > f.overlap THEN over[n] ELSE f.overlap
  BY DEF MergeLooks
<1>2. /\ over[n] \in Int /\ f.overlap \in Int /\ n \in 1..n
      /\ \A k \in 1..n : k = n \/ k \in 1..(n - 1)
      /\ \A k \in 1..(n - 1) : k \in 1..n
  BY DEF OverFound
<1>3. CASE over[n] > f.overlap
  <2>1. g.best = speaker[n] /\ g.overlap = over[n]
    BY <1>1, <1>3
  <2>2. \A k \in 1..n : over[k] <= over[n]
    BY <1>2, <1>3 DEF OverFound
  <2>3. over[n] > 0
    BY <1>2, <1>3 DEF OverFound
  <2>4. QED
    BY <1>2, <2>1, <2>2, <2>3 DEF OverFound
<1>4. CASE ~(over[n] > f.overlap)
  <2>1. g.best = f.best /\ g.overlap = f.overlap
    BY <1>1, <1>4
  <2>2. \A k \in 1..n : over[k] <= f.overlap
    BY <1>2, <1>4 DEF OverFound
  <2>3. QED
    BY <1>2, <2>1, <2>2 DEF OverFound
<1>5. QED
  BY <1>3, <1>4

LEMMA NearStep ==
  ASSUME NEW n \in Nat, n # 0, NEW far, \A k \in 1..n : far[k] \in Int, NEW speaker,
         NEW over, NEW f, NEW g, NearFound(n - 1, far, speaker, f),
         speaker[n] # NoSpeaker, g = MergeLooks(f, over, far[n], speaker[n])
  PROVE  NearFound(n, far, speaker, g)
<1> DEFINE nearer == f.nearest = NoSpeaker \/ far[n] < f.distance
<1>1. /\ g.nearest = IF nearer THEN speaker[n] ELSE f.nearest
      /\ g.distance = IF nearer THEN far[n] ELSE f.distance
  BY DEF MergeLooks
<1>2. /\ far[n] \in Int /\ f.distance \in Int /\ n \in 1..n /\ n - 1 \in Nat
      /\ \A k \in 1..n : k = n \/ k \in 1..(n - 1)
      /\ \A k \in 1..(n - 1) : k \in 1..n /\ n - 1 # 0
  BY DEF NearFound
<1>3. CASE nearer
  <2>1. g.nearest = speaker[n] /\ g.distance = far[n]
    BY <1>1, <1>3
  <2>2. \A k \in 1..n : far[n] <= far[k]
    <3>1. CASE f.nearest = NoSpeaker
      <4>1. n - 1 = 0
        BY <3>1 DEF NearFound
      <4>2. \A k \in 1..n : k = n
        BY <1>2, <4>1
      <4>3. QED
        BY <1>2, <4>2
    <3>2. CASE far[n] < f.distance
      BY <1>2, <3>2 DEF NearFound
    <3>3. QED
      BY <1>3, <3>1, <3>2
  <2>3. QED
    BY <1>2, <2>1, <2>2 DEF NearFound
<1>4. CASE ~nearer
  <2>1. g.nearest = f.nearest /\ g.distance = f.distance
    BY <1>1, <1>4
  <2>2. n - 1 # 0 /\ f.nearest # NoSpeaker
    BY <1>4 DEF NearFound
  <2>3. \A k \in 1..n : f.distance <= far[k]
    BY <1>2, <1>4, <2>2 DEF NearFound
  <2>4. QED
    BY <1>2, <2>1, <2>2, <2>3 DEF NearFound
<1>5. QED
  BY <1>3, <1>4

LEMMA MostStep ==
  ASSUME NEW n \in Nat, n # 0, NEW over, \A k \in 1..n : over[k] \in Int, MostFound(n - 1, over)
  PROVE  MostFound(n, over)
<1>1. /\ over[n] \in Int /\ n \in 1..n
      /\ \A k \in 1..n : k = n \/ k \in 1..(n - 1)
      /\ \A k \in 1..(n - 1) : k \in 1..n
  OBVIOUS
<1>2. CASE n - 1 = 0
  <2>1. \A k \in 1..n : k = n
    BY <1>1, <1>2
  <2>2. QED
    BY <1>1, <2>1 DEF MostFound
<1>3. CASE n - 1 # 0
  <2>1. PICK m \in 1..(n - 1) : \A k \in 1..(n - 1) : over[k] <= over[m]
    BY <1>3 DEF MostFound
  <2>2. CASE over[m] <= over[n]
    <3>1. \A k \in 1..n : over[k] <= over[n]
      BY <1>1, <2>1, <2>2
    <3>2. QED
      BY <1>1, <3>1 DEF MostFound
  <2>3. CASE ~(over[m] <= over[n])
    <3>1. \A k \in 1..n : over[k] <= over[m]
      BY <1>1, <2>1, <2>3
    <3>2. QED
      BY <1>1, <3>1 DEF MostFound
  <2>4. QED
    BY <2>2, <2>3
<1>4. QED
  BY <1>2, <1>3

\* The loop over the segments, whatever their overlaps and distances.
LEMMA LoopFindsBest ==
  ASSUME NEW N \in Nat, NEW over, NEW far, NEW speaker, NEW found, found[0] = Merge!Nothing,
         \A n \in 1..N : over[n] \in Int /\ far[n] \in Int /\ speaker[n] # NoSpeaker,
         \A n \in 1..N : found[n] = MergeLooks(found[n - 1], over[n], far[n], speaker[n])
  PROVE  /\ OverFound(N, over, speaker, found[N]) /\ NearFound(N, far, speaker, found[N])
         /\ MostFound(N, over)
<1> DEFINE Good == {n \in 0..N : /\ OverFound(n, over, speaker, found[n])
                                 /\ NearFound(n, far, speaker, found[n])
                                 /\ MostFound(n, over)}
<1>1. 0 \in Good
  BY DEF Merge!Nothing, OverFound, NearFound, MostFound
<1>2. ASSUME NEW n \in 1..N, n - 1 \in Good PROVE n \in Good
  <2>1. /\ n \in Nat /\ n # 0 /\ n \in 0..N
        /\ \A k \in 1..n : over[k] \in Int /\ far[k] \in Int
        /\ speaker[n] # NoSpeaker
        /\ found[n] = MergeLooks(found[n - 1], over[n], far[n], speaker[n])
    OBVIOUS
  <2>2. /\ OverFound(n - 1, over, speaker, found[n - 1])
        /\ NearFound(n - 1, far, speaker, found[n - 1])
        /\ MostFound(n - 1, over)
    BY <1>2
  <2>3. OverFound(n, over, speaker, found[n])
    BY <2>1, <2>2, OverStep
  <2>4. NearFound(n, far, speaker, found[n])
    BY <2>1, <2>2, NearStep
  <2>5. MostFound(n, over)
    BY <2>1, <2>2, MostStep
  <2>6. QED
    BY <2>1, <2>3, <2>4, <2>5
<1>3. N \in Good
  <2> HIDE DEF Good
  <2>1. \A n \in 0..N : n \in Good
    BY <1>1, <1>2, Engine!Induction
  <2>2. QED
    BY <2>1
<1>4. QED
  BY <1>3

\* speakerForSpan() runs that loop.
LEMMA SpanIsLooked ==
  ASSUME segments \in Seq(Merge!Segments), NEW a \in Nat, NEW b \in Nat
  PROVE  \E found :
           /\ found[0] = Merge!Nothing
           /\ \A n \in 1..Len(segments) :
                found[n] = MergeLooks(found[n - 1], MergeOver(a, b)[n], MergeFar(a, b)[n],
                                      MergeSpeaker[n])
           /\ Merge!SpeakerForSpan(a, b) =
                IF found[Len(segments)].best # NoSpeaker THEN found[Len(segments)].best
                ELSE found[Len(segments)].nearest
<1> DEFINE N == Len(segments)
           X == [best : Speakers \cup {NoSpeaker}, overlap : Int,
                 nearest : Speakers \cup {NoSpeaker}, distance : Int]
           Body(u) == [n \in 0..N |-> IF n = 0 THEN Merge!Nothing
                                      ELSE Merge!Looked(u[n - 1], Merge!Ordered[n], a, b)]
           found == CHOOSE u : u = Body(u)
           step == [p \in (1..N) \X X |-> Merge!Looked(p[2], Merge!Ordered[p[1]], a, b)]
<1>1. N \in Nat /\ \A n \in 1..N : Merge!Ordered[n] \in Merge!Segments
  BY OrderedIsComplete
<1>2. \A n \in 1..N : /\ Merge!Overlap(Merge!Ordered[n], a, b) \in Int
                      /\ Merge!Distance(Merge!Ordered[n], a, b) \in Int
                      /\ Merge!Ordered[n].speaker \in Speakers
  <2> TAKE n \in 1..N
  <2>1. Merge!Ordered[n] \in Merge!Segments
    BY <1>1
  <2>2. Merge!Ordered[n].speaker \in Speakers
    BY <2>1 DEF Merge!Segments
  <2>3. QED
    BY <2>1, <2>2, OverlapType
<1> HIDE DEF N
<1>3. \A n \in 1..N, f \in X : Merge!Looked(f, Merge!Ordered[n], a, b) \in X
  BY <1>2 DEF Merge!Looked, Merge!Better, Merge!Nearer
<1>4. Merge!Nothing \in X
  BY DEF Merge!Nothing
<1> HIDE DEF X
<1>5. step \in [(1..N) \X X -> X]
  <2>1. ASSUME NEW p \in (1..N) \X X PROVE Merge!Looked(p[2], Merge!Ordered[p[1]], a, b) \in X
    <3>1. p[1] \in 1..N /\ p[2] \in X
      OBVIOUS
    <3>2. QED
      BY <3>1, <1>3
  <2>2. QED
    BY <2>1
<1>6. PICK f : Engine!Runs(f, N, X, Merge!Nothing, step)
  <2> HIDE DEF step
  <2>1. QED
    BY <1>1, <1>4, <1>5, Engine!Recursion
<1>7. f = Body(f)
  <2>1. f \in [0..N -> X] /\ f[0] = Merge!Nothing /\ \A n \in 1..N : f[n] = step[<<n, f[n - 1]>>]
    BY <1>6 DEF Engine!Runs
  <2>2. ASSUME NEW n \in 1..N
        PROVE  step[<<n, f[n - 1]>>] = Merge!Looked(f[n - 1], Merge!Ordered[n], a, b)
    <3>1. n - 1 \in 0..N
      BY <1>1
    <3>2. f[n - 1] \in X
      BY <2>1, <3>1
    <3>3. QED
      BY <3>2
  <2>3. \A n \in 0..N : f[n] = IF n = 0 THEN Merge!Nothing
                               ELSE Merge!Looked(f[n - 1], Merge!Ordered[n], a, b)
    <3>1. \A n \in 0..N : n = 0 \/ n \in 1..N
      BY <1>1
    <3> HIDE DEF step
    <3>2. QED
      BY <2>1, <2>2, <3>1
  <2>4. QED
    BY <2>1, <2>3
<1>8. found = Body(found)
  BY <1>7
<1>9. /\ found[0] = Merge!Nothing
      /\ \A n \in 1..N : found[n] = Merge!Looked(found[n - 1], Merge!Ordered[n], a, b)
  <2> HIDE DEF found
  <2>1. 0 \in 0..N /\ \A n \in 1..N : n \in 0..N /\ n # 0
    BY <1>1
  <2>2. QED
    BY <1>8, <2>1
<1>10. Merge!SpeakerForSpan(a, b) =
         IF found[N].best # NoSpeaker THEN found[N].best ELSE found[N].nearest
  BY DEF Merge!SpeakerForSpan, N
<1> HIDE DEF found
<1>11. ASSUME NEW n \in 1..N
       PROVE  found[n] = MergeLooks(found[n - 1], MergeOver(a, b)[n], MergeFar(a, b)[n],
                                    MergeSpeaker[n])
  <2>1. /\ MergeOver(a, b)[n] = Merge!Overlap(Merge!Ordered[n], a, b)
        /\ MergeFar(a, b)[n] = Merge!Distance(Merge!Ordered[n], a, b)
        /\ MergeSpeaker[n] = Merge!Ordered[n].speaker
    BY DEF MergeOver, MergeFar, MergeSpeaker, N
  <2>2. QED
    BY <1>9, <2>1 DEF MergeLooks, Merge!Looked, Merge!Better, Merge!Nearer
<1>12. QED
  BY <1>9, <1>10, <1>11 DEF N

\* speakerForSpan() meets its definition: the largest overlap, or else the least distance.
LEMMA SpeakerIsACandidate ==
  ASSUME segments \in Seq(Merge!Segments), segments # <<>>, NEW a \in Nat, NEW b \in Nat
  PROVE  /\ Merge!SpeakerForSpan(a, b) \in {s.speaker : s \in Merge!Candidates(a, b)}
         /\ Merge!SpeakerForSpan(a, b) \in Speakers
<1> DEFINE N == Len(segments)
           ord == Merge!Ordered
           over == MergeOver(a, b)
           far == MergeFar(a, b)
           all == Merge!ToSet(segments)
           overs == {Merge!Overlap(s, a, b) : s \in all}
           fars == {Merge!Distance(s, a, b) : s \in all}
<1>1. N \in Nat /\ N # 0 /\ DOMAIN segments = 1..N
  OBVIOUS
<1>2. all = {ord[n] : n \in 1..N} /\ \A n \in 1..N : ord[n] \in Merge!Segments
  <2>1. all = {segments[i] : i \in 1..N}
    BY <1>1 DEF Merge!ToSet
  <2>2. /\ \A n \in 1..N : ord[n] \in Merge!Segments
        /\ \A n \in 1..N : \E i \in 1..N : ord[n] = segments[i]
        /\ \A i \in 1..N : \E n \in 1..N : ord[n] = segments[i]
    BY OrderedIsComplete
  <2> HIDE DEF N, ord, all
  <2>3. all \subseteq {ord[n] : n \in 1..N}
    <3> SUFFICES ASSUME NEW x \in all PROVE \E n \in 1..N : x = ord[n]
      OBVIOUS
    <3>1. PICK i \in 1..N : x = segments[i]
      BY <2>1
    <3>2. QED
      BY <2>2, <3>1
  <2>4. \A n \in 1..N : ord[n] \in all
    BY <2>1, <2>2
  <2>5. QED
    BY <2>2, <2>3, <2>4
<1>3. \A n \in 1..N : /\ over[n] = Merge!Overlap(ord[n], a, b) /\ far[n] = Merge!Distance(ord[n], a, b)
                      /\ MergeSpeaker[n] = ord[n].speaker
  BY DEF MergeOver, MergeFar, MergeSpeaker
<1>4. PICK found :
        /\ found[0] = Merge!Nothing
        /\ \A n \in 1..N : found[n] = MergeLooks(found[n - 1], over[n], far[n], MergeSpeaker[n])
        /\ Merge!SpeakerForSpan(a, b) =
             IF found[N].best # NoSpeaker THEN found[N].best ELSE found[N].nearest
  BY SpanIsLooked
<1> HIDE DEF N, ord, over, far, all
<1>5. \A n \in 1..N : /\ over[n] \in Int /\ far[n] \in Int
                      /\ MergeSpeaker[n] \in Speakers /\ MergeSpeaker[n] # NoSpeaker
  <2> TAKE n \in 1..N
  <2>1. ord[n] \in Merge!Segments
    BY <1>2
  <2>2. ord[n].speaker \in Speakers /\ NoSpeaker \notin Speakers
    BY <2>1, ConstantsAssumption DEF Merge!Segments
  <2>3. QED
    BY <1>3, <2>1, <2>2, OverlapType
<1> DEFINE last == found[N]
<1>6. /\ OverFound(N, over, MergeSpeaker, last) /\ NearFound(N, far, MergeSpeaker, last)
      /\ MostFound(N, over)
  BY <1>1, <1>4, <1>5, LoopFindsBest
<1>7. overs = {over[n] : n \in 1..N} /\ fars = {far[n] : n \in 1..N}
  BY <1>2, <1>3
<1> DEFINE most == Merge!Max(overs)
           least == Merge!Min(fars)
<1>8. Merge!Candidates(a, b) =
        IF most > 0 THEN {s \in all : Merge!Overlap(s, a, b) = most}
        ELSE {s \in all : Merge!Distance(s, a, b) = least}
  BY DEF Merge!Candidates, all
<1> HIDE DEF overs, fars, last
<1>9. most \in overs /\ \A x \in overs : most >= x
  <2>1. PICK m \in 1..N : \A k \in 1..N : over[k] <= over[m]
    BY <1>1, <1>6 DEF MostFound
  <2>2. \E x \in overs : \A y \in overs : x >= y
    BY <1>5, <1>7, <2>1
  <2>3. QED
    BY <2>2 DEF Merge!Max
<1>10. least \in fars /\ \A x \in fars : least <= x
  <2>1. PICK m \in 1..N : far[m] = last.distance /\ \A k \in 1..N : last.distance <= far[k]
    BY <1>1, <1>6 DEF NearFound
  <2>2. \E x \in fars : \A y \in fars : x <= y
    BY <1>7, <2>1
  <2>3. QED
    BY <2>2 DEF Merge!Min
<1> HIDE DEF most, least
<1>11. CASE last.best # NoSpeaker
  <2>1. PICK k \in 1..N : over[k] = last.overlap /\ MergeSpeaker[k] = last.best
    BY <1>6, <1>11 DEF OverFound
  <2>2. last.overlap > 0 /\ last.overlap \in Int /\ \A n \in 1..N : over[n] <= last.overlap
    BY <1>6, <1>11 DEF OverFound
  <2>3. most = last.overlap
    <3>1. most >= last.overlap /\ most <= last.overlap /\ most \in Int
      BY <1>5, <1>7, <1>9, <2>1, <2>2
    <3>2. QED
      BY <2>2, <3>1
  <2>4. ord[k] \in Merge!Candidates(a, b)
    BY <1>2, <1>3, <1>8, <2>1, <2>2, <2>3
  <2>5. Merge!SpeakerForSpan(a, b) = ord[k].speaker /\ ord[k].speaker \in Speakers
    BY <1>3, <1>4, <1>5, <1>11, <2>1 DEF last
  <2>6. QED
    BY <2>4, <2>5
<1>12. CASE last.best = NoSpeaker
  <2>1. \A n \in 1..N : over[n] <= 0
    BY <1>6, <1>12 DEF OverFound
  <2>2. ~(most > 0)
    BY <1>5, <1>7, <1>9, <2>1
  <2>3. PICK k \in 1..N : far[k] = last.distance /\ MergeSpeaker[k] = last.nearest
    BY <1>1, <1>6 DEF NearFound
  <2>4. last.distance \in Int /\ \A n \in 1..N : last.distance <= far[n]
    BY <1>1, <1>6 DEF NearFound
  <2>5. least = last.distance
    <3>1. least >= last.distance /\ least <= last.distance /\ least \in Int
      BY <1>5, <1>7, <1>10, <2>3, <2>4
    <3>2. QED
      BY <2>4, <3>1
  <2>6. ord[k] \in Merge!Candidates(a, b)
    BY <1>2, <1>3, <1>8, <2>2, <2>3, <2>5
  <2>7. Merge!SpeakerForSpan(a, b) = ord[k].speaker /\ ord[k].speaker \in Speakers
    BY <1>3, <1>4, <1>5, <1>12, <2>3 DEF last
  <2>8. QED
    BY <2>6, <2>7
<1>13. QED
  BY <1>11, <1>12

----------------------------------------------------------------------------
(* DiarizationMerge: where the speaker changes, and nowhere else, there is *)
(* a boundary, and no word is lost, repeated or moved.                     *)

LEMMA FlattenConcat ==
  ASSUME NEW S, NEW ss \in Seq(Seq(S)), NEW ts \in Seq(Seq(S))
  PROVE  Engine!FlattenSeq(ss \o ts) = Engine!FlattenSeq(ss) \o Engine!FlattenSeq(ts)
<1> DEFINE M == Len(ss)
           N == Len(ts)
           us == ss \o ts
<1>1. /\ M \in Nat /\ N \in Nat /\ us \in Seq(Seq(S)) /\ Len(us) = M + N
      /\ \A i \in 1..M : us[i] = ss[i]
      /\ \A i \in 1..N : us[M + i] = ts[i] /\ ts[i] \in Seq(S)
  OBVIOUS
<1>2. PICK f \in [0..M -> Seq(S)] : Engine!Joins(f, ss, M) /\ Engine!FlattenSeq(ss) = f[M]
  BY Engine!FlattenJoins
<1>3. PICK g \in [0..N -> Seq(S)] : Engine!Joins(g, ts, N) /\ Engine!FlattenSeq(ts) = g[N]
  BY Engine!FlattenJoins
<1> HIDE DEF us
<1>4. PICK h \in [0..Len(us) -> Seq(S)] :
        Engine!Joins(h, us, Len(us)) /\ Engine!FlattenSeq(us) = h[Len(us)]
  BY <1>1, Engine!FlattenJoins
<1> HIDE DEF M, N
<1>5. h[0] = <<>> /\ \A i \in 1..(M + N) : h[i] = h[i - 1] \o us[i]
  BY <1>1, <1>4 DEF Engine!Joins
<1>6. f[M] = h[M]
  <2>1. \A i \in 1..M : i \in 1..(M + N)
    BY <1>1
  <2>2. Engine!Joins(h, us, M)
    BY <1>5, <2>1 DEF Engine!Joins
  <2>3. QED
    BY <1>1, <1>2, <2>2, Engine!JoinsAgree
<1> DEFINE Same(i) == h[M + i] = f[M] \o g[i]
           Good == {i \in 0..N : Same(i)}
<1>7. 0 \in Good
  <2>1. f[M] \in Seq(S) /\ g[0] = <<>> /\ M + 0 = M
    BY <1>1, <1>2, <1>3 DEF Engine!Joins
  <2>2. f[M] \o <<>> = f[M]
    BY <2>1, Engine!JoinEmpty
  <2>3. Same(0)
    BY <1>6, <2>1, <2>2, Zenon
  <2> HIDE DEF Same
  <2>4. QED
    BY <1>1, <2>3
<1>8. ASSUME NEW i \in 1..N, i - 1 \in Good PROVE i \in Good
  <2>1. M + i \in 1..(M + N) /\ (M + i) - 1 = M + (i - 1) /\ i - 1 \in 0..N /\ i \in 0..N
    BY <1>1
  <2>2. us[M + i] = ts[i] /\ ts[i] \in Seq(S)
    BY <1>1
  <2>3. h[M + i] = h[M + (i - 1)] \o ts[i]
    BY <1>5, <2>1, <2>2
  <2>4. h[M + (i - 1)] = f[M] \o g[i - 1]
    BY <1>8
  <2>5. g[i] = g[i - 1] \o ts[i]
    BY <1>3 DEF Engine!Joins
  <2>6. f[M] \in Seq(S) /\ g[i - 1] \in Seq(S)
    BY <1>1, <1>2, <1>3, <2>1
  <2>7. (f[M] \o g[i - 1]) \o ts[i] = f[M] \o (g[i - 1] \o ts[i])
    <3> DEFINE p == f[M]
               q == g[i - 1]
               r == ts[i]
    <3>1. p \in Seq(S) /\ q \in Seq(S) /\ r \in Seq(S)
      BY <2>2, <2>6
    <3> HIDE DEF p, q, r
    <3>2. (p \o q) \o r = p \o (q \o r)
      BY <3>1, Engine!JoinAssociates, SMTT(20)
    <3>3. QED
      BY <3>2 DEF p, q, r
  <2>8. Same(i)
    BY <2>3, <2>4, <2>5, <2>7, Zenon
  <2> HIDE DEF Same
  <2>9. QED
    BY <2>1, <2>8
<1>9. N \in Good
  <2> HIDE DEF Good
  <2>1. \A i \in 0..N : i \in Good
    BY <1>1, <1>7, <1>8, Engine!Induction
  <2>2. QED
    BY <1>1, <2>1
<1>10. Engine!FlattenSeq(us) = h[M + N] /\ Same(N)
  BY <1>1, <1>4, <1>9
<1>11. QED
  BY <1>2, <1>3, <1>10, Zenon DEF us

\* Utterances of words that are members of W, and all their words.
MergeParts(W) ==
  [of : Nat, speaker : Speakers \cup {NoSpeaker}, start : Nat, end : Nat, words : Seq(W)]
TextOf(W) == [x \in MergeParts(W) |-> x.words]
SaidBy(us, W) == Engine!FlattenSeq(Engine!MapOf(TextOf(W), us))

LEMMA TextsType ==
  ASSUME NEW W, NEW us \in Seq(MergeParts(W))
  PROVE  /\ Engine!MapOf(TextOf(W), us) \in Seq(Seq(W))
         /\ Len(Engine!MapOf(TextOf(W), us)) = Len(us)
         /\ Engine!MapOf(TextOf(W), us) = [u \in 1..Len(us) |-> us[u].words]
         /\ SaidBy(us, W) \in Seq(W)
<1>0. \A x \in MergeParts(W) : TextOf(W)[x] \in Seq(W)
  BY DEF MergeParts, TextOf
<1>1. \A x \in MergeParts(W) : TextOf(W)[x] = x.words
  BY DEF TextOf
<1>2. /\ Engine!MapOf(TextOf(W), us) \in Seq(Seq(W))
      /\ Len(Engine!MapOf(TextOf(W), us)) = Len(us)
  <2> DEFINE M == TextOf(W)
             S == MergeParts(W)
             T == Seq(W)
  <2>1. us \in Seq(S) /\ \A x \in S : M[x] \in T
    BY <1>0
  <2> HIDE DEF M, S, T
  <2>2. Len(us) \in Nat /\ \A j \in 1..Len(us) : us[j] \in S
    BY <2>1
  <2>3. \A j \in 1..Len(us) : M[us[j]] \in T
    BY <2>1, <2>2
  <2>4. Engine!MapOf(M, us) \in Seq(T) /\ Len(Engine!MapOf(M, us)) = Len(us)
    BY <2>2, <2>3 DEF Engine!MapOf
  <2>5. QED
    BY <2>4 DEF M, T
<1>3. Engine!MapOf(TextOf(W), us) = [u \in 1..Len(us) |-> us[u].words]
  <2>1. \A u \in 1..Len(us) : us[u] \in MergeParts(W)
    OBVIOUS
  <2>2. \A u \in 1..Len(us) : TextOf(W)[us[u]] = us[u].words
    BY <1>1, <2>1
  <2>3. QED
    BY <2>2 DEF Engine!MapOf
<1>4. SaidBy(us, W) \in Seq(W)
  BY <1>2, Engine!FlattenType DEF SaidBy
<1>5. QED
  BY <1>2, <1>3, <1>4

LEMMA SaidNone == ASSUME NEW W PROVE SaidBy(<<>>, W) = <<>>
<1>1. Engine!MapOf(TextOf(W), <<>>) = <<>>
  BY DEF Engine!MapOf
<1>2. QED
  BY <1>1, Engine!FlattenEmpty DEF SaidBy

LEMMA SaidAppend ==
  ASSUME NEW W, NEW us \in Seq(MergeParts(W)), NEW x \in MergeParts(W)
  PROVE  SaidBy(Append(us, x), W) = SaidBy(us, W) \o x.words
<1> DEFINE vs == Append(us, x)
           ts == Engine!MapOf(TextOf(W), us)
<1>1. /\ vs \in Seq(MergeParts(W)) /\ Len(us) \in Nat /\ Len(vs) = Len(us) + 1
      /\ vs[Len(us) + 1] = x
      /\ \A u \in 1..Len(us) : vs[u] = us[u]
  OBVIOUS
<1>2. x.words \in Seq(W)
  BY DEF MergeParts
<1>3. ts \in Seq(Seq(W)) /\ Len(ts) = Len(us) /\ ts = [u \in 1..Len(us) |-> us[u].words]
  BY TextsType
<1> HIDE DEF vs
<1>4. Engine!MapOf(TextOf(W), vs) = [u \in 1..(Len(us) + 1) |-> vs[u].words]
      /\ Engine!MapOf(TextOf(W), vs) \in Seq(Seq(W))
      /\ Len(Engine!MapOf(TextOf(W), vs)) = Len(us) + 1
  BY <1>1, TextsType
<1> HIDE DEF ts
<1>5. Engine!MapOf(TextOf(W), vs) = Append(ts, x.words)
  <2> DEFINE r == Append(ts, x.words)
  <2>1. r \in Seq(Seq(W)) /\ Len(r) = Len(us) + 1 /\ r[Len(us) + 1] = x.words
        /\ \A u \in 1..Len(us) : r[u] = ts[u]
    BY <1>1, <1>2, <1>3
  <2> HIDE DEF r
  <2>2. ASSUME NEW u \in 1..(Len(us) + 1) PROVE Engine!MapOf(TextOf(W), vs)[u] = r[u]
    <3>1. Engine!MapOf(TextOf(W), vs)[u] = vs[u].words
      BY <1>4
    <3>2. CASE u = Len(us) + 1
      BY <1>1, <2>1, <3>1, <3>2
    <3>3. CASE u \in 1..Len(us)
      <4>1. ts[u] = us[u].words
        BY <1>3, <3>3
      <4>2. QED
        BY <1>1, <2>1, <3>1, <3>3, <4>1
    <3>4. QED
      BY <1>1, <3>2, <3>3
  <2>3. Engine!MapOf(TextOf(W), vs) = r
    BY <1>4, <2>1, <2>2, Engine!EqualSeqs
  <2>4. QED
    BY <2>3 DEF r
<1>6. Engine!FlattenSeq(Append(ts, x.words)) = Engine!FlattenSeq(ts) \o x.words
  BY <1>2, <1>3, Engine!FlattenAppend
<1>7. QED
  BY <1>5, <1>6, Zenon DEF SaidBy, vs, ts

LEMMA SaidJoin ==
  ASSUME NEW W, NEW us \in Seq(MergeParts(W)), NEW vs \in Seq(MergeParts(W))
  PROVE  SaidBy(us \o vs, W) = SaidBy(us, W) \o SaidBy(vs, W)
<1> DEFINE ss == Engine!MapOf(TextOf(W), us)
           ts == Engine!MapOf(TextOf(W), vs)
<1>1. ss \in Seq(Seq(W)) /\ ts \in Seq(Seq(W))
  BY TextsType
<1>2. Engine!Joined(us \o vs, us, vs) /\ Engine!Joined(ss \o ts, ss, ts)
  BY Zenon DEF Engine!Joined
<1>3. ss \o ts = Engine!MapOf(TextOf(W), us \o vs)
  BY <1>2, Engine!MapJoin
<1> HIDE DEF ss, ts
<1>4. Engine!FlattenSeq(ss \o ts) = Engine!FlattenSeq(ss) \o Engine!FlattenSeq(ts)
  BY <1>1, FlattenConcat
<1>5. QED
  BY <1>3, <1>4, Zenon DEF SaidBy, ss, ts

\* Every utterance is of the speaker of all its words, and where nothing but the speaker
\* can part two utterances the speaker does.
Voices(us, speaker) ==
  /\ \A u \in 1..Len(us) : \A i \in 1..Len(us[u].words) : speaker[us[u].words[i]] = us[u].speaker
  /\ \A u \in 1..Len(us) : u # 1 /\ us[u - 1].of = us[u].of => us[u - 1].speaker # us[u].speaker

LEMMA VoicesJoin ==
  ASSUME NEW W, NEW us \in Seq(MergeParts(W)), NEW vs \in Seq(MergeParts(W)), NEW speaker,
         Voices(us, speaker), Voices(vs, speaker),
         \A i \in 1..Len(us), j \in 1..Len(vs) : us[i].of # vs[j].of
  PROVE  Voices(us \o vs, speaker)
<1> DEFINE ws == us \o vs
           M == Len(us)
           N == Len(vs)
<1>1. /\ M \in Nat /\ N \in Nat /\ Len(ws) = M + N
      /\ \A u \in 1..M : ws[u] = us[u]
      /\ \A u \in (M + 1)..(M + N) : ws[u] = vs[u - M] /\ u - M \in 1..N
      /\ \A u \in 1..(M + N) : u \in 1..M \/ u \in (M + 1)..(M + N)
  OBVIOUS
<1> HIDE DEF ws
<1>2. ASSUME NEW u \in 1..Len(ws), NEW i \in 1..Len(ws[u].words)
      PROVE  speaker[ws[u].words[i]] = ws[u].speaker
  <2>1. CASE u \in 1..M
    BY <1>1, <2>1 DEF Voices
  <2>2. CASE u \in (M + 1)..(M + N)
    BY <1>1, <2>2 DEF Voices
  <2>3. QED
    BY <1>1, <2>1, <2>2
<1>3. ASSUME NEW u \in 1..Len(ws), u # 1, ws[u - 1].of = ws[u].of
      PROVE  ws[u - 1].speaker # ws[u].speaker
  <2>1. CASE u \in 1..M
    <3>1. u - 1 \in 1..M
      BY <1>1, <1>3, <2>1
    <3>2. QED
      BY <1>1, <1>3, <2>1, <3>1 DEF Voices
  <2>2. CASE u = M + 1
    <3>1. u - 1 \in 1..M /\ u \in (M + 1)..(M + N) /\ u - M \in 1..N
      BY <1>1, <1>3, <2>2
    <3>2. ws[u - 1] = us[u - 1] /\ ws[u] = vs[u - M]
      BY <1>1, <3>1
    <3>3. QED
      BY <1>3, <3>1, <3>2
  <2>3. CASE u \in (M + 2)..(M + N)
    <3>1. /\ u \in (M + 1)..(M + N) /\ u - 1 \in (M + 1)..(M + N)
          /\ u - M \in 1..N /\ u - M # 1 /\ (u - M) - 1 = (u - 1) - M
      BY <1>1, <2>3
    <3>2. ws[u - 1] = vs[(u - M) - 1] /\ ws[u] = vs[u - M]
      BY <1>1, <3>1
    <3>3. QED
      BY <1>3, <3>1, <3>2 DEF Voices
  <2>4. QED
    BY <1>1, <2>1, <2>2, <2>3
<1>4. QED
  BY <1>2, <1>3 DEF Voices, ws

\* What is merged: there are segments, and typed words, each of which gets its speaker.
MergeWord == [speaker : Speakers \cup {NoSpeaker}, start : Nat, end : Nat]
MergeReady == segments \in Seq(Merge!Segments) /\ segments # <<>> /\ words \in Seq(MergeWord)
MergeVoice == [w \in DOMAIN words |-> Merge!Assigned[w].speaker]

LEMMA AssignedTypes ==
  ASSUME MergeReady
  PROVE  /\ Merge!Assigned \in Seq(MergeWord) /\ DOMAIN Merge!Assigned = DOMAIN words
         /\ \A w \in DOMAIN words :
              /\ Merge!Assigned[w].start = words[w].start /\ Merge!Assigned[w].start \in Nat
              /\ Merge!Assigned[w].end = words[w].end /\ Merge!Assigned[w].end \in Nat
              /\ Merge!Assigned[w].speaker \in Speakers
              /\ Merge!Assigned[w].speaker \in
                   {s.speaker : s \in Merge!Candidates(words[w].start, words[w].end)}
<1>1. DOMAIN words = 1..Len(words) /\ Len(words) \in Nat /\ \A w \in DOMAIN words : words[w] \in MergeWord
  BY DEF MergeReady
<1>2. ASSUME NEW w \in DOMAIN words
      PROVE  /\ Merge!Assigned[w] \in MergeWord
             /\ Merge!Assigned[w].start = words[w].start /\ Merge!Assigned[w].start \in Nat
             /\ Merge!Assigned[w].end = words[w].end /\ Merge!Assigned[w].end \in Nat
             /\ Merge!Assigned[w].speaker \in Speakers
             /\ Merge!Assigned[w].speaker \in
                  {s.speaker : s \in Merge!Candidates(words[w].start, words[w].end)}
  <2> DEFINE speaker == Merge!SpeakerForSpan(words[w].start, words[w].end)
             x == words[w]
  <2>1. x \in MergeWord
    BY <1>1
  <2>2. x.start \in Nat /\ x.end \in Nat
    BY <2>1 DEF MergeWord
  <2>3. /\ speaker \in {s.speaker : s \in Merge!Candidates(words[w].start, words[w].end)}
        /\ speaker \in Speakers
    BY <2>2, SpeakerIsACandidate DEF MergeReady
  <2>4. Merge!Assigned[w] = [x EXCEPT !.speaker = speaker]
    BY DEF Merge!Assigned
  <2> HIDE DEF speaker, x
  <2>5. /\ Merge!Assigned[w] \in MergeWord /\ Merge!Assigned[w].speaker = speaker
        /\ Merge!Assigned[w].start = x.start /\ Merge!Assigned[w].end = x.end
    BY <2>1, <2>3, <2>4 DEF MergeWord
  <2>6. QED
    BY <2>2, <2>3, <2>5 DEF x
<1>3. DOMAIN Merge!Assigned = DOMAIN words
  BY DEF Merge!Assigned
<1>4. Merge!Assigned = [w \in 1..Len(words) |-> Merge!Assigned[w]]
  BY <1>1 DEF Merge!Assigned
<1>5. Merge!Assigned \in Seq(MergeWord)
  <2> DEFINE A == Merge!Assigned
  <2>1. A = [w \in 1..Len(words) |-> A[w]] /\ \A w \in 1..Len(words) : A[w] \in MergeWord
    BY <1>1, <1>2, <1>4
  <2> HIDE DEF A
  <2>2. A \in Seq(MergeWord)
    BY <1>1, <2>1
  <2>3. QED
    BY <2>2 DEF A
<1>6. QED
  BY <1>2, <1>3, <1>5

\* The runs of an utterance.
RunsOf(runs, of) ==
  Voices(runs, MergeVoice) /\ \A u \in 1..Len(runs) : runs[u].of = of

LEMMA FrontOf ==
  ASSUME NEW S, NEW s \in Seq(S), NEW m \in 0..Len(s)
  PROVE  /\ SubSeq(s, 1, m) \in Seq(S) /\ Len(SubSeq(s, 1, m)) = m
         /\ \A u \in 1..m : SubSeq(s, 1, m)[u] = s[u]
OBVIOUS

LEMMA AppendJoins ==
  ASSUME NEW S, NEW s \in Seq(S), NEW x \in S
  PROVE  Append(s, x) = s \o <<x>>
OBVIOUS

LEMMA SaidLonger ==
  ASSUME NEW W, NEW us \in Seq(MergeParts(W)), NEW l \in MergeParts(W), NEW w \in W,
         NEW x \in MergeParts(W), x.words = l.words \o <<w>>
  PROVE  SaidBy(Append(us, x), W) = SaidBy(Append(us, l), W) \o <<w>>
<1> DEFINE p == SaidBy(us, W)
           q == l.words
           r == <<w>>
<1>1. SaidBy(Append(us, l), W) = p \o q /\ SaidBy(Append(us, x), W) = p \o (q \o r)
  BY SaidAppend
<1>2. p \in Seq(W)
  BY TextsType
<1>3. q \in Seq(W)
  BY DEF MergeParts
<1>4. r \in Seq(W)
  OBVIOUS
<1> HIDE DEF p, q, r
<1>5. (p \o q) \o r = p \o (q \o r)
  BY <1>2, <1>3, <1>4, Engine!JoinAssociates
<1>6. QED
  BY <1>1, <1>5, Zenon DEF r

\* The runs that one more word makes.
Extend(new, runs, w, of, W) ==
  /\ new \in Seq(MergeParts(W)) /\ RunsOf(new, of) /\ Len(new) > 0
  /\ SaidBy(new, W) = SaidBy(runs, W) \o <<w>>

\* The last run goes on, as x.
LEMMA LastGoesOn ==
  ASSUME NEW W, NEW runs \in Seq(MergeParts(W)), runs # <<>>, NEW w \in W, NEW of,
         RunsOf(runs, of), MergeVoice[w] = runs[Len(runs)].speaker,
         NEW x \in MergeParts(W), x.of = runs[Len(runs)].of, x.speaker = runs[Len(runs)].speaker,
         x.words = Append(runs[Len(runs)].words, w)
  PROVE  Extend([runs EXCEPT ![Len(runs)] = x], runs, w, of, W)
<1> DEFINE n == Len(runs)
           l == runs[n]
           new == [runs EXCEPT ![n] = x]
           front == SubSeq(runs, 1, n - 1)
           voice == MergeVoice
           P == MergeParts(W)
<1>0. /\ x.of = l.of /\ x.speaker = l.speaker /\ x.words = Append(l.words, w)
      /\ voice[w] = l.speaker
  OBVIOUS
<1>1. /\ n \in Nat /\ n > 0 /\ n \in 1..n
      /\ \A u \in 1..n : runs[u] \in P /\ (u = n \/ u \in 1..(n - 1))
      /\ front \in Seq(P) /\ Len(front) = n - 1
      /\ \A u \in 1..(n - 1) : front[u] = runs[u] /\ u \in 1..n /\ u # n
  <2> HIDE DEF P, l, new, voice
  <2>1. runs \in Seq(P)
    BY DEF P
  <2>2. n \in Nat /\ n > 0 /\ n \in 1..n /\ \A u \in 1..n : runs[u] \in P
    BY <2>1
  <2> HIDE DEF n
  <2>3. /\ \A u \in 1..n : u = n \/ u \in 1..(n - 1)
        /\ \A u \in 1..(n - 1) : u \in 1..n /\ u # n
    BY <2>2
  <2>4. front \in Seq(P) /\ Len(front) = n - 1 /\ \A u \in 1..(n - 1) : front[u] = runs[u]
    <3>1. runs \in Seq(P) /\ n - 1 \in 0..Len(runs)
      BY <2>1, <2>2 DEF n
    <3>2. QED
      BY <3>1, FrontOf
  <2>5. QED
    BY <2>2, <2>3, <2>4
<1>2. /\ l.words \in Seq(W)
      /\ Append(l.words, w) = l.words \o <<w>>
      /\ Len(Append(l.words, w)) = Len(l.words) + 1 /\ Len(l.words) \in Nat
      /\ Append(l.words, w)[Len(l.words) + 1] = w
      /\ \A i \in 1..Len(l.words) : Append(l.words, w)[i] = l.words[i]
  <2> DEFINE q == l.words
  <2>1. q \in Seq(W)
    BY <1>1 DEF MergeParts
  <2> HIDE DEF q
  <2>2. Append(q, w) = q \o <<w>>
    BY <2>1, AppendJoins
  <2>3. /\ Len(Append(q, w)) = Len(q) + 1 /\ Len(q) \in Nat /\ Append(q, w)[Len(q) + 1] = w
        /\ \A i \in 1..Len(q) : Append(q, w)[i] = q[i]
    BY <2>1
  <2>4. QED
    BY <2>1, <2>2, <2>3 DEF q
<1>3. l = runs[n] /\ l \in P /\ new = [runs EXCEPT ![n] = x]
  BY <1>1
<1> HIDE DEF front, voice, P, l, new
<1>7. /\ new \in Seq(P) /\ Len(new) = n
      /\ new[n] = x /\ \A u \in 1..(n - 1) : new[u] = runs[u]
  <2>1. runs \in Seq(P) /\ x \in P /\ new = [runs EXCEPT ![n] = x]
    BY <1>3 DEF P
  <2>2. QED
    BY <1>1, <2>1
<1>8. runs = Append(front, l) /\ new = Append(front, x)
  <2>1. runs = Append(front, l)
    <3> DEFINE r == Append(front, l)
    <3>1. r \in Seq(P) /\ Len(r) = n /\ r[n] = l
          /\ \A u \in 1..(n - 1) : r[u] = front[u]
      BY <1>1, <1>3
    <3> HIDE DEF r
    <3>2. \A u \in 1..n : runs[u] = r[u]
      BY <1>1, <1>3, <3>1
    <3>3. runs = r
      BY <3>1, <3>2, Engine!EqualSeqs
    <3>4. QED
      BY <3>3 DEF r
  <2>2. new = Append(front, x)
    <3> DEFINE r == Append(front, x)
    <3>1. r \in Seq(P) /\ Len(r) = n /\ r[n] = x
          /\ \A u \in 1..(n - 1) : r[u] = front[u]
      BY <1>1 DEF P
    <3> HIDE DEF r
    <3>2. \A u \in 1..n : new[u] = r[u]
      BY <1>1, <1>7, <3>1
    <3>3. new = r
      BY <1>7, <3>1, <3>2, Engine!EqualSeqs
    <3>4. QED
      BY <3>3 DEF r
  <2>3. QED
    BY <2>1, <2>2
<1>9. SaidBy(new, W) = SaidBy(runs, W) \o <<w>>
  <2>1. front \in Seq(MergeParts(W)) /\ l \in MergeParts(W) /\ x.words = l.words \o <<w>>
    BY <1>0, <1>1, <1>2, <1>3 DEF P
  <2>2. SaidBy(Append(front, x), W) = SaidBy(Append(front, l), W) \o <<w>>
    BY <2>1, SaidLonger
  <2>3. QED
    BY <1>8, <2>2
<1>10. /\ x.of = l.of /\ x.speaker = l.speaker /\ Len(x.words) = Len(l.words) + 1
       /\ x.words[Len(l.words) + 1] = w /\ \A i \in 1..Len(l.words) : x.words[i] = l.words[i]
  BY <1>0, <1>2
<1>11. Voices(runs, voice) /\ voice[w] = l.speaker /\ \A u \in 1..n : runs[u].of = of
  BY <1>0 DEF RunsOf, voice
<1> HIDE DEF n
<1>12. \A u \in 1..n : new[u].of = runs[u].of /\ new[u].speaker = runs[u].speaker
  BY <1>1, <1>3, <1>7, <1>10
<1>13. Voices(new, voice)
  <2>1. ASSUME NEW u \in 1..n, NEW i \in 1..Len(new[u].words)
        PROVE  voice[new[u].words[i]] = new[u].speaker
    <3>1. CASE u \in 1..(n - 1)
      <4>1. new[u] = runs[u] /\ i \in 1..Len(runs[u].words)
        BY <1>7, <3>1
      <4>2. voice[runs[u].words[i]] = runs[u].speaker
        BY <1>11, <4>1 DEF Voices, n
      <4>3. QED
        BY <4>1, <4>2
    <3>2. CASE u = n
      <4>1. new[u] = x /\ i \in 1..(Len(l.words) + 1)
        BY <1>7, <1>10, <3>2
      <4>4. i = Len(l.words) + 1 \/ i \in 1..Len(l.words)
        BY <1>2, <4>1
      <4>2. \A k \in 1..Len(l.words) : voice[l.words[k]] = l.speaker
        BY <1>1, <1>3, <1>11 DEF Voices, n
      <4>5. QED
        BY <1>10, <1>11, <4>1, <4>2, <4>4
    <3>3. QED
      BY <1>1, <3>1, <3>2
  <2>2. ASSUME NEW u \in 1..n, u # 1, new[u - 1].of = new[u].of
        PROVE  new[u - 1].speaker # new[u].speaker
    <3>1. u - 1 \in 1..n
      BY <1>1, <2>2
    <3>2. QED
      BY <1>11, <1>12, <2>2, <3>1 DEF Voices, n
  <2>3. QED
    BY <1>7, <2>1, <2>2 DEF Voices
<1>14. \A u \in 1..Len(new) : new[u].of = of
  BY <1>7, <1>11, <1>12
<1>15. QED
  BY <1>1, <1>7, <1>9, <1>13, <1>14 DEF Extend, RunsOf, voice, P, new, n

\* Another run begins.
LEMMA RunBegins ==
  ASSUME NEW W, NEW runs \in Seq(MergeParts(W)), NEW of, RunsOf(runs, of),
         NEW x \in MergeParts(W), x.of = of, NEW w \in W, x.words = <<w>>, x.speaker = MergeVoice[w],
         runs # <<>> => runs[Len(runs)].speaker # x.speaker
  PROVE  Extend(Append(runs, x), runs, w, of, W)
<1> DEFINE n == Len(runs)
           new == Append(runs, x)
           voice == MergeVoice
<1>1. /\ n \in Nat /\ new \in Seq(MergeParts(W)) /\ Len(new) = n + 1 /\ new[n + 1] = x
      /\ \A u \in 1..n : new[u] = runs[u]
      /\ \A u \in 1..(n + 1) : u = n + 1 \/ u \in 1..n
      /\ n # 0 => runs # <<>> /\ n \in 1..n
  OBVIOUS
<1>2. SaidBy(new, W) = SaidBy(runs, W) \o <<w>>
  BY SaidAppend
<1>3. Voices(runs, voice) /\ x.speaker = voice[w] /\ \A u \in 1..n : runs[u].of = of
  BY DEF RunsOf
<1>4. Len(x.words) = 1 /\ x.words[1] = w
  OBVIOUS
<1> HIDE DEF new, voice
<1>5. Voices(new, voice)
  <2>1. ASSUME NEW u \in 1..(n + 1), NEW i \in 1..Len(new[u].words)
        PROVE  voice[new[u].words[i]] = new[u].speaker
    <3>1. CASE u \in 1..n
      BY <1>1, <1>3, <3>1 DEF Voices
    <3>2. CASE u = n + 1
      <4>0. new[u] = x /\ i \in 1..1
        BY <1>1, <1>4, <3>2
      <4>1. new[u] = x /\ i = 1
        BY <4>0
      <4>2. QED
        BY <1>3, <1>4, <4>1
    <3>3. QED
      BY <1>1, <3>1, <3>2
  <2>2. ASSUME NEW u \in 1..(n + 1), u # 1, new[u - 1].of = new[u].of
        PROVE  new[u - 1].speaker # new[u].speaker
    <3>1. u - 1 \in 1..n
      BY <1>1, <2>2
    <3>2. CASE u \in 1..n
      BY <1>1, <1>3, <2>2, <3>1, <3>2 DEF Voices
    <3>3. CASE u = n + 1
      BY <1>1, <2>2, <3>1, <3>3
    <3>4. QED
      BY <1>1, <3>2, <3>3
  <2>3. QED
    BY <1>1, <2>1, <2>2 DEF Voices
<1>6. \A u \in 1..Len(new) : new[u].of = of
  BY <1>1, <1>3
<1>7. QED
  BY <1>1, <1>2, <1>5, <1>6 DEF Extend, RunsOf, voice, new

LEMMA AddedSpeaks ==
  ASSUME MergeReady, NEW runs \in Seq(MergeParts(DOMAIN words)), NEW w \in DOMAIN words,
         NEW of \in Nat, RunsOf(runs, of)
  PROVE  Extend(Merge!Added(runs, w, of), runs, w, of, DOMAIN words)
<1> DEFINE W == DOMAIN words
           new == Merge!Added(runs, w, of)
<1>1. /\ MergeVoice[w] = Merge!Assigned[w].speaker /\ Merge!Assigned[w].speaker \in Speakers
      /\ words[w].start \in Nat /\ words[w].end \in Nat
  BY AssignedTypes DEF MergeVoice
<1>2. Merge!Continues(runs, w) <=> runs # <<>> /\ runs[Len(runs)].speaker = MergeVoice[w]
  BY <1>1 DEF Merge!Continues, Merge!Last
<1>3. CASE Merge!Continues(runs, w)
  <2>1. runs # <<>> /\ MergeVoice[w] = runs[Len(runs)].speaker /\ Len(runs) > 0
    BY <1>2, <1>3
  <2>2. new = [runs EXCEPT ![Len(runs)].words = Append(@, w), ![Len(runs)].end = words[w].end]
    BY <1>3 DEF Merge!Added
  <2> DEFINE l == runs[Len(runs)]
             x == [l EXCEPT !.words = Append(l.words, w), !.end = words[w].end]
  <2>3. l \in MergeParts(W) /\ Len(runs) \in 1..Len(runs) /\ DOMAIN runs = 1..Len(runs)
    BY <2>1
  <2>4. /\ x \in MergeParts(W) /\ x.of = l.of /\ x.speaker = l.speaker
        /\ x.words = Append(l.words, w)
    <3> DEFINE q == l.words
    <3>1. q \in Seq(W)
      BY <2>3 DEF MergeParts
    <3>2. Append(q, w) \in Seq(W)
      <4> HIDE DEF q
      <4>1. QED
        BY <3>1
    <3> HIDE DEF l
    <3>3. QED
      BY <1>1, <2>3, <3>2 DEF MergeParts
  <2>5. new = [runs EXCEPT ![Len(runs)] = x]
    BY <2>2, <2>3
  <2> HIDE DEF new, W, x
  <2>6. runs \in Seq(MergeParts(W)) /\ w \in W
    BY DEF W
  <2>7. Extend([runs EXCEPT ![Len(runs)] = x], runs, w, of, W)
    BY <2>1, <2>4, <2>6, LastGoesOn
  <2>8. QED
    BY <2>5, <2>7 DEF new, W
<1>4. CASE ~Merge!Continues(runs, w)
  <2> DEFINE x == [of |-> of, speaker |-> Merge!Assigned[w].speaker, start |-> words[w].start,
                   end |-> words[w].end, words |-> <<w>>]
  <2>1. new = Append(runs, x)
    BY <1>4 DEF Merge!Added
  <2>2. x \in MergeParts(W) /\ x.of = of /\ x.words = <<w>> /\ x.speaker = MergeVoice[w]
    BY <1>1 DEF MergeParts
  <2>3. runs # <<>> => runs[Len(runs)].speaker # x.speaker
    BY <1>2, <1>4, <2>2
  <2> HIDE DEF new, W, x
  <2>4. runs \in Seq(MergeParts(W)) /\ w \in W
    BY DEF W
  <2>5. Extend(Append(runs, x), runs, w, of, W)
    BY <2>2, <2>3, <2>4, RunBegins
  <2>6. QED
    BY <2>1, <2>5 DEF new, W
<1>5. QED
  BY <1>3, <1>4

\* What an utterance becomes: of its words, in their order, and of nothing else.
Divides(ds, utterance, W) ==
  /\ ds \in Seq(MergeParts(W)) /\ RunsOf(ds, utterance.of) /\ SaidBy(ds, W) = utterance.words

LEMMA OneDivides ==
  ASSUME NEW W, NEW utterance \in MergeParts(W), NEW x \in MergeParts(W),
         x.of = utterance.of, x.words = utterance.words,
         \A i \in 1..Len(x.words) : MergeVoice[x.words[i]] = x.speaker
  PROVE  Divides(<<x>>, utterance, W)
<1>1. x.words \in Seq(W) /\ <<x>> = Append(<<>>, x) /\ <<>> \in Seq(MergeParts(W))
  BY DEF MergeParts
<1>2. SaidBy(<<x>>, W) = SaidBy(<<>>, W) \o x.words
  BY <1>1, SaidAppend
<1>3. SaidBy(<<x>>, W) = x.words
  BY <1>1, <1>2, SaidNone, Engine!JoinEmpty
<1>4. <<x>> \in Seq(MergeParts(W)) /\ Len(<<x>>) = 1 /\ <<x>>[1] = x
  OBVIOUS
<1> DEFINE one == <<x>>
           voice == MergeVoice
<1>5. Voices(one, voice)
  <2> HIDE DEF one, voice
  <2>1. \A u \in 1..Len(one) : u = 1 /\ one[u] = x
    BY <1>4 DEF one
  <2>2. \A i \in 1..Len(x.words) : voice[x.words[i]] = x.speaker
    BY DEF voice
  <2>3. QED
    BY <2>1, <2>2 DEF Voices
<1>6. QED
  BY <1>3, <1>4, <1>5 DEF Divides, RunsOf

LEMMA SplitDivides ==
  ASSUME MergeReady, NEW utterance \in MergeParts(DOMAIN words), utterance.words # <<>>
  PROVE  Divides(Merge!Split(utterance), utterance, DOMAIN words)
<1> DEFINE W == DOMAIN words
           ws == utterance.words
           of == utterance.of
           N == Len(ws)
           X == {r \in Seq(MergeParts(W)) : RunsOf(r, of)}
           Body(u) == [n \in 0..N |-> IF n = 0 THEN <<>> ELSE Merge!Added(u[n - 1], ws[n], of)]
           runs == CHOOSE u : u = Body(u)
           all == runs[N]
           step == [p \in (1..N) \X X |-> Merge!Added(p[2], ws[p[1]], of)]
<1>0. ws \in Seq(W) /\ of \in Nat
  BY DEF MergeParts
<1>1. N \in Nat /\ N # 0 /\ \A n \in 1..N : ws[n] \in W
  <2> HIDE DEF W, ws
  <2>1. ws # <<>>
    BY DEF ws
  <2>2. QED
    BY <1>0, <2>1
<1>2. ASSUME NEW r \in X, NEW n \in 1..N
      PROVE  Merge!Added(r, ws[n], of) \in X /\ Extend(Merge!Added(r, ws[n], of), r, ws[n], of, W)
  <2>1. r \in Seq(MergeParts(DOMAIN words)) /\ RunsOf(r, of) /\ ws[n] \in DOMAIN words
    BY <1>1
  <2>2. Extend(Merge!Added(r, ws[n], of), r, ws[n], of, W)
    BY <1>0, <2>1, AddedSpeaks
  <2>3. QED
    BY <2>2 DEF Extend
<1>3. <<>> \in X
  <2>1. Len(<<>>) = 0 /\ <<>> \in Seq(MergeParts(W))
    OBVIOUS
  <2>2. QED
    BY <2>1 DEF RunsOf, Voices
<1> HIDE DEF ws, of, N, W
<1>4. \E f : f = Body(f) /\ f \in [0..N -> X]
  <2> HIDE DEF X
  <2>1. step \in [(1..N) \X X -> X]
    <3>1. ASSUME NEW p \in (1..N) \X X PROVE Merge!Added(p[2], ws[p[1]], of) \in X
      <4>1. p[1] \in 1..N /\ p[2] \in X
        OBVIOUS
      <4>2. QED
        BY <1>2, <4>1
    <3>2. QED
      BY <3>1
  <2>2. PICK f : Engine!Runs(f, N, X, <<>>, step)
    <3> HIDE DEF step
    <3>1. QED
      BY <1>1, <1>3, <2>1, Engine!Recursion
  <2>3. f \in [0..N -> X] /\ f[0] = <<>> /\ \A n \in 1..N : f[n] = step[<<n, f[n - 1]>>]
    BY <2>2 DEF Engine!Runs
  <2>4. ASSUME NEW n \in 1..N PROVE step[<<n, f[n - 1]>>] = Merge!Added(f[n - 1], ws[n], of)
    <3>1. n - 1 \in 0..N
      BY <1>1
    <3>2. f[n - 1] \in X
      BY <2>3, <3>1
    <3>3. QED
      BY <3>2
  <2>5. \A n \in 0..N : f[n] = IF n = 0 THEN <<>> ELSE Merge!Added(f[n - 1], ws[n], of)
    <3>1. \A n \in 0..N : n = 0 \/ n \in 1..N
      BY <1>1
    <3> HIDE DEF step
    <3>2. QED
      BY <2>3, <2>4, <3>1
  <2>6. QED
    BY <2>3, <2>5
<1>5. runs = Body(runs)
  BY <1>4
<1>6. Merge!Split(utterance) =
        IF Len(all) = 1 THEN <<[utterance EXCEPT !.speaker = all[1].speaker]>> ELSE all
  BY DEF Merge!Split, ws, of, N
<1>7. /\ runs[0] = <<>>
      /\ \A n \in 1..N : runs[n] = Merge!Added(runs[n - 1], ws[n], of)
  <2> HIDE DEF runs
  <2>1. 0 \in 0..N /\ \A n \in 1..N : n \in 0..N /\ n # 0
    BY <1>1
  <2>2. QED
    BY <1>5, <2>1
<1> HIDE DEF runs
<1> DEFINE Good == {n \in 0..N : runs[n] \in X /\ (n # 0 => Extend(runs[n], runs[n - 1], ws[n], of, W))}
<1>8. \A n \in 0..N : n \in Good
  <2>1. 0 \in Good
    <3> HIDE DEF X
    <3>1. QED
      BY <1>1, <1>3, <1>7
  <2>2. ASSUME NEW n \in 1..N, n - 1 \in Good PROVE n \in Good
    <3> HIDE DEF X
    <3>1. runs[n] \in X /\ Extend(runs[n], runs[n - 1], ws[n], of, W) /\ n \in 0..N
      BY <1>1, <1>2, <1>7, <2>2
    <3>2. QED
      BY <3>1
  <2> HIDE DEF Good
  <2>3. QED
    BY <1>1, <2>1, <2>2, Engine!Induction
<1>9. all \in X /\ Len(all) > 0
  <2>1. N \in 0..N
    BY <1>1
  <2>2. N \in Good
    BY <1>8, <2>1
  <2>3. QED
    BY <1>1, <2>2 DEF Extend
<1>10. SaidBy(all, W) = ws
  <2> DEFINE ones == [i \in 1..N |-> <<ws[i]>>]
             f == [n \in 0..N |-> SaidBy(runs[n], W)]
  <2>1. Engine!FlattenSeq(ones) = ws
    BY <1>0, Engine!FlattenOnes DEF N
  <2>2. ones \in Seq(Seq(W)) /\ Len(ones) = N
    <3>1. \A i \in 1..N : <<ws[i]>> \in Seq(W)
      BY <1>1
    <3>2. QED
      BY <1>1, <3>1
  <2>3. \A i \in 1..N : ones[i] = <<ws[i]>>
    OBVIOUS
  <2> HIDE DEF ones
  <2>4. PICK g \in [0..N -> Seq(W)] : Engine!Joins(g, ones, N) /\ Engine!FlattenSeq(ones) = g[N]
    BY <2>2, Engine!FlattenJoins
  <2>5. Engine!Joins(f, ones, N)
    <3>1. f[0] = <<>>
      BY <1>1, <1>7, SaidNone
    <3>2. ASSUME NEW n \in 1..N PROVE f[n] = f[n - 1] \o ones[n]
      <4>1. n \in 0..N /\ n - 1 \in 0..N /\ n # 0
        BY <1>1
      <4>2. n \in Good
        BY <1>8, <4>1
      <4>3. SaidBy(runs[n], W) = SaidBy(runs[n - 1], W) \o <<ws[n]>>
        BY <4>1, <4>2 DEF Extend
      <4>4. f[n] = SaidBy(runs[n], W) /\ f[n - 1] = SaidBy(runs[n - 1], W)
        BY <4>1
      <4>5. QED
        BY <2>3, <4>3, <4>4, Zenon
    <3> HIDE DEF f
    <3>3. QED
      BY <3>1, <3>2 DEF Engine!Joins
  <2>6. f[N] = SaidBy(all, W)
    BY <1>1
  <2> HIDE DEF f
  <2>7. f[N] = g[N]
    BY <1>1, <2>4, <2>5, Engine!JoinsAgree
  <2>8. QED
    BY <2>1, <2>4, <2>6, <2>7
<1> HIDE DEF all
<1>11. CASE Len(all) # 1
  BY <1>6, <1>9, <1>10, <1>11 DEF Divides, ws, of, W
<1>12. CASE Len(all) = 1
  <2> DEFINE x == [utterance EXCEPT !.speaker = all[1].speaker]
             y == all[1]
             voice == MergeVoice
  <2>1. all \in Seq(MergeParts(W)) /\ RunsOf(all, of)
    BY <1>9
  <2>2. y \in MergeParts(W) /\ all = <<y>>
    <3> HIDE DEF W
    <3>1. y \in MergeParts(W)
      BY <1>12, <2>1
    <3>2. <<y>> \in Seq(MergeParts(W)) /\ Len(<<y>>) = 1 /\ \A k \in 1..1 : all[k] = <<y>>[k]
      BY <3>1
    <3>3. all = <<y>>
      BY <1>12, <2>1, <3>2, Engine!EqualSeqs
    <3>4. QED
      BY <3>1, <3>3
  <2>3. y.speaker \in Speakers \cup {NoSpeaker} /\ y.words \in Seq(W)
    BY <2>2 DEF MergeParts
  <2>4. x \in MergeParts(W) /\ x.of = of /\ x.words = ws /\ x.speaker = y.speaker
    BY <2>3 DEF MergeParts, of, ws, W
  <2>5. y.words = ws
    <3>1. SaidBy(Append(<<>>, y), W) = SaidBy(<<>>, W) \o y.words
      <4>1. <<>> \in Seq(MergeParts(W))
        OBVIOUS
      <4>2. QED
        BY <2>2, <4>1, SaidAppend
    <3>2. Append(<<>>, y) = all
      BY <2>2
    <3>3. <<>> \o y.words = y.words
      BY <2>3, Engine!JoinEmpty
    <3>4. QED
      BY <1>10, <3>1, <3>2, <3>3, SaidNone
  <2>6. \A i \in 1..Len(y.words) : voice[y.words[i]] = y.speaker
    <3> HIDE DEF voice
    <3>1. Voices(all, voice) /\ 1 \in 1..Len(all)
      BY <1>12, <2>1 DEF RunsOf, voice
    <3>2. QED
      BY <3>1 DEF Voices
  <2> HIDE DEF x, y
  <2>7. \A i \in 1..Len(x.words) : MergeVoice[x.words[i]] = x.speaker
    BY <2>4, <2>5, <2>6
  <2>8. Divides(<<x>>, utterance, W)
    BY <2>4, <2>7, OneDivides DEF of, ws, W
  <2>9. QED
    BY <1>6, <1>12, <2>8 DEF x, W
<1>13. QED
  BY <1>11, <1>12

\* An utterance without words is given to a speaker as a whole.
LEMMA DividedDivides ==
  ASSUME MergeReady, NEW utterance \in MergeParts(DOMAIN words)
  PROVE  Divides(Merge!Divided(utterance), utterance, DOMAIN words)
<1>1. CASE utterance.words = <<>>
  <2> DEFINE W == DOMAIN words
             speaker == Merge!SpeakerForSpan(utterance.start, utterance.end)
             x == [utterance EXCEPT !.speaker = speaker]
  <2>1. utterance.start \in Nat /\ utterance.end \in Nat
    BY DEF MergeParts
  <2>2. speaker \in Speakers
    BY <2>1, SpeakerIsACandidate DEF MergeReady
  <2>3. Merge!Divided(utterance) = <<x>>
    BY <1>1 DEF Merge!Divided
  <2> HIDE DEF speaker, W
  <2>4. x \in MergeParts(W) /\ x.of = utterance.of /\ x.words = utterance.words
    BY <2>2 DEF MergeParts, W
  <2>5. Len(x.words) = 0
    BY <1>1, <2>4
  <2> HIDE DEF x
  <2>6. \A i \in 1..Len(x.words) : MergeVoice[x.words[i]] = x.speaker
    BY <2>5
  <2>7. Divides(<<x>>, utterance, W)
    BY <2>4, <2>6, OneDivides DEF W
  <2>8. QED
    BY <2>3, <2>7 DEF W
<1>2. CASE utterance.words # <<>>
  BY <1>2, SplitDivides DEF Merge!Divided
<1>3. QED
  BY <1>1, <1>2

\* Before the merge: the utterances are parts of different ones, and have every word.
OfsDiffer ==
  \A i, j \in 1..Len(utterances) : i # j => utterances[i].of # utterances[j].of
AllSaid == SaidBy(utterances, DOMAIN words) = [w \in DOMAIN words |-> w]

LEMMA MergedSpeaks ==
  ASSUME MergeReady, utterances \in Seq(MergeParts(DOMAIN words)), OfsDiffer,
         NEW us, us = Engine!FlattenSeq([u \in DOMAIN utterances |-> Merge!Divided(utterances[u])])
  PROVE  /\ us \in Seq(MergeParts(DOMAIN words)) /\ Voices(us, MergeVoice)
         /\ SaidBy(us, DOMAIN words) = SaidBy(utterances, DOMAIN words)
<1> DEFINE W == DOMAIN words
           P == MergeParts(W)
           N == Len(utterances)
           ds == [u \in 1..N |-> Merge!Divided(utterances[u])]
           texts == [u \in 1..N |-> utterances[u].words]
           voice == MergeVoice
<1>1. N \in Nat /\ DOMAIN utterances = 1..N /\ \A u \in 1..N : utterances[u] \in P
  <2> HIDE DEF P
  <2>1. utterances \in Seq(P)
    BY DEF P
  <2>2. QED
    BY <2>1
<1>2. \A u \in 1..N : ds[u] = Merge!Divided(utterances[u]) /\ Divides(ds[u], utterances[u], W)
  BY <1>1, DividedDivides
<1>3. us = Engine!FlattenSeq(ds)
  BY <1>1
<1>4. /\ Engine!FlattenSeq(texts) = SaidBy(utterances, W)
      /\ texts \in Seq(Seq(W)) /\ Len(texts) = N
  <2>1. texts = Engine!MapOf(TextOf(W), utterances)
    BY TextsType
  <2>2. texts \in Seq(Seq(W)) /\ Len(texts) = N
    BY <2>1, TextsType
  <2>3. QED
    BY <2>1, <2>2 DEF SaidBy
<1>5. \A u \in 1..N : texts[u] = utterances[u].words
  OBVIOUS
<1> HIDE DEF N, ds, texts, W
<1>6. \A u \in 1..N : ds[u] \in Seq(P)
  BY <1>2 DEF Divides
<1> HIDE DEF P
<1>7. ds \in Seq(Seq(P)) /\ Len(ds) = N
  BY <1>1, <1>6 DEF ds
<1>8. PICK f \in [0..N -> Seq(P)] : Engine!Joins(f, ds, N) /\ Engine!FlattenSeq(ds) = f[N]
  BY <1>7, Engine!FlattenJoins
<1>9. PICK g \in [0..N -> Seq(Seq(W))] \cup [0..N -> Seq(W)] :
        Engine!Joins(g, texts, N) /\ Engine!FlattenSeq(texts) = g[N]
  BY <1>4, Engine!FlattenJoins
<1>10. f[0] = <<>> /\ \A i \in 1..N : f[i] = f[i - 1] \o ds[i]
  BY <1>8 DEF Engine!Joins
<1> DEFINE Came(i) == \A k \in 1..Len(f[i]) : \E j \in 1..i : f[i][k].of = utterances[j].of
           Good == {i \in 0..N : Voices(f[i], voice) /\ Came(i)}
<1> HIDE DEF voice
<1>11. 0 \in Good
  <2>1. Len(f[0]) = 0
    BY <1>10
  <2>2. QED
    BY <1>1, <2>1 DEF Voices
<1>12. ASSUME NEW i \in 1..N, i - 1 \in Good PROVE i \in Good
  <2> DEFINE a == f[i - 1]
             b == ds[i]
             c == f[i]
  <2>1. /\ i \in Nat /\ i \in 0..N /\ i - 1 \in 0..N /\ i \in 1..i
        /\ \A j \in 1..(i - 1) : j \in 1..i /\ j \in 1..N /\ j # i
    BY <1>1
  <2>2. c = a \o b /\ a \in Seq(P) /\ b \in Seq(P)
    BY <1>6, <1>8, <1>10, <2>1
  <2>3. Voices(a, voice) /\ \A k \in 1..Len(a) : \E j \in 1..(i - 1) : a[k].of = utterances[j].of
    BY <1>12
  <2>4. Voices(b, voice) /\ \A k \in 1..Len(b) : b[k].of = utterances[i].of
    BY <1>2 DEF Divides, RunsOf, voice
  <2>5. \A k \in 1..Len(a), l \in 1..Len(b) : a[k].of # b[l].of
    <3> SUFFICES ASSUME NEW k \in 1..Len(a), NEW l \in 1..Len(b) PROVE a[k].of # b[l].of
      OBVIOUS
    <3>1. PICK j \in 1..(i - 1) : a[k].of = utterances[j].of
      BY <2>3
    <3>2. utterances[j].of # utterances[i].of
      BY <2>1 DEF OfsDiffer, N
    <3>3. QED
      BY <2>4, <3>1, <3>2
  <2> HIDE DEF a, b
  <2>6. Voices(a \o b, voice)
    BY <2>2, <2>3, <2>4, <2>5, VoicesJoin DEF P
  <2>7. \A k \in 1..Len(a \o b) : \E j \in 1..i : (a \o b)[k].of = utterances[j].of
    <3>1. /\ Len(a) \in Nat /\ Len(b) \in Nat /\ Len(a \o b) = Len(a) + Len(b)
          /\ \A k \in 1..Len(a) : (a \o b)[k] = a[k]
          /\ \A k \in (Len(a) + 1)..(Len(a) + Len(b)) :
               (a \o b)[k] = b[k - Len(a)] /\ k - Len(a) \in 1..Len(b)
      BY <2>2
    <3> DEFINE d == a \o b
    <3> HIDE DEF d
    <3>2. \A k \in 1..Len(a) : \E j \in 1..i : d[k].of = utterances[j].of
      BY <2>1, <2>3, <3>1 DEF d
    <3>3. \A k \in (Len(a) + 1)..(Len(a) + Len(b)) : d[k].of = utterances[i].of
      BY <2>4, <3>1 DEF d
    <3>4. \A k \in 1..(Len(a) + Len(b)) : k \in 1..Len(a) \/ k \in (Len(a) + 1)..(Len(a) + Len(b))
      BY <3>1
    <3>5. QED
      BY <2>1, <3>1, <3>2, <3>3, <3>4 DEF d
  <2> DEFINE d == a \o b
  <2> HIDE DEF d
  <2>8. c = d /\ Voices(d, voice) /\ \A k \in 1..Len(d) : \E j \in 1..i : d[k].of = utterances[j].of
    BY <2>2, <2>6, <2>7 DEF d
  <2>9. QED
    BY <2>1, <2>8
<1> HIDE DEF Came
<1>13. N \in 0..N /\ N \in Good
  <2> HIDE DEF Good
  <2>1. \A i \in 0..N : i \in Good
    BY <1>1, <1>11, <1>12, Engine!Induction
  <2>2. QED
    BY <1>1, <2>1
<1>14. Voices(us, voice) /\ us \in Seq(P)
  BY <1>3, <1>8, <1>13
<1> DEFINE h == [i \in 0..N |-> SaidBy(f[i], W)]
<1>15. Engine!Joins(h, texts, N)
  <2>1. h[0] = <<>>
    BY <1>1, <1>10, SaidNone
  <2>2. ASSUME NEW i \in 1..N PROVE h[i] = h[i - 1] \o texts[i]
    <3>1. i \in 0..N /\ i - 1 \in 0..N
      BY <1>1
    <3>2. f[i - 1] \in Seq(MergeParts(W)) /\ ds[i] \in Seq(MergeParts(W))
      BY <1>6, <1>8, <3>1 DEF P
    <3>3. SaidBy(f[i - 1] \o ds[i], W) = SaidBy(f[i - 1], W) \o SaidBy(ds[i], W)
      BY <3>2, SaidJoin
    <3>4. SaidBy(ds[i], W) = texts[i]
      BY <1>2, <1>5 DEF Divides
    <3>5. h[i] = SaidBy(f[i], W) /\ h[i - 1] = SaidBy(f[i - 1], W) /\ f[i] = f[i - 1] \o ds[i]
      BY <1>10, <3>1
    <3>6. QED
      BY <3>3, <3>4, <3>5, Zenon
  <2> HIDE DEF h
  <2>3. QED
    BY <2>1, <2>2 DEF Engine!Joins
<1>16. h[N] = SaidBy(us, W)
  BY <1>3, <1>8, <1>13
<1> HIDE DEF h
<1>17. h[N] = g[N]
  BY <1>1, <1>9, <1>15, Engine!JoinsAgree
<1>18. QED
  BY <1>4, <1>9, <1>14, <1>16, <1>17 DEF P, W, voice

MergeSafe == Merge!TypeOK /\ (~merged => OfsDiffer /\ AllSaid) /\ Merge!WordsKeepTheirTurn

LEMMA SameFlatten == \A ss : Merge!FlattenSeq(ss) = Engine!FlattenSeq(ss)
  BY DEF Merge!FlattenSeq, Engine!FlattenSeq

\* What the properties say of utterances, in the terms of the proofs.
LEMMA VoicesSaid ==
  ASSUME NEW W, NEW us \in Seq(MergeParts(W)), NEW voice, Voices(us, voice)
  PROVE  /\ \A u \in DOMAIN us : \A w \in Merge!ToSet(us[u].words) :
              w \in W /\ voice[w] = us[u].speaker
         /\ \A u \in 2..Len(us) : us[u - 1].of = us[u].of => us[u - 1].speaker # us[u].speaker
         /\ Merge!FlattenSeq([u \in DOMAIN us |-> us[u].words]) = SaidBy(us, W)
<1>1. DOMAIN us = 1..Len(us) /\ Len(us) \in Nat
  OBVIOUS
<1>2. \A u \in 1..Len(us) : us[u].words \in Seq(W)
  <2>1. \A u \in 1..Len(us) : us[u] \in MergeParts(W)
    <3> DEFINE P == MergeParts(W)
    <3> HIDE DEF P
    <3>1. us \in Seq(P)
      BY DEF P
    <3>2. \A u \in 1..Len(us) : us[u] \in P
      BY <3>1
    <3>3. QED
      BY <3>2 DEF P
  <2>2. QED
    BY <2>1 DEF MergeParts
<1>3. \A u \in DOMAIN us : \A w \in Merge!ToSet(us[u].words) : w \in W /\ voice[w] = us[u].speaker
  <2> SUFFICES ASSUME NEW u \in DOMAIN us, NEW w \in Merge!ToSet(us[u].words)
               PROVE  w \in W /\ voice[w] = us[u].speaker
    OBVIOUS
  <2> DEFINE ws == us[u].words
  <2>1. ws \in Seq(W) /\ u \in 1..Len(us)
    BY <1>1, <1>2
  <2>2. \A i \in 1..Len(ws) : voice[ws[i]] = us[u].speaker
    BY <2>1 DEF Voices
  <2>3. w \in {ws[i] : i \in DOMAIN ws}
    BY DEF Merge!ToSet
  <2> HIDE DEF ws
  <2>4. PICK i \in 1..Len(ws) : w = ws[i]
    BY <2>1, <2>3
  <2>5. QED
    BY <2>1, <2>2, <2>4
<1>4. ASSUME NEW u \in 2..Len(us), us[u - 1].of = us[u].of
      PROVE  us[u - 1].speaker # us[u].speaker
  <2>1. u \in 1..Len(us) /\ u # 1
    BY <1>1
  <2>2. QED
    BY <1>4, <2>1 DEF Voices
<1>5. Merge!FlattenSeq([u \in DOMAIN us |-> us[u].words]) = SaidBy(us, W)
  BY <1>1, TextsType, SameFlatten DEF SaidBy
<1>6. QED
  BY <1>3, <1>4, <1>5

\* The segments that a span may be given to, as a function of the segments.
CandidatesOf(ss, a, b) ==
  LET all == Merge!ToSet(ss)
      most == Merge!Max({Merge!Overlap(s, a, b) : s \in all})
      least == Merge!Min({Merge!Distance(s, a, b) : s \in all})
  IN IF most > 0 THEN {s \in all : Merge!Overlap(s, a, b) = most}
     ELSE {s \in all : Merge!Distance(s, a, b) = least}

LEMMA MergeStep == ASSUME MergeSafe, Merge!Merge PROVE MergeSafe'
<1> DEFINE W == DOMAIN words
<1>1. /\ merged' = TRUE /\ segments' = segments /\ OfsDiffer /\ AllSaid
      /\ segments \in Seq(Merge!Segments) /\ Len(segments) <= MaxSegments
      /\ words \in Seq(MergeWord) /\ utterances \in Seq(MergeParts(W))
  BY DEF MergeSafe, Merge!Merge, Merge!TypeOK, MergeWord, MergeParts
<1>2. CASE segments = <<>>
  <2>1. UNCHANGED <<words, utterances>>
    BY <1>2 DEF Merge!Merge
  <2>2. Merge!TypeOK'
    BY <1>1, <2>1 DEF MergeSafe, Merge!TypeOK
  <2>3. Merge!WordsKeepTheirTurn'
    BY <1>1, <1>2 DEF Merge!WordsKeepTheirTurn
  <2>4. QED
    BY <1>1, <2>2, <2>3 DEF MergeSafe
<1>3. CASE segments # <<>>
  <2>1. MergeReady
    BY <1>1, <1>3 DEF MergeReady
  <2>2. /\ words' = Merge!Assigned
        /\ utterances' =
             Engine!FlattenSeq([u \in DOMAIN utterances |-> Merge!Divided(utterances[u])])
    BY <1>3, SameFlatten DEF Merge!Merge
  <2>3. /\ words' \in Seq(MergeWord) /\ DOMAIN words' = W
        /\ \A w \in W : /\ words'[w].start = words[w].start /\ words'[w].end = words[w].end
                        /\ words'[w].speaker \in
                             {s.speaker : s \in Merge!Candidates(words[w].start, words[w].end)}
                        /\ words'[w].speaker = MergeVoice[w]
    BY <2>1, <2>2, AssignedTypes DEF MergeVoice
  <2>4. /\ utterances' \in Seq(MergeParts(W)) /\ Voices(utterances', MergeVoice)
        /\ SaidBy(utterances', W) = [w \in W |-> w]
    BY <1>1, <2>1, <2>2, MergedSpeaks DEF AllSaid
  <2>5. Merge!TypeOK'
    BY <1>1, <2>3, <2>4 DEF Merge!TypeOK, MergeWord, MergeParts
  <2>6. \A a, b : Merge!Candidates(a, b) = CandidatesOf(segments, a, b)
    BY DEF Merge!Candidates, CandidatesOf
  <2>7. (\A w \in DOMAIN words : words[w].speaker \in
           {s.speaker : s \in Merge!Candidates(words[w].start, words[w].end)})'
    <3>1. (\A w \in DOMAIN words : Merge!Candidates(words[w].start, words[w].end)
             = CandidatesOf(segments, words[w].start, words[w].end))'
      BY DEF Merge!Candidates, CandidatesOf
    <3>2. \A w \in W : words'[w].speaker \in
            {s.speaker : s \in CandidatesOf(segments', words'[w].start, words'[w].end)}
      <4> TAKE w \in W
      <4>1. words'[w].start = words[w].start /\ words'[w].end = words[w].end
        BY <2>3
      <4>2. words'[w].speaker \in
              {s.speaker : s \in CandidatesOf(segments, words[w].start, words[w].end)}
        BY <2>3, <2>6
      <4>3. QED
        BY <1>1, <4>1, <4>2
    <3>3. QED
      BY <2>3, <3>1, <3>2
  <2>8. /\ \A u \in DOMAIN utterances' : \A w \in Merge!ToSet(utterances'[u].words) :
             w \in W /\ MergeVoice[w] = utterances'[u].speaker
        /\ \A u \in 2..Len(utterances') :
             utterances'[u - 1].of = utterances'[u].of =>
               utterances'[u - 1].speaker # utterances'[u].speaker
        /\ Merge!FlattenSeq([u \in DOMAIN utterances' |-> utterances'[u].words])
             = SaidBy(utterances', W)
    BY <2>4, VoicesSaid, Zenon
  <2>9. \A u \in DOMAIN utterances' : \A w \in Merge!ToSet(utterances'[u].words) :
          words'[w].speaker = utterances'[u].speaker
    BY <2>3, <2>8
  <2>10. Merge!FlattenSeq([u \in DOMAIN utterances' |-> utterances'[u].words]) = [w \in W |-> w]
    BY <2>4, <2>8
  <2>11. Merge!WordsKeepTheirTurn'
    BY <2>3, <2>7, <2>8, <2>9, <2>10 DEF Merge!WordsKeepTheirTurn
  <2>12. QED
    BY <1>1, <2>5, <2>11 DEF MergeSafe
<1>4. QED
  BY <1>2, <1>3

LEMMA SpansType ==
  ASSUME NEW spans \in Seq([start : Nat, end : Nat])
  PROVE  \A w \in DOMAIN spans : spans[w].start \in Nat /\ spans[w].end \in Nat
<1> DEFINE S == [start : Nat, end : Nat]
<1>1. \A x \in S : x.start \in Nat /\ x.end \in Nat
  OBVIOUS
<1>2. spans \in Seq(S)
  OBVIOUS
<1> HIDE DEF S
<1>3. \A w \in DOMAIN spans : spans[w] \in S
  BY <1>2
<1>4. QED
  BY <1>1, <1>3

LEMMA UtteranceType ==
  ASSUME NEW spans \in Seq([start : Nat, end : Nat]), NEW of \in Nat,
         NEW ws \in Seq(DOMAIN spans)
  PROVE  /\ Merge!Utterance(of, ws, spans) \in MergeParts(DOMAIN spans)
         /\ Merge!Utterance(of, ws, spans).of = of
         /\ Merge!Utterance(of, ws, spans).words = ws
<1>1. Horizon \in Nat
  BY ConstantsAssumption
<1>2. \A w \in DOMAIN spans : spans[w].start \in Nat /\ spans[w].end \in Nat
  BY SpansType
<1> DEFINE W == DOMAIN spans
<1>3. ws # <<>> => Head(ws) \in W /\ Merge!Last(ws) \in W
  <2>1. ws \in Seq(W)
    OBVIOUS
  <2> HIDE DEF W
  <2>2. QED
    BY <2>1 DEF Merge!Last
<1>4. QED
  BY <1>1, <1>2, <1>3 DEF Merge!Utterance, MergeParts

LEMMA CutJoins ==
  ASSUME NEW S, NEW s \in Seq(S), NEW cut \in 0..Len(s)
  PROVE  /\ SubSeq(s, 1, cut) \in Seq(S) /\ SubSeq(s, cut + 1, Len(s)) \in Seq(S)
         /\ SubSeq(s, 1, cut) \o SubSeq(s, cut + 1, Len(s)) = s
<1> DEFINE a == SubSeq(s, 1, cut)
           b == SubSeq(s, cut + 1, Len(s))
<1>1. /\ a \in Seq(S) /\ Len(a) = cut /\ \A i \in 1..cut : a[i] = s[i]
      /\ b \in Seq(S) /\ Len(b) = Len(s) - cut
      /\ \A i \in 1..(Len(s) - cut) : b[i] = s[cut + i]
  OBVIOUS
<1> HIDE DEF a, b
<1> DEFINE c == a \o b
<1>2. /\ c \in Seq(S) /\ Len(c) = Len(s) /\ Len(s) \in Nat
      /\ \A i \in 1..cut : c[i] = a[i]
      /\ \A i \in (cut + 1)..Len(s) : c[i] = b[i - cut] /\ i - cut \in 1..(Len(s) - cut)
                                       /\ cut + (i - cut) = i
  BY <1>1
<1> HIDE DEF c
<1>3. \A i \in 1..Len(s) : c[i] = s[i]
  <2> TAKE i \in 1..Len(s)
  <2>1. i \in 1..cut \/ i \in (cut + 1)..Len(s)
    OBVIOUS
  <2>2. QED
    BY <1>1, <1>2, <2>1
<1>4. c = s
  BY <1>2, <1>3, Engine!EqualSeqs
<1>5. QED
  BY <1>1, <1>4 DEF a, b, c

LEMMA MergeInit == ASSUME Merge!Init \/ MergeRests PROVE MergeSafe
<1>1. Horizon \in Nat /\ MaxSegments \in Nat
  BY ConstantsAssumption
<1>2. CASE MergeRests
  <2>1. Merge!TypeOK
    <3>1. \A S : <<>> \in Seq(S)
      OBVIOUS
    <3>2. Len(segments) <= MaxSegments
      BY <1>1, <1>2 DEF MergeRests
    <3>3. QED
      BY <1>2, <3>1, <3>2 DEF MergeRests, Merge!TypeOK
  <2>2. OfsDiffer
    BY <1>2 DEF MergeRests, OfsDiffer
  <2>3. SaidBy(<<>>, {}) = <<>>
    BY SaidNone
  <2>4. AllSaid
    <3>1. DOMAIN words = {} /\ utterances = <<>>
      BY <1>2 DEF MergeRests
    <3>2. [w \in DOMAIN words |-> w] = <<>>
      BY <3>1
    <3>3. QED
      BY <2>3, <3>1, <3>2 DEF AllSaid
  <2>5. QED
    BY <1>2, <2>1, <2>2, <2>4 DEF MergeRests, MergeSafe, Merge!WordsKeepTheirTurn
<1>3. CASE Merge!Init
  <2>1. segments \in Seq(Merge!Segments) /\ Len(segments) <= MaxSegments /\ merged = FALSE
    <3>1. PICK m \in 0..MaxSegments : segments \in [1..m -> Merge!Segments]
      BY <1>3 DEF Merge!Init, Merge!SeqOf
    <3>2. m \in Nat /\ m <= MaxSegments
      BY <1>1
    <3> DEFINE S == Merge!Segments
    <3> HIDE DEF S
    <3>3. segments \in [1..m -> S]
      BY <3>1 DEF S
    <3>4. segments \in Seq(S) /\ Len(segments) = m
      BY <3>2, <3>3
    <3>5. QED
      BY <1>3, <3>2, <3>4 DEF Merge!Init, S
  <2>2. PICK spans \in Spoken :
         /\ words = [w \in DOMAIN spans |-> [speaker |-> NoSpeaker, start |-> spans[w].start,
                                             end |-> spans[w].end]]
         /\ \E cut \in 1..Len(spans) :
              LET ids == [w \in DOMAIN spans |-> w]
              IN utterances = <<Merge!Utterance(1, SubSeq(ids, 1, cut), spans),
                                Merge!Utterance(2, SubSeq(ids, cut + 1, Len(spans)), spans)>>
    BY <1>3 DEF Merge!Init
  <2> DEFINE W == DOMAIN spans
             ids == [w \in W |-> w]
  <2>3. PICK cut \in 1..Len(spans) :
          utterances = <<Merge!Utterance(1, SubSeq(ids, 1, cut), spans),
                         Merge!Utterance(2, SubSeq(ids, cut + 1, Len(spans)), spans)>>
    BY <2>2
  <2>4. spans \in Seq([start : Nat, end : Nat])
    BY ConstantsAssumption
  <2>5. W = 1..Len(spans) /\ Len(spans) \in Nat /\ cut \in 0..Len(spans)
    BY <2>4
  <2>6. ids \in Seq(W) /\ Len(ids) = Len(spans)
    BY <2>5
  <2>7. \A w \in W : spans[w].start \in Nat /\ spans[w].end \in Nat
    BY <2>4, SpansType
  <2>8. words \in Seq(MergeWord) /\ DOMAIN words = W
    BY <2>2, <2>5, <2>7 DEF MergeWord
  <2> DEFINE a == SubSeq(ids, 1, cut)
             b == SubSeq(ids, cut + 1, Len(spans))
             u == Merge!Utterance(1, a, spans)
             v == Merge!Utterance(2, b, spans)
  <2> HIDE DEF ids, W
  <2>9. a \in Seq(W) /\ b \in Seq(W) /\ a \o b = ids
    BY <2>5, <2>6, CutJoins
  <2>10. /\ u \in MergeParts(W) /\ v \in MergeParts(W) /\ u.of = 1 /\ v.of = 2
         /\ u.words = a /\ v.words = b
    <3>1. a \in Seq(DOMAIN spans) /\ b \in Seq(DOMAIN spans) /\ 1 \in Nat /\ 2 \in Nat
      BY <2>9 DEF W
    <3> HIDE DEF a, b
    <3>2. /\ u \in MergeParts(DOMAIN spans) /\ u.of = 1 /\ u.words = a
          /\ v \in MergeParts(DOMAIN spans) /\ v.of = 2 /\ v.words = b
      BY <2>4, <3>1, UtteranceType
    <3>3. QED
      BY <3>2 DEF W
  <2>11. utterances = <<u, v>>
    BY <2>3
  <2> HIDE DEF u, v, a, b
  <2>12. SaidBy(utterances, W) = ids
    <3>1. utterances = Append(Append(<<>>, u), v)
      BY <2>11
    <3> DEFINE P == MergeParts(W)
    <3>2. u \in P /\ v \in P /\ <<>> \in Seq(P) /\ Append(<<>>, u) \in Seq(P)
      <4> HIDE DEF P
      <4>1. u \in P /\ v \in P
        BY <2>10 DEF P
      <4>2. QED
        BY <4>1
    <3>3. SaidBy(Append(<<>>, u), W) = SaidBy(<<>>, W) \o a
      BY <2>10, <3>2, SaidAppend
    <3>4. SaidBy(Append(Append(<<>>, u), v), W) = SaidBy(Append(<<>>, u), W) \o b
      BY <2>10, <3>2, SaidAppend
    <3>5. <<>> \o a = a
      BY <2>9
    <3>6. SaidBy(utterances, W) = (<<>> \o a) \o b
      BY <3>1, <3>3, <3>4, SaidNone, Zenon
    <3>7. QED
      BY <2>9, <3>5, <3>6, Zenon
  <2>13. utterances \in Seq(MergeParts(W)) /\ OfsDiffer
    <3> DEFINE P == MergeParts(W)
    <3>1. u \in P /\ v \in P
      BY <2>10
    <3> HIDE DEF P
    <3>2. utterances \in Seq(P) /\ Len(utterances) = 2 /\ utterances[1] = u /\ utterances[2] = v
      BY <2>11, <3>1
    <3>3. OfsDiffer
      BY <2>10, <3>2 DEF OfsDiffer
    <3>4. QED
      BY <3>2, <3>3 DEF P
  <2>14. AllSaid
    BY <2>8, <2>12 DEF AllSaid, ids
  <2>15. Merge!TypeOK
    BY <2>1, <2>8, <2>13 DEF Merge!TypeOK, MergeWord, MergeParts
  <2>16. QED
    BY <2>1, <2>13, <2>14, <2>15 DEF MergeSafe, Merge!WordsKeepTheirTurn
<1>4. QED
  BY <1>2, <1>3

LEMMA MergeIsSafe == Spec => []MergeSafe
<1>1. Init => Merge!Init \/ MergeRests
  BY DEF Init
<1>2. [Next]_vars => Merge!Next \/ UNCHANGED Merge!vars
  <2>1. CASE UNCHANGED vars
    BY <2>1 DEF vars, mergeVars, Merge!vars
  <2>2. CASE Next /\ Is("merge")
    BY <2>2 DEF Next, Is
  <2>3. CASE Next /\ ~Is("merge")
    BY <2>3 DEF Next, Others, mergeVars, Merge!vars
  <2>4. QED
    BY <2>1, <2>2, <2>3
<1>3. Init => MergeSafe
  BY <1>1, MergeInit
<1>4. MergeSafe /\ [Next]_vars => MergeSafe'
  <2>1. CASE Merge!Next
    BY <2>1, MergeStep DEF Merge!Next
  <2>2. MergeSafe /\ UNCHANGED Merge!vars => MergeSafe'
    <3> SUFFICES ASSUME MergeSafe, UNCHANGED Merge!vars PROVE MergeSafe'
      OBVIOUS
    <3>1. /\ segments' = segments /\ words' = words /\ utterances' = utterances
          /\ merged' = merged
      BY DEF Merge!vars
    <3>2. Merge!TypeOK' /\ (~merged' => OfsDiffer' /\ AllSaid')
      BY <3>1 DEF MergeSafe, Merge!TypeOK, OfsDiffer, AllSaid
    <3>3. Merge!WordsKeepTheirTurn'
      <4> DEFINE Given(ss, ws) == \A w \in DOMAIN ws :
                   ws[w].speaker \in {s.speaker : s \in CandidatesOf(ss, ws[w].start, ws[w].end)}
                 Turns(ws, us) ==
                   /\ \A u \in DOMAIN us : \A w \in Merge!ToSet(us[u].words) :
                        ws[w].speaker = us[u].speaker
                   /\ \A u \in 2..Len(us) :
                        us[u - 1].of = us[u].of => us[u - 1].speaker # us[u].speaker
                   /\ Merge!FlattenSeq([u \in DOMAIN us |-> us[u].words])
                        = [w \in DOMAIN ws |-> w]
      <4>1. Merge!WordsKeepTheirTurn <=>
              (merged /\ segments # <<>> => Given(segments, words) /\ Turns(words, utterances))
        BY DEF Merge!WordsKeepTheirTurn, Merge!Candidates, CandidatesOf
      <4>2. Merge!WordsKeepTheirTurn' <=>
              (merged' /\ segments' # <<>> =>
                 Given(segments', words') /\ Turns(words', utterances'))
        BY DEF Merge!WordsKeepTheirTurn, Merge!Candidates, CandidatesOf
      <4> HIDE DEF Given, Turns
      <4>3. QED
        BY <3>1, <4>1, <4>2 DEF MergeSafe
    <3>4. QED
      BY <3>2, <3>3 DEF MergeSafe
  <2>3. QED
    BY <1>2, <2>1, <2>2
<1>5. QED
  BY <1>3, <1>4, PTL DEF Spec

\* mergeDiarization(), merge.ts:14, and mediaFileResponse(), MediaFileServer.ts:40: for
\* every diarization and every transcript each word has the speaker that overlaps it most,
\* or else the nearest, an utterance ends exactly where the speaker changes and no word is
\* lost, repeated or moved; and the bytes served are those that the header names.
THEOREM MergeAndRangesAreExact == Spec => []AlgorithmsAreExact
<1>1. MergeSafe => Merge!WordsKeepTheirTurn
  BY DEF MergeSafe
<1>2. QED
  BY <1>1, MergeIsSafe, RangesAreServed, PTL DEF AlgorithmsAreExact

----------------------------------------------------------------------------
(* The types of the application around its services.                       *)

ShellOperations == [Ops -> {"none", "user", "install", "work"}]
ShellRequests == [calls : 0..MaxRequests, quits : 0..MaxQuits]

LEMMA ShellUpdates ==
  ASSUME MaxRequests \in Nat, MaxQuits \in Nat
  PROVE  /\ \A f \in ShellOperations, o \in Ops : \A kind \in {"none", "user", "install", "work"} :
              [f EXCEPT ![o] = kind] \in ShellOperations
         /\ \A f \in ShellOperations :
              [o \in Ops |-> IF f[o] = "install" THEN "work" ELSE f[o]] \in ShellOperations
         /\ \A r \in ShellRequests :
              /\ r.calls < MaxRequests => [r EXCEPT !.calls = r.calls + 1] \in ShellRequests
              /\ r.quits < MaxQuits => [r EXCEPT !.quits = r.quits + 1] \in ShellRequests
<1>1. /\ \A f \in ShellOperations, o \in Ops : \A kind \in {"none", "user", "install", "work"} :
           [f EXCEPT ![o] = kind] \in ShellOperations
      /\ \A f \in ShellOperations :
           [o \in Ops |-> IF f[o] = "install" THEN "work" ELSE f[o]] \in ShellOperations
  BY DEF ShellOperations
<1>2. \A r \in ShellRequests :
        /\ r.calls < MaxRequests => [r EXCEPT !.calls = r.calls + 1] \in ShellRequests
        /\ r.quits < MaxQuits => [r EXCEPT !.quits = r.quits + 1] \in ShellRequests
  BY DEF ShellRequests
<1>3. QED
  BY <1>1, <1>2

\* What TypeOK says, in two parts: one of them is of Booleans.
ShellFlags == blocked \in BOOLEAN /\ processing \in BOOLEAN /\ early \in BOOLEAN
ShellValues ==
  /\ startup \in {"initializing", "loading", "up", "failed"}
  /\ operations \in ShellOperations
  /\ quit \in Shell!Steps \cup {"no", "done"}
  /\ recorded \in {"none", "active", "left"}
  /\ containers \subseteq Shell!Managed /\ refused \subseteq Shell!Managed
  /\ down \subseteq Shell!Managed \cup {"queue", "database"}
  /\ requests \in ShellRequests

LEMMA ShellParts == Shell!TypeOK <=> ShellFlags /\ ShellValues
  BY DEF Shell!TypeOK, ShellFlags, ShellValues, ShellOperations, ShellRequests

LEMMA ShellKeepsFlags == ASSUME ShellFlags, [Shell!Next]_(Shell!vars) PROVE ShellFlags'
<1> USE DEF ShellFlags
<1>1. CASE Shell!Initialized \/ Shell!Loaded \/ Shell!StartupFails
  BY <1>1 DEF Shell!Initialized, Shell!Loaded, Shell!StartupFails
<1>2. CASE \E o \in Ops, kind \in {"work", "install", "user"} : Shell!Invoke(o, kind)
  BY <1>2 DEF Shell!Invoke
<1>3. CASE Shell!OperationEnds
  BY <1>3 DEF Shell!OperationEnds, Shell!DialogCloses, Shell!Ends
<1>4. CASE Shell!JobBegins \/ Shell!JobEnds \/ \E c \in Shell!Managed : Shell!JobLeases(c)
  BY <1>4 DEF Shell!JobBegins, Shell!JobEnds, Shell!JobLeases
<1>5. CASE Shell!QuitRequested
  BY <1>5 DEF Shell!QuitRequested, Shell!Registered
<1>6. CASE Shell!QuitStep
  BY <1>6 DEF Shell!QuitStep, Shell!Drained, Shell!NothingToStop, Shell!UserCancels,
     Shell!UserLeavesIt, Shell!UserStops, Shell!Stopped, Shell!StopFails, Shell!GivesUp,
     Shell!Restored, Shell!ShutsQueue, Shell!QueueIsDown, Shell!ShutsWhisper,
     Shell!ShutsDiarization, Shell!ShutsContainer
<1>7. CASE UNCHANGED Shell!vars
  BY <1>7 DEF Shell!vars
<1>8. QED
  BY <1>1, <1>2, <1>3, <1>4, <1>5, <1>6, <1>7 DEF Shell!Next

LEMMA ShellKeepsValues ==
  ASSUME MaxRequests \in Nat, MaxQuits \in Nat, ShellValues, [Shell!Next]_(Shell!vars)
  PROVE  ShellValues'
<1> USE DEF ShellValues
<1>1. CASE Shell!Initialized \/ Shell!Loaded \/ Shell!StartupFails
  BY <1>1 DEF Shell!Initialized, Shell!Loaded, Shell!StartupFails
<1>2. CASE \E o \in Ops, kind \in {"work", "install", "user"} : Shell!Invoke(o, kind)
  <2>1. PICK o \in Ops, kind \in {"work", "install", "user"} : Shell!Invoke(o, kind)
    BY <1>2
  <2>2. /\ operations' = [operations EXCEPT ![o] = kind]
        /\ requests.calls < MaxRequests
        /\ requests' = [requests EXCEPT !.calls = requests.calls + 1]
        /\ UNCHANGED <<startup, quit, recorded, containers, down, refused>>
    BY <2>1 DEF Shell!Invoke
  <2>3. QED
    BY <2>2, ShellUpdates
<1>3. CASE Shell!OperationEnds
  <2>1. PICK o \in Ops : Shell!DialogCloses(o) \/ Shell!Ends(o)
    BY <1>3 DEF Shell!OperationEnds
  <2>2. \/ operations' = [operations EXCEPT ![o] = "none"]
        \/ operations' = [operations EXCEPT ![o] = "work"]
    BY <2>1 DEF Shell!DialogCloses, Shell!Ends
  <2>3. operations' \in ShellOperations
    BY <2>2, ShellUpdates
  <2>4. recorded' \in {"none", "active", "left"} /\ containers' \subseteq Shell!Managed
        /\ UNCHANGED <<startup, quit, down, requests, refused>>
    BY <2>1 DEF Shell!DialogCloses, Shell!Ends
  <2>5. QED
    BY <2>3, <2>4
<1>4. CASE Shell!JobBegins \/ Shell!JobEnds \/ \E c \in Shell!Managed : Shell!JobLeases(c)
  BY <1>4 DEF Shell!JobBegins, Shell!JobEnds, Shell!JobLeases
<1>5. CASE Shell!QuitRequested
  <2>1. /\ operations' =
             [o \in Ops |-> IF operations[o] = "install" THEN "work" ELSE operations[o]]
        /\ requests.quits < MaxQuits
        /\ requests' = [requests EXCEPT !.quits = requests.quits + 1]
        /\ quit' \in {"drain", "ask"}
        /\ UNCHANGED <<startup, recorded, containers, down, refused>>
    BY <1>5 DEF Shell!QuitRequested
  <2>2. QED
    BY <2>1, ShellUpdates DEF Shell!Steps
<1>6. CASE Shell!QuitStep
  <2> USE DEF Shell!Steps, Shell!Managed
  <2>1. CASE Shell!Drained \/ Shell!NothingToStop
    BY <2>1 DEF Shell!Drained, Shell!NothingToStop
  <2>2. CASE Shell!UserCancels \/ Shell!UserLeavesIt \/ Shell!UserStops
    BY <2>2 DEF Shell!UserCancels, Shell!UserLeavesIt, Shell!UserStops, Shell!GivesUp
  <2>3. CASE Shell!Stopped \/ Shell!StopFails \/ Shell!Restored
    BY <2>3 DEF Shell!Stopped, Shell!StopFails, Shell!GivesUp, Shell!Restored
  <2>4. CASE Shell!ShutsQueue \/ Shell!QueueIsDown
    BY <2>4 DEF Shell!ShutsQueue, Shell!QueueIsDown
  <2>5. CASE Shell!ShutsWhisper \/ Shell!ShutsDiarization
    BY <2>5 DEF Shell!ShutsWhisper, Shell!ShutsDiarization, Shell!ShutsContainer
  <2>6. QED
    BY <1>6, <2>1, <2>2, <2>3, <2>4, <2>5 DEF Shell!QuitStep
<1>7. CASE UNCHANGED Shell!vars
  BY <1>7 DEF Shell!vars
<1>8. QED
  BY <1>1, <1>2, <1>3, <1>4, <1>5, <1>6, <1>7 DEF Shell!Next

LEMMA ShellTypes == Spec => []Shell!TypeOK
<1>1. Shell!Init => ShellFlags
  BY DEF Shell!Init, ShellFlags
<1>2. Shell!Init => ShellValues
  <2>1. MaxRequests \in Nat /\ MaxQuits \in Nat
    BY ConstantsAssumption
  <2>2. QED
    BY <2>1 DEF Shell!Init, ShellValues, ShellOperations, ShellRequests
<1>3. ShellFlags /\ ShellValues /\ [Shell!Next]_(Shell!vars) => ShellFlags' /\ ShellValues'
  BY ShellKeepsFlags, ShellKeepsValues, ConstantsAssumption
<1>4. QED
  BY <1>1, <1>2, <1>3, ShellRuns, ShellParts, PTL

----------------------------------------------------------------------------
(* The types of the media protocol.                                        *)

LEMMA RespondTypes ==
  ASSUME MaxSize \in Nat, Media!TypeOK, Media!Respond
  PROVE  Media!TypeOK'
<1>1. /\ UNCHANGED <<size, range>> /\ size \in 0..MaxSize
      /\ range \in [start : Media!Numbers, end : Media!Numbers]
  BY DEF Media!Respond, Media!TypeOK
<1>2. RangeNumbered
  BY <1>1 DEF RangeNumbered, Media!Numbers
<1> DEFINE Answers == [status : {0, 200, 206, 416}, first : 0..MaxSize, last : -1..MaxSize]
<1>3. answer' \in Answers
  <2>1. CASE Media!Foreign
    <3>1. answer' = [status |-> 200, first |-> 0, last |-> size - 1]
      BY <2>1 DEF Media!Respond
    <3>2. QED
      BY <1>1, <3>1
  <2>2. CASE ~Media!Foreign /\ Media!Unsatisfiable
    <3>1. answer' = [status |-> 416, first |-> 0, last |-> -1]
      BY <2>2 DEF Media!Respond, Media!NoBytes
    <3>2. QED
      BY <3>1
  <2>3. CASE ~Media!Foreign /\ ~Media!Unsatisfiable
    <3>1. answer' = [status |-> 206, first |-> Media!First, last |-> Media!Last]
      BY <2>3 DEF Media!Respond
    <3>2. Media!First <= Media!Last
      BY <1>2, <2>3, SatisfiableIsServed
    <3>3. Media!First \in Nat /\ Media!Last \in Int /\ Media!Last <= size - 1
      BY <1>1, <1>2 DEF RangeNumbered, Media!First, Media!Last, Media!Larger, Media!Smaller,
         Media!Blank
    <3>4. Media!First \in 0..MaxSize /\ Media!Last \in -1..MaxSize
      BY <1>1, <3>2, <3>3
    <3>5. QED
      BY <3>1, <3>4
  <2>4. QED
    BY <2>1, <2>2, <2>3
<1>4. QED
  BY <1>1, <1>3 DEF Media!TypeOK

LEMMA MediaTypes == Spec => []Media!TypeOK
<1>1. MaxSize \in Nat
  BY ConstantsAssumption
<1>2. Media!Init => Media!TypeOK
  BY <1>1 DEF Media!Init, Media!TypeOK, Media!NoBytes
<1>3. Media!TypeOK /\ [Media!Next]_(Media!vars) => Media!TypeOK'
  <2>1. CASE Media!Respond
    BY <1>1, <2>1, RespondTypes
  <2>2. CASE UNCHANGED Media!vars
    BY <2>2 DEF Media!vars, Media!TypeOK
  <2>3. QED
    BY <2>1, <2>2 DEF Media!Next
<1>4. QED
  BY <1>2, <1>3, MediaRuns, PTL DEF Media!Spec

----------------------------------------------------------------------------

\* Every component keeps its variables in their types, whatever the bounds: no generation of an
\* attempt and no count of calls goes beyond what the requests of the user account for (the
\* revisions and counts of the editors are only natural numbers here), and no document, file,
\* lease, form or answer takes a shape that is not expected.
THEOREM TypesHold == Spec => []TypeOK
<1>1. Spec => []Diarization!TypeOK
  <2>1. Diarization!Safe => Diarization!TypeOK
    BY DEF Diarization!Safe
  <2>2. QED
    BY <2>1, DiarizationIsSafe, PTL
<1>2. Spec => []Download!TypeOK
  <2>1. DownloadSafe => Download!TypeOK
    BY DownloadIsTyped
  <2>2. QED
    BY <2>1, DownloadIsSafe, PTL
<1>3. Spec => []Obs!TypeOK
  <2>1. MaxUser \in Nat /\ MaxOps \in Nat
    BY ConstantsAssumption
  <2>2. Obs!Spec => []Obs!TypeOK
    BY <2>1, ObsAssumed, Obs!TypesHold
  <2>3. QED
    BY <2>2, ObsRuns, PTL
<1>4. Spec => []Connection!TypeOK
  <2>1. ConnectionSafe => Connection!TypeOK
    BY ConnectionIsEnough
  <2>2. QED
    BY <2>1, ConnectionIsSafe, PTL
<1>5. Spec => []Engine!TypeOK
  <2>1. Engine!EngineConstants
    BY ConstantsAssumption
  <2>2. Engine!Spec => []Engine!TypeOK
    BY <2>1, Engine!EngineTypesHold
  <2>3. QED
    BY <2>2, EngineRuns, PTL
<1>6. Spec => []((Is("settings") => Settings!TypeOK) /\ (Is("credentials") => Credentials!TypeOK))
  <2>1. SettingsSafe => /\ Is("settings") => Settings!TypeOK
                        /\ Is("credentials") => Credentials!TypeOK
    BY DEF SettingsSafe, Settings!Safe, Credentials!Safe
  <2>2. QED
    BY <2>1, SettingsInit, SettingsNext, PTL DEF Spec
<1>7. Spec => []Merge!TypeOK
  <2>1. MergeSafe => Merge!TypeOK
    BY DEF MergeSafe
  <2>2. QED
    BY <2>1, MergeIsSafe, PTL
<1>8. ASSUME Diarization!TypeOK, Download!TypeOK, Obs!TypeOK, Connection!TypeOK,
             Editors!TypeOK, Engine!TypeOK, Shell!TypeOK, Media!TypeOK, Merge!TypeOK,
             Is("settings") => Settings!TypeOK, Is("credentials") => Credentials!TypeOK
      PROVE  TypeOK
  <2>1. /\ Is("diarization") => Diarization!TypeOK
        /\ Is("download") => Download!TypeOK
        /\ Is("obs") => Obs!TypeOK
        /\ Is("connection") => Connection!TypeOK
        /\ Is("editors") => Editors!TypeOK
        /\ Is("engine") => Engine!TypeOK
    BY <1>8
  <2>2. /\ Is("shell") => Shell!TypeOK
        /\ Is("settings") => Settings!TypeOK
        /\ Is("credentials") => Credentials!TypeOK
        /\ Is("media") => Media!TypeOK
        /\ Is("merge") => Merge!TypeOK
    BY <1>8
  <2>3. QED
    BY <2>1, <2>2 DEF TypeOK
<1>9. QED
  BY <1>1, <1>2, <1>3, <1>4, <1>5, <1>6, <1>7, <1>8, NotesTypes, ShellTypes, MediaTypes, PTL
=============================================================================
