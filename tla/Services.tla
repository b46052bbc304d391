------------------------------ MODULE Services ------------------------------
(***************************************************************************)
(* The components that share no state with one another, each checked on    *)
(* its own instance in one run: `part` says which of them a behaviour is   *)
(* about, the others rest in an initial state in which nothing of theirs   *)
(* is due, so that their states are added and not multiplied.              *)
(***************************************************************************)
EXTENDS Integers, Sequences, FiniteSets

CONSTANTS
  Parts,                          \* the components that behaviours are about
  Jobs, NoJob, MaxRounds,         \* calls of diarize(); bound: what they and the user begin
  MaxFaults,                      \* bound: what fails, in a component
  AssetSize, MaxDownloads,        \* blocks of an asset; bound: attempts to download it
  Own, NoName, MaxUser, MaxOps,   \* the user's profiles and scene collections; bounds
  MaxConnects,                    \* bound: connects and disconnects
  Uses,                           \* bound: how often the editors are used
  Lines, Budget, Tags, Floor, Titles, MaxChapters, \* transcripts, chunks and answers
  Ops, MaxRequests, MaxQuits,     \* calls of the renderer in progress; bounds
  Scopes, Keyless,                \* kinds and endpoints of providers
  SecretNames, ApiKey,            \* names of credentials
  MaxTyped, MaxCalls, FewTyped, FewCalls, \* bounds: with one credential, with several
  MaxSize,                        \* bound: sizes of a recording
  Speakers, NoSpeaker, Spoken, Horizon, MaxSegments \* words and segments to merge

VARIABLES
  part,
  container, assets, endpoint, status, job, activeJobs, idleTimer, install, start,
  userStart, stop, refresh, shutdown, rounds, faults,
  final, partial, attempt, attempts, wasted,
  current, recording, lease, connected, op, resources, discovered, configured, audio,
  wanted, raced, overwritten, users, ops,
  generation, connects, active, link, dialog, dialogCalls,
  transcript, summary, summaryJob, waiting, calls, inbox, selected, details, tab, saved,
  blind, edits, jobs, opens,
  mode, phase, said, inputs, drafts, next, workers, chapters, aborted, accepted,
  startup, operations, blocked, quit, recorded, processing, containers, down, refused,
  early, requests,
  row, disk, store, call, form, entered, torn, astray, settingsCalls,
  size, range, answer,
  segments, words, utterances, merged

diarizationVars == <<container, assets, endpoint, status, job, activeJobs, idleTimer,
  install, start, userStart, stop, refresh, shutdown, rounds, faults>>
downloadVars == <<final, partial, attempt, attempts, wasted>>
obsVars == <<current, recording, lease, connected, op, resources, discovered,
  configured, audio, wanted, raced, overwritten, users, ops>>
connectionVars == <<generation, connects, active, link, dialog, dialogCalls>>
editorsVars == <<transcript, summary, summaryJob, waiting, calls, inbox, selected,
  details, tab, saved, blind, edits, jobs, opens>>
engineVars == <<mode, phase, said, inputs, drafts, next, workers, chapters, aborted,
  accepted>>
shellVars == <<startup, operations, blocked, quit, recorded, processing, containers,
  down, refused, early, requests>>
settingsVars == <<row, disk, store, call, form, entered, torn, astray, settingsCalls>>
mediaVars == <<size, range, answer>>
mergeVars == <<segments, words, utterances, merged>>

\* Some components are instantiated with what is proved of them.
Diarization == INSTANCE ManagedDiarizationProofs
Download == INSTANCE ModelDownload WITH Size <- AssetSize, MaxAttempts <- MaxDownloads
Obs == INSTANCE ObsResourcesProofs
Connection == INSTANCE ObsConnection WITH
  MaxAttempts <- MaxConnects, attempts <- connects, made <- dialogCalls
Editors == INSTANCE Notes WITH job <- summaryJob
Engine == INSTANCE SummaryEngineProofs
Shell == INSTANCE AppShell WITH
  MaxCalls <- MaxRequests,
  ops <- operations, recording <- recorded, job <- processing, made <- requests
Settings == INSTANCE ProviderSettingsProofs WITH    \* one credential
  Names <- {ApiKey}, made <- settingsCalls
Credentials == INSTANCE ProviderSettingsProofs WITH \* several, of one scope after the other
  Scopes <- Scopes \ Keyless, Keyless <- {}, Names <- SecretNames,
  MaxTyped <- FewTyped, MaxCalls <- FewCalls, made <- settingsCalls
Media == INSTANCE MediaRange
Merge == INSTANCE DiarizationMerge

\* The user's names are not the managed ones; the editor's field for the key is a name.
ASSUME ConstantsAssumption ==
  /\ Diarization!DiarizationConstants
  /\ {MaxRounds, MaxFaults, AssetSize, MaxDownloads, MaxUser, MaxOps, MaxConnects,
      Budget, Tags, Floor, MaxChapters, MaxRequests, MaxQuits,
      MaxTyped, MaxCalls, FewTyped, FewCalls, MaxSize, Horizon, MaxSegments} \subseteq Nat
  /\ AssetSize > 0 /\ Uses \subseteq [edits : Nat, jobs : Nat, opens : Nat]
  /\ Obs!ObsConstants /\ Engine!EngineConstants
  /\ Settings!SettingsConstants /\ Credentials!SettingsConstants
  /\ NoSpeaker \notin Speakers /\ Spoken \subseteq Seq([start : Nat, end : Nat])

----------------------------------------------------------------------------
(* A component at rest.                                                    *)

DiarizationRests == Diarization!Init /\ container = "absent" /\ assets = {}
DownloadRests == Download!Init /\ final = "none" /\ partial = Download!NoPart
ObsRests == Obs!Init /\ current = [k \in Obs!Kinds |-> Obs!Managed]
EngineRests == Engine!Init /\ mode = "meeting"
ShellRests == Shell!Init /\ containers = {}
SettingsRest == Credentials!Init /\ ~store.persistent /\ form.names = {}
MediaRests == size = 0 /\ range = [start |-> 0, end |-> 0] /\ answer = Media!NoBytes(0)
MergeRests == segments = <<>> /\ words = <<>> /\ utterances = <<>> /\ merged = FALSE

Is(name) == part = name

Init ==
  /\ part \in Parts
  /\ IF Is("diarization") THEN Diarization!Init ELSE DiarizationRests
  /\ IF Is("download") THEN Download!Init ELSE DownloadRests
  /\ IF Is("obs") THEN Obs!Init ELSE ObsRests
  /\ Connection!Init
  /\ Editors!Init
  /\ IF Is("engine") THEN Engine!Init ELSE EngineRests
  /\ IF Is("shell") THEN Shell!Init ELSE ShellRests
  /\ IF Is("settings") THEN Settings!Init
     ELSE IF Is("credentials") THEN Credentials!Init ELSE SettingsRest
  /\ IF Is("media") THEN Media!Init ELSE MediaRests
  /\ IF Is("merge") THEN Merge!Init ELSE MergeRests

----------------------------------------------------------------------------

Others ==
  /\ UNCHANGED part
  /\ IF Is("diarization") THEN TRUE ELSE UNCHANGED diarizationVars
  /\ IF Is("download") THEN TRUE ELSE UNCHANGED downloadVars
  /\ IF Is("obs") THEN TRUE ELSE UNCHANGED obsVars
  /\ IF Is("connection") THEN TRUE ELSE UNCHANGED connectionVars
  /\ IF Is("editors") THEN TRUE ELSE UNCHANGED editorsVars
  /\ IF Is("engine") THEN TRUE ELSE UNCHANGED engineVars
  /\ IF Is("shell") THEN TRUE ELSE UNCHANGED shellVars
  /\ IF Is("settings") \/ Is("credentials") THEN TRUE ELSE UNCHANGED settingsVars
  /\ IF Is("media") THEN TRUE ELSE UNCHANGED mediaVars
  /\ IF Is("merge") THEN TRUE ELSE UNCHANGED mergeVars

Next ==
  /\ \/ Is("diarization") /\ Diarization!Next
     \/ Is("download") /\ Download!Next
     \/ Is("obs") /\ Obs!Next
     \/ Is("connection") /\ Connection!Next
     \/ Is("editors") /\ Editors!Next
     \/ Is("engine") /\ Engine!Next
     \/ Is("shell") /\ Shell!Next
     \/ Is("settings") /\ Settings!Next
     \/ Is("credentials") /\ Credentials!Next
     \/ Is("media") /\ Media!Next
     \/ Is("merge") /\ Merge!Next
  /\ Others

vars == <<part, diarizationVars, downloadVars, obsVars, connectionVars, editorsVars,
          engineVars, shellVars, settingsVars, mediaVars, mergeVars>>

Spec ==
  /\ Init /\ [][Next]_vars
  /\ Diarization!Fairness /\ Connection!Fairness /\ Engine!Fairness /\ Shell!Fairness

----------------------------------------------------------------------------
(* The properties, which the modules of the components state and explain.  *)

\* The component that is checked keeps its variables in their types.
TypeOK ==
  /\ Is("diarization") => Diarization!TypeOK
  /\ Is("download") => Download!TypeOK
  /\ Is("obs") => Obs!TypeOK
  /\ Is("connection") => Connection!TypeOK
  /\ Is("editors") => Editors!TypeOK
  /\ Is("engine") => Engine!TypeOK
  /\ Is("shell") => Shell!TypeOK
  /\ Is("settings") => Settings!TypeOK
  /\ Is("credentials") => Credentials!TypeOK
  /\ Is("media") => Media!TypeOK
  /\ Is("merge") => Merge!TypeOK

\* What is due, and what ends it.  One component is checked in a behaviour, so that the
\* leads-to of these disjunctions is that of every component.
Waits ==
  \/ Is("diarization") /\ Diarization!Unused
  \/ Is("connection") /\ Connection!Asked
  \/ Is("engine") /\ Engine!Working
  \/ Is("shell") /\ Shell!Quitting
Settled ==
  \/ Is("diarization") /\ Diarization!UsedOrStopped
  \/ Is("connection") /\ ~Connection!Asked
  \/ Is("engine") /\ Engine!Ended
  \/ Is("shell") /\ Shell!QuitOver

\* Nothing waits for ever: a job for its container, an idle container for being stopped,
\* the dialog for OBS, a summary for its last round, a quit for what is in progress.
EverythingSettles == Diarization!JobsAreAnswered /\ (Waits ~> Settled)

\* The container of the diarization is stopped when the application has shut down.
ShutdownReleasesVram == Diarization!ShutdownReleasesVram

\* The diarization is not shown in a passing phase that nothing ends.
NotStuck == Diarization!NotStuck

\* Only the asset itself gets the final name of a download.
PromotedIsTheAsset == Download!PromotedIsTheAsset

\* A damaged partial download is not resumed again and again.
DamageIsNotResumedTwice == Download!DamageIsNotResumedTwice

\* The lease on disk names what the user had chosen in OBS.
LeaseKnowsTheWay == Obs!LeaseKnowsTheWay

\* The user's own profile and scene collection are not reconfigured.
OwnIsNotReconfigured == Obs!OwnIsNotReconfigured

\* The lease is removed only after the restoration.
RestoredBeforeForgotten == Obs!RestoredBeforeForgotten

\* A recording starts with the chosen audio sources enabled.
RecordsChosenAudio == Obs!RecordsChosenAudio

\* A cancelled attempt to connect leaves OBS unconnected.
CancelledIsNotConnected == Connection!CancelledIsNotConnected

\* The view of a session shows the latest documents when everything has arrived.
ViewIsCurrent == Editors!ViewIsCurrent

\* A saved edit of the transcript is not lost to a later save.
SavedEditsSurvive == Editors!SavedEditsSurvive

\* The chapters of a lecture are complete and in the order in which they were spoken.
SpokenOrder == Engine!SpokenOrder

\* The drafts of a meeting cite what was said in their chunks.
EvidenceIsGrounded == Engine!EvidenceIsGrounded

\* A quit leaves nothing behind, or nothing changed.
QuitIsAllOrNothing == Shell!QuitIsAllOrNothing

\* Credentials are kept, replaced and removed as the user entered them.
StoredIsEntered ==
  /\ Is("settings") => Settings!StoredIsEntered
  /\ Is("credentials") => Credentials!StoredIsEntered

\* The merge of speakers and the byte ranges meet their definitions.
AlgorithmsAreExact == Merge!WordsKeepTheirTurn /\ Media!RangeIsServed
=============================================================================
