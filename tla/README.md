# SessionScribe: formal models

SessionScribe records meetings and lectures with OBS, transcribes them, identifies speakers
and writes summaries. It is an Electron application: one main process, SQLite, a few child
processes, local Docker containers and an OBS websocket. This directory holds TLA+ models of
the parts of the main process whose correctness depends on the order of events, the TLC runs
that check them on small instances, and proofs that TLAPS checks for every instance. Source
paths below are relative to the repository.

## The system

| part | state it keeps | operations | talks to |
| --- | --- | --- | --- |
| processing queue (`src/main/pipeline/ProcessingController.ts`) | a promise chain, one abort controller per running job, the `shuttingDown` flag | `enqueue`, `generateSummary`, `retry`, `cancel`, `resumePending`, `shutdown`, the run of a job | database, media tools, providers, managed runtimes |
| database (`src/main/persistence/Database.ts`) | sessions, jobs, transcript and summary revisions, profiles, settings | synchronous reads and writes, each its own commit except two transactions | everyone |
| session service (`src/main/sessions/SessionService.ts`) | none | import, attach, edit, delete | database, artifact store |
| IPC router (`src/main/ipc/`) | the operation barrier, the pending capture start and connection | one handler per renderer call | everyone |
| OBS recording (`src/main/obs/`, `src/main/capture/`) | the controller's state machine, the manifest of the active recording on disk, the resource lease on disk | start, stop, recover, acknowledge, reconnect, provision, restore | OBS, the queue |
| managed Whisper and diarization (`src/main/whisper/`, `src/main/diarization/`) | leases, start and stop promises, idle timer, installation state | install, start, stop, acquire, release, idle stop, shutdown | Docker, providers |
| download (`src/main/whisper/download.ts`) | a partial file and its metadata | resume, verify, promote | HTTP, the file system |
| settings and secrets (`src/main/settings/`, `src/main/security/`) | profiles, encrypted secrets | save, delete, test | database, key store |
| renderer (`src/renderer/src/`) | details of the open session, drafts, the connection dialog, the provider form | opens, edits, saves, generates, connects, records | the IPC router |
| summary engine (`src/main/providers/summary/engine.ts`), diarization merge | none | pure algorithms and bounded concurrency | providers |
| start and quit (`src/main/index.ts`) | quit flags | recover, resume, quit in order | everyone |

The hard behaviours: JavaScript handlers interleave at every `await`, so state that was read
before one is stale after it; SQLite commits one statement at a time, so a crash may fall
between two; provider calls, subprocesses, OBS and Docker fail, time out or answer late; and
work is promised to survive quits, crashes and restarts.

## What makes each part correct

| part | properties |
| --- | --- |
| processing queue | a queued row is scheduled, a running row has its run, exactly once across restarts; a success has its results and is final; every job is settled; saved work is not repeated; cancellation propagates |
| managed runtimes | every `acquire` is answered; nothing stops a container under a lease; an idle container is stopped; quitting releases it |
| OBS recording | what OBS records is named by the manifest; the manifest goes only after the handoff; the handoff happens once; one recording is pending at a time; every call returns |
| OBS provisioning | while OBS shows something managed, the lease on disk names what the user had; the lease goes only after the restoration; nothing of the user's own is reconfigured; a recording has the audio that was chosen |
| OBS connection | a cancelled attempt leaves OBS unconnected; the dialog is answered |
| managed diarization | a job is answered whatever happens to the start it joined; no passing phase is shown for ever; an idle container is stopped; quitting releases it |
| barrier, start and quit | a quit is all or nothing, and comes to an end |
| documents in the renderer | what is shown is what is stored when everything has arrived; a saved edit is not undone by a later save |
| download | only the asset is promoted; damage is not resumed again and again |
| summary engine | chapters complete and in order, evidence from the chunk, an end |
| diarization merge, byte ranges | every word kept once with the speaker of the largest overlap; the bytes that the header names |
| settings and secrets | a provider is called with what the user entered last for its endpoint |

## Modules

| module | models |
| --- | --- |
| `JobLifecycle` | abstract: what users of the queue are promised about a job |
| `JobPipeline` | `ProcessingController`, the job, session and revision rows, and the user operations that touch them |
| `MCJobPipeline` | payload sets for TLC |
| `JobPipelineProofs` | theorems about `JobPipeline` |
| `ManagedWhisper` | `ManagedWhisperService` and the Docker container it owns |
| `MCManagedWhisper` | the instance for TLC |
| `ManagedWhisperProofs` | theorems about `ManagedWhisper` |
| `Handoff` | abstract: what is promised about a recording and the session it is for |
| `Recording` | `RecordingController`, `SessionManifestStore`, `RecoveryService`, `ObsCaptureService`, `RecoveredRecordingHandler`, the capture handlers of `IpcRouter`, and OBS |
| `MCRecording` | symmetry for TLC |
| `RecordingProofs` | theorems about `Recording` |
| `ManagedDiarization`, `ManagedDiarizationProofs` | `ManagedDiarizationService` and its container |
| `ModelDownload` | `downloadVerifiedAsset()` with its partial file, over many attempts |
| `ObsResources`, `ObsResourcesProofs` | `ObsProvisioner`, `ObsResourceLeaseStore`, `CaptureConfigurator`, and a user who uses OBS meanwhile |
| `ObsConnection` | the connection dialog, the connect handlers of `IpcRouter`, `LaunchableObsCaptureController` |
| `Notes` | transcript and summary of a session in the database, in `App` and in the open editor |
| `SummaryEngine`, `SummaryEngineProofs` | `createGroundedSummary()`: chunks, two workers, repairs, rounds |
| `AppShell` | `index.ts` and `IpcOperationBarrier`: starting, operations in progress, quitting |
| `ProviderSettings`, `ProviderSettingsProofs` | the form of `ProviderSettingsDialog`, `ProviderProfileService`, `SecretStore` |
| `MediaRange` | `mediaFileResponse()` and `parseByteRange()` |
| `DiarizationMerge` | `mergeDiarization()` |
| `Services` | the components from `ManagedDiarization` on in one specification: a behaviour is about one of them, the others rest |
| `ServicesProofs` | theorems about `Services`, and about those of its components that have no module of proofs |
| `MCServices` | transcripts for checking `Services` with TLC |

The component modules do not share variables. They meet in a few places, where each sees the
other as what it may do. `JobPipeline` takes a lease of a runtime around its provider calls,
which it sees as one call that answers or fails, and `ManagedWhisper` and
`ManagedDiarization` see the queue as callers. `Recording` hands a session to the queue with
`enqueue` and counts the jobs; `JobPipeline` starts from `Enqueue`. `AppShell` has of every
service what a quit that misses it would leave behind. `Recording`, `ObsResources` and
`ObsConnection` are three views of the capture service: its commands with the manifest, its
requests that change OBS, and its connection attempts. `Notes` sees the queue as a job that
reads a transcript and saves a summary.

### JobPipeline

An action is what the event loop runs between two awaits. `run.pc` names the await the
running job is suspended in (`Awaits`); code that commits twice without an await between is
cut at the commits (`SyncSteps`), where nothing but a crash may intervene, and handlers that
write the session before the job may die between the two (`CrashMidway`). `queue` is the
promise chain, `run.aborted` the signal of the abort controller, `app` the process. Job ids
are numbers in the order of `created_at`. A provider is the pair of kind and model that
provenance records; a document is its revision, its provenance and what it was made from.
Times are compared in one place only, `generatedAt >= createdAt`; `jobsThen`, the number of
jobs that existed when a summary was generated, decides that comparison. `reached` and
`generated` are history variables.

Media, sizes, progress, error texts and file names are left out. `Reject` stands for every
error an awaited operation may throw.

### ManagedWhisper

Four coroutines may be suspended in a Docker command at once: a start, a stop, a status
refresh and a set-up. Each has a variable that says what it is about to do next, and an
action per command (`StartChecked`, `StartCommanded`, `Started`, ...); `container` and
`created` are what Docker knows, the other variables are the fields of the service.
`callers` are the callers of `acquire`, from the call to the release. `startPromise` and
`stopPromise` are shared, so that a second caller joins; a start waits for a stop that is
under way, a stop does not wait for a start. Failed, timed-out and refused Docker commands
are one kind of fault, bounded by `MaxFaults`. Versions, ports, images and progress are left
out; the installation is verified or not.

### Recording

`queue` is the serialized command queue: its head is the command that runs, with the await
it is suspended in (`pc`) and the manifest it holds. `mem` is `controller.manifest`; `own`
says whether that is the object the command holds, since `attach()` may put another in its
place. `disk` is the manifest file, `obs` the directory OBS records into. `recovery` has the
three calls of `recover()` (connect, reconnect, a failed start), which run outside the
queue except for `finalizeRecovered`. `row`, `attached`, `jobs` are the database. OBS is
external: it goes on when the application dies, starts and stops for its user, and leaves a
file that is usable or not.

Left out: telemetry saves and split files, which also write the manifest; sizes, paths and
ownership by path (a session has its directory); configuration and preflight beyond the
check that OBS is idle; a missing provider selection; the quit sequence. `StartOffered` and
`StopOffered` are what the renderer shows; the handlers behind them have fewer guards.
After `StopProbes` the queue may begin its next command before the caller hands the
recording off; the two touch different state, and the model does the handoff first.

`Handoff` is what of this matters to whoever records, without commands, recoveries and
crashes: one recording is pending at a time (`pending`, the session of the manifest), it is
given to its session (`held`, what is attached) and queued (`jobs`) only while it is pending
and not twice, and it is given up only when its job is there or its session is shown as one
that waits for nothing (`Shown`, what the status of the row and its deletion amount to).
`ImplementsHandoff` is that `Recording` implements it.

### ManagedDiarization

The design of `ManagedWhisper`, with the differences of the code: a job is counted in
`activeJobs` before its start, a stop that is under way refuses a start instead of delaying
it, several jobs share a start and its failure, and an installation that failed or was
cancelled can be resumed. `status` has the phase and the operations that the renderer is
offered, and a history flag that says whether it is known to be out of date.

### ModelDownload

An attempt is a sequence of awaits (`attempt.pc`): check the final file, check the partial
one, request, stream, check, promote. A file is its length in blocks and whether it is a
prefix of the asset; a server is honest or not. Attempts, by the user, follow one another
until `MaxAttempts`; the first finds whatever an earlier run of the program left. A crash may
come at any moment, also between attempts, and garbles or loses what was not synced.

### ObsResources

`current` is what OBS shows, `lease` the file, `op.pc` the next request of the one queued
operation, a provision or a restoration, and `op.saw` what it has read. The user switches,
records and closes OBS between any two requests; he may switch to any name, the managed ones
included, also while something is recorded. `wanted` is what the user chose last, and
`raced` the kinds that were switched while an operation was between reading and switching:
no check of the application can see those. `discovered`, `configured` and `audio` follow the
audio sources from discovery through configuration to the start.

### ObsConnection

An attempt is one call of connect, known by its number; `attempts[i].pc` says what it
awaits, from the password store through launching OBS and the retries to saving the
password. `generation` is the counter by which the router knows a superseded attempt,
`active` the attempt of the controller, `link` the attempt whose connection is open. A
disconnect is refused while a session is recorded (`ObsCaptureService.ts:181`), by the dialog
and by an attempt that must undo its connection; a connection that is lost while the resources
are provisioned may make the attempt launch OBS or try again.

### Notes

Requests (`calls`) and replies and events (`inbox`) are queues, as the IPC channel is. A
document is its revision, what it was made from, and the set of edits in it. `selected` is the
session that the user looks at, this one or the other: while the other is open, and until the
details of the selected one arrive, `details` of this one are empty, and a reply is written
into whatever details there are, as in `App.tsx` (394, 405, 416, 433), which never asks whose
they are. Of the other session only this matters: its transcript (`Foreign`) reaches the view
of this one when a rename that followed the save of a draft there is answered after the
return (`ChangeElsewhere`; every other reply from there was sent before the details of this
session and arrives before them, while they are still empty). A request carries the editor
that made it (`by`), since only that one goes on when it is answered. Requests may be refused
(`Refuse`: a schema, a speaker, a session), and a save whose document is of the other session
always is.

`waiting` is the chain of the queue, one job behind the other: a job reads the transcript and
saves a summary (`JobReads`), or is a full job that transcribes anew first (`JobTranscribes`,
`ProcessingController.ts:400`); either may fail. `saved` is the history of the edits that were
saved since a job transcribed last, `blind` says that an editor was opened while a save was
on its way.

### SummaryEngine

`inputs` and `drafts` are the requests and results of a round of `mapWithConcurrency`,
`next` its shared index, `workers` its two workers. A draft is what it cites and the titles
of its chapters; a provider may answer with any draft, and after an invalid one is asked
once more. A request may be refused before it begins (`engine.ts:79-103`) and the finished
summary by its schema (435-444). A piece of a line that is split has room for `Floor`
characters of text in any case (570). Prompts, wording and times are left out.

### AppShell

`quit` is the await that `prepareToQuit` is at, `ops` what each pending operation of the
barrier waits for, `down` the services that were shut down. `early` says that the quit began
before there was a router. A job and an operation are abstracted to what they may start:
a container, a recording. Docker may refuse to stop a container at the shutdown, which the
services swallow (`ManagedWhisperService.ts:320`): it stays, and `refused` says so. A stop of
the recording that fails may have stopped OBS or not. The handoff of recovered recordings at
the start of the application (`index.ts:118-131`), which runs outside the operation barrier,
is not modelled here.

### ProviderSettings

`form` is the dialog, `call` the save or deletion with the mutations it has left, `store`
the secret store with its file in memory, its volatile map and a flush in progress, `disk`
the file. A credential is the number of the edit that typed it. `entered` is what the user
stored last under each name for this kind and endpoint; `torn` has the names that an
interrupted call had mutated. Whether the desktop can encrypt is asked at each call
(`SecretStore.ts:32`, 47, 62) and may change at any moment and over a restart
(`EncryptionChanges`, `Restart`); `astray` has the names that were changed in one place, the
file or the volatile map, while the other had a value of them too. When one of the deletions
of a profile fails, the others go on (`Rest`), and the row may fail to be written
(`RowFails`). A job that reads a credential while a save runs is not modelled: the property
is about the time between calls. References of an older format are left out: their names are
foreign to `entered`.

### MediaRange and DiarizationMerge

Pure functions with one step each, compared with a definition of their own: which bytes a
header names; which speakers a span may be given to. TLC does it over every bounded input,
`MergeAndRangesAreExact` for all of them.

### Services

The components from `ManagedDiarization` on share no state, so that a product of them would
check nothing that the components alone do not. `Services` instantiates each of them and
lets `part`, chosen in the initial state, say which one moves; the others rest in one state
in which nothing is due, and states add up instead of multiplying. A property is that of the
module of its component. The leads-to properties are joined in `EverythingSettles`: as one
component moves in a behaviour, the leads-to of the disjunctions is that of each component.
`ProviderSettings` has two instances: `settings`, with one credential, more calls and every
scope, and `credentials`, with two credentials and fewer calls.

## Runs

| run | question |
| --- | --- |
| `pipeline_safety` | do rows, chain and running job stay consistent at every interleaving of two jobs of one session with all user operations and one quit or crash; does a success have its results; is `JobLifecycle` implemented |
| `pipeline_live` | with two sessions sharing the queue, is every job settled; does a session stop saying processing |
| `pipeline_repeat` | (violation) are persisted stages reused after restart |
| `pipeline_cancel` | (violation) does a cancellation always propagate |
| `whisper` | do the lease count, the countdown, starts, stops, refreshes and a quit agree; is every `acquire` answered and an idle container stopped |
| `whisper_lease` | (violation) does a lease keep the container running |
| `recording` | with two sessions and four failures, is a recording ever unknown, given up or processed twice, and is `Handoff` implemented (so that none is overwritten), when recoveries do not overlap starts and stops |
| `recording_returns` | with every overlap, does every command, start and recovery end |
| `recording_lost` | (violation) is a manifest acknowledged only after the handoff |
| `recording_twice` | (violation) is a recording queued once when a recovery overlaps a stop |
| `services` | each further component on its own instance: its safety and liveness, and the pure algorithms against their definitions |
| `recording_audio` | (violation) does a recording start with the audio sources that the user chose |

Bounds, pipeline. Two jobs are enough for one job to overtake, cancel, wait for or inherit results from
another; a queue of three tasks arises because a cancelled job's task stays in the chain
when the job is retried. `MaxAttempts` bounds retries only (2: a retry of a job that was
resumed), `MaxRevision` bounds edits by the user, `MaxStops` quits and crashes together.
Idle states are allowed, hence `CHECK_DEADLOCK FALSE`.

Fairness, pipeline. The event loop runs scheduled tasks and continuations (`SkipTask`, `StartTask`,
`RunStep`), every awaited operation ends because each request and subprocess has a timeout,
and a quit that has drained the queue exits. Nothing is assumed of users, of crashes, or of
the application being started again: `JobsSettle` allows it to stay down for ever.

Bounds, whisper. Two callers: one may fail, cancel, join or leave while the other holds a
lease. Two faults: a command fails and the clean-up after it fails too.

Fairness, whisper. Every Docker command has a timeout, so every suspended coroutine goes
on; the countdown timer fires; a quit whose stop has ended ends. Nothing is assumed of the
callers: one may hold its lease for ever. `IdleIsStopped`
allows one exception, `StaleRefresh`: a status refresh that saw the container stopped and
publishes that after a start has finished clears the countdown, and nothing arms it until
the next release. `AcquireIsAnswered` has none.

Bounds, recording. Two sessions, so that one may be pending, deleted or recovered while the
other starts. `MaxIncidents` counts everything that is not a plain recording: failed writes,
calls and probes, lost connections, cancelled connects, deletions, foreign recordings,
crashes, a disconnect while something is under way. Four allow a failure, a failure of what
handles it, a late answer to the first and a crash. With six incidents, and with nine and one
session, TLC found nothing more. Jobs are counted to two, which is where `QueuedOnce` fails.

`Overtaking` chooses which interleavings are explored. With `TRUE` they are those of the
code, where nothing keeps `recover()` from running between two awaits of a command. With
`FALSE` a recovery begins only when no start or stop is queued, and none runs until it is
over: a subset of the code's behaviours, those in which a connection is lost and regained
while no start or stop is under way, or after it has failed. The code does not enforce that;
it would if `recover()` ran in the command queue. `recording` checks the safety properties
there, where failures, crashes, deletions and OBS itself still come at any moment. The
restriction is needed: `recording_twice` refutes `QueuedOnce` without it, and the same
configuration with `Overtaking = TRUE` refutes every other safety property except `TypeOK`, and
`Handoff` is then not implemented.
`recording_returns` has no such restriction.

Fairness, recording. Commands and recoveries go on, because each call to OBS has a timeout
(10 s, 15 s for the start event, 30 s for the stop event); reconnecting goes on and gives up
after 30 s. Nothing is assumed of users, OBS, deletions or crashes.

Bounds, services. Diarization: two jobs, three beginnings of a job or by the user, one
fault: a start, a stop and a set-up can overlap, and one of them fails. Download: three
blocks, so that a partial file is empty, partial or whole, and four attempts: damage, its
discovery, and a resumption. OBS: two names of the user, so that he can switch between his
own, one switch, two operations: a provision, a restoration, and a loss or crash at every
request. Connection: two attempts, one of which supersedes or follows the other. Notes: a
behaviour has at most the edits, jobs and openings of one element of `Uses`, each of which
has many of one kind and a few of the others: three edits with a job and an opening; two
edits, a job and two openings (to the other session and back, or the summary in between); one
edit and two jobs, one behind the other; three edits and three openings. The number of
revisions follows from these and needs no bound of its own.
Engine: three transcripts, of no line, of four full chunks (two per worker, and several
rounds of reduction) and of a line that is split. Shell: two operations at once, three
calls, two quits: one given up and one that ends. Settings: see `MCServices.cfg`. Byte ranges:
sizes and numbers up to five. Merge: two segments up to time three, transcripts of one to
three words.

Fairness, services. Docker commands, requests and provider calls end by their timeouts;
timers fire; promises that settle run their continuations; the user answers the dialogs of
a quit; a job ends or unwinds when it is aborted (strongly fair, since another job may begin
until the queue is shut down). Nothing is assumed of what the user begins.

The bounds hide nothing that one more of each would show. The safety properties were also
checked, outside the runs, with `MaxStops` 2 in the queue, three faults in `ManagedWhisper`,
and in the components of `Services` with four rounds and two faults, six attempts of a
download, two switches and three operations of OBS, three connection attempts, of the editors
three edits, a job and two openings, two of each, and four edits and three openings, four
calls and three quits, and four calls about settings with two faults; the leads-to properties with three faults in `ManagedWhisper`, two
faults in `ManagedDiarization`, three connection attempts and three quits.

The exceptions that the properties name are behaviours of the code, found while the
properties were checked:

* `QuitIsAllOrNothing` excludes a quit that comes before the router is registered: such a
  quit drains nothing, knows no recording, and may finish while `startApplication` goes on
  (`index.ts:250`). A startup that fails after the jobs were resumed quits without a
  shutdown at all (`index.ts:55`). A container that Docker refused to stop is left
  (`refused`). An operation that waits in an open file dialog, or a
  long connection attempt, delays the quit as long as it takes (`index.ts:253`).
* `NotStuck`: an error of Docker that `setFailureStatus` drops leaves `starting` or
  `stopping`, and a refresh that waits for the server may show `starting` after the endpoint
  is gone; both end with the next refresh. A stale refresh forgets a running container, as
  in `ManagedWhisper`.
* `CancelledIsNotConnected` is about attempts that were told they were cancelled. One that
  another attempt superseded while it ran is told so too, and leaves OBS connected
  (`IpcRouter.ts:257`); the model has it in a state of its own.
* `ViewIsCurrent`: a summary saved by hand is shown as up to date, whatever transcript it
  was made from (`App.tsx:433`). And a reply does not say whose details it changes
  (`App.tsx:394`, 405, 416): rename a speaker with unsaved edits in one session, open another
  before the save is answered, and the answer to the rename puts the transcript of the first
  into the view of the second, where it stays. Only a rename or merge that followed a save
  can: every other reply was sent before the details of the second session.
* `SavedEditsSurvive`: a save replaces the whole document and names no revision, so an
  editor opened before an earlier save was answered undoes that save (`blind`). A full job
  that is retried and transcribes anew has none of the edits, which is what it is for: `saved`
  begins again there.
* `StoredIsEntered`: a call that fails between its mutations leaves the old row with new
  credentials (`torn`); a secrets file that failed to load once stays unreadable until a
  restart, because the rejected promise is kept (`SecretStore.ts:70`), and a flush that
  failed leaves the change in memory (91). A credential that was stored in the file is hidden
  while nothing can be decrypted, and one that is changed or deleted meanwhile reappears, or
  hides the new one, when the encryption is back (`astray`, 32 and 62).
* `LeaseKnowsTheWay`, `RestoredBeforeForgotten`, `OwnIsNotReconfigured`: a switch by the
  user exactly between a check and the request that relies on it (`raced`).

* `GivenUpOnlyWithItsStart` is about the step that gives a manifest up, not about what the row
  says later. Acknowledgements name a session, not a recording: a late one of a failed start
  may give up the manifest of the second start of the same session, and a recovery that had
  loaded it then reports `interrupted` for a manifest that is gone.

The summary engine shows one more thing that no property is about: when one worker fails,
the other goes on asking the provider after the summary was rejected (`engine.ts:612`).

## What the violations mean

* `SavedWorkIsNotRepeated`: resuming overwrites the stage it resumes from, so a second
  interruption transcribes again.
* `CancelledRunSavesNothing`: one await of the diarization stage does not look at the signal.

* `LeaseKeepsContainer`: the failure path of a start stops the container without a look at
  the lease count.
* `AcknowledgedOnlyAfterHandoff`: a start whose event was missed and whose recording was
  ended in OBS is declared failed and acknowledged; nobody looks for the file.
* `QueuedOnce` with overlap: a recovery restores a recording that is being stopped.
* `RecordsChosenAudio`: every discovery disables the scene items of the audio inputs again
  (`ObsProvisioner.ensureInput`), the renderer discovers whenever the phase returns to
  `ready`, and nothing enables them after that: a recording that follows a first one, or a
  lost connection, may start without the audio that was configured.

Four more behaviours are in the models and in no property, because no document says what
should happen: a quit queues a job that was cancelled but whose run has not unwound
(`Caught`); an edit of a transcript by the user leaves its session processing
(`EditTranscript`; `ProcessingHasActiveJob` is checked without edits); so does a crash between
the session and the job of an import (`CrashMidway`; the property is about sessions that have
a job); and a stale refresh forgets a container that runs (`StaleRefresh`).

## Proofs

`JobPipelineProofs` proves, for every set of sessions, models and payloads and every bound,
from `ConstantsAssumption` alone: `TypeOK`, `RunningIsOwned`, `QueuedIsScheduled`,
`SucceededIsFinal`, and that `Spec` implements `JobLifecycle`. None of the invariants is
inductive alone. `IInv` adds which rows exist (`RowsAreInserted`), what is on the stack
(`RunIsOfAJob`), what may have become of the running job's row while its run was suspended
(`RunKeepsItsRow`: it is not aborted only if the row is still running or was deleted; at the
last step it is running) and that nothing of the process outlives it (`DownIsEmpty`). Steps
of a run are of two kinds, those that keep every status and those that end the run
(`RunStepEffect`), so the later proofs split in two cases instead of fourteen. The rows that
a restart schedules are complete because an injection into a finite set of the same size is
a surjection (`InOrderIsComplete`).

`ManagedWhisperProofs` proves, for every set of callers and every number of faults, that the
service keeps its types, that the lease count is the number of callers that wait for a lease
or hold one (`CountIsOfCallers`), that no countdown runs under a lease
(`NoCountdownUnderLease`), that the shutdown ends with the container stopped if Docker never
failed (`ShutdownReleasesVram`) and that no stop begins under a lease
(`StopNeverBeginsUnderALease`). The count needs the strengthening that a caller is counted
exactly from `acquire` to its release, whatever start it waits for, and the cardinality of a
set that gains or loses one member.

`JobPipelineProofs` also proves `SucceededHasResults`, from `IInv` and a second invariant,
`Results`, which follows a result from the await in which it is written to the row that says
succeeded: the row of a run is the one it was started for (unless it was deleted), from
`transcript-saved` on its session has a transcript, from `returned` on a summary that was
generated after the job was asked for, and a summary never claims more jobs than existed
when it was generated (`SummariesAreCounted`, which reuse depends on). Steps that write no
document and pass none of these points need one argument (`KeepsResults`).

A session stays processing behind its last unfinished job in two ways only, both in the code:
a transcript the user edits, and a transcript that is saved although its run was aborted
while its PCM file was being removed. `Reopens` names these two steps, and
`OnlyTwoStepsReopen` proves `ProcessingHasActiveJob` of every behaviour that takes neither,
meetings and other edits included; TLC violates it as soon as one of the two is allowed.
`LecturesAreAccounted` draws the conclusion for the constants of the run `pipeline_live`:
no meetings, no edits. The invariant `Accounts` rests on `IInv` and `Results` and adds that a
session that is not there yet, or no longer, has no documents and no jobs (`Vacant`, which a
crash in the middle of an import needs), that a row that is gone while its run is on the
stack went with its session, and that the session is out of processing before its job
succeeds (`RunIsAccounted`: in between a crash may come). `SessionKept` says what a step may
do to one session, so an action is compared with the session it is about and with the others.

The components of `Services` are proved correct each by itself, and `ServicesProofs` carries
the result over: a behaviour of `Services` is one of every component (`ObsRuns`,
`ShellRuns`, ..., by the steps of the others leaving its variables alone), so each theorem
there is about `Spec` of `Services` and states the very property that the run `services`
checks. `ConstantsAssumption` is all that is assumed: bounds are numbers, and reserved names
are not names of the user.

`ManagedDiarizationProofs` proves `ShutdownReleasesVram` and `NotStuck` for any jobs, rounds
and faults. `Safe` says that `activeJobs` is the number of jobs in `diarize()` until the
shutdown forgets them (`CountIsOfJobs`), that whoever waits waits for a start that is under
way, that a shutdown has outlasted the set-up and the start before it stops the container
(`ShutdownIsDrained`), and that a phase that should pass is shown only while an operation
will end it or a job or the user can (`PassingIsDue`); the last needs the count, since the
last job to leave arms the countdown.

`ObsResourcesProofs` proves, for all names of profiles and collections (the managed name and
null are not among the user's, `ObsConstants`) and any number of switches, losses and
crashes, `LeaseKnowsTheWay`, `OwnIsNotReconfigured` and `RestoredBeforeForgotten`. The
invariant `Safe` adds that a lease is written before the switch it is for
(`LeasedBeforeSwitch`), that what an operation has read is so until it has used it, unless
the user raced it (`ReadIsTrue`), that what OBS shows of the user's own is what he chose
last (`OwnIsWanted`), and that a restoration has a lease. `TypeOK` follows
from `Safe` and the types of what the lease does not depend on (`Marked`).

`SummaryEngineProofs` proves `EvidenceIsGrounded` and `SpokenOrder` for transcripts of any
length, any budget of a chunk and any answers. `Filling` says that every request that was
taken has its draft or a worker and that the first worker stops only when all are taken: so
a round that ends has all its drafts, and none of them is missing in what follows.
`Grounded` says that while the chunks are drafted each draft is the accepted one, and that
afterwards the requests may only cite what was accepted; `LectureOrdered`, that the drafts
of a lecture are the accepted ones until the chapters are made of them, and that the
chapters then tell the titles of the drafts in order. The definitions that cut, flatten and
merge sequences are recursive functions, and what they compute is proved for sequences of
any length, without the library's induction theorems, which take an operator: `Induction`
shows that a set of indices has them all, by its least counterexample, `Recursion` that the
function exists, `FlattenJoins` and what follows it what `FlattenSeq` returns, and
`MergedTells` that merging chapters loses none.

`ProviderSettingsProofs` proves `StoredIsEntered` for any names and scopes of credentials
and any number of calls, faults and restarts. A call changes its names one by one and each
change may fail, so the property holds of no state in the middle of a call by itself. `Safe`
adds the plan of the call (`Plan`: deletes before puts, and what may still be in either),
that the file differs from memory only under names that a call has changed and not finished
(`Written`), and, name by name, that one no call has touched is as the user left it and one
that the call has changed is as he wants it now (`Kept`). `Services` has two instances, one
for the field of the key and one for several credentials; the proofs serve both.

`ServicesProofs` proves of `ModelDownload` that damage ends an attempt
(`DamageIsNotResumedTwice`: a wasted partial file is whole until it is removed,
`DownloadWaste`) and that only the asset is promoted (`PromotedIsTheAsset`); of
`ObsConnection` that an attempt that was told it is cancelled leaves no connection
(`CancelledIsNotConnected`: whoever holds the link was not aborted and is past the request,
`LinkedIsPast`); of `MediaRange` that the bytes streamed are those of the header
(`RangeIsServed`), for files of every size.

`MergeAndRangesAreExact` proves the whole of `AlgorithmsAreExact`: with `RangeIsServed` also
`WordsKeepTheirTurn`, for every diarization and for transcripts of any length, times and
overlaps. What the model computes with folds, a sort and a join of sequences is described
by a lemma each, proved without an induction theorem of the library, as for the engine:
- the order of the stable sort puts at place `n` the segment with `n - 1` before it; the
  number of those before is different for different segments (`BeforeIsARank`), so the
  sorted segments are all segments (`OrderedIsComplete`);
- the search for a speaker has, after `n` segments, the largest overlap above zero and the
  least distance of these (`OverStep`, `NearStep`, `LoopFindsBest`), so that what it returns
  is a candidate (`SpeakerIsACandidate`);
- a word goes on with the last run or begins the next one, and either way the runs of an
  utterance say its words so far, each with its speaker, and no two that follow one another
  have the same (`LastGoesOn`, `RunBegins`, `SplitDivides`);
- dividing every utterance of a transcript that says all words once and in order leaves one
  that does (`SaidJoin`, `MergedSpeaks`).

`MergeSafe` is the inductive invariant. Transcripts are assumed to be sequences of words
with a beginning and an end, nothing more: a word may end before it begins.

Of `Notes` it proves `ViewIsCurrent` and `SavedEditsSurvive`, with the exceptions above. Both
are about queues of requests and replies of any length. `NotesSafe` says of each document
that a reply on its way to the view is current or is followed by another, and that the view
is if there is none (`Follows`, `TranscriptFollows`, `SummaryFollows`); all of them may also be
late if the details will be fetched once more (`NotesPending`), and a mark of staleness that
is missing is not due (`StaleFollows`). `NotesEditorAsks` says that the editor that is open
has one request on its way at most and is busy meanwhile, and `NotesOpening` that an opening
is on its way only while there are no details. For saved edits it says, while no editor was
opened in between (`blind`), that one change of the transcript is on its way at a time
(`OneOf`), from the editor that is open (`NotesEditorWaits`), and that every copy from which
the transcript may be replaced, in a call, in a reply, in the view or in the editor, has the
saved edits, unless a reply that brings them is on its way (`NotesKept`). A copy of the other
session's transcript need not, since saving it is refused. What a step does to the queues is
one of few things, it sends, handles, answers or takes a reply (`NotesSteps`), so each part
of the invariant is compared with those and not with every action.

Of `AppShell` it proves `QuitIsAllOrNothing` for any operations, calls and quits. The
invariant `Orderly` says what each await of the quit leaves behind and that nobody undoes
it: the renderer is locked out and its operations have drained before the quit asks, the
recording is over before the queue is told, no job runs when the containers are stopped, and
nothing is shut down while the quit can be given up.

`TypesHold` is `TypeOK` of `Services`: each component keeps its types. It is part of the
invariants above or needs little more (`ShellTypes`, `MediaTypes`). Of `Notes` it says only
that revisions and counts are natural numbers, without a bound.

`RecordingProofs` proves, for any sessions and any number of incidents, `TypeOK` with every
overlap of the calls, and `OnePendingRecording` without (`~Overtaking`). `Sound` adds to the
types that only the first command of the queue has begun and then holds the manifest of a
session (`InOrder`), that a recovery and the command it waits for know each other, one for
one (`AwaitedBy`), that a recovery carries the manifest and result it has loaded (`Carried`),
and that at most one start is queued, that of the session that is starting (`StartAlone`).
`OfOneSession` adds that the manifests on disk, in memory, in the command under way and in
the recoveries that have not decided yet are those of one session, or none (`About`). Every
step keeps `About(s)` for the same `s` except `StartReady`, which finds nothing pending in
memory or on disk, no other command that holds a manifest, and, without overtaking, no
recovery that has loaded one: the last is the condition that the code does not enforce.

Without overtaking it also proves what relates the manifest to OBS, the rows and the jobs:
`ManifestBeforeRecording`, `RecordingHasManifest`, `HandedOffOrReported`, `QueuedOnce` and
`GivenUpOnlyWithItsStart`. A late acknowledgement or a second recovery may find any of them
changed, so the invariant, `Handed`, says what each of them may still find:
- a recovery that has loaded a manifest is alone, so the manifest is still the one on disk
  (`OneRecovers`), and so is that of the command under way (`HeldIsKept`);
- OBS records for no session but the starting one, and not before it was asked
  (`NotYetAsked`); a session whose start failed was never recorded (`FailedNeverStarted`);
- a reconnect gives up a recording only while it cannot see that OBS goes on with it
  (`LostIsNotAsked`), and a status that offers a start belongs to an OBS that records for
  no manifest in progress (`ReadyIsQuiet`);
- when a recovery has decided, the manifests are those of its result, and none it has to
  acknowledge is queued already (`ResultsHold`);
- of each session (`SessionsHold`): an acknowledgement that is queued finds a recording that
  is attached or one that failed before OBS recorded anything (`AckIsLate`); a row says
  recording or processing only of the manifest on disk or of a job (`RowIsKept`); and a
  session that has its recording neither starts, stops nor fails again (`AttachedIsOver`).

These are about the order of what is in the queue, so the lemmas say what an action may put
behind what (`Within`, `Behind`). Steps that leave the manifests and the recordings alone
need one argument (`Calm`); starts and stops either move on or fail (`StartMoves`,
`StartFailing`, `StopMoves`, `StopFailing`). `QueuedOnce` is violated with overtaking (run
`recording_twice`), so `~Overtaking` is a hypothesis of the theorems and not an oversight.

`RecordingImplementsHandoff` draws these together: `Spec` implements `Handoff`, again without
overtaking. The state that relates the two is `HandoffInvariant`, all of the above. Of the
steps of `Recording`, an acknowledgement that removes the manifest gives the recording up: by
`RowIsKept` its job is there or its row no longer waits for it. A deletion discards; a
stop, a recovery or a crash in the middle of one of them hands off, and by `HeldIsKept` and
`ResultsHold` what they hand off is what is pending. Every other step shows a session
differently, begins a recording, or is a stutter (`StepSimulates`). `Handoff` says less than
one may expect in two places, because the code does: a recording that was given up may be
pending again, when a recovery that had loaded its manifest saves it, so `Begin` does not ask
that the session has no recording; and a row may be made `interrupted` when nothing is
pending.

`OnlyADeclaredFailureLoses` says how far the finding of `recording_lost` goes. In behaviours
without the step `DeclaresLost`, a start declared failed after OBS left it a usable file,
`AcknowledgedOnlyAfterHandoff` always holds, again without overtaking: crashes, failed writes
and probes, recoveries and deletions lose no recording. The invariant is `HandoffInvariant`
with `UsableIsKept`: OBS records for no manifest that says it was not asked or failed
(`Refused`), and the manifest of a usable recording is on disk and is no such one. A manifest
comes to say so only while OBS is idle (`RefusedOfIdle`), a file becomes usable only when its
manifest is on disk (`ManifestBeforeRecording`), and an acknowledgement removes the manifest
of a recording that the session lacks only if it is `Refused` (`GivenUpIsRefused`, from
`AckIsLate`).

Of the properties of the passing runs, every invariant and every action property is stated by
a theorem, and so are both refinements, `JobLifecycle` and `Handoff`. Only model-checked are
the liveness properties: `JobsSettle`, `AcquireIsAnswered`, `IdleIsStopped`, `CallsReturn` and
`EverythingSettles`. They rest on weak and strong fairness, and so on `ENABLED`, which
the prover does not reason about. The theorems that assume `~Overtaking`, and those about a
session that stays processing, `OnlyTwoStepsReopen` and `LecturesAreAccounted`, have the
hypotheses described above, without which TLC violates what they say. The properties of the
runs that expect a violation are false of the code; what is proved of them is, for
`QueuedOnce` and `AcknowledgedOnlyAfterHandoff`, the restriction under which they hold.

## Not modelled

`ArtifactStore` (directories and names), `ObsGateway` and `ObsDiscovery` as transports,
`FfmpegService`, the provider adapters and `ExportService` are input and output or
formatting: the modules see an operation that answers, fails or times out. Of the database,
search and settings rows are left out; of the recording, telemetry and split files; of the
renderer, layout and search. Windows, protocols and the single-instance lock of
`index.ts` keep no state that the properties are about.

## Plan

Telemetry saves and split files with the write queue of `SessionManifestStore`, and a stop
that fails (`ObsCaptureService.ts:318`), once it is decided what it should promise.
