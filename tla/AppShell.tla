------------------------------ MODULE AppShell ------------------------------
(***************************************************************************)
(* The application around its services: starting, the operations that the  *)
(* renderer has in progress and the barrier that counts them, and quitting *)
(* - cancel the installs, block and drain the operations, ask about the    *)
(* recording, restore OBS, shut the queue and the two containers down,     *)
(* close the database.  A service is abstracted to what a quit that misses *)
(* it leaves behind: a recording, a running job, a running container.      *)
(***************************************************************************)
EXTENDS Naturals

CONSTANTS
  Ops,      \* the calls of the renderer that may be in progress at once
  MaxCalls, \* bound: calls of the renderer
  MaxQuits  \* bound: requests to quit

VARIABLES
  startup,    \* how far startApplication() is
  ops,        \* what each pending operation of the barrier waits for
  blocked,    \* IpcOperationBarrier.blocked
  quit,       \* the await that prepareToQuit() is at
  recording,  \* a recording of the application: "none", "active" or "left" to OBS
  job,        \* a job is running
  containers, \* the managed containers that run
  down,       \* services that were shut down: the queue, the containers, the database
  refused,    \* history: the containers that Docker did not stop for the shutdown
  early,      \* history: the quit began before the router was registered
  made        \* calls and quits made

vars == <<startup, ops, blocked, quit, recording, job, containers, down, refused,
          early, made>>

Managed == {"whisper", "diarization"}
Steps == {"drain", "ask", "stop", "restore", "queue", "whisper", "diarization"}

TypeOK ==
  /\ startup \in {"initializing", "loading", "up", "failed"}
  /\ ops \in [Ops -> {"none", "user", "install", "work"}]
  /\ blocked \in BOOLEAN
  /\ quit \in Steps \cup {"no", "done"}
  /\ recording \in {"none", "active", "left"}
  /\ job \in BOOLEAN
  /\ containers \subseteq Managed
  /\ down \subseteq Managed \cup {"queue", "database"}
  /\ refused \subseteq Managed
  /\ early \in BOOLEAN
  /\ made \in [calls : 0..MaxCalls, quits : 0..MaxQuits]

Registered == startup \in {"loading", "up"}
Alive == startup # "failed" /\ quit # "done"

----------------------------------------------------------------------------
(* Starting.                                                               *)

\* The services are made, the window is opened, the router registered and the jobs of
\* the last run are resumed; with the database closed by a quit this fails.
Initialized ==
  /\ startup = "initializing" /\ "database" \notin down
  /\ startup' = "loading"
  /\ UNCHANGED <<ops, blocked, quit, recording, job, containers, down, refused, early,
                 made>>

Loaded ==
  /\ startup = "loading" /\ Alive
  /\ startup' = "up"
  /\ UNCHANGED <<ops, blocked, quit, recording, job, containers, down, refused, early,
                 made>>

\* "SessionScribe could not start": the application quits at once, with no shutdown.
StartupFails ==
  /\ startup \in {"initializing", "loading"}
  /\ startup' = "failed"
  /\ UNCHANGED <<ops, blocked, quit, recording, job, containers, down, refused, early,
                 made>>

----------------------------------------------------------------------------
(* Operations of the renderer: IpcOperationBarrier.run().                  *)

Pending == {o \in Ops : ops[o] # "none"}

\* An operation works, installs, or waits for the user in a native dialog.
Invoke(o, kind) ==
  /\ Registered /\ Alive /\ ~blocked
  /\ ops[o] = "none" /\ made.calls < MaxCalls
  /\ ops' = [ops EXCEPT ![o] = kind]
  /\ made' = [made EXCEPT !.calls = @ + 1]
  /\ UNCHANGED <<startup, blocked, quit, recording, job, containers, down, refused,
                 early>>

\* The user closes the dialog: the executable or the folder is known, or the file to
\* import, which is copied next.
DialogCloses(o) ==
  /\ Alive /\ ops[o] = "user"
  /\ ops' = [ops EXCEPT ![o] = "none"] \/ ops' = [ops EXCEPT ![o] = "work"]
  /\ UNCHANGED <<startup, blocked, quit, recording, job, containers, down, refused,
                 early, made>>

\* What an operation may have done when it ends: nothing that a quit must know, a
\* recording started or stopped, or a container started or stopped.
Ends(o) ==
  /\ Alive /\ ops[o] \in {"work", "install"}
  /\ ops' = [ops EXCEPT ![o] = "none"]
  /\ \/ UNCHANGED <<recording, containers>>
     \/ recording' \in {"none", "active"} /\ UNCHANGED containers
     \/ /\ \E c \in Managed \ down :
             containers' \in {containers \cup {c}, containers \ {c}}
        /\ UNCHANGED recording
  /\ UNCHANGED <<startup, blocked, quit, job, down, refused, early, made>>

----------------------------------------------------------------------------
(* The queue and the containers.                                           *)

JobBegins ==
  /\ Registered /\ Alive /\ ~job /\ "queue" \notin down
  /\ job' = TRUE
  /\ UNCHANGED <<startup, ops, blocked, quit, recording, containers, down, refused,
                 early, made>>

JobLeases(c) ==
  /\ Alive /\ job /\ c \notin down
  /\ containers' = containers \cup {c}
  /\ UNCHANGED <<startup, ops, blocked, quit, recording, job, down, refused, early, made>>

JobEnds ==
  /\ Alive /\ job
  /\ job' = FALSE
  /\ UNCHANGED <<startup, ops, blocked, quit, recording, containers, down, refused,
                 early, made>>

----------------------------------------------------------------------------
(* Quitting.                                                               *)

\* A variant with a bug: calls are still accepted while the pending ones are awaited.
QuitRequestedUnblocked ==
  /\ Alive /\ quit = "no" /\ made.quits < MaxQuits
  /\ made' = [made EXCEPT !.quits = @ + 1]
  /\ quit' = IF Registered THEN "drain" ELSE "ask"
  /\ early' = ~Registered
  /\ UNCHANGED <<startup, ops, blocked, recording, job, containers, down, refused>>

\* A window is closed, or the application asked to quit: the first request counts.  An
\* install is aborted and ends as any operation; without a router nothing is drained.
QuitRequested ==
  /\ Alive /\ quit = "no" /\ made.quits < MaxQuits
  /\ made' = [made EXCEPT !.quits = @ + 1]
  /\ quit' = IF Registered THEN "drain" ELSE "ask"
  /\ blocked' = Registered
  /\ ops' = [o \in Ops |-> IF ops[o] = "install" THEN "work" ELSE ops[o]]
  /\ early' = ~Registered
  /\ UNCHANGED <<startup, recording, job, containers, down, refused>>

\* blockAndWait(): also what joined while the barrier waited.
Drained ==
  /\ Alive /\ quit = "drain" /\ Pending = {}
  /\ quit' = "ask"
  /\ UNCHANGED <<startup, ops, blocked, recording, job, containers, down, refused,
                 early, made>>

\* The quit is given up: by the user, or because the recording could not be stopped.
GivesUp ==
  /\ quit' = "no" /\ blocked' = FALSE
  /\ UNCHANGED <<startup, ops, job, containers, down, refused, early, made>>

\* Of the recording the quit knows by the capture controller, if that was made.
Asks == Alive /\ quit = "ask" /\ recording = "active" /\ ~early

NothingToStop ==
  /\ Alive /\ quit = "ask" /\ ~Asks
  /\ quit' = IF early THEN "queue" ELSE "restore"
  /\ UNCHANGED <<startup, ops, blocked, recording, job, containers, down, refused,
                 early, made>>

UserCancels == Asks /\ GivesUp /\ UNCHANGED recording

UserLeavesIt ==
  /\ Asks
  /\ recording' = "left" /\ quit' = "queue"
  /\ UNCHANGED <<startup, ops, blocked, job, containers, down, refused, early, made>>

UserStops ==
  /\ Asks
  /\ quit' = "stop"
  /\ UNCHANGED <<startup, ops, blocked, recording, job, containers, down, refused,
                 early, made>>

\* stopRecordingBeforeQuit(): the recording is attached and queued, or the session
\* failed, and acknowledged.
Stopped ==
  /\ Alive /\ quit = "stop"
  /\ recording' = "none" /\ quit' = "restore"
  /\ UNCHANGED <<startup, ops, blocked, job, containers, down, refused, early, made>>

\* A variant with a bug: the renderer stays locked out.
StopFailsBlocked ==
  /\ Alive /\ quit = "stop"
  /\ quit' = "no"
  /\ UNCHANGED <<startup, ops, blocked, recording, job, containers, down, refused,
                 early, made>>

\* stop() throws, before or after OBS has stopped the recording.
StopFails ==
  /\ Alive /\ quit = "stop"
  /\ GivesUp
  /\ recording' \in {"active", "none"}

\* capture.disconnect(), whose failure is only logged.
Restored ==
  /\ Alive /\ quit = "restore"
  /\ quit' = "queue"
  /\ UNCHANGED <<startup, ops, blocked, recording, job, containers, down, refused,
                 early, made>>

\* The queue, if there is one, is told and waited for: what runs is aborted and unwinds.
ShutsQueue ==
  /\ Alive /\ quit = "queue" /\ Registered /\ "queue" \notin down
  /\ down' = down \cup {"queue"}
  /\ UNCHANGED <<startup, ops, blocked, quit, recording, job, containers, refused,
                 early, made>>

QueueIsDown ==
  /\ Alive /\ quit = "queue"
  /\ Registered => "queue" \in down /\ ~job
  /\ quit' = "whisper"
  /\ UNCHANGED <<startup, ops, blocked, recording, job, containers, down, refused,
                 early, made>>

\* shutdown() of a container's service: the container is stopped, unless Docker refuses,
\* which is swallowed, or the service was not made yet.
ShutsContainer(c) ==
  /\ Alive /\ quit = c
  /\ \/ containers' = containers \ {c} /\ UNCHANGED refused
     \/ /\ c \in containers
        /\ refused' = refused \cup {c}
        /\ UNCHANGED containers
  /\ UNCHANGED <<startup, ops, blocked, recording, job, early, made>>

ShutsWhisper ==
  /\ ShutsContainer("whisper")
  /\ quit' = "diarization" /\ down' = down \cup {"whisper"}

\* The last service, and finalizeQuit(): the router is disposed of, the database closed.
ShutsDiarization ==
  /\ ShutsContainer("diarization")
  /\ quit' = "done" /\ down' = down \cup {"diarization", "database"}

----------------------------------------------------------------------------

Init ==
  /\ startup = "initializing"
  /\ ops = [o \in Ops |-> "none"]
  /\ blocked = FALSE /\ quit = "no"
  /\ recording = "none" /\ job = FALSE
  /\ containers \in SUBSET Managed
  /\ down = {} /\ refused = {} /\ early = FALSE
  /\ made = [calls |-> 0, quits |-> 0]

OperationEnds == \E o \in Ops : DialogCloses(o) \/ Ends(o)

QuitStep ==
  \/ Drained \/ NothingToStop
  \/ UserCancels \/ UserLeavesIt \/ UserStops
  \/ Stopped \/ StopFails \/ Restored
  \/ ShutsQueue \/ QueueIsDown \/ ShutsWhisper \/ ShutsDiarization

Next ==
  \/ Initialized \/ Loaded \/ StartupFails
  \/ \E o \in Ops, kind \in {"work", "install", "user"} : Invoke(o, kind)
  \/ OperationEnds
  \/ JobBegins \/ JobEnds \/ \E c \in Managed : JobLeases(c)
  \/ QuitRequested \/ QuitStep

\* Operations end, the user answers the dialogs, a job ends or unwinds.
Fairness ==
  /\ WF_vars(OperationEnds) /\ WF_vars(QuitStep)
  /\ SF_vars(JobEnds)

Spec == Init /\ [][Next]_vars /\ Fairness

----------------------------------------------------------------------------
(* Properties.                                                             *)

\* A quit is all or nothing, unless it came before there was a router: when the database
\* is closed no operation of the renderer is in progress, no job runs, no container that
\* Docker would stop and no recording that the user did not leave running is left; and an
\* application that goes on running has its renderer admitted and every service.
QuitIsAllOrNothing ==
  /\ "database" \in down /\ ~early =>
       Pending = {} /\ ~job /\ containers \subseteq refused /\ recording # "active"
  /\ quit = "no" => ~blocked /\ down = {}

Quitting == quit # "no"
QuitOver == quit \in {"no", "done"} \/ startup = "failed"

\* A quit comes to its end or is given up, whatever was in progress when it began.
QuitEnds == Quitting ~> QuitOver
=============================================================================
