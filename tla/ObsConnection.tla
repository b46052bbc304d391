--------------------------- MODULE ObsConnection ---------------------------
(***************************************************************************)
(* Connecting to OBS: the dialog of the renderer, the generations by which *)
(* the IPC router tells an attempt that it was cancelled while it read or  *)
(* stored the password, and LaunchableObsCaptureController, which runs one *)
(* attempt at a time, starts OBS when it is not there and tries again      *)
(* until its deadline.  A connection is known by the attempt that made it. *)
(***************************************************************************)
EXTENDS Naturals

CONSTANT MaxAttempts  \* bound: connects and disconnects of the user

VARIABLES
  generation, \* captureConnectGeneration
  attempts,   \* the attempts made, in order
  active,     \* activeConnect: the attempt that the controller runs, or 0
  link,       \* the attempt whose connection to OBS is open, or 0
  dialog,     \* busy, the attempt it waits for (attemptRef), and the other calls it made
  made        \* attempts made, and disconnects

vars == <<generation, attempts, active, link, dialog, made>>

Attempts == 1..MaxAttempts
Running == {"password", "connecting", "locating", "reading", "launching", "waiting",
            "provisioning", "saving", "undoing"}
Ended == {"connected", "failed", "refused", "cancelled", "superseded"}
NoAttempt == [pc |-> "none", generation |-> 0, aborted |-> FALSE, launched |-> FALSE,
              late |-> FALSE]
Idle == [busy |-> FALSE, attempt |-> 0, cancelling |-> FALSE, disconnecting |-> FALSE]

TypeOK ==
  /\ generation \in 0..(2 * MaxAttempts)
  /\ attempts \in [Attempts -> [pc : Running \cup Ended \cup {"none"},
                                generation : 0..(2 * MaxAttempts),
                                aborted : BOOLEAN, launched : BOOLEAN, late : BOOLEAN]]
  /\ {active, link} \subseteq 0..MaxAttempts
  /\ dialog \in [busy : BOOLEAN, attempt : 0..MaxAttempts, cancelling : BOOLEAN,
                 disconnecting : BOOLEAN]
  /\ made \in 0..MaxAttempts

At(i, pc) == attempts[i].pc = pc
Go(i, pc) ==
  attempts' = [attempts EXCEPT ![i] =
                 IF pc \in Ended THEN [NoAttempt EXCEPT !.pc = pc] ELSE [@ EXCEPT !.pc = pc]]
Superseded(i) == attempts[i].generation # generation

----------------------------------------------------------------------------
(* The dialog.  It shows Connect, or Disconnect, and while it is busy only *)
(* Cancel, whatever it is busy with.                                       *)

OffersConnect == ~dialog.busy /\ link = 0
OffersDisconnect == ~dialog.busy /\ link # 0

Connect ==
  /\ OffersConnect /\ made < MaxAttempts
  /\ made' = made + 1
  /\ generation' = generation + 1
  /\ attempts' = [attempts EXCEPT ![made + 1] =
                    [NoAttempt EXCEPT !.pc = "password", !.generation = generation + 1]]
  /\ dialog' = [dialog EXCEPT !.busy = TRUE, !.attempt = made + 1]
  /\ UNCHANGED <<active, link>>

\* capture.cancelConnect: the generation moves on, and an attempt that the controller
\* runs is aborted and its socket closed.
Cancel ==
  /\ dialog.busy /\ ~dialog.cancelling
  /\ generation < 2 * MaxAttempts
  /\ generation' = generation + 1
  /\ IF active = 0 THEN UNCHANGED <<attempts, link>>
     ELSE /\ attempts' = [attempts EXCEPT ![active].aborted = TRUE]
          /\ link' = 0
  /\ dialog' = [dialog EXCEPT !.attempt = 0, !.cancelling = TRUE]
  /\ UNCHANGED <<active, made>>

CancelReturns ==
  /\ dialog.cancelling
  /\ dialog' = [dialog EXCEPT !.busy = FALSE, !.cancelling = FALSE]
  /\ UNCHANGED <<generation, attempts, active, link, made>>

\* onConnect settles; the dialog ignores it if the attempt is not the latest.
ConnectReturns(i) ==
  /\ attempts[i].pc \in Ended /\ dialog.attempt = i
  /\ dialog' = [dialog EXCEPT !.busy = FALSE, !.attempt = 0]
  /\ UNCHANGED <<generation, attempts, active, link, made>>

Disconnect ==
  /\ OffersDisconnect /\ made < MaxAttempts /\ ~dialog.disconnecting
  /\ made' = made + 1
  /\ dialog' = [dialog EXCEPT !.busy = TRUE, !.disconnecting = TRUE]
  /\ UNCHANGED <<generation, attempts, active, link>>

\* The previous resources are restored, as far as that goes, and the socket is closed;
\* while a session is being recorded that is refused.
DisconnectReturns ==
  /\ dialog.disconnecting
  /\ link' \in {0, link}
  /\ dialog' = [dialog EXCEPT !.busy = FALSE, !.disconnecting = FALSE]
  /\ UNCHANGED <<generation, attempts, active, made>>

----------------------------------------------------------------------------
(* capture.connect in the main process.                                    *)

Leaves(i, pc) == Go(i, pc) /\ active' = IF active = i THEN 0 ELSE active

\* The stored password may be unreadable, and the controller refuses an attempt while it
\* runs another one.
PasswordRead(i) ==
  /\ At(i, "password")
  /\ \/ Go(i, "failed") /\ UNCHANGED active
     \/ Superseded(i) /\ Go(i, "cancelled") /\ UNCHANGED active
     \/ ~Superseded(i) /\ active # 0 /\ Go(i, "refused") /\ UNCHANGED active
     \/ ~Superseded(i) /\ active = 0 /\ Go(i, "connecting") /\ active' = i
  /\ UNCHANGED <<generation, link, dialog, made>>

\* gateway.connect()
Linked(i) ==
  /\ At(i, "connecting") /\ ~attempts[i].aborted
  /\ link' = i
  /\ Go(i, "provisioning")
  /\ UNCHANGED <<generation, active, dialog, made>>

\* OBS is launched once.
TriesOn(i) ==
  /\ Go(i, IF attempts[i].launched THEN "waiting" ELSE "locating")
  /\ UNCHANGED active

\* OBS does not answer.
Unavailable(i) ==
  /\ At(i, "connecting") /\ ~attempts[i].aborted
  /\ TriesOn(i)
  /\ UNCHANGED <<generation, link, dialog, made>>

\* The executable is looked for; whether there is one matters after the settings.
Located(i) ==
  /\ At(i, "locating") /\ ~attempts[i].aborted
  /\ Go(i, "reading")
  /\ UNCHANGED <<generation, active, link, dialog, made>>

\* The settings of its server, if they can be read, must fit, and OBS be installed.
SettingsRead(i) ==
  /\ At(i, "reading") /\ ~attempts[i].aborted
  /\ (Go(i, "launching") /\ UNCHANGED active) \/ Leaves(i, "failed")
  /\ UNCHANGED <<generation, link, dialog, made>>

Launched(i) ==
  /\ At(i, "launching") /\ ~attempts[i].aborted
  /\ \/ /\ attempts' = [attempts EXCEPT ![i].pc = "waiting", ![i].launched = TRUE]
        /\ UNCHANGED active
     \/ Leaves(i, "failed")
  /\ UNCHANGED <<generation, link, dialog, made>>

\* A variant with a bug: the deadline is not looked at.
RetriesForever(i) ==
  /\ At(i, "waiting") /\ ~attempts[i].aborted
  /\ Go(i, "connecting")
  /\ UNCHANGED <<generation, active, link, dialog, made>>

Retries(i) ==
  /\ At(i, "waiting") /\ ~attempts[i].aborted
  /\ IF attempts[i].late THEN Leaves(i, "failed") ELSE Go(i, "connecting") /\ UNCHANGED active
  /\ UNCHANGED <<generation, link, dialog, made>>

DeadlinePasses(i) ==
  /\ attempts[i].launched /\ ~attempts[i].late /\ active = i
  /\ attempts' = [attempts EXCEPT ![i].late = TRUE]
  /\ UNCHANGED <<generation, active, link, dialog, made>>

\* A wrong password, an unsupported OBS.
Rejected(i) ==
  /\ At(i, "connecting") /\ ~attempts[i].aborted
  /\ Leaves(i, "failed")
  /\ UNCHANGED <<generation, link, dialog, made>>

\* A request fails while the resources are provisioned.  The connection may be lost; a
\* request that was given up because of that is a reason to try again.
ProvisionFails(i) ==
  /\ At(i, "provisioning") /\ ~attempts[i].aborted
  /\ Leaves(i, "failed") \/ (link = 0 /\ TriesOn(i))
  /\ UNCHANGED <<generation, link, dialog, made>>

\* A variant with a bug: recover() and provisionBase() go on after the abort.
AbortedLate(i) ==
  /\ attempts[i].aborted /\ active = i
  /\ Leaves(i, "cancelled")
  /\ link' = IF At(i, "connecting") THEN i ELSE link
  /\ UNCHANGED <<generation, dialog, made>>

\* Every await of the attempt looks at the signal, and gateway.connect() closes what it
\* has opened.
Aborted(i) ==
  /\ attempts[i].aborted /\ active = i
  /\ Leaves(i, "cancelled")
  /\ UNCHANGED <<generation, link, dialog, made>>

\* The router reports a superseded attempt as cancelled and calls cancelConnect(), which
\* finds no attempt any more and does nothing.  The password may have to be stored.
Provisioned(i) ==
  /\ At(i, "provisioning") /\ ~attempts[i].aborted /\ link = i
  /\ IF Superseded(i) THEN Leaves(i, "superseded")
     ELSE \E next \in {"saving", "connected"} : Leaves(i, next)
  /\ UNCHANGED <<generation, link, dialog, made>>

\* A variant with a bug: the connection of the cancelled attempt is not closed.
SavedUndoesNothing(i) ==
  /\ At(i, "saving")
  /\ \/ Go(i, IF Superseded(i) THEN "cancelled" ELSE "connected")
     \/ Go(i, "failed")
  /\ UNCHANGED <<generation, active, link, dialog, made>>

Saved(i) ==
  /\ At(i, "saving")
  /\ \/ Go(i, IF Superseded(i) THEN "undoing" ELSE "connected")
     \/ Go(i, "failed")
  /\ UNCHANGED <<generation, active, link, dialog, made>>

\* capture.disconnect(), whichever connection is open by then; the refusal while a session
\* is being recorded is what the attempt fails with.
Undone(i) ==
  /\ At(i, "undoing")
  /\ \/ link' = 0 /\ Go(i, "cancelled")
     \/ Go(i, "failed") /\ UNCHANGED link
  /\ UNCHANGED <<generation, active, dialog, made>>

ConnectionLost ==
  /\ link # 0
  /\ link' = 0
  /\ UNCHANGED <<generation, attempts, active, dialog, made>>

----------------------------------------------------------------------------

Init ==
  /\ generation = 0
  /\ attempts = [i \in Attempts |-> NoAttempt]
  /\ active = 0
  /\ link = 0
  /\ dialog = Idle
  /\ made = 0

Step(i) ==
  PasswordRead(i) \/ Linked(i) \/ Unavailable(i) \/ Rejected(i) \/ Located(i)
    \/ SettingsRead(i) \/ Launched(i) \/ Retries(i) \/ Provisioned(i) \/ ProvisionFails(i)
    \/ Aborted(i) \/ Saved(i) \/ Undone(i)

Next ==
  \/ Connect \/ Cancel \/ CancelReturns \/ Disconnect \/ DisconnectReturns
  \/ ConnectionLost
  \/ \E i \in Attempts : Step(i) \/ DeadlinePasses(i) \/ ConnectReturns(i)

\* Requests have timeouts, promises settle, and time passes.
Fairness ==
  /\ WF_vars(CancelReturns) /\ WF_vars(DisconnectReturns)
  /\ \A i \in Attempts :
       WF_vars(Step(i)) /\ WF_vars(DeadlinePasses(i)) /\ WF_vars(ConnectReturns(i))

Spec == Init /\ [][Next]_vars /\ Fairness

----------------------------------------------------------------------------

\* An attempt that was told that it was cancelled has not left OBS connected, whether the
\* cancel came while it ran, while it read the password or while it stored it.  (One that
\* another attempt superseded while it ran does: see Provisioned.)
CancelledIsNotConnected == link # 0 => ~At(link, "cancelled")

Asked == dialog.busy

\* The dialog does not wait forever, although an attempt launches OBS, retries until its
\* deadline, is cancelled or loses the connection at any point.
DialogAnswers == Asked ~> ~Asked
=============================================================================
