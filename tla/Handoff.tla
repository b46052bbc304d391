------------------------------- MODULE Handoff -------------------------------
(***************************************************************************)
(* What the application promises about a recording, with none of the       *)
(* commands, recoveries and crashes: at most one recording is pending, it  *)
(* is given to its session and queued for processing at most once and only *)
(* while it is pending, and it stops being pending only when its job is    *)
(* there or the session is shown as one that waits for nothing.            *)
(***************************************************************************)
EXTENDS Naturals

CONSTANTS
  Sessions, \* session ids
  NoSession \* no recording is pending

VARIABLES
  pending, \* the session of the recording that is pending
  held,    \* the sessions that have their recording
  jobs,    \* jobs created for each session
  shown    \* "closed", "open" (what becomes of the recording is due) or "deleted"

Init ==
  /\ pending = NoSession
  /\ held = {}
  /\ jobs = [s \in Sessions |-> 0]
  /\ shown = [s \in Sessions |-> "closed"]

\* A session is shown as open only while its recording is pending; a deleted one
\* is not shown again.
Shows ==
  \E view \in [Sessions -> {"closed", "open", "deleted"}] :
    /\ \A s \in Sessions : view[s] # shown[s] =>
         /\ "deleted" \notin {view[s], shown[s]}
         /\ view[s] = "open" => pending = s
    /\ shown' = view

\* A recording begins when no other is pending; one that was given up comes back when
\* it was being recovered then.
Begin(s) ==
  /\ pending = NoSession
  /\ pending' = s
  /\ UNCHANGED <<held, jobs, shown>>

\* A recording is given to its session, with its job or without: a job that could
\* not be queued is queued later, one that exists is not queued again.
HandOff(s) ==
  /\ pending = s
  /\ shown[s] # "deleted"
  /\ held' = held \cup {s}
  /\ \/ UNCHANGED jobs
     \/ jobs[s] = 0 /\ jobs' = [jobs EXCEPT ![s] = 1]
  /\ Shows
  /\ UNCHANGED pending

\* A recording is given up when its job is there or nothing is due.
GiveUp(s) ==
  /\ pending = s
  /\ shown[s] = "open" => jobs[s] > 0
  /\ pending' = NoSession
  /\ UNCHANGED <<held, jobs, shown>>

\* A session is deleted with what it has.
Discard(s) ==
  /\ held' = held \ {s}
  /\ jobs' = [jobs EXCEPT ![s] = 0]
  /\ shown' = [shown EXCEPT ![s] = "deleted"]
  /\ UNCHANGED pending

Next ==
  \/ \E s \in Sessions : Begin(s) \/ HandOff(s) \/ GiveUp(s) \/ Discard(s)
  \/ Shows /\ UNCHANGED <<pending, held, jobs>>

Spec == Init /\ [][Next]_<<pending, held, jobs, shown>>
=============================================================================
