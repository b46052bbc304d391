---------------------------- MODULE JobLifecycle ----------------------------
(***************************************************************************)
(* What the processing queue promises about its jobs, with none of the     *)
(* mechanism: a job is submitted once, is worked on by at most one worker  *)
(* at a time, ends in one of three outcomes, and leaves the outcomes       *)
(* failed and cancelled only when it is asked for again.  A success is     *)
(* final.  The job statuses are those of jobStatusSchema; "new" and "gone" *)
(* stand for a row that is not there yet and one that was deleted with its *)
(* session.                                                                *)
(***************************************************************************)
EXTENDS Naturals

CONSTANT JobIds

VARIABLE phase

Phases ==
  {"new", "queued", "running", "succeeded", "failed", "cancelled", "gone"}

Unfinished == {j \in JobIds : phase[j] \in {"queued", "running"}}

LifecycleInit == phase = [j \in JobIds |-> "new"]

Become(j, from, to) ==
  /\ phase[j] \in from
  /\ phase' = [phase EXCEPT ![j] = to]

Submit(j)   == Become(j, {"new"}, "queued")
Complete(j) == Become(j, {"running"}, "succeeded")
GiveUp(j)   == Become(j, {"running"}, "failed")
AskAgain(j) == Become(j, {"failed", "cancelled"}, "queued")
PutBack(j)  == Become(j, {"running"}, "queued")

\* Work begins on a queued job, and only when no other job is being worked on.
Begin(j) ==
  /\ \A k \in JobIds : phase[k] # "running"
  /\ Become(j, {"queued"}, "running")

\* Unfinished jobs are cancelled, several at a time when a session is deleted.
CancelAll(S) ==
  /\ S \subseteq Unfinished
  /\ phase' = [j \in JobIds |-> IF j \in S THEN "cancelled" ELSE phase[j]]

\* A session is deleted, and its jobs with it.
Discard(S) ==
  /\ \A j \in S : phase[j] # "new"
  /\ phase' = [j \in JobIds |-> IF j \in S THEN "gone" ELSE phase[j]]

LifecycleNext ==
  \/ \E j \in JobIds : \/ Submit(j) \/ Begin(j) \/ Complete(j)
                       \/ GiveUp(j) \/ AskAgain(j) \/ PutBack(j)
  \/ \E S \in SUBSET JobIds : CancelAll(S) \/ Discard(S)

LifecycleSpec == LifecycleInit /\ [][LifecycleNext]_phase
=============================================================================
