------------------------------- MODULE Notes -------------------------------
(***************************************************************************)
(* The transcript and the summary of one session in three places: the      *)
(* database of the main process, the details that App keeps, and the draft *)
(* of the editor that is open.  A document is its revision and the edits   *)
(* that it contains; requests are handled, and replies and events arrive,  *)
(* in the order in which they were sent.  Meanwhile jobs transcribe anew   *)
(* and generate summaries, one after the other.  Of another session there  *)
(* is only what can reach this one's view: a transcript of its own.        *)
(***************************************************************************)
EXTENDS Naturals, Sequences

CONSTANT Uses \* bound: the numbers of edits and renames, of jobs that are begun or retried,
              \* and of tabs and sessions that are opened, in one behaviour

VARIABLES
  transcript, \* the latest revision in the database
  summary,    \* the latest revision in the database; revision 0: none
  job,        \* the running job, and the transcript revision that it summarises
  waiting,    \* the jobs in the queue behind it
  calls,      \* requests on the way to the main process
  inbox,      \* replies and events on the way to the renderer
  selected,   \* this session, or the other one and whether its details have arrived
  details,    \* this session's SessionDetails in App, or NoDetails
  tab,        \* the open tab, with the draft of its editor
  saved,      \* history: edits that were saved since a job transcribed last
  blind,      \* history: an editor was opened while a save was on its way
  edits, jobs, opens

vars == <<transcript, summary, job, waiting, calls, inbox, selected, details, tab,
          saved, blind, edits, jobs, opens>>
database == <<transcript, summary>>
pipeline == <<job, waiting>>
history == <<saved, blind>>
counters == <<edits, jobs, opens>>

Documents ==
  [rev : Nat, from : Nat, edits : SUBSET Nat, byHand : BOOLEAN, own : BOOLEAN]
NoDocument == [rev |-> 0, from |-> 0, edits |-> {}, byHand |-> FALSE, own |-> TRUE]
Foreign == [NoDocument EXCEPT !.rev = 1, !.own = FALSE]
NoDetails == [t |-> NoDocument, s |-> NoDocument, stale |-> FALSE]
Loaded == details.t.rev # 0
Idle == [pc |-> "none", from |-> 0]

TypeOK ==
  /\ {transcript, summary} \subseteq Documents
  /\ job \in [pc : {"none", "running"}, from : Nat]
  /\ waiting \in Seq({"summary", "full"})
  /\ selected \in {"this", "opening", "other"}
  /\ details \in [t : Documents, s : Documents, stale : BOOLEAN]
  /\ tab \in [name : {"t", "s"}, draft : Documents, dirty : BOOLEAN, busy : BOOLEAN]
  /\ saved \subseteq Nat /\ blind \in BOOLEAN
  /\ {edits, jobs, opens} \subseteq Nat

----------------------------------------------------------------------------
(* The renderer.                                                           *)

Counted ==
  \E use \in Uses : edits' <= use.edits /\ jobs' <= use.jobs /\ opens' <= use.opens

Send(call) == calls' = Append(calls, call)

\* A request of the editor that is open: `opens` tells the editors apart.
Call(kind, document) == [kind |-> kind, doc |-> document, next |-> 0, by |-> opens]
Rename(edit) == Call("rename", [NoDocument EXCEPT !.edits = {edit}])

\* The editor of the tab, as it is when it is mounted.
Fresh(name, shown) ==
  [name |-> name, draft |-> IF name = "t" THEN shown.t ELSE shown.s,
   dirty |-> FALSE, busy |-> FALSE]

\* The effect of an editor resets its draft when it is given another document, and what
\* was fetched is always another one.
Shows(next) ==
  /\ details' = next
  /\ tab' = [tab EXCEPT !.draft = Fresh(tab.name, next).draft, !.dirty = FALSE]

Kinds(queue) == {queue[i].kind : i \in 1..Len(queue)}
Saving == Kinds(calls \o inbox) \cap {"save", "rename", "saveSummary"} # {}

\* Another tab: its editor is mounted anew, the other one and its draft are gone.
OpenTab(name) ==
  /\ Loaded /\ tab.name # name
  /\ opens' = opens + 1
  /\ tab' = Fresh(name, details)
  /\ blind' = (blind \/ Saving)
  /\ UNCHANGED <<database, pipeline, calls, inbox, selected, details, saved, edits, jobs>>
  /\ Counted

\* Another session is selected: the details are null until those of that one arrive.
Select(session, kind) ==
  /\ opens' = opens + 1
  /\ selected' = session
  /\ details' = NoDetails
  /\ tab' = Fresh("t", NoDetails)
  /\ Send(Call(kind, NoDocument))
  /\ UNCHANGED <<database, pipeline, inbox, history, edits, jobs>>
  /\ Counted

Leave == selected = "this" /\ Select("opening", "visit")
Return == selected # "this" /\ Select("this", "open")

\* Rename and merge in the other session with a dirty draft.  Only a request that follows
\* another one can be answered after the details of this session have arrived.
ChangeElsewhere ==
  /\ selected = "other" /\ ~tab.busy
  /\ edits' = edits + 1
  /\ Send([Call("elsewhere", NoDocument) EXCEPT !.next = edits'])
  /\ tab' = [tab EXCEPT !.busy = TRUE]
  /\ UNCHANGED <<database, pipeline, inbox, selected, details, history, jobs, opens>>
  /\ Counted

Edited ==
  /\ Loaded
  /\ edits' = edits + 1
  /\ tab' = [tab EXCEPT !.draft.edits = @ \cup {edits + 1}, !.dirty = TRUE]
  /\ UNCHANGED <<database, pipeline, calls, inbox, selected, details, history, jobs, opens>>
  /\ Counted

\* updateUtterance() and the fields of a summary: also while the editor is saving.
EditTranscript == tab.name = "t" /\ Edited
EditSummary == tab.name = "s" /\ tab.draft.rev # 0 /\ Edited

\* What Save and Reset need.
Unsaved(name) == Loaded /\ tab.name = name /\ tab.dirty /\ ~tab.busy

Reset ==
  /\ Unsaved("t")
  /\ tab' = Fresh("t", details)
  /\ UNCHANGED <<database, pipeline, calls, inbox, selected, details, history, counters>>

SaveTranscript ==
  /\ Unsaved("t")
  /\ Send(Call("save", tab.draft))
  /\ tab' = [tab EXCEPT !.busy = TRUE]
  /\ UNCHANGED <<database, pipeline, inbox, selected, details, history, counters>>

\* Rename and merge: a dirty draft is saved first, and when that was answered the other
\* request follows.
ChangeSpeakers ==
  /\ Loaded /\ tab.name = "t" /\ ~tab.busy
  /\ edits' = edits + 1
  /\ Send(IF tab.dirty THEN [Call("save", tab.draft) EXCEPT !.next = edits']
                       ELSE Rename(edits'))
  /\ tab' = [tab EXCEPT !.busy = TRUE]
  /\ UNCHANGED <<database, pipeline, inbox, selected, details, history, jobs, opens>>
  /\ Counted

SaveSummary ==
  /\ Unsaved("s")
  /\ Send(Call("saveSummary", [tab.draft EXCEPT !.byHand = TRUE]))
  /\ tab' = [tab EXCEPT !.busy = TRUE]
  /\ UNCHANGED <<database, pipeline, inbox, selected, details, history, counters>>

Generate ==
  /\ Loaded /\ tab.name = "s" /\ ~tab.busy
  /\ jobs' = jobs + 1
  /\ Send(Call("generate", NoDocument))
  /\ tab' = [tab EXCEPT !.busy = TRUE]
  /\ UNCHANGED <<database, pipeline, inbox, selected, details, history, edits, opens>>
  /\ Counted

\* A full job that had failed, from the panel of the jobs: no editor waits for the answer.
Retry ==
  /\ Loaded
  /\ jobs' = jobs + 1
  /\ Send(Call("retry", NoDocument))
  /\ UNCHANGED <<database, pipeline, inbox, selected, details, tab, history, edits, opens>>
  /\ Counted

----------------------------------------------------------------------------
(* The main process: SessionService and ProcessingController.              *)

Reply(call, document) == inbox' = Append(inbox, [call EXCEPT !.doc = document])

Handled(kind) == calls # <<>> /\ Head(calls).kind = kind /\ calls' = Tail(calls)

\* The next revision, whichever one the document was made from.
Persist(document) ==
  /\ transcript' = [document EXCEPT !.rev = transcript.rev + 1]
  /\ saved' = saved \cup document.edits

\* A transcript of another session is refused.
HandleSave ==
  /\ Handled("save") /\ Head(calls).doc.own
  /\ Persist(Head(calls).doc)
  /\ Reply(Head(calls), transcript')
  /\ UNCHANGED <<summary, pipeline, selected, details, tab, blind, counters>>

\* renameSpeaker(), mergeSpeakers(): they change the latest revision.
HandleRename ==
  /\ Handled("rename")
  /\ Persist([transcript EXCEPT !.edits = @ \cup Head(calls).doc.edits])
  /\ Reply(Head(calls), transcript')
  /\ UNCHANGED <<summary, pipeline, selected, details, tab, blind, counters>>

PersistSummary(document) == summary' = [document EXCEPT !.rev = summary.rev + 1]

HandleSaveSummary ==
  /\ Handled("saveSummary")
  /\ PersistSummary(Head(calls).doc)
  /\ Reply(Head(calls), summary')
  /\ UNCHANGED <<transcript, pipeline, selected, details, tab, history, counters>>

\* The schema, the session, the speaker or the provider is refused.
Refuse ==
  /\ \E kind \in {"save", "rename", "saveSummary", "generate", "elsewhere"} : Handled(kind)
  /\ inbox' = Append(inbox, [Call("refused", NoDocument) EXCEPT !.by = Head(calls).by])
  /\ UNCHANGED <<database, pipeline, selected, details, tab, history, counters>>

HandleGenerate ==
  /\ Handled("generate")
  /\ waiting' = Append(waiting, "summary")
  /\ Reply(Head(calls), NoDocument)
  /\ UNCHANGED <<database, job, selected, details, tab, history, counters>>

HandleRetry ==
  /\ Handled("retry")
  /\ waiting' = Append(waiting, "full")
  /\ UNCHANGED <<database, job, inbox, selected, details, tab, history, counters>>

\* get(): the latest documents, and whether the summary is stale.
Stored ==
  [t |-> transcript, s |-> summary,
   stale |-> summary.rev # 0 /\ summary.from # transcript.rev]

HandleGet ==
  /\ \E kind \in {"open", "refresh"} : Handled(kind)
  /\ Reply(Head(calls), Stored)
  /\ UNCHANGED <<database, pipeline, selected, details, tab, history, counters>>

HandleElsewhere ==
  /\ \E kind \in {"visit", "elsewhere"} : Handled(kind)
  /\ Reply(Head(calls), Foreign)
  /\ UNCHANGED <<database, pipeline, selected, details, tab, history, counters>>

\* The jobs run one after the other.
Begins(kinds) ==
  /\ job = Idle /\ waiting # <<>> /\ Head(waiting) \in kinds
  /\ waiting' = Tail(waiting)

\* runSummary(), and runFull() with a transcript that it may use again.
JobReads ==
  /\ Begins({"summary", "full"})
  /\ job' = [pc |-> "running", from |-> transcript.rev]
  /\ UNCHANGED <<database, calls, inbox, selected, details, tab, history, counters>>

\* runFull() transcribes anew: the transcript that it saves has none of the edits.
JobTranscribes ==
  /\ Begins({"full"})
  /\ transcript' = [NoDocument EXCEPT !.rev = transcript.rev + 1]
  /\ saved' = {}
  /\ job' = [pc |-> "running", from |-> transcript'.rev]
  /\ UNCHANGED <<summary, calls, inbox, selected, details, tab, blind, counters>>

\* The job succeeds or fails; its last update is emitted.
JobEnds ==
  /\ job.pc = "running"
  /\ job' = Idle
  /\ \/ PersistSummary([NoDocument EXCEPT !.from = job.from])
     \/ UNCHANGED summary
  /\ inbox' = Append(inbox, Call("ended", NoDocument))
  /\ UNCHANGED <<transcript, waiting, calls, selected, details, tab, history, counters>>

----------------------------------------------------------------------------
(* Replies and events in the renderer.                                     *)

Arrives(kinds) == inbox # <<>> /\ Head(inbox).kind \in kinds /\ inbox' = Tail(inbox)

\* The editor that asked goes on with a rename, or is not busy any more.
Renames == {"save", "rename", "elsewhere"}
Continues(answer) ==
  IF answer.next = 0 THEN UNCHANGED calls
  ELSE Send([(IF answer.kind = "elsewhere" THEN Call("elsewhere", NoDocument)
                                           ELSE Rename(answer.next))
               EXCEPT !.by = answer.by])
Busy(answer) == IF answer.by = opens THEN answer.next # 0 ELSE tab.busy

\* Whichever editor is open shows the document, whatever was typed meanwhile.
Receives(name, answer) ==
  tab' = IF Loaded /\ tab.name = name
         THEN [tab EXCEPT !.draft = answer.doc, !.dirty = FALSE, !.busy = Busy(answer)]
         ELSE [tab EXCEPT !.busy = Busy(answer)]

\* A variant with a bug: the editor keeps its draft.
TranscriptSavedInDetailsOnly ==
  /\ Arrives(Renames)
  /\ details' = IF Loaded THEN [details EXCEPT !.t = Head(inbox).doc, !.stale = TRUE]
                          ELSE details
  /\ tab' = [tab EXCEPT !.busy = Busy(Head(inbox))]
  /\ Continues(Head(inbox))
  /\ UNCHANGED <<database, pipeline, selected, history, counters>>

\* A variant with a bug: the summary is not marked as out of date.
TranscriptSavedNotStale ==
  /\ Arrives(Renames)
  /\ details' = IF Loaded THEN [details EXCEPT !.t = Head(inbox).doc] ELSE details
  /\ Receives("t", Head(inbox))
  /\ Continues(Head(inbox))
  /\ UNCHANGED <<database, pipeline, selected, history, counters>>

\* onSaveTranscript, onRenameSpeaker, onMergeSpeakers: the details that are current get the
\* transcript, of whichever session it is.
TranscriptSaved ==
  /\ Arrives(Renames)
  /\ details' = IF Loaded THEN [details EXCEPT !.t = Head(inbox).doc, !.stale = TRUE]
                          ELSE details
  /\ Receives("t", Head(inbox))
  /\ Continues(Head(inbox))
  /\ UNCHANGED <<database, pipeline, selected, history, counters>>

\* onSaveSummary: the summary is shown as up to date.
SummarySaved ==
  /\ Arrives({"saveSummary"})
  /\ details' = IF Loaded THEN [details EXCEPT !.s = Head(inbox).doc, !.stale = FALSE]
                          ELSE details
  /\ Receives("s", Head(inbox))
  /\ UNCHANGED <<database, pipeline, calls, selected, history, counters>>

\* A job was queued, or a request refused: the draft stays, and no rename follows.
Answered ==
  /\ Arrives({"generate", "refused"})
  /\ tab' = [tab EXCEPT !.busy = Busy(Head(inbox))]
  /\ UNCHANGED <<database, pipeline, calls, selected, details, history, counters>>

\* A job that has ended: the details are fetched again.
JobEnded ==
  /\ Arrives({"ended"})
  /\ Send(Call("refresh", NoDocument))
  /\ UNCHANGED <<database, pipeline, selected, details, tab, history, counters>>

Refreshed ==
  /\ Arrives({"refresh"})
  /\ IF Loaded THEN Shows(Head(inbox).doc) ELSE UNCHANGED <<details, tab>>
  /\ UNCHANGED <<database, pipeline, calls, selected, history, counters>>

\* Only the details of the session that was selected last are shown.
Last(kind) == kind \notin Kinds(calls \o Tail(inbox))

Opened ==
  /\ Arrives({"open"})
  /\ IF selected = "this" /\ ~Loaded /\ Last("open")
     THEN Shows(Head(inbox).doc) ELSE UNCHANGED <<details, tab>>
  /\ blind' = (blind \/ Saving)
  /\ UNCHANGED <<database, pipeline, calls, selected, saved, counters>>

Visited ==
  /\ Arrives({"visit"})
  /\ selected' = IF selected = "opening" /\ Last("visit") THEN "other" ELSE selected
  /\ UNCHANGED <<database, pipeline, calls, details, tab, history, counters>>

----------------------------------------------------------------------------

Init ==
  /\ transcript = [NoDocument EXCEPT !.rev = 1]
  /\ summary = NoDocument
  /\ job = Idle /\ waiting = <<>>
  /\ calls = <<>> /\ inbox = <<>>
  /\ selected = "this"
  /\ details = [NoDetails EXCEPT !.t = transcript]
  /\ tab = Fresh("t", details)
  /\ saved = {} /\ blind = FALSE
  /\ edits = 0 /\ jobs = 0 /\ opens = 0

Renderer ==
  \/ \E name \in {"t", "s"} : OpenTab(name)
  \/ Leave \/ Return \/ ChangeElsewhere
  \/ EditTranscript \/ EditSummary \/ Reset \/ SaveTranscript \/ ChangeSpeakers
  \/ SaveSummary \/ Generate \/ Retry
Main ==
  \/ HandleSave \/ HandleRename \/ HandleSaveSummary \/ HandleGenerate \/ HandleRetry
  \/ Refuse \/ HandleGet \/ HandleElsewhere
  \/ JobReads \/ JobTranscribes \/ JobEnds
Arrive ==
  TranscriptSaved \/ SummarySaved \/ Answered \/ JobEnded \/ Refreshed \/ Opened \/ Visited

Next == Renderer \/ Main \/ Arrive

Spec == Init /\ [][Next]_vars

----------------------------------------------------------------------------

Quiet == calls = <<>> /\ inbox = <<>> /\ job = Idle /\ waiting = <<>>

\* "This view updates automatically" (SessionWorkspace.tsx:249), "Summary is out of date"
\* (SummaryEditor.tsx:175): when everything has arrived, the view shows the latest
\* documents, in whatever order saves, renames, jobs and openings went, and a summary of
\* an older transcript is shown as out of date, unless it was saved by hand.  The
\* exception: a rename in the other session that followed the save of a draft there and
\* was answered only here; App.tsx:405 does not ask which session's details it changes.
ViewIsCurrent ==
  Quiet /\ Loaded =>
    /\ details.t = transcript \/ ~details.t.own
    /\ details.s = summary
    /\ Stored.stale => details.stale \/ summary.byHand

\* No edit of the transcript that was saved is lost to a later save, although a save
\* replaces the whole document and names no revision that it was made from.  The
\* exceptions: an editor that was opened before an earlier save was answered, and a job
\* that transcribes anew, which is what it is for.
SavedEditsSurvive == blind \/ saved \subseteq transcript.edits
=============================================================================
