--------------------------- MODULE SummaryEngine ---------------------------
(***************************************************************************)
(* createGroundedSummary(): the transcript is cut into chunks, two workers *)
(* ask the model about them (and once more, with the issue, if the answer  *)
(* is not valid), and the drafts become one summary: those of a meeting    *)
(* are reduced by the model, group by group, until one is left; those of a *)
(* lecture are collected and get an overview.                              *)
(*                                                                         *)
(* A draft is the utterances that it cites and the titles of its chapters. *)
(***************************************************************************)
EXTENDS Integers, Sequences, SequencesExt, FiniteSetsExt

CONSTANTS
  Lines,  \* the lines of the transcript to try: sequences of lengths, one per utterance
  Budget, \* the characters of a chunk
  Tags,   \* the characters of a line that are not its text
  Floor,  \* the characters of text that a piece of a line may have in any case
  Titles, \* titles of chapters
  MaxChapters \* bound: chapters in the draft of a segment

VARIABLES
  mode,    \* "meeting" or "lecture"
  phase,   \* "none", a round of requests, "drafted", "done" or "failed"
  said,    \* the utterances of the transcript
  inputs,  \* the round: for every request, the utterances that its answer may cite
  drafts,  \* the results of the round by request, or NoDraft
  next,    \* nextIndex of mapWithConcurrency()
  workers, \* what each worker does, and for which request
  chapters,\* the chapters of a lecture, each with the segments that it comes from
  aborted, \* context.signal
  accepted \* history: by chunk, the draft that was accepted of it, with what it cites of it

vars == <<mode, phase, said, inputs, drafts, next, workers, chapters, aborted, accepted>>

Workers == 1..2
Rounds == {"collect", "reduce", "overview"}
NoDraft == [cites |-> {-1}, titles |-> <<>>]
Idle == [pc |-> "idle", at |-> 0]

----------------------------------------------------------------------------
(* chunkLines()                                                            *)

\* splitLongLine(): pieces of one utterance, each within its tags.
Split(line) ==
  LET body == line.len - Tags
      room == Max({Floor, Budget - Tags})
      pieces == (body + room - 1) \div room
  IN IF line.len <= Budget THEN <<line>>
     ELSE [i \in 1..pieces |->
             [line EXCEPT !.len = Tags + (IF i < pieces THEN room
                                             ELSE body - (i - 1) * room)]]

Pieces(lengths) ==
  FlattenSeq([i \in 1..Len(lengths) |-> Split([id |-> i, len |-> lengths[i]])])

\* A chunk: its length and the utterances in it.
AddPiece(chunks, piece) ==
  IF chunks = <<>> \/ Last(chunks).len + piece.len + 1 > Budget
  THEN Append(chunks, [len |-> piece.len, ids |-> {piece.id}])
  ELSE [chunks EXCEPT ![Len(chunks)] =
          [len |-> @.len + piece.len + 1, ids |-> @.ids \cup {piece.id}]]

Chunks(lengths) ==
  LET pieces == Pieces(lengths)
      upTo[n \in 0..Len(pieces)] ==
        IF n = 0 THEN <<>> ELSE AddPiece(upTo[n - 1], pieces[n])
  IN upTo[Len(pieces)]

Round(name, allowed) ==
  /\ phase' = name
  /\ inputs' = allowed
  /\ drafts' = [i \in 1..Len(allowed) |-> NoDraft]
  /\ next' = 1
  /\ workers' = [w \in Workers |-> IF w <= Len(allowed) THEN Idle
                                   ELSE [Idle EXCEPT !.pc = "stopped"]]

\* The request is refused - cancelled, another session's transcript, a revision that is
\* none, text but no utterances - or begun; without utterances it needs no model.
Begin ==
  /\ phase = "none"
  /\ \E lengths \in Lines :
       LET chunks == Chunks(lengths)
       IN /\ said' = 1..Len(lengths)
          /\ \/ ~aborted /\ chunks # <<>>
                /\ Round("collect", [i \in 1..Len(chunks) |-> chunks[i].ids])
             \/ /\ phase' \in {"failed"} \cup (IF aborted \/ chunks # <<>> THEN {} ELSE {"drafted"})
                /\ UNCHANGED <<inputs, drafts, next, workers>>
  /\ UNCHANGED <<mode, chapters, aborted, accepted>>

----------------------------------------------------------------------------
(* mapWithConcurrency() and generateValidated()                            *)

\* A worker takes the next request.  Nothing tells it that the other one has failed.
Takes(w) ==
  /\ workers[w].pc = "idle"
  /\ IF next <= Len(inputs)
     THEN /\ workers' = [workers EXCEPT ![w] = [pc |-> "first", at |-> next]]
          /\ next' = next + 1
     ELSE /\ workers' = [workers EXCEPT ![w].pc = "stopped"]
          /\ UNCHANGED next
  /\ UNCHANGED <<mode, phase, said, inputs, drafts, chapters, aborted, accepted>>

Answers(allowed) ==
  CASE mode = "meeting" -> [cites : SUBSET UNION Range(inputs), titles : {<<>>}]
    [] mode = "lecture" /\ phase = "overview" -> {[cites |-> {}, titles |-> <<>>]}
    [] OTHER -> [cites : {allowed}, titles : UNION {[1..n -> Titles] : n \in 0..MaxChapters}]

\* validateEvidence(); an answer that does not parse is NoDraft.
Valid(draft, allowed) == draft.cites \subseteq allowed

\* A variant with a bug: a repaired answer is not validated.
ValidOrRepaired(w, draft) ==
  \/ Valid(draft, inputs[workers[w].at])
  \/ workers[w].pc = "repair" /\ draft # NoDraft

Accepts(w, draft) == Valid(draft, inputs[workers[w].at])

\* A variant with a bug: the results are in the order of the answers.
StoreNext(w, draft) ==
  drafts' = [drafts EXCEPT ![Cardinality({i \in DOMAIN drafts : drafts[i] # NoDraft}) + 1] =
               draft]

Store(w, draft) == drafts' = [drafts EXCEPT ![workers[w].at] = draft]

Answered(w) ==
  /\ workers[w].pc \in {"first", "repair"} /\ ~aborted
  /\ \E draft \in Answers(inputs[workers[w].at]) \cup {NoDraft} :
       IF Accepts(w, draft)
       THEN /\ workers' = [workers EXCEPT ![w] = Idle]
            /\ Store(w, draft)
            /\ accepted' = IF phase = "collect"
                           THEN [i \in DOMAIN accepted \cup {workers[w].at} |->
                                   IF i = workers[w].at
                                   THEN [draft EXCEPT !.cites = @ \cap inputs[i]]
                                   ELSE accepted[i]]
                           ELSE accepted
            /\ UNCHANGED phase
       ELSE /\ UNCHANGED <<drafts, accepted>>
            /\ IF workers[w].pc = "first"
               THEN workers' = [workers EXCEPT ![w].pc = "repair"] /\ UNCHANGED phase
               ELSE workers' = [workers EXCEPT ![w].pc = "stopped"] /\ phase' = "failed"
  /\ UNCHANGED <<mode, said, inputs, next, chapters, aborted>>

\* The request fails or is cancelled.
Rejected(w) ==
  /\ workers[w].pc \in {"first", "repair"}
  /\ workers' = [workers EXCEPT ![w].pc = "stopped"]
  /\ phase' = "failed"
  /\ UNCHANGED <<mode, said, inputs, drafts, next, chapters, aborted, accepted>>

Abort ==
  /\ ~aborted /\ phase \in Rounds \cup {"none"}
  /\ aborted' = TRUE
  /\ UNCHANGED <<mode, phase, said, inputs, drafts, next, workers, chapters, accepted>>

RoundIs(name) == phase = name /\ \A w \in Workers : workers[w].pc = "stopped"

----------------------------------------------------------------------------
(* composeLectureNotes() and reduceMeetingNotes()                          *)

\* mergeAdjacentChapters(): a chapter with the title of the one before it continues it.
AddChapter(merged, chapter) ==
  IF merged # <<>> /\ Last(merged).title = chapter.title
  THEN [merged EXCEPT ![Len(merged)].from = @ \o chapter.from]
  ELSE Append(merged, chapter)

Merged(list) ==
  LET upTo[n \in 0..Len(list)] ==
        IF n = 0 THEN <<>> ELSE AddChapter(upTo[n - 1], list[n])
  IN upTo[Len(list)]

Collected ==
  FlattenSeq([i \in 1..Len(drafts) |->
    [j \in 1..Len(drafts[i].titles) |-> [title |-> drafts[i].titles[j], from |-> <<i>>]]])

LectureCollected ==
  /\ mode = "lecture" /\ RoundIs("collect")
  /\ chapters' = Merged(Collected)
  /\ IF chapters' = <<>> THEN phase' = "drafted" /\ UNCHANGED <<inputs, drafts, next, workers>>
                         ELSE Round("overview", <<{}>>)
  /\ UNCHANGED <<mode, said, aborted, accepted>>

OverviewWritten ==
  /\ RoundIs("overview")
  /\ phase' = "drafted"
  /\ UNCHANGED <<mode, said, inputs, drafts, next, workers, chapters, aborted, accepted>>

\* groupPartials(): the last draft of every group.  A group has two drafts, or more if they
\* fit into the budget; the last draft of all is alone if it is left.
Before(lasts, g) == IF g = 1 THEN 0 ELSE lasts[g - 1]

Groupings(n) ==
  {lasts \in UNION {[1..k -> 1..n] : k \in 1..n} :
     /\ lasts[Len(lasts)] = n
     /\ \A g \in 1..Len(lasts) :
          lasts[g] - Before(lasts, g) > IF g = Len(lasts) THEN 0 ELSE 1}

\* evidenceIdsFromDrafts() of every group.
CitedBy(lasts) ==
  [g \in 1..Len(lasts) |->
     UNION {drafts[i].cites : i \in (Before(lasts, g) + 1)..lasts[g]}]

MeetingReduced ==
  /\ mode = "meeting" /\ (RoundIs("collect") \/ RoundIs("reduce"))
  /\ IF Len(drafts) = 1
     THEN phase' = "drafted" /\ UNCHANGED <<inputs, drafts, next, workers>>
     ELSE \E lasts \in Groupings(Len(drafts)) : Round("reduce", CitedBy(lasts))
  /\ UNCHANGED <<mode, said, chapters, aborted, accepted>>

\* materializeSummary(): every citation of the draft becomes the utterance and its times,
\* and the whole must meet the schema of a summary.
Cited == UNION {drafts[i].cites : i \in DOMAIN drafts}
           \cup UNION {accepted[i].cites : i \in DOMAIN accepted}

Materialized ==
  /\ phase = "drafted"
  /\ phase' \in {"failed"} \cup (IF Cited \subseteq said THEN {"done"} ELSE {})
  /\ UNCHANGED <<mode, said, inputs, drafts, next, workers, chapters, aborted, accepted>>

----------------------------------------------------------------------------

Init ==
  /\ mode \in {"meeting", "lecture"}
  /\ phase = "none"
  /\ said = {}
  /\ inputs = <<>> /\ drafts = <<>>
  /\ next = 1
  /\ workers = [w \in Workers |-> [Idle EXCEPT !.pc = "stopped"]]
  /\ chapters = <<>>
  /\ aborted = FALSE
  /\ accepted = <<>>

Step ==
  \/ \E w \in Workers : Takes(w) \/ Answered(w) \/ Rejected(w)
  \/ LectureCollected \/ OverviewWritten \/ MeetingReduced \/ Materialized

Next == Begin \/ Step \/ Abort

\* Every request is answered, fails or times out.
Fairness == WF_vars(Step)

Spec == Init /\ [][Next]_vars /\ Fairness

----------------------------------------------------------------------------

TypeOK ==
  /\ phase \in Rounds \cup {"none", "drafted", "done", "failed"}
  /\ next \in 1..(Len(inputs) + 1)
  /\ DOMAIN drafts = DOMAIN inputs
  /\ workers \in [Workers -> [pc : {"idle", "first", "repair", "stopped"},
                              at : 0..Len(inputs)]]

\* A chapter's title with each segment that it comes from; those of all, in their order.
Tell(chapter) ==
  [j \in 1..Len(chapter.from) |-> [title |-> chapter.title, from |-> chapter.from[j]]]

Told(list) == FlattenSeq([i \in 1..Len(list) |-> Tell(list[i])])

Titled(draft, i) == [j \in 1..Len(draft.titles) |-> [title |-> draft.titles[j], from |-> i]]

\* "chapters are concatenated in spoken order and only a chapter carried across a segment
\* boundary is rejoined" (ARCHITECTURE.md:42): whichever worker answers first, every
\* chapter of every segment is in the summary, in order, and neighbours differ.
SpokenOrder ==
  mode = "lecture" /\ phase = "done" =>
    /\ Told(chapters) = FlattenSeq([i \in 1..Len(accepted) |-> Titled(accepted[i], i)])
    /\ \A i \in 1..(Len(chapters) - 1) : chapters[i].title # chapters[i + 1].title

\* "Evidence always points to existing transcript utterances" (ARCHITECTURE.md:40): through
\* every reduction and repair, a draft of a meeting cites only what was cited in a draft
\* that was made from the chunk with the utterance.
EvidenceIsGrounded ==
  mode = "meeting" /\ phase # "failed" =>
    \A i \in 1..Len(drafts) :
      drafts[i] # NoDraft =>
        drafts[i].cites \subseteq UNION {accepted[j].cites : j \in DOMAIN accepted}

Working == phase \in Rounds \cup {"drafted"}
Ended == phase \in {"done", "failed"}

\* The summary is made or fails: the reduction terminates.
SummaryEnds == Working ~> Ended
=============================================================================
