-------------------------- MODULE DiarizationMerge --------------------------
(***************************************************************************)
(* mergeDiarization(): the speakers of diarized segments are given to the  *)
(* words of a transcript by overlap in time, and utterances are split      *)
(* where the speaker changes.  Texts, labels and ids are left out: a word  *)
(* is known by its place, an utterance by the one it is a part of.         *)
(***************************************************************************)
EXTENDS Integers, FiniteSets, SequencesExt

CONSTANTS
  Speakers,    \* labels of the diarization
  NoSpeaker,   \* null
  Spoken,      \* transcripts: for every word, when it begins and ends
  Horizon,     \* bound: the latest end of a segment
  MaxSegments  \* bound: segments

VARIABLES
  segments,   \* what the diarization found, in any order
  words,      \* the words, each with its speaker
  utterances, \* each with its own times, its speaker, its words, and what it is a part of
  merged

vars == <<segments, words, utterances, merged>>

Times == 0..Horizon
Segments == {s \in [speaker : Speakers, start : Times, end : Times] : s.start <= s.end}

TypeOK ==
  /\ segments \in Seq(Segments) /\ Len(segments) <= MaxSegments
  /\ words \in Seq([speaker : Speakers \cup {NoSpeaker}, start : Nat, end : Nat])
  /\ utterances \in Seq([of : Nat, speaker : Speakers \cup {NoSpeaker}, start : Nat,
                         end : Nat, words : Seq(DOMAIN words)])
  /\ merged \in BOOLEAN

----------------------------------------------------------------------------

\* The order of sort(), which is stable: by beginning, then end, then place.
Precedes(i, j) ==
  LET a == segments[i]
      b == segments[j]
  IN \/ a.start < b.start
     \/ a.start = b.start /\ a.end < b.end
     \/ a.start = b.start /\ a.end = b.end /\ i < j

\* The segments in that order: the n-th has n - 1 before it.
Before(i) == Cardinality({j \in DOMAIN segments : Precedes(j, i)})
Ordered == [n \in DOMAIN segments |-> segments[CHOOSE i \in DOMAIN segments : Before(i) = n - 1]]

Overlap(segment, start, end) == Min({end, segment.end}) - Max({start, segment.start})

Distance(segment, start, end) ==
  IF segment.end < start THEN start - segment.end
  ELSE IF segment.start > end THEN segment.start - end ELSE 0

Better(segment, found, start, end) == Overlap(segment, start, end) > found.overlap

\* Nothing is infinitely far away.
Nearer(segment, found, start, end) ==
  found.nearest = NoSpeaker \/ Distance(segment, start, end) < found.distance

Nothing == [best |-> NoSpeaker, overlap |-> 0, nearest |-> NoSpeaker, distance |-> 0]

Looked(found, segment, start, end) ==
  LET better == Better(segment, found, start, end)
      nearer == Nearer(segment, found, start, end)
  IN [best     |-> IF better THEN segment.speaker ELSE found.best,
      overlap  |-> IF better THEN Overlap(segment, start, end) ELSE found.overlap,
      nearest  |-> IF nearer THEN segment.speaker ELSE found.nearest,
      distance |-> IF nearer THEN Distance(segment, start, end) ELSE found.distance]

\* speakerForSpan(): the first segment of the largest overlap, or else the first of the
\* nearest ones; NoSpeaker if there are no segments.
SpeakerForSpan(start, end) ==
  LET found[n \in 0..Len(segments)] ==
        IF n = 0 THEN Nothing ELSE Looked(found[n - 1], Ordered[n], start, end)
      last == found[Len(segments)]
  IN IF last.best # NoSpeaker THEN last.best ELSE last.nearest

Assigned == [w \in DOMAIN words |->
               [words[w] EXCEPT !.speaker = SpeakerForSpan(words[w].start, words[w].end)]]

\* A word continues the last run or begins one.
Continues(runs, w) == runs # <<>> /\ Last(runs).speaker = Assigned[w].speaker
Added(runs, w, of) ==
  IF Continues(runs, w)
  THEN [runs EXCEPT ![Len(runs)].words = Append(@, w), ![Len(runs)].end = words[w].end]
  ELSE Append(runs, [of |-> of, speaker |-> Assigned[w].speaker,
                     start |-> words[w].start, end |-> words[w].end, words |-> <<w>>])

\* splitBySpeaker(): a run of words of one speaker is an utterance, which the utterance
\* itself stays if there is one run.
Split(utterance) ==
  LET runs[n \in 0..Len(utterance.words)] ==
        IF n = 0 THEN <<>> ELSE Added(runs[n - 1], utterance.words[n], utterance.of)
      all == runs[Len(utterance.words)]
  IN IF Len(all) = 1 THEN <<[utterance EXCEPT !.speaker = all[1].speaker]>> ELSE all

\* An utterance without words is assigned as a whole.
Divided(utterance) ==
  IF utterance.words = <<>>
  THEN <<[utterance EXCEPT !.speaker = SpeakerForSpan(utterance.start, utterance.end)]>>
  ELSE Split(utterance)

Merge ==
  /\ ~merged /\ merged' = TRUE
  /\ IF segments = <<>> THEN UNCHANGED <<words, utterances>>
     ELSE /\ words' = Assigned
          /\ utterances' = FlattenSeq([u \in DOMAIN utterances |-> Divided(utterances[u])])
  /\ UNCHANGED segments

\* A transcript of one utterance, or of two that part the words somewhere; the second may
\* have none.
Utterance(of, ws, spans) ==
  [of |-> of, speaker |-> NoSpeaker, words |-> ws,
   start |-> IF ws = <<>> THEN 0 ELSE spans[Head(ws)].start,
   end |-> IF ws = <<>> THEN Horizon ELSE spans[Last(ws)].end]

Init ==
  /\ segments \in SeqOf(Segments, MaxSegments)
  /\ merged = FALSE
  /\ \E spans \in Spoken :
       /\ words = [w \in DOMAIN spans |-> [speaker |-> NoSpeaker, start |-> spans[w].start,
                                           end |-> spans[w].end]]
       /\ \E cut \in 1..Len(spans) :
            LET ids == [w \in DOMAIN spans |-> w]
            IN utterances = <<Utterance(1, SubSeq(ids, 1, cut), spans),
                              Utterance(2, SubSeq(ids, cut + 1, Len(spans)), spans)>>

Next == Merge

Spec == Init /\ [][Next]_vars

----------------------------------------------------------------------------
(* Properties.                                                             *)

\* The segments that a span may be given to: those of the largest overlap, or, where
\* nothing overlaps, the nearest.
Candidates(start, end) ==
  LET all == ToSet(segments)
      most == Max({Overlap(s, start, end) : s \in all})
      least == Min({Distance(s, start, end) : s \in all})
  IN IF most > 0 THEN {s \in all : Overlap(s, start, end) = most}
     ELSE {s \in all : Distance(s, start, end) = least}

\* "Each word gets the speaker whose segment overlaps it the most", or the nearest one;
\* "a turn boundary is always an utterance boundary", and no other boundary is added; and
\* no word is lost, repeated or moved.
WordsKeepTheirTurn ==
  merged /\ segments # <<>> =>
    /\ \A w \in DOMAIN words :
         words[w].speaker \in {s.speaker : s \in Candidates(words[w].start, words[w].end)}
    /\ \A u \in DOMAIN utterances : \A w \in ToSet(utterances[u].words) :
         words[w].speaker = utterances[u].speaker
    /\ \A u \in 2..Len(utterances) :
         utterances[u - 1].of = utterances[u].of =>
           utterances[u - 1].speaker # utterances[u].speaker
    /\ FlattenSeq([u \in DOMAIN utterances |-> utterances[u].words])
         = [w \in DOMAIN words |-> w]
=============================================================================
