----------------------------- MODULE MCServices -----------------------------
(***************************************************************************)
(* Transcripts and bounds for checking Services with TLC.                  *)
(***************************************************************************)
EXTENDS Services

\* Transcripts for the summary: none, one of four lines that fill a chunk each, and one
\* whose last line must be split.
SummaryLines == {<<>>, <<4, 4, 4, 4>>, <<2, 2, 8>>}

\* Of the editors: many edits, some of each, many jobs, or many openings.
Use(e, j, o) == [edits |-> e, jobs |-> j, opens |-> o]
EditorUses == {Use(3, 1, 1), Use(2, 1, 2), Use(1, 2, 1), Use(3, 0, 3)}

\* Transcripts for the merge: words in a row, a word without length, words that overlap,
\* and a word after the end.
Span(a, b) == [start |-> a, end |-> b]
SpokenWords ==
  {<<Span(0, 1), Span(1, 2), Span(2, 3)>>, <<Span(0, 0), Span(1, 3)>>,
   <<Span(0, 2), Span(1, 1), Span(2, 3)>>, <<Span(3, 3)>>}
=============================================================================
