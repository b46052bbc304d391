--------------------------- MODULE ModelDownload ---------------------------
(***************************************************************************)
(* downloadVerifiedAsset(): one attempt after the other to bring an asset  *)
(* of known length and digest to its final name, resuming the partial file *)
(* that the last attempt left.  A file is abstracted to its length, in     *)
(* blocks, and to whether it is a prefix of the asset; the server may      *)
(* answer with another version, another range or too much, break off, and  *)
(* the process may end at any await.                                       *)
(***************************************************************************)
EXTENDS Naturals

CONSTANTS
  Size,       \* the asset's length in blocks
  MaxAttempts \* bound: attempts

VARIABLES
  final,    \* the file under its final name: "none", "good" or "bad"
  partial,  \* the ".part" file: its length and whether it is a prefix of the asset
  attempt,  \* where the attempt is, and whether its server answers as it should
  attempts, \* attempts begun
  wasted    \* history: attempts that failed for their content although the server
            \* sent what it was asked for, since anything else was written

vars == <<final, partial, attempt, attempts, wasted>>

NoPart == [len |-> 0, good |-> TRUE]
NoAttempt == [pc |-> "none", honest |-> FALSE]
Whole(file) == file.len = Size
Verified(file) == Whole(file) /\ file.good

TypeOK ==
  /\ final \in {"none", "good", "bad"}
  /\ partial \in [len : 0..(Size + 1), good : BOOLEAN]
  /\ attempt \in [pc : {"none", "final", "part", "request", "stream", "check"},
                  honest : BOOLEAN]
  /\ attempts \in 0..MaxAttempts
  /\ wasted \in 0..MaxAttempts

At(pc) == attempt.pc = pc
Go(pc) == attempt' = [attempt EXCEPT !.pc = pc]
Ends == attempt' = NoAttempt

----------------------------------------------------------------------------

Begin ==
  /\ At("none") /\ attempts < MaxAttempts
  /\ attempts' = attempts + 1
  /\ attempt' = [pc |-> "final", honest |-> FALSE]
  /\ UNCHANGED <<final, partial, wasted>>

\* verifyFile() of the final file; an error of the disk counts as a mismatch, and what
\* does not match is removed.
FinalChecked ==
  /\ At("final")
  /\ \/ final = "good" /\ Ends /\ wasted' = 0 /\ UNCHANGED final
     \/ final' = "none" /\ Go("part") /\ UNCHANGED wasted
  /\ UNCHANGED <<partial, attempts>>

\* A variant with a bug: a whole partial file that does not match is kept.
PartCheckedKept ==
  /\ At("part")
  /\ IF Verified(partial)
     THEN final' = "good" /\ partial' = NoPart /\ Ends /\ wasted' = 0
     ELSE /\ partial' = IF partial.len > Size THEN NoPart ELSE partial
          /\ Go("request")
          /\ UNCHANGED <<final, wasted>>
  /\ UNCHANGED attempts

\* The partial file: published if it is whole and matches, removed if it is too long
\* or whole and does not, or cannot be read.
PartChecked ==
  /\ At("part")
  /\ \/ /\ Verified(partial)
        /\ final' = "good" /\ partial' = NoPart /\ Ends /\ wasted' = 0
     \/ /\ partial' = IF partial.len >= Size THEN NoPart ELSE partial
        /\ Go("request")
        /\ UNCHANGED <<final, wasted>>
  /\ UNCHANGED attempts

\* The response: refused, redirected or for another range, which fails; the rest, which
\* is appended; or the whole file, which replaces what is there.
Responded ==
  /\ At("request")
  /\ \/ Ends /\ UNCHANGED partial
     \/ \E honest \in BOOLEAN :
          /\ attempt' = [pc |-> "stream", honest |-> honest]
          /\ partial' \in (IF partial.len > 0 THEN {partial} ELSE {}) \cup {NoPart}
  /\ UNCHANGED <<final, attempts, wasted>>

\* A block is written unless it would make the file too long.
Streamed ==
  /\ At("stream")
  /\ IF partial.len < Size
     THEN /\ partial' = [len |-> partial.len + 1, good |-> partial.good /\ attempt.honest]
          /\ wasted' = IF attempt.honest THEN wasted ELSE 0
          /\ UNCHANGED attempt
     ELSE ~attempt.honest /\ Ends /\ UNCHANGED <<partial, wasted>>
  /\ UNCHANGED <<final, attempts>>

\* The response ends; an honest one ends with the asset.
StreamEnds ==
  /\ At("stream")
  /\ attempt.honest => Whole(partial)
  /\ Go("check")
  /\ UNCHANGED <<final, partial, attempts, wasted>>

\* The attempt fails: the connection or the disk, or it is cancelled.
Fails ==
  /\ attempt.pc # "none"
  /\ Ends
  /\ UNCHANGED <<final, partial, attempts, wasted>>

\* A variant with a bug: a file of the right length is published.
DownloadCheckedLength ==
  /\ At("check")
  /\ IF Whole(partial)
     THEN /\ final' = IF partial.good THEN "good" ELSE "bad"
          /\ partial' = NoPart /\ wasted' = 0
     ELSE UNCHANGED <<final, partial, wasted>>
  /\ Ends
  /\ UNCHANGED attempts

\* verifyFile() of the download, and publishAsset().
DownloadChecked ==
  /\ At("check")
  /\ \/ /\ Verified(partial)
        /\ final' = "good" /\ partial' = NoPart /\ wasted' = 0
     \/ /\ ~Verified(partial)
        /\ wasted' = IF attempt.honest THEN wasted + 1 ELSE wasted
        /\ UNCHANGED <<final, partial>>
  /\ Ends
  /\ UNCHANGED attempts

\* The process or the machine ends, also between attempts: what this attempt or an earlier
\* one has not synced is lost or garbled; when the download is checked it is synced.
Crash ==
  /\ Ends
  /\ \E kept \in 0..partial.len, good \in BOOLEAN :
       /\ At("check") => kept = partial.len /\ good
       /\ partial' = [len |-> kept, good |-> partial.good /\ good]
  /\ wasted' = IF partial' = partial THEN wasted ELSE 0
  /\ UNCHANGED <<final, attempts>>

\* An earlier run of the program left any files.
Init ==
  /\ final \in {"none", "good", "bad"}
  /\ partial \in [len : 0..(Size + 1), good : BOOLEAN]
  /\ partial.len = 0 => partial.good
  /\ attempt = NoAttempt
  /\ attempts = 0
  /\ wasted = 0

Next ==
  \/ Begin \/ FinalChecked \/ PartChecked \/ Responded \/ Streamed \/ StreamEnds
  \/ DownloadChecked \/ Fails \/ Crash

Spec == Init /\ [][Next]_vars

----------------------------------------------------------------------------

\* A file appears under its final name only if all of it is the asset, whatever the
\* servers sent, whichever answers its partial file was joined from, and wherever an
\* earlier attempt ended.
PromotedIsTheAsset == [][final' # final => final' # "bad"]_vars

\* A damaged partial file costs one attempt at most: it is not resumed again and again
\* when the server answers what it is asked.
DamageIsNotResumedTwice == wasted <= 1
=============================================================================
