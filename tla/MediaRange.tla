----------------------------- MODULE MediaRange -----------------------------
(***************************************************************************)
(* mediaFileResponse(): the answer of the media protocol to one request    *)
(* for a recording, with or without a byte range.  The parsed header is    *)
(* the request; the answer is its status and the first and last byte that  *)
(* are streamed.                                                           *)
(***************************************************************************)
EXTENDS Integers

CONSTANT MaxSize  \* bound: sizes, and the numbers that a header names

VARIABLES
  size,    \* what stat() says of the file
  range,   \* the two numbers of "bytes=start-end"; Blank stands for one that is left out
  answer   \* [status, first, last]; status 0 while there is none

vars == <<size, range, answer>>

Blank == -1
Numbers == 0..MaxSize \cup {Blank}
NoBytes(status) == [status |-> status, first |-> 0, last |-> -1]

TypeOK ==
  /\ size \in 0..MaxSize
  /\ range \in [start : Numbers, end : Numbers]
  /\ answer \in [status : {0, 200, 206, 416}, first : 0..MaxSize, last : -1..MaxSize]

----------------------------------------------------------------------------
(* parseByteRange().                                                       *)

Larger(a, b) == IF a > b THEN a ELSE b
Smaller(a, b) == IF a < b THEN a ELSE b

\* A header that is absent, foreign or of several ranges counts as one without numbers.
Foreign == range.start = Blank /\ range.end = Blank

First == IF range.start = Blank THEN Larger(0, size - range.end) ELSE range.start

\* A variant with a bug: the end of the range is taken as it was asked for.
LastUnclamped == IF range.start = Blank \/ range.end = Blank THEN size - 1 ELSE range.end

Last == IF range.start = Blank \/ range.end = Blank THEN size - 1
        ELSE Smaller(range.end, size - 1)

Unsatisfiable ==
  \/ size = 0
  \/ range.start = Blank /\ range.end = 0
  \/ range.start # Blank /\ (range.start >= size \/ Last < range.start)

Respond ==
  /\ answer.status = 0
  /\ answer' = IF Foreign THEN [status |-> 200, first |-> 0, last |-> size - 1]
               ELSE IF Unsatisfiable THEN NoBytes(416)
               ELSE [status |-> 206, first |-> First, last |-> Last]
  /\ UNCHANGED <<size, range>>

Init ==
  /\ size \in 0..MaxSize
  /\ range \in [start : Numbers, end : Numbers]
  /\ answer = NoBytes(0)

Next == Respond

Spec == Init /\ [][Next]_vars

----------------------------------------------------------------------------
(* Properties.                                                             *)

\* Of a header, the bytes of the file that it names.
Named(b) ==
  CASE range.start = Blank -> b >= size - range.end
    [] range.start # Blank /\ range.end = Blank -> b >= range.start
    [] OTHER -> b \in range.start..range.end

\* A partial answer has exactly the bytes of the file that the header names, and at least
\* one; 416 is answered only if it names none; and everything is sent only if it names
\* nothing at all.
RangeIsServed ==
  /\ answer.status = 206 =>
       /\ answer.first <= answer.last
       /\ answer.first..answer.last = {b \in 0..(size - 1) : Named(b)}
  /\ answer.status = 416 => \A b \in 0..(size - 1) : ~Named(b)
  /\ answer.status = 200 => Foreign /\ answer.first = 0 /\ answer.last = size - 1
=============================================================================
