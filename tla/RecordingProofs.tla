--------------------------- MODULE RecordingProofs ---------------------------
(***************************************************************************)
(* What Recording promises about the manifest, for any sessions and any    *)
(* number of failures, interruptions and crashes.                          *)
(***************************************************************************)
EXTENDS Recording, TLAPS

\* A command before its first step holds nothing, later the manifest of a session; who it
\* is about is a session or the caller of recover() that waits for it.
Fits(c) ==
  /\ c.pc = "begin" => c.man = NoManifest
  /\ c.pc # "begin" => c.kind \in {"start", "stop", "finalize"} /\ c.man.session \in Sessions
  /\ c.kind \in {"start", "acknowledge"} => c.who \in Sessions
  /\ c.kind = "finalize" => c.who \in Callers
  /\ c.kind = "provision" => c.who = "connect"

\* Only the first command has begun.
InOrder(q) == \A i \in 1..Len(q) : Fits(q[i]) /\ (i # 1 => q[i].pc = "begin")

\* The commands a recovery waits for: it waits for each of them, and for one at a time.
Awaited == {"finalize", "provision"}
AwaitedBy(q, rec) ==
  \A i \in 1..Len(q) : q[i].kind \in Awaited =>
    /\ rec[q[i].who].pc = q[i].kind
    /\ \A j \in 1..Len(q) : q[j].kind \in Awaited /\ q[j].who = q[i].who => j = i

\* A recovery that has loaded a manifest carries it, and in the end a result.
Carried(rec) ==
  \A r \in Callers :
    /\ rec[r].pc \in {"query", "finalize", "apply"} => rec[r].man.session \in Sessions
    /\ rec[r].pc = "apply" => rec[r].result # "none"

\* At most one start is queued, of the session that is starting, and it has not failed yet.
NoStart(q) == \A i \in 1..Len(q) : q[i].kind # "start"
StartAlone(q, rec, session) ==
  /\ rec["start"].pc # "idle" => session # NoSession
  /\ \A i \in 1..Len(q) : q[i].kind = "start" =>
       /\ q[i].who = session /\ rec["start"].pc = "idle"
       /\ \A j \in 1..Len(q) : q[j].kind = "start" => j = i

Sound ==
  /\ TypeOK
  /\ InOrder(queue)
  /\ AwaitedBy(queue, recovery)
  /\ Carried(recovery)
  /\ StartAlone(queue, recovery, starting)

----------------------------------------------------------------------------
(* The queue.                                                              *)

\* A recovery that waits for a command of the queue goes on waiting, the one that waits for
\* the head excepted.
WaitsOn(q, rec, rec2) ==
  \A r \in Callers : rec[r].pc \in Awaited =>
    (q[1].kind \in Awaited /\ q[1].who = r) \/ rec2[r].pc = rec[r].pc

StillWaits(rec, rec2) == \A r \in Callers : rec[r].pc \in Awaited => rec2[r].pc = rec[r].pc

LEMMA CommandFields ==
  ASSUME NEW c \in Command
  PROVE  /\ c.kind \in Kinds /\ c.man \in Manifest /\ c.own \in BOOLEAN
         /\ c.who \in Sessions \cup Callers \cup {NoSession}
  BY DEF Command

\* The first command is done.
LEMMA TailKeepsOrder ==
  ASSUME NEW q \in Seq(Command), q # <<>>, InOrder(q), NEW rec, NEW rec2,
         AwaitedBy(q, rec), WaitsOn(q, rec, rec2)
  PROVE  Tail(q) \in Seq(Command) /\ InOrder(Tail(q)) /\ AwaitedBy(Tail(q), rec2)
<1>1. Tail(q) \in Seq(Command) /\ Len(Tail(q)) = Len(q) - 1
      /\ \A i \in 1..Len(Tail(q)) : Tail(q)[i] = q[i + 1] /\ i + 1 \in 2..Len(q)
  OBVIOUS
<1>2. InOrder(Tail(q))
  BY <1>1 DEF InOrder
<1>3. AwaitedBy(Tail(q), rec2)
  <2>1. SUFFICES ASSUME NEW i \in 1..Len(Tail(q)), q[i + 1].kind \in Awaited
                 PROVE  /\ rec2[q[i + 1].who].pc = q[i + 1].kind
                        /\ \A j \in 1..Len(Tail(q)) :
                             q[j + 1].kind \in Awaited /\ q[j + 1].who = q[i + 1].who => j = i
    BY <1>1 DEF AwaitedBy
  <2>2. i + 1 \in 1..Len(q) /\ i + 1 # 1 /\ 1 \in 1..Len(q)
    BY <1>1
  <2>3. rec[q[i + 1].who].pc = q[i + 1].kind /\ q[i + 1].who \in Callers
        /\ \A j \in 1..Len(q) : q[j].kind \in Awaited /\ q[j].who = q[i + 1].who => j = i + 1
    BY <2>1, <2>2 DEF AwaitedBy, Awaited, InOrder, Fits, Callers
  <2>4. ~(q[1].kind \in Awaited /\ q[1].who = q[i + 1].who)
    BY <2>2, <2>3
  <2>5. rec2[q[i + 1].who].pc = q[i + 1].kind
    BY <2>1, <2>3, <2>4 DEF WaitsOn
  <2>6. \A j \in 1..Len(Tail(q)) :
          q[j + 1].kind \in Awaited /\ q[j + 1].who = q[i + 1].who => j = i
    <3>1. TAKE j \in 1..Len(Tail(q))
    <3>2. j + 1 \in 1..Len(q)
      BY <1>1
    <3>3. QED
      BY <2>3, <3>2, <1>1
  <2>7. QED
    BY <2>5, <2>6
<1>4. QED
  BY <1>1, <1>2, <1>3

\* The first command goes on.
LEMMA HeadKeepsOrder ==
  ASSUME NEW q \in Seq(Command), q # <<>>, InOrder(q), NEW rec, NEW rec2,
         AwaitedBy(q, rec), StillWaits(rec, rec2),
         NEW c \in Command, Fits(c), c.kind = q[1].kind, c.who = q[1].who
  PROVE  /\ <<c>> \o Tail(q) \in Seq(Command)
         /\ InOrder(<<c>> \o Tail(q)) /\ AwaitedBy(<<c>> \o Tail(q), rec2)
<1> DEFINE q2 == <<c>> \o Tail(q)
<1>1. q2 \in Seq(Command) /\ Len(q2) = Len(q) /\ q2[1] = c
      /\ \A i \in 2..Len(q) : q2[i] = q[i]
  <2>1. Tail(q) \in Seq(Command) /\ Len(Tail(q)) = Len(q) - 1
        /\ \A i \in 1..Len(q) - 1 : Tail(q)[i] = q[i + 1]
    OBVIOUS
  <2>2. q2 \in Seq(Command) /\ Len(q2) = 1 + Len(Tail(q)) /\ q2[1] = c
        /\ \A i \in 2..Len(q2) : q2[i] = Tail(q)[i - 1]
    BY <2>1
  <2>3. QED
    BY <2>1, <2>2
<1> HIDE DEF q2
<1>2. InOrder(q2)
  BY <1>1 DEF InOrder
<1>3. \A i \in 1..Len(q) : q2[i].kind = q[i].kind /\ q2[i].who = q[i].who
  <2>1. \A i \in 1..Len(q) : i = 1 \/ i \in 2..Len(q)
    OBVIOUS
  <2>2. QED
    BY <1>1, <2>1
<1>4. AwaitedBy(q2, rec2)
  BY <1>1, <1>3 DEF AwaitedBy, Awaited, StillWaits, InOrder, Fits, Callers
<1>5. QED
  BY <1>1, <1>2, <1>4 DEF q2

\* A new command is queued, by a recovery that did not wait for one if it is to be awaited.
LEMMA AppendKeepsOrder ==
  ASSUME NEW q \in Seq(Command), InOrder(q), NEW rec, NEW rec2,
         AwaitedBy(q, rec), StillWaits(rec, rec2),
         NEW c \in Command, c.pc = "begin", Fits(c),
         c.kind \in Awaited => rec[c.who].pc \notin Awaited /\ rec2[c.who].pc = c.kind
  PROVE  Append(q, c) \in Seq(Command) /\ InOrder(Append(q, c)) /\ AwaitedBy(Append(q, c), rec2)
<1>1. Append(q, c) \in Seq(Command) /\ Len(Append(q, c)) = Len(q) + 1 /\ Len(q) \in Nat
      /\ Append(q, c)[Len(q) + 1] = c /\ \A i \in 1..Len(q) : Append(q, c)[i] = q[i]
  OBVIOUS
<1>2. InOrder(Append(q, c))
  BY <1>1 DEF InOrder
<1>3. \A i \in 1..Len(q) : q[i].kind \in Awaited =>
        rec[q[i].who].pc = q[i].kind /\ q[i].who \in Callers
  BY DEF AwaitedBy, Awaited, InOrder, Fits, Callers
<1>4. AwaitedBy(Append(q, c), rec2)
  <2>1. SUFFICES ASSUME NEW i \in 1..Len(q) + 1, Append(q, c)[i].kind \in Awaited
                 PROVE  /\ rec2[Append(q, c)[i].who].pc = Append(q, c)[i].kind
                        /\ \A j \in 1..Len(q) + 1 : Append(q, c)[j].kind \in Awaited
                             /\ Append(q, c)[j].who = Append(q, c)[i].who => j = i
    BY <1>1 DEF AwaitedBy
  <2>2. CASE i = Len(q) + 1
    BY <1>1, <1>3, <2>1, <2>2
  <2>3. CASE i \in 1..Len(q)
    <3>1. rec2[q[i].who].pc = q[i].kind
      BY <1>1, <1>3, <2>1, <2>3 DEF StillWaits
    <3>2. \A j \in 1..Len(q) : q[j].kind \in Awaited /\ q[j].who = q[i].who => j = i
      BY <1>1, <2>1, <2>3 DEF AwaitedBy
    <3>3. ~(c.kind \in Awaited /\ c.who = q[i].who)
      BY <1>1, <1>3, <2>1, <2>3
    <3>4. QED
      BY <1>1, <3>1, <3>2, <3>3, <2>3
  <2>4. QED
    BY <1>1, <2>2, <2>3
<1>5. QED
  BY <1>1, <1>2, <1>4

\* attach() takes the manifest from the commands.
LEMMA DisownKeepsOrder ==
  ASSUME NEW q \in Seq(Command), InOrder(q), NEW rec, NEW rec2,
         AwaitedBy(q, rec), StillWaits(rec, rec2),
         NEW q2, q2 = [i \in DOMAIN q |-> [q[i] EXCEPT !.own = FALSE]]
  PROVE  q2 \in Seq(Command) /\ InOrder(q2) /\ AwaitedBy(q2, rec2)
<1>1. DOMAIN q = 1..Len(q) /\ Len(q) \in Nat /\ \A i \in 1..Len(q) : q[i] \in Command
  OBVIOUS
<1>2. \A i \in 1..Len(q) : [q[i] EXCEPT !.own = FALSE] \in Command
  BY <1>1 DEF Command
<1>3. q2 \in Seq(Command) /\ Len(q2) = Len(q)
      /\ \A i \in 1..Len(q) : q2[i] = [q[i] EXCEPT !.own = FALSE]
  BY <1>1, <1>2
<1>4. \A i \in 1..Len(q) : q2[i].kind = q[i].kind /\ q2[i].who = q[i].who
        /\ q2[i].man = q[i].man /\ q2[i].pc = q[i].pc
  BY <1>1, <1>3 DEF Command
<1>5. InOrder(q2)
  BY <1>3, <1>4 DEF InOrder, Fits
<1>6. AwaitedBy(q2, rec2)
  BY <1>3, <1>4 DEF AwaitedBy, Awaited, StillWaits, InOrder, Fits, Callers
<1>7. QED
  BY <1>3, <1>5, <1>6

\* A start that is queued stays the one that is starting.
StartStays(q, rec, rec2, session, session2) ==
  /\ rec2["start"].pc # "idle" => session2 # NoSession
  /\ \/ NoStart(q)
     \/ session2 = session /\ (rec["start"].pc = "idle" => rec2["start"].pc = "idle")

LEMMA NoStartBehindStart ==
  ASSUME NEW q \in Seq(Command), q # <<>>, NEW rec, NEW session, StartAlone(q, rec, session),
         q[1].kind = "start"
  PROVE  NoStart(Tail(q))
<1>1. \A i \in 1..Len(Tail(q)) : Tail(q)[i] = q[i + 1] /\ i + 1 \in 1..Len(q) /\ i + 1 # 1
  OBVIOUS
<1>2. 1 \in 1..Len(q)
  OBVIOUS
<1>3. QED
  BY <1>1, <1>2 DEF NoStart, StartAlone

LEMMA TailKeepsStart ==
  ASSUME NEW q \in Seq(Command), q # <<>>, NEW rec, NEW rec2, NEW session, NEW session2,
         StartAlone(q, rec, session), StartStays(Tail(q), rec, rec2, session, session2)
  PROVE  StartAlone(Tail(q), rec2, session2)
<1>1. \A i \in 1..Len(Tail(q)) : Tail(q)[i] = q[i + 1] /\ i + 1 \in 1..Len(q)
  OBVIOUS
<1>2. \A i, j \in 1..Len(Tail(q)) : i + 1 = j + 1 => i = j
  OBVIOUS
<1>3. QED
  BY <1>1, <1>2 DEF NoStart, StartAlone, StartStays

LEMMA HeadKeepsStart ==
  ASSUME NEW q \in Seq(Command), q # <<>>, NEW rec, NEW rec2, NEW session, NEW session2,
         StartAlone(q, rec, session), StartStays(q, rec, rec2, session, session2),
         NEW c \in Command, c.kind = q[1].kind, c.who = q[1].who
  PROVE  StartAlone(<<c>> \o Tail(q), rec2, session2)
<1> DEFINE q2 == <<c>> \o Tail(q)
<1>1. Len(q2) = Len(q) /\ \A i \in 1..Len(q) : q2[i].kind = q[i].kind /\ q2[i].who = q[i].who
  <2>1. Tail(q) \in Seq(Command) /\ Len(Tail(q)) = Len(q) - 1
        /\ \A i \in 1..Len(q) - 1 : Tail(q)[i] = q[i + 1]
    OBVIOUS
  <2>2. q2 \in Seq(Command) /\ Len(q2) = 1 + Len(Tail(q)) /\ q2[1] = c
        /\ \A i \in 2..Len(q2) : q2[i] = Tail(q)[i - 1]
    BY <2>1
  <2>3. \A i \in 1..Len(q) : i = 1 \/ i \in 2..Len(q)
    OBVIOUS
  <2>4. QED
    BY <2>1, <2>2, <2>3
<1> HIDE DEF q2
<1>2. StartAlone(q2, rec2, session2)
  BY <1>1 DEF NoStart, StartAlone, StartStays
<1>3. QED
  BY <1>2 DEF q2

LEMMA AppendKeepsStart ==
  ASSUME NEW q \in Seq(Command), NEW rec, NEW rec2, NEW session, NEW session2,
         StartAlone(q, rec, session), StartStays(q, rec, rec2, session, session2),
         NEW c \in Command, c.kind # "start"
  PROVE  StartAlone(Append(q, c), rec2, session2)
<1>1. Len(Append(q, c)) = Len(q) + 1 /\ Len(q) \in Nat
      /\ Append(q, c)[Len(q) + 1] = c /\ \A i \in 1..Len(q) : Append(q, c)[i] = q[i]
  OBVIOUS
<1>2. \A i \in 1..Len(Append(q, c)) : Append(q, c)[i].kind = "start" =>
        i \in 1..Len(q) /\ Append(q, c)[i] = q[i]
  BY <1>1
<1>3. QED
  BY <1>1, <1>2 DEF NoStart, StartAlone, StartStays

LEMMA DisownKeepsStart ==
  ASSUME NEW q \in Seq(Command), NEW rec, NEW rec2, NEW session, NEW session2,
         StartAlone(q, rec, session), StartStays(q, rec, rec2, session, session2),
         NEW q2, q2 = [i \in DOMAIN q |-> [q[i] EXCEPT !.own = FALSE]]
  PROVE  StartAlone(q2, rec2, session2)
<1>1. DOMAIN q = 1..Len(q) /\ Len(q) \in Nat /\ \A i \in 1..Len(q) : q[i] \in Command
  OBVIOUS
<1>2. \A i \in 1..Len(q) : [q[i] EXCEPT !.own = FALSE] \in Command
  BY <1>1 DEF Command
<1>3. q2 \in Seq(Command) /\ Len(q2) = Len(q)
      /\ \A i \in 1..Len(q) : q2[i] = [q[i] EXCEPT !.own = FALSE]
  BY <1>1, <1>2
<1>4. \A i \in 1..Len(q) : q2[i].kind = q[i].kind /\ q2[i].who = q[i].who
  BY <1>1, <1>3 DEF Command
<1>5. QED
  BY <1>3, <1>4 DEF NoStart, StartAlone, StartStays

----------------------------------------------------------------------------
(* Types.                                                                  *)

Statuses == {"draft", "recording", "processing", "interrupted", "failed", "deleted"}
Phases == {"disconnected", "configuring", "ready", "recording", "finalizing", "recovering"}

\* The queue and the recoveries, and the rest of Sound.
QueueSound ==
  /\ queue \in Seq(Command) /\ InOrder(queue) /\ AwaitedBy(queue, recovery)
  /\ recovery \in [Callers -> Recovery] /\ Carried(recovery)
  /\ StartAlone(queue, recovery, starting)

OBSTyped ==
  /\ connected \in BOOLEAN
  /\ obs \in Sessions \cup {NoSession, Elsewhere}
  /\ usable \subseteq Sessions

ManifestTyped == disk \in Manifest /\ mem \in Manifest

AppTyped ==
  /\ phase \in Phases
  /\ row \in [Sessions -> Statuses]
  /\ attached \subseteq Sessions
  /\ jobs \in [Sessions -> 0..2]
  /\ {active, starting, claim, deleting} \subseteq Sessions \cup {NoSession}
  /\ incidents \in 0..MaxIncidents

LEMMA SoundParts ==
  /\ Sound <=> QueueSound /\ OBSTyped /\ ManifestTyped /\ AppTyped
  /\ Sound' <=> QueueSound' /\ OBSTyped' /\ ManifestTyped' /\ AppTyped'
  BY DEF Sound, TypeOK, QueueSound, OBSTyped, ManifestTyped, AppTyped, Statuses, Phases

LEMMA RowsStayRows ==
  ASSUME NEW rows \in [Sessions -> Statuses], NEW s, NEW status \in Statuses
  PROVE  WithStatus(rows, s, status) \in [Sessions -> Statuses]
  BY DEF WithStatus

LEMMA JobsStayJobs ==
  ASSUME AppTyped, NEW s PROVE OneMore(s) \in [Sessions -> 0..2]
<1>1. CASE s \in Sessions
  <2>1. jobs[s] \in 0..2 /\ (jobs[s] # 2 => jobs[s] + 1 \in 0..2)
    BY <1>1 DEF AppTyped
  <2>2. QED
    BY <2>1 DEF OneMore, AppTyped
<1>2. CASE s \notin Sessions
  BY <1>2 DEF OneMore, AppTyped
<1>3. QED
  BY <1>1, <1>2

LEMMA IncidentIsTyped == ASSUME AppTyped, Incident PROVE incidents' \in 0..MaxIncidents
  BY ConstantsAssumption DEF AppTyped, Incident

\* The head of the queue and the manifests made from its own.
LEMMA HeadIsACommand ==
  ASSUME QueueSound, queue # <<>>
  PROVE  /\ Head(queue) = queue[1] /\ Head(queue) \in Command /\ Fits(Head(queue))
         /\ Head(queue).man \in Manifest /\ Head(queue).own \in BOOLEAN
<1>1. Head(queue) = queue[1] /\ queue[1] \in Command /\ 1 \in 1..Len(queue)
  BY DEF QueueSound
<1>2. QED
  BY <1>1, CommandFields DEF QueueSound, InOrder

LEMMA StatesOfHead ==
  ASSUME QueueSound, ManifestTyped, queue # <<>>, Head(queue).pc # "begin", NEW state \in States
  PROVE  /\ InState(state) \in Manifest /\ InState(state).session = Head(queue).man.session
         /\ InState(state).session \in Sessions
         /\ Remembered(state) \in Manifest
<1>1. Head(queue).man \in Manifest /\ Head(queue).man.session \in Sessions
  BY HeadIsACommand DEF Fits
<1>2. Head(queue).man \in [session : Sessions, state : States]
  BY <1>1, ConstantsAssumption DEF Manifest, NoManifest
<1>3. InState(state) \in [session : Sessions, state : States]
      /\ InState(state).session = Head(queue).man.session
  BY <1>2 DEF InState
<1>4. QED
  BY <1>1, <1>3 DEF Remembered, Manifest, ManifestTyped

LEMMA DoneIsSound ==
  ASSUME QueueSound, queue # <<>>, Done,
         recovery' \in [Callers -> Recovery], Carried(recovery)',
         WaitsOn(queue, recovery, recovery'),
         StartStays(queue', recovery, recovery', starting, starting')
  PROVE  QueueSound'
<1>1. queue' \in Seq(Command) /\ InOrder(queue') /\ AwaitedBy(queue', recovery')
  BY TailKeepsOrder DEF QueueSound, Done
<1>2. StartAlone(queue', recovery', starting')
  BY TailKeepsStart DEF QueueSound, Done
<1>3. QED
  BY <1>1, <1>2 DEF QueueSound

LEMMA DoneAlone ==
  ASSUME QueueSound, queue # <<>>, Done, UNCHANGED <<recovery, starting>> PROVE QueueSound'
<1>1. WaitsOn(queue, recovery, recovery') /\ recovery' \in [Callers -> Recovery]
      /\ Carried(recovery)'
  BY DEF QueueSound, WaitsOn, Carried
<1>2. StartStays(queue', recovery, recovery', starting, starting')
  BY DEF QueueSound, StartStays, StartAlone
<1>3. QED
  BY <1>1, <1>2, DoneIsSound

Underway == {"intent", "request", "started", "reconcile", "confirmed",
             "query", "stop", "confirm", "stopped", "probe", "handoff"}

LEMMA GoesOnIsSound ==
  ASSUME QueueSound, queue # <<>>, Head(queue).kind \in {"start", "stop", "finalize"},
         UNCHANGED <<recovery, starting>>,
         NEW m \in Manifest, m.session \in Sessions, NEW own \in BOOLEAN, NEW pc \in Underway,
         GoesOn(m, own, pc)
  PROVE  QueueSound'
<1>1. StillWaits(recovery, recovery') /\ Carried(recovery)'
  BY DEF QueueSound, StillWaits, Carried
<1> DEFINE c == [Head(queue) EXCEPT !.man = m, !.own = own, !.pc = pc]
<1>2. Head(queue) = queue[1] /\ Head(queue) \in Command /\ Fits(Head(queue))
  BY HeadIsACommand
<1>3. c \in Command /\ c.kind = queue[1].kind /\ c.who = queue[1].who /\ Fits(c)
  BY <1>2 DEF Command, Fits, Underway
<1>4. queue' = <<c>> \o Tail(queue)
  BY DEF GoesOn
<1> HIDE DEF c
<1>5. queue' \in Seq(Command) /\ InOrder(queue') /\ AwaitedBy(queue', recovery')
  BY <1>1, <1>3, <1>4, HeadKeepsOrder DEF QueueSound
<1>6. StartAlone(queue', recovery', starting')
  <2>1. StartStays(queue, recovery, recovery', starting, starting')
    BY DEF QueueSound, StartStays, StartAlone
  <2>2. QED
    BY <1>3, <1>4, <2>1, HeadKeepsStart DEF QueueSound
<1>7. QED
  BY <1>1, <1>5, <1>6 DEF QueueSound

LEMMA HeadGoesOn ==
  ASSUME QueueSound, queue # <<>>, Head(queue).pc # "begin", UNCHANGED <<recovery, starting>>,
         NEW pc \in Underway, GoesOn(Head(queue).man, Head(queue).own, pc)
  PROVE  QueueSound'
<1>1. Head(queue).kind \in {"start", "stop", "finalize"} /\ Head(queue).man.session \in Sessions
  BY HeadIsACommand DEF Fits
<1>2. QED
  BY <1>1, HeadIsACommand, GoesOnIsSound

LEMMA AppendIsSound ==
  ASSUME QueueSound, recovery' \in [Callers -> Recovery], Carried(recovery)',
         StillWaits(recovery, recovery'),
         StartStays(queue, recovery, recovery', starting, starting'),
         NEW kind \in Kinds \ {"start"}, NEW who \in Sessions \cup Callers \cup {NoSession},
         kind = "acknowledge" => who \in Sessions,
         kind \in Awaited => who \in Callers /\ recovery[who].pc \notin Awaited
                               /\ recovery'[who].pc = kind,
         kind = "provision" => who = "connect",
         queue' = Append(queue, NewCommand(kind, who))
  PROVE  QueueSound'
<1>1. NewCommand(kind, who) \in Command /\ Fits(NewCommand(kind, who))
      /\ NewCommand(kind, who).pc = "begin" /\ NewCommand(kind, who).kind = kind
      /\ NewCommand(kind, who).who = who
  BY DEF NewCommand, Command, Fits, Manifest, Awaited, Callers
<1>2. queue' \in Seq(Command) /\ InOrder(queue') /\ AwaitedBy(queue', recovery')
  BY <1>1, AppendKeepsOrder DEF QueueSound
<1>3. StartAlone(queue', recovery', starting')
  BY <1>1, AppendKeepsStart DEF QueueSound
<1>4. QED
  BY <1>2, <1>3 DEF QueueSound

LEMMA QueueKept ==
  ASSUME QueueSound, UNCHANGED <<queue, recovery, starting>> PROVE QueueSound'
  BY DEF QueueSound, Carried, InOrder, Fits, AwaitedBy, StartAlone

LEMMA InitIsSound == ASSUME Init PROVE Sound
<1>1. queue = <<>> /\ queue \in Seq(Command) /\ Len(queue) = 0
  BY DEF Init
<1>2. Idle \in Recovery /\ recovery = [r \in Callers |-> Idle]
      /\ \A r \in Callers : recovery[r].pc = "idle"
  BY DEF Init, Idle, Recovery, Results, Manifest
<1>3. QueueSound
  BY <1>1, <1>2 DEF QueueSound, InOrder, AwaitedBy, Carried, StartAlone, Callers
<1>4. OBSTyped /\ ManifestTyped
  BY DEF Init, OBSTyped, ManifestTyped, Manifest
<1>5. AppTyped
  BY ConstantsAssumption DEF Init, AppTyped, Phases, Statuses
<1>6. QED
  BY <1>3, <1>4, <1>5, SoundParts

----------------------------------------------------------------------------
(* capture.start                                                           *)

LEMMA StartIsSound == ASSUME Sound, NEW s \in Sessions, Start(s) PROVE Sound'
<1>1. QueueSound /\ OBSTyped /\ ManifestTyped /\ AppTyped
  BY SoundParts
<1>2. NewCommand("start", s) \in Command /\ Fits(NewCommand("start", s))
      /\ NewCommand("start", s).pc = "begin" /\ NewCommand("start", s).kind = "start"
      /\ NewCommand("start", s).who = s
  BY DEF NewCommand, Command, Fits, Manifest, Kinds
<1> DEFINE c == NewCommand("start", s)
<1> HIDE DEF c
<1>3. queue' = Append(queue, c) /\ recovery' = recovery /\ starting' = s /\ starting = NoSession
  BY DEF Start, c
<1>4. recovery["start"].pc = "idle" /\ NoStart(queue)
  <2>1. recovery["start"].pc = "idle"
    BY <1>1, <1>3 DEF QueueSound, StartAlone
  <2>2. NoStart(queue)
    BY <1>1, <1>3, ConstantsAssumption DEF QueueSound, StartAlone, InOrder, Fits, NoStart
  <2>3. QED
    BY <2>1, <2>2
<1>5. queue' \in Seq(Command) /\ InOrder(queue') /\ AwaitedBy(queue', recovery')
  <2>1. StillWaits(recovery, recovery')
    BY <1>3 DEF StillWaits
  <2>2. QED
    BY <1>1, <1>2, <1>3, <2>1, AppendKeepsOrder DEF QueueSound, Awaited, c
<1>6. StartAlone(queue', recovery', starting')
  <2>1. Len(queue') = Len(queue) + 1 /\ Len(queue) \in Nat /\ queue'[Len(queue) + 1] = c
        /\ \A i \in 1..Len(queue) : queue'[i] = queue[i]
    BY <1>1, <1>2, <1>3 DEF QueueSound, c
  <2>2. \A i \in 1..Len(queue') : queue'[i].kind = "start" => i = Len(queue) + 1
    BY <1>4, <2>1 DEF NoStart
  <2>3. c.who = s
    BY <1>2 DEF c
  <2>4. QED
    BY <1>3, <1>4, <2>1, <2>2, <2>3 DEF StartAlone
<1>7. QueueSound'
  BY <1>1, <1>3, <1>5, <1>6 DEF QueueSound, Carried
<1>8. OBSTyped' /\ ManifestTyped' /\ AppTyped'
  BY <1>1 DEF Start, obsVars, dbVars, OBSTyped, ManifestTyped, AppTyped, Phases
<1>9. QED
  BY <1>7, <1>8, SoundParts

LEMMA StartEndsTyped ==
  ASSUME AppTyped, NEW c \in Sessions \cup {NoSession}, StartEnds(c),
         UNCHANGED <<attached, jobs, deleting>>, incidents' \in 0..MaxIncidents
  PROVE  AppTyped'
<1>1. row' \in [Sessions -> Statuses]
  BY RowsStayRows DEF StartEnds, SetStatus, AppTyped, Statuses
<1>2. QED
  BY <1>1 DEF StartEnds, AppTyped, Phases

\* A start that fails leaves the queue, and its recovery begins or it returns.
LEMMA StartFailsSound ==
  ASSUME Sound, queue # <<>>, Head(queue).kind = "start", StartFails,
         ManifestTyped', incidents' \in 0..MaxIncidents
  PROVE  Sound'
<1>1. QueueSound /\ OBSTyped /\ AppTyped
  BY SoundParts
<1>2. Head(queue) = queue[1] /\ 1 \in 1..Len(queue)
  BY <1>1, HeadIsACommand DEF QueueSound
<1>3. recovery["start"].pc = "idle" /\ starting = queue[1].who /\ starting \in Sessions
  BY <1>1, <1>2 DEF QueueSound, StartAlone, InOrder, Fits
<1>4. \/ recovery' = recovery
      \/ recovery' = [recovery EXCEPT !["start"].pc = "load"] /\ starting' = starting
  BY Zenon DEF StartFails
<1>5. recovery' \in [Callers -> Recovery] /\ Carried(recovery') /\ WaitsOn(queue, recovery, recovery')
  BY <1>1, <1>3, <1>4 DEF QueueSound, Carried, WaitsOn, Awaited, Recovery, Callers
<1>6. StartStays(queue', recovery, recovery', starting, starting')
  <2>1. NoStart(queue')
    BY <1>1, <1>2, NoStartBehindStart DEF QueueSound, StartFails, Done
  <2>2. recovery'["start"].pc # "idle" => starting' # NoSession
    BY <1>3, <1>4, ConstantsAssumption
  <2>3. QED
    BY <2>1, <2>2 DEF StartStays
<1>7. QueueSound'
  BY <1>1, <1>5, <1>6, DoneIsSound DEF StartFails
<1>8. AppTyped'
  <2> DEFINE c == IF mem'.state \in ActiveStates THEN mem'.session ELSE NoSession
  <2>1. c \in Sessions \cup {NoSession}
    BY DEF ManifestTyped, Manifest, NoManifest
  <2>2. \/ claim' = c /\ UNCHANGED <<statusVars, row, starting, attached, jobs, deleting>>
        \/ StartEnds(c) /\ UNCHANGED <<attached, jobs, deleting>>
    BY DEF StartFails
  <2> HIDE DEF c
  <2>3. CASE claim' = c /\ UNCHANGED <<statusVars, row, starting, attached, jobs, deleting>>
    BY <1>1, <2>1, <2>3 DEF AppTyped, statusVars
  <2>4. CASE StartEnds(c) /\ UNCHANGED <<attached, jobs, deleting>>
    BY <1>1, <2>1, <2>4, StartEndsTyped
  <2>5. QED
    BY <2>2, <2>3, <2>4
<1>9. OBSTyped'
  BY <1>1 DEF StartFails, obsVars, OBSTyped
<1>10. QED
  BY <1>7, <1>8, <1>9, SoundParts

\* A step of a command that holds a manifest, and goes on without saving it.
LEMMA HeadOnlyIsSound ==
  ASSUME Sound, queue # <<>>, Head(queue).pc # "begin",
         UNCHANGED <<disk, mem, recovery, statusVars, dbVars, ipcVars>>,
         NEW pc \in Underway, GoesOn(Head(queue).man, Head(queue).own, pc),
         OBSTyped', incidents' \in 0..MaxIncidents
  PROVE  Sound'
<1>1. QueueSound /\ ManifestTyped /\ AppTyped
  BY SoundParts
<1>2. QueueSound'
  BY <1>1, HeadGoesOn DEF ipcVars
<1>3. ManifestTyped' /\ AppTyped'
  BY <1>1 DEF ManifestTyped, AppTyped, statusVars, dbVars, ipcVars
<1>4. QED
  BY <1>2, <1>3, SoundParts

\* A step of a command that saves the manifest in another state and goes on.
LEMMA PersistsIsSound ==
  ASSUME Sound, queue # <<>>, Head(queue).pc # "begin", NEW state \in States, Persists(state),
         UNCHANGED <<obsVars, recovery, statusVars, dbVars, ipcVars, incidents>>,
         NEW pc \in Underway, GoesOn(InState(state), Head(queue).own, pc)
  PROVE  Sound'
<1>1. QueueSound /\ OBSTyped /\ ManifestTyped /\ AppTyped
  BY SoundParts
<1>2. /\ InState(state) \in Manifest /\ InState(state).session \in Sessions
      /\ Remembered(state) \in Manifest
  BY <1>1, StatesOfHead
<1>3. Head(queue).kind \in {"start", "stop", "finalize"} /\ Head(queue).own \in BOOLEAN
  BY <1>1, HeadIsACommand DEF Fits
<1>4. QueueSound'
  BY <1>1, <1>2, <1>3, GoesOnIsSound DEF ipcVars
<1>5. ManifestTyped'
  BY <1>2 DEF Persists, ManifestTyped
<1>6. OBSTyped' /\ AppTyped'
  BY <1>1 DEF OBSTyped, AppTyped, obsVars, statusVars, dbVars, ipcVars
<1>7. QED
  BY <1>4, <1>5, <1>6, SoundParts

\* A save that fails, or does not.
LEMMA PersistTyped ==
  ASSUME Sound, queue # <<>>, Head(queue).pc # "begin", NEW state \in States,
         Persists(state) \/ PersistFails(state)
  PROVE  ManifestTyped'
<1>1. QueueSound /\ ManifestTyped
  BY SoundParts
<1>2. InState(state) \in Manifest /\ Remembered(state) \in Manifest
  BY <1>1, StatesOfHead
<1>3. QED
  BY <1>1, <1>2 DEF Persists, PersistFails, ManifestTyped

LEMMA StartRefusedIsSound == ASSUME Sound, StartRefused PROVE Sound'
<1>1. QueueSound /\ ManifestTyped /\ AppTyped
  BY SoundParts
<1>2. queue # <<>> /\ Head(queue).kind = "start" /\ StartFails
  BY DEF StartRefused, Running
<1>3. ManifestTyped'
  BY <1>1 DEF StartRefused, Pending, ManifestTyped
<1>4. incidents' \in 0..MaxIncidents
  BY <1>1, IncidentIsTyped DEF StartRefused, AppTyped
<1>5. QED
  BY <1>2, <1>3, <1>4, StartFailsSound

LEMMA StartReadyIsSound == ASSUME Sound, StartReady PROVE Sound'
<1>1. QueueSound /\ OBSTyped /\ ManifestTyped /\ AppTyped
  BY SoundParts
<1> DEFINE m == Named(Head(queue).who, "ready")
<1>2. queue # <<>> /\ Head(queue).kind = "start"
  BY DEF StartReady, Running
<1>3. m \in Manifest /\ m.session \in Sessions
  BY <1>1, <1>2, HeadIsACommand DEF Fits, Named, Manifest, States
<1>4. mem' = m
      /\ \/ disk' = m /\ StartGoesOn(m, "intent") /\ UNCHANGED <<obs, incidents>>
         \/ Incident /\ UNCHANGED disk /\ StartFails
  BY DEF StartReady
<1> HIDE DEF m
<1>5. ManifestTyped'
  BY <1>1, <1>3, <1>4 DEF ManifestTyped
<1>6. CASE disk' = m /\ StartGoesOn(m, "intent") /\ UNCHANGED <<obs, incidents>>
  <2>1. QueueSound'
    BY <1>1, <1>2, <1>3, <1>6, GoesOnIsSound DEF StartGoesOn, ipcVars, Underway
  <2>2. OBSTyped' /\ AppTyped'
    BY <1>1, <1>6 DEF StartGoesOn, OBSTyped, AppTyped, statusVars, dbVars, ipcVars
  <2>3. QED
    BY <1>5, <2>1, <2>2, SoundParts
<1>7. CASE Incident /\ UNCHANGED disk /\ StartFails
  BY <1>1, <1>2, <1>5, <1>7, IncidentIsTyped, StartFailsSound
<1>8. QED
  BY <1>4, <1>6, <1>7

LEMMA StartIntentIsSound == ASSUME Sound, StartIntent PROVE Sound'
<1>1. queue # <<>> /\ Head(queue).kind = "start" /\ Head(queue).pc # "begin"
  BY DEF StartIntent, Running
<1>2. "start-intent" \in States /\ "request" \in Underway
  BY DEF States, Underway
<1>3. CASE /\ Persists("start-intent")
           /\ GoesOn(InState("start-intent"), Head(queue).own, "request")
           /\ UNCHANGED <<obsVars, recovery, statusVars, dbVars, ipcVars, incidents>>
  BY <1>1, <1>2, <1>3, PersistsIsSound
<1>4. CASE PersistFails("start-intent") /\ StartFails
  BY <1>1, <1>2, <1>4, PersistTyped, IncidentIsTyped, StartFailsSound, SoundParts
     DEF PersistFails
<1>5. QED
  BY <1>3, <1>4 DEF StartIntent

LEMMA RequestStartIsSound == ASSUME Sound, RequestStart PROVE Sound'
<1>1. QueueSound /\ OBSTyped /\ AppTyped
  BY SoundParts
<1>2. queue # <<>> /\ Head(queue).pc # "begin"
  BY DEF RequestStart, Running
<1>3. Head(queue).man.session \in Sessions
  BY <1>1, <1>2, HeadIsACommand DEF Fits
<1>4. OBSTyped' /\ incidents' \in 0..MaxIncidents
  BY <1>1, <1>3, IncidentIsTyped DEF RequestStart, OBSTyped, AppTyped
<1>5. PICK pc \in Underway : GoesOn(Head(queue).man, Head(queue).own, pc)
  BY DEF RequestStart, Underway
<1>6. UNCHANGED <<disk, mem, recovery, statusVars, dbVars, ipcVars>>
  BY DEF RequestStart
<1>7. QED
  BY <1>2, <1>4, <1>5, <1>6, HeadOnlyIsSound

LEMMA AwaitStartIsSound == ASSUME Sound, AwaitStart PROVE Sound'
<1>1. OBSTyped /\ AppTyped
  BY SoundParts
<1>2. queue # <<>> /\ Head(queue).pc # "begin"
  BY DEF AwaitStart, Running
<1>3. OBSTyped' /\ incidents' \in 0..MaxIncidents
  BY <1>1, IncidentIsTyped DEF AwaitStart, OBSTyped, obsVars, AppTyped
<1>4. PICK pc \in Underway : GoesOn(Head(queue).man, Head(queue).own, pc)
  BY DEF AwaitStart, Underway
<1>5. UNCHANGED <<disk, mem, recovery, statusVars, dbVars, ipcVars>>
  BY DEF AwaitStart
<1>6. QED
  BY <1>2, <1>3, <1>4, <1>5, HeadOnlyIsSound

LEMMA ReconcileStartIsSound == ASSUME Sound, ReconcileStart PROVE Sound'
<1>1. QueueSound /\ OBSTyped /\ ManifestTyped /\ AppTyped
  BY SoundParts
<1>2. queue # <<>> /\ Head(queue).kind = "start" /\ Head(queue).pc # "begin"
  BY DEF ReconcileStart, Running
<1>3. CASE /\ GoesOn(Head(queue).man, Head(queue).own, "confirmed")
           /\ UNCHANGED <<obsVars, disk, mem, recovery, statusVars, dbVars, ipcVars, incidents>>
  <2>1. OBSTyped' /\ incidents' \in 0..MaxIncidents
    BY <1>1, <1>3 DEF OBSTyped, obsVars, AppTyped
  <2>2. QED
    BY <1>2, <1>3, <2>1, HeadOnlyIsSound DEF Underway
<1>4. CASE UNCHANGED <<disk, mem, incidents>> /\ StartFails
  BY <1>1, <1>2, <1>4, StartFailsSound DEF ManifestTyped, AppTyped
<1>5. CASE /\ (Persists("failed") /\ UNCHANGED incidents) \/ PersistFails("failed")
           /\ StartFails
  <2>1. ManifestTyped'
    BY <1>2, <1>5, PersistTyped DEF States
  <2>2. incidents' \in 0..MaxIncidents
    BY <1>1, <1>5, IncidentIsTyped DEF PersistFails, AppTyped
  <2>3. QED
    BY <1>2, <1>5, <2>1, <2>2, StartFailsSound
<1>6. QED
  BY <1>3, <1>4, <1>5 DEF ReconcileStart

LEMMA StartCompletesIsSound == ASSUME Sound, StartCompletes PROVE Sound'
<1>1. QueueSound /\ OBSTyped /\ ManifestTyped /\ AppTyped
  BY SoundParts
<1>2. queue # <<>> /\ Head(queue).kind = "start" /\ Head(queue).pc # "begin"
  BY DEF StartCompletes, Running
<1>3. ManifestTyped'
  <2>1. Persists("recording") \/ PersistFails("recording")
    BY DEF StartCompletes
  <2>2. QED
    BY <1>2, <2>1, PersistTyped DEF States
<1>4. CASE /\ Done
           /\ active' = Head(queue).man.session
           /\ phase' = "recording"
           /\ SetStatus(Head(queue).man.session, "recording")
           /\ starting' = NoSession
           /\ UNCHANGED <<obsVars, recovery, attached, jobs, claim, deleting, incidents>>
  <2>1. Head(queue) = queue[1] /\ Head(queue).man.session \in Sessions /\ 1 \in 1..Len(queue)
    BY <1>1, <1>2, HeadIsACommand DEF Fits, QueueSound
  <2>2. recovery["start"].pc = "idle" /\ NoStart(queue')
    BY <1>1, <1>2, <1>4, <2>1, NoStartBehindStart DEF QueueSound, StartAlone, Done
  <2>3. StartStays(queue', recovery, recovery', starting, starting')
        /\ WaitsOn(queue, recovery, recovery') /\ Carried(recovery')
    BY <1>1, <1>4, <2>2 DEF StartStays, WaitsOn, QueueSound
  <2>4. QueueSound'
    BY <1>1, <1>2, <1>4, <2>3, DoneIsSound DEF QueueSound
  <2>5. row' \in [Sessions -> Statuses]
    BY <1>1, <1>4, RowsStayRows DEF SetStatus, AppTyped, Statuses
  <2>6. OBSTyped' /\ AppTyped'
    BY <1>1, <1>4, <2>1, <2>5 DEF OBSTyped, AppTyped, obsVars, Phases
  <2>7. QED
    BY <1>3, <2>4, <2>6, SoundParts
<1>5. CASE PersistFails("recording") /\ StartFails
  BY <1>1, <1>2, <1>3, <1>5, IncidentIsTyped, StartFailsSound DEF PersistFails
<1>6. QED
  BY <1>4, <1>5 DEF StartCompletes

----------------------------------------------------------------------------
(* OBS, and capture.stop.                                                  *)

LEMMA OutputEndsTyped ==
  ASSUME OBSTyped, AppTyped, OutputEnds, UNCHANGED connected
  PROVE  OBSTyped' /\ incidents' \in 0..MaxIncidents
  BY IncidentIsTyped DEF OutputEnds, OBSTyped, AppTyped

LEMMA OBSIsSound == ASSUME Sound, ObsStops \/ ForeignRecording PROVE Sound'
<1>1. QueueSound /\ OBSTyped /\ ManifestTyped /\ AppTyped
  BY SoundParts
<1>2. UNCHANGED <<connected, disk, mem, queue, recovery, statusVars, dbVars, ipcVars>>
  BY DEF ObsStops, ForeignRecording
<1>3. OBSTyped' /\ incidents' \in 0..MaxIncidents
  <2>1. CASE ObsStops
    BY <1>1, <2>1, OutputEndsTyped DEF ObsStops
  <2>2. CASE ForeignRecording
    BY <1>1, <2>2, IncidentIsTyped DEF ForeignRecording, OBSTyped
  <2>3. QED
    BY <2>1, <2>2
<1>4. QueueSound' /\ ManifestTyped' /\ AppTyped'
  BY <1>1, <1>2, <1>3, QueueKept DEF ManifestTyped, AppTyped, statusVars, dbVars, ipcVars
<1>5. QED
  BY <1>3, <1>4, SoundParts

LEMMA StopIsSound == ASSUME Sound, Stop PROVE Sound'
<1>1. QueueSound /\ OBSTyped /\ ManifestTyped /\ AppTyped
  BY SoundParts
<1>2. StillWaits(recovery, recovery')
      /\ StartStays(queue, recovery, recovery', starting, starting')
  BY <1>1 DEF Stop, StillWaits, StartStays, QueueSound, StartAlone
<1>3. QueueSound'
  BY <1>1, <1>2, AppendIsSound DEF Stop, QueueSound, Carried, Kinds, Awaited
<1>4. OBSTyped' /\ ManifestTyped' /\ AppTyped'
  BY <1>1 DEF Stop, OBSTyped, ManifestTyped, AppTyped, obsVars, dbVars, Phases
<1>5. QED
  BY <1>3, <1>4, SoundParts

LEMMA StopFailsSound ==
  ASSUME Sound, queue # <<>>, StopFails, ManifestTyped', incidents' \in 0..MaxIncidents
  PROVE  Sound'
<1>1. QueueSound /\ OBSTyped /\ AppTyped
  BY SoundParts
<1>2. QueueSound'
  BY <1>1, DoneAlone DEF StopFails
<1>3. OBSTyped' /\ AppTyped'
  BY <1>1 DEF StopFails, OBSTyped, AppTyped, obsVars, statusVars, dbVars
<1>4. QED
  BY <1>2, <1>3, SoundParts

LEMMA StopIntentIsSound == ASSUME Sound, StopIntent PROVE Sound'
<1>1. QueueSound /\ OBSTyped /\ ManifestTyped /\ AppTyped
  BY SoundParts
<1>2. queue # <<>> /\ Head(queue).kind = "stop"
  BY DEF StopIntent, Running
<1>3. CASE UNCHANGED <<disk, mem, incidents>> /\ StopFails
  BY <1>1, <1>2, <1>3, StopFailsSound DEF ManifestTyped, AppTyped
<1>4. CASE mem.state \in ActiveStates /\ mem' = [mem EXCEPT !.state = "stop-intent"]
  <2>1. mem' \in Manifest /\ mem'.session \in Sessions
    BY <1>1, <1>4 DEF ManifestTyped, Manifest, NoManifest, ActiveStates, States
  <2>2. CASE Incident /\ UNCHANGED disk /\ StopFails
    BY <1>1, <1>2, <2>1, <2>2, StopFailsSound, IncidentIsTyped DEF ManifestTyped
  <2>3. CASE /\ disk' = mem'
             /\ GoesOn(mem', TRUE, "query")
             /\ UNCHANGED <<obsVars, recovery, statusVars, dbVars, ipcVars, incidents>>
    <3>1. QueueSound'
      <4>1. TRUE \in BOOLEAN /\ "query" \in Underway
        BY DEF Underway
      <4>2. QED
        BY <1>1, <1>2, <2>1, <2>3, <4>1, GoesOnIsSound DEF ipcVars
    <3>2. OBSTyped' /\ ManifestTyped' /\ AppTyped'
      BY <1>1, <2>1, <2>3 DEF OBSTyped, ManifestTyped, AppTyped, obsVars, statusVars, dbVars,
         ipcVars
    <3>3. QED
      BY <3>1, <3>2, SoundParts
  <2>4. QED
    BY <1>3, <1>4, <2>2, <2>3 DEF StopIntent
<1>5. QED
  BY <1>3, <1>4 DEF StopIntent

LEMMA QueryStopIsSound == ASSUME Sound, QueryStop PROVE Sound'
<1>1. QueueSound /\ OBSTyped /\ ManifestTyped /\ AppTyped
  BY SoundParts
<1>2. queue # <<>> /\ Head(queue).pc # "begin" /\ UNCHANGED <<disk, mem, incidents>>
  BY DEF QueryStop, Running
<1>3. CASE StopFails
  BY <1>1, <1>2, <1>3, StopFailsSound DEF ManifestTyped, AppTyped
<1>4. CASE ~StopFails
  <2>1. PICK pc \in {"stopped", "stop"} : GoesOn(Head(queue).man, Head(queue).own, pc)
    BY <1>4 DEF QueryStop
  <2>2. UNCHANGED <<obsVars, recovery, statusVars, dbVars, ipcVars>>
    BY <1>4 DEF QueryStop
  <2>3. OBSTyped' /\ incidents' \in 0..MaxIncidents
    BY <1>1, <1>2, <2>2 DEF OBSTyped, obsVars, AppTyped
  <2>4. QED
    BY <1>2, <2>1, <2>2, <2>3, HeadOnlyIsSound DEF Underway
<1>5. QED
  BY <1>3, <1>4

LEMMA RequestStopIsSound == ASSUME Sound, RequestStop PROVE Sound'
<1>1. OBSTyped /\ AppTyped
  BY SoundParts
<1>2. queue # <<>> /\ Head(queue).pc # "begin"
      /\ UNCHANGED <<connected, disk, mem, recovery, statusVars, dbVars, ipcVars>>
  BY DEF RequestStop, Running
<1>3. PICK pc \in {"stopped", "confirm"} : GoesOn(Head(queue).man, Head(queue).own, pc)
  BY DEF RequestStop
<1>4. OBSTyped' /\ incidents' \in 0..MaxIncidents
  <2>1. CASE OutputEnds
    BY <1>1, <1>2, <2>1, OutputEndsTyped
  <2>2. CASE UNCHANGED <<obs, usable, incidents>>
    BY <1>1, <1>2, <2>2 DEF OBSTyped, AppTyped
  <2>3. QED
    BY <2>1, <2>2 DEF RequestStop
<1>5. QED
  BY <1>2, <1>3, <1>4, HeadOnlyIsSound DEF Underway

LEMMA ReconcileStopIsSound == ASSUME Sound, ReconcileStop PROVE Sound'
<1>1. OBSTyped /\ ManifestTyped /\ AppTyped
  BY SoundParts
<1>2. queue # <<>> /\ Head(queue).pc # "begin" /\ UNCHANGED <<disk, mem, incidents>>
  BY DEF ReconcileStop, Running
<1>3. CASE StopFails
  BY <1>1, <1>2, <1>3, StopFailsSound DEF ManifestTyped, AppTyped
<1>4. CASE /\ GoesOn(Head(queue).man, Head(queue).own, "stopped")
           /\ UNCHANGED <<obsVars, recovery, statusVars, dbVars, ipcVars>>
  <2>1. OBSTyped' /\ incidents' \in 0..MaxIncidents
    BY <1>1, <1>2, <1>4 DEF OBSTyped, obsVars, AppTyped
  <2>2. QED
    BY <1>2, <1>4, <2>1, HeadOnlyIsSound DEF Underway
<1>5. QED
  BY <1>3, <1>4 DEF ReconcileStop

LEMMA StopFinalizesIsSound == ASSUME Sound, StopFinalizes PROVE Sound'
<1>1. AppTyped
  BY SoundParts
<1>2. queue # <<>> /\ Head(queue).pc # "begin" /\ "finalizing" \in States /\ "probe" \in Underway
  BY DEF StopFinalizes, Running, States, Underway
<1>3. CASE PersistFails("finalizing") /\ StopFails
  BY <1>1, <1>2, <1>3, PersistTyped, IncidentIsTyped, StopFailsSound DEF PersistFails
<1>4. CASE ~(PersistFails("finalizing") /\ StopFails)
  BY <1>2, <1>4, PersistsIsSound DEF StopFinalizes
<1>5. QED
  BY <1>3, <1>4

LEMMA StopProbesIsSound == ASSUME Sound, StopProbes PROVE Sound'
<1>1. ManifestTyped /\ AppTyped
  BY SoundParts
<1>2. queue # <<>> /\ Head(queue).pc # "begin" /\ "complete" \in States /\ "handoff" \in Underway
  BY DEF StopProbes, Running, States, Underway
<1>3. CASE /\ Persists("complete")
           /\ GoesOn(InState("complete"), Head(queue).own, "handoff")
           /\ UNCHANGED <<obsVars, recovery, statusVars, dbVars, ipcVars, incidents>>
  BY <1>2, <1>3, PersistsIsSound
<1>4. CASE PersistFails("complete") /\ StopFails
  BY <1>1, <1>2, <1>4, PersistTyped, IncidentIsTyped, StopFailsSound DEF PersistFails
<1>5. CASE UNCHANGED <<disk, mem>> /\ StopFails /\ (UNCHANGED incidents \/ Incident)
  BY <1>1, <1>2, <1>5, IncidentIsTyped, StopFailsSound DEF ManifestTyped, AppTyped
<1>6. QED
  BY <1>3, <1>4, <1>5 DEF StopProbes

LEMMA StopHandsOffIsSound == ASSUME Sound, StopHandsOff PROVE Sound'
<1> DEFINE s == Head(queue).man.session
<1>1. QueueSound /\ OBSTyped /\ ManifestTyped /\ AppTyped
  BY SoundParts
<1>2. queue # <<>> /\ Head(queue).pc # "begin" /\ s \in Sessions
  BY <1>1, HeadIsACommand DEF StopHandsOff, Running, Fits
<1>3. UNCHANGED <<obsVars, disk, mem, recovery, starting, claim, deleting>>
      /\ active' = NoSession /\ phase' = "ready"
  BY DEF StopHandsOff
<1>4. CASE Done /\ UNCHANGED <<dbVars, incidents>>
  <2>1. QueueSound'
    BY <1>1, <1>2, <1>3, <1>4, DoneAlone
  <2>2. OBSTyped' /\ ManifestTyped' /\ AppTyped'
    BY <1>1, <1>3, <1>4 DEF OBSTyped, ManifestTyped, AppTyped, obsVars, dbVars, Phases
  <2>3. QED
    BY <2>1, <2>2, SoundParts
<1>5. CASE /\ attached' = attached \cup {s}
           /\ \/ jobs' = OneMore(s) /\ SetStatus(s, "processing") /\ UNCHANGED incidents
              \/ UNCHANGED jobs /\ SetStatus(s, "failed") /\ Incident
           /\ queue' = Append(Tail(queue), NewCommand("acknowledge", s))
  <2> DEFINE c == NewCommand("acknowledge", s)
  <2>1. c \in Command /\ Fits(c) /\ c.pc = "begin" /\ c.kind = "acknowledge"
    BY <1>2 DEF NewCommand, Command, Fits, Kinds, Manifest
  <2> HIDE DEF c
  <2> DEFINE q == Tail(queue)
  <2>2. WaitsOn(queue, recovery, recovery) /\ StillWaits(recovery, recovery)
        /\ \A other : StartStays(other, recovery, recovery, starting, starting)
    BY <1>1 DEF WaitsOn, StillWaits, QueueSound, StartAlone, StartStays
  <2>3. q \in Seq(Command) /\ InOrder(q) /\ AwaitedBy(q, recovery)
    BY <1>1, <1>2, <2>2, TailKeepsOrder DEF QueueSound
  <2>4. StartAlone(q, recovery, starting)
    BY <1>1, <1>2, <2>2, TailKeepsStart DEF QueueSound
  <2> HIDE DEF q
  <2>5. queue' = Append(q, c)
    BY <1>5 DEF q, c
  <2>6. Append(q, c) \in Seq(Command) /\ InOrder(Append(q, c)) /\ AwaitedBy(Append(q, c), recovery)
    BY <2>1, <2>2, <2>3, AppendKeepsOrder DEF Awaited
  <2>7. StartAlone(Append(q, c), recovery, starting)
    BY <2>1, <2>2, <2>3, <2>4, AppendKeepsStart
  <2>8. QueueSound'
    BY <1>1, <1>3, <2>5, <2>6, <2>7 DEF QueueSound, Carried
  <2>9. row' \in [Sessions -> Statuses] /\ jobs' \in [Sessions -> 0..2]
        /\ incidents' \in 0..MaxIncidents
    BY <1>1, <1>5, RowsStayRows, JobsStayJobs, IncidentIsTyped DEF AppTyped, SetStatus, Statuses
  <2>10. OBSTyped' /\ ManifestTyped' /\ AppTyped'
    BY <1>1, <1>2, <1>3, <1>5, <2>9 DEF OBSTyped, ManifestTyped, AppTyped, obsVars, Phases
  <2>11. QED
    BY <2>8, <2>10, SoundParts
<1>6. QED
  BY <1>4, <1>5 DEF StopHandsOff

LEMMA AcknowledgeIsSound == ASSUME Sound, Acknowledge PROVE Sound'
<1>1. QueueSound /\ OBSTyped /\ ManifestTyped /\ AppTyped
  BY SoundParts
<1>2. queue # <<>> /\ Done /\ UNCHANGED <<obsVars, recovery, statusVars, dbVars, ipcVars>>
  BY DEF Acknowledge, Running
<1>3. QueueSound'
  BY <1>1, <1>2, DoneAlone DEF ipcVars
<1>4. ManifestTyped' /\ incidents' \in 0..MaxIncidents
  BY <1>1, IncidentIsTyped DEF Acknowledge, ManifestTyped, Manifest, AppTyped
<1>5. OBSTyped' /\ AppTyped'
  BY <1>1, <1>2, <1>4 DEF OBSTyped, AppTyped, obsVars, statusVars, dbVars, ipcVars
<1>6. QED
  BY <1>3, <1>4, <1>5, SoundParts

----------------------------------------------------------------------------
(* RecoveryService.recover and its callers.                                *)

\* While the recovery of a start is under way no start is queued; so what becomes of it
\* needs no more than a start that goes on when that recovery does.
LEMMA RecoveryOfAStart ==
  ASSUME QueueSound, recovery["start"].pc # "idle" PROVE NoStart(queue)
  BY DEF QueueSound, StartAlone, NoStart

\* One recovery changes, and does not wait for the queue before the step.
LEMMA RecoveryChanges ==
  ASSUME QueueSound, NEW r \in Callers, recovery[r].pc \notin Awaited \cup {"idle"},
         recovery' \in [Callers -> Recovery],
         \A other \in Callers \ {r} : recovery'[other] = recovery[other],
         recovery'[r].pc \in {"query", "finalize", "apply"} => recovery'[r].man.session \in Sessions,
         recovery'[r].pc = "apply" => recovery'[r].result # "none",
         \/ starting' = starting
         \/ r = "start" /\ (recovery'[r].pc # "idle" => starting' # NoSession)
  PROVE  /\ Carried(recovery') /\ StillWaits(recovery, recovery')
         /\ StartStays(queue, recovery, recovery', starting, starting')
<1>1. Carried(recovery')
  BY DEF QueueSound, Carried
<1>2. StillWaits(recovery, recovery')
  BY DEF StillWaits
<1>3. StartStays(queue, recovery, recovery', starting, starting')
  <2>1. CASE r = "start"
    BY <2>1, RecoveryOfAStart DEF StartStays, QueueSound, StartAlone
  <2>2. CASE r # "start"
    BY <2>2 DEF StartStays, QueueSound, StartAlone, Callers
  <2>3. QED
    BY <2>1, <2>2
<1>4. QED
  BY <1>1, <1>2, <1>3

\* The same, when the queue does not change.
LEMMA RecoveryAlone ==
  ASSUME QueueSound, UNCHANGED queue, recovery' \in [Callers -> Recovery], Carried(recovery'),
         StillWaits(recovery, recovery'),
         StartStays(queue, recovery, recovery', starting, starting')
  PROVE  QueueSound'
<1>1. AwaitedBy(queue', recovery')
  BY DEF QueueSound, AwaitedBy, Awaited, StillWaits, InOrder, Fits, Callers
<1>2. StartAlone(queue', recovery', starting')
  BY DEF QueueSound, StartAlone, StartStays, NoStart
<1>3. QED
  BY <1>1, <1>2 DEF QueueSound, InOrder, Fits

\* What becomes of the recovery that a step ends or moves on.
LEMMA NewRecovery ==
  ASSUME NEW old \in Recovery, NEW pc \in {"retry", "load", "query", "finalize", "apply", "provision"}
  PROVE  /\ Idle \in Recovery /\ [Idle EXCEPT !.pc = pc] \in Recovery
         /\ [old EXCEPT !.pc = pc] \in Recovery
         /\ \A m \in Manifest : [old EXCEPT !.pc = pc, !.man = m] \in Recovery
         /\ \A m \in Manifest, result \in Results :
              [old EXCEPT !.pc = pc, !.man = m, !.result = result] \in Recovery
  BY DEF Idle, Recovery, Manifest, Results

LEMMA RecoveryFailsSound ==
  ASSUME Sound, NEW r \in Callers, recovery[r].pc \in {"query", "apply"}, RecoveryFails(r),
         incidents' \in 0..MaxIncidents
  PROVE  Sound'
<1>1. QueueSound /\ OBSTyped /\ ManifestTyped /\ AppTyped
  BY SoundParts
<1>2. recovery[r] \in Recovery
  BY <1>1 DEF QueueSound
<1> DEFINE new == IF r = "reconnect" /\ ~recovery[r].aborted
                    THEN [Idle EXCEPT !.pc = "retry"] ELSE Idle
<1>3. new \in Recovery /\ new.pc \in {"idle", "retry"} /\ (r = "start" => new.pc = "idle")
  BY <1>2, NewRecovery DEF Idle
<1>4. /\ recovery' \in [Callers -> Recovery] /\ recovery'[r] = new /\ queue' = queue
      /\ \A other \in Callers \ {r} : recovery'[other] = recovery[other]
  BY <1>1, <1>3 DEF RecoveryFails, QueueSound
<1>5. starting' = starting \/ r = "start"
  BY DEF RecoveryFails, Callers
<1> HIDE DEF new
<1>6. QueueSound'
  BY <1>1, <1>3, <1>4, <1>5, RecoveryChanges, RecoveryAlone DEF Awaited
<1>7. AppTyped'
  <2>1. CASE r = "start"
    <3>1. StartEnds(claim) /\ UNCHANGED <<attached, jobs, deleting>>
      BY <2>1 DEF RecoveryFails
    <3>2. QED
      BY <1>1, <3>1, StartEndsTyped DEF AppTyped
  <2>2. CASE r = "connect"
    BY <1>1, <2>2 DEF RecoveryFails, ConnectFails, AppTyped, Phases
  <2>3. CASE r = "reconnect"
    BY <1>1, <2>3 DEF RecoveryFails, AppTyped, statusVars
  <2>4. QED
    BY <2>1, <2>2, <2>3 DEF Callers
<1>8. OBSTyped' /\ ManifestTyped'
  BY <1>1 DEF RecoveryFails, OBSTyped, ManifestTyped, obsVars
<1>9. QED
  BY <1>6, <1>7, <1>8, SoundParts

LEMMA RecoveryThrowsIsSound ==
  ASSUME Sound, NEW r \in Callers, RecoveryThrows(r) PROVE Sound'
<1>1. AppTyped
  BY SoundParts
<1>2. recovery[r].pc \in {"query", "apply"} /\ RecoveryFails(r)
  BY DEF RecoveryThrows
<1>3. incidents' \in 0..MaxIncidents
  BY <1>1, IncidentIsTyped DEF RecoveryThrows, AppTyped
<1>4. QED
  BY <1>2, <1>3, RecoveryFailsSound

LEMMA NothingToRecoverIsSound ==
  ASSUME Sound, NEW r \in Callers, NothingToRecover(r) PROVE Sound'
<1>1. QueueSound /\ OBSTyped /\ ManifestTyped /\ AppTyped
  BY SoundParts
<1>2. recovery[r] \in Recovery /\ recovery[r].pc = "load"
  BY <1>1 DEF QueueSound, NothingToRecover, Loading
<1>3. QueueSound'
  <2>1. CASE r = "connect" /\ ~recovery[r].aborted
    <3> DEFINE new == [recovery[r] EXCEPT !.pc = "provision"]
    <3>1. new \in Recovery /\ new.pc = "provision" /\ starting' = starting
      BY <1>2, <2>1 DEF Recovery, NothingToRecover
    <3>2. /\ recovery' \in [Callers -> Recovery] /\ recovery'[r] = new
          /\ \A other \in Callers \ {r} : recovery'[other] = recovery[other]
          /\ queue' = Append(queue, NewCommand("provision", r))
      BY <1>1, <2>1, <3>1 DEF NothingToRecover, QueueSound
    <3> HIDE DEF new
    <3>3. /\ recovery' \in [Callers -> Recovery] /\ Carried(recovery')
          /\ StillWaits(recovery, recovery')
          /\ StartStays(queue, recovery, recovery', starting, starting')
      BY <1>1, <1>2, <3>1, <3>2, RecoveryChanges DEF Awaited
    <3>4. QED
      BY <1>1, <1>2, <2>1, <3>1, <3>2, <3>3, AppendIsSound DEF Kinds, Awaited
  <2>2. CASE ~(r = "connect" /\ ~recovery[r].aborted)
    <3>1. Idle \in Recovery /\ Idle.pc = "idle"
      BY <1>2, NewRecovery DEF Idle
    <3>2. /\ recovery' \in [Callers -> Recovery] /\ recovery'[r] = Idle /\ queue' = queue
          /\ \A other \in Callers \ {r} : recovery'[other] = recovery[other]
      BY <1>1, <2>2, <3>1 DEF NothingToRecover, QueueSound
    <3>3. starting' = starting \/ r = "start"
      BY DEF NothingToRecover, Callers
    <3>4. QED
      BY <1>1, <1>2, <3>1, <3>2, <3>3, RecoveryChanges, RecoveryAlone DEF Awaited
  <2>3. QED
    BY <2>1, <2>2
<1>4. AppTyped'
  <2>1. CASE r = "start"
    <3>1. StartEnds(claim) /\ UNCHANGED <<attached, jobs, deleting, incidents>>
      BY <2>1 DEF NothingToRecover
    <3>2. QED
      BY <1>1, <3>1, StartEndsTyped DEF AppTyped
  <2>2. CASE r = "connect"
    BY <1>1, <2>2 DEF NothingToRecover, ConnectFails, AppTyped, Phases
  <2>3. CASE r = "reconnect"
    BY <1>1, <2>3 DEF NothingToRecover, AppTyped, Phases
  <2>4. QED
    BY <2>1, <2>2, <2>3 DEF Callers
<1>5. OBSTyped' /\ ManifestTyped'
  BY <1>1 DEF NothingToRecover, OBSTyped, ManifestTyped, obsVars
<1>6. QED
  BY <1>3, <1>4, <1>5, SoundParts

\* A manifest is handed to the queue to be finalized.
LEMMA ToFinalizeIsSound ==
  ASSUME QueueSound, NEW r \in Callers, recovery[r].pc \notin Awaited \cup {"idle"},
         NEW m \in Manifest, m.session \in Sessions, ToFinalize(r, m), UNCHANGED starting
  PROVE  QueueSound'
<1> DEFINE new == [recovery[r] EXCEPT !.pc = "finalize", !.man = m]
<1>1. recovery[r] \in Recovery
  BY DEF QueueSound
<1>2. new \in Recovery /\ new.pc = "finalize" /\ new.man = m
  BY <1>1 DEF Recovery
<1>3. /\ recovery' \in [Callers -> Recovery] /\ recovery'[r] = new
      /\ \A other \in Callers \ {r} : recovery'[other] = recovery[other]
      /\ queue' = Append(queue, NewCommand("finalize", r))
  BY <1>2 DEF ToFinalize, QueueSound
<1> HIDE DEF new
<1>4. /\ Carried(recovery') /\ StillWaits(recovery, recovery')
      /\ StartStays(queue, recovery, recovery', starting, starting')
  BY <1>2, <1>3, RecoveryChanges
<1>5. QED
  BY <1>2, <1>3, <1>4, AppendIsSound DEF Kinds, Awaited

\* A result is to be applied.
LEMMA ToApplyChanges ==
  ASSUME QueueSound, NEW r \in Callers, recovery[r].pc \notin Awaited \cup {"idle"},
         NEW m \in Manifest, m.session \in Sessions, NEW result \in Results \ {"none"},
         ToApply(r, m, result), UNCHANGED starting
  PROVE  /\ recovery' \in [Callers -> Recovery] /\ Carried(recovery')
         /\ StillWaits(recovery, recovery')
         /\ StartStays(queue, recovery, recovery', starting, starting')
<1> DEFINE new == [recovery[r] EXCEPT !.pc = "apply", !.man = m, !.result = result]
<1>1. recovery[r] \in Recovery
  BY DEF QueueSound
<1>2. new \in Recovery /\ new.pc = "apply" /\ new.man = m /\ new.result = result
  BY <1>1 DEF Recovery
<1>3. /\ recovery' \in [Callers -> Recovery] /\ recovery'[r] = new
      /\ \A other \in Callers \ {r} : recovery'[other] = recovery[other]
  BY <1>2 DEF ToApply, QueueSound
<1> HIDE DEF new
<1>4. QED
  BY <1>2, <1>3, RecoveryChanges

LEMMA AttachesIsSound ==
  ASSUME QueueSound, NEW r \in Callers, recovery[r].pc \notin Awaited \cup {"idle"},
         NEW m \in Manifest, m.session \in Sessions, NEW result \in Results \ {"none"},
         Attaches(r, m, result), UNCHANGED starting
  PROVE  QueueSound'
<1>1. /\ recovery' \in [Callers -> Recovery] /\ Carried(recovery')
      /\ StillWaits(recovery, recovery')
      /\ StartStays(queue, recovery, recovery', starting, starting')
  BY ToApplyChanges DEF Attaches
<1>2. queue' = [i \in DOMAIN queue |-> [queue[i] EXCEPT !.own = FALSE]]
  BY DEF Attaches
<1>3. queue' \in Seq(Command) /\ InOrder(queue') /\ AwaitedBy(queue', recovery')
  BY <1>1, <1>2, DisownKeepsOrder DEF QueueSound
<1>4. StartAlone(queue', recovery', starting')
  BY <1>1, <1>2, DisownKeepsStart DEF QueueSound
<1>5. QED
  BY <1>1, <1>3, <1>4 DEF QueueSound

LEMMA LoadManifestIsSound ==
  ASSUME Sound, NEW r \in Callers, LoadManifest(r) PROVE Sound'
<1>1. QueueSound /\ OBSTyped /\ ManifestTyped /\ AppTyped
  BY SoundParts
<1>2. recovery[r] \in Recovery /\ recovery[r].pc = "load"
  BY <1>1 DEF QueueSound, LoadManifest, Loading
<1>3. UNCHANGED <<obsVars, disk, statusVars, dbVars, ipcVars, incidents>>
  BY DEF LoadManifest
<1>4. disk \in Manifest /\ disk.session \in Sessions
  BY <1>1 DEF LoadManifest, ManifestTyped, Manifest
<1>5. QueueSound' /\ mem' \in {mem, disk}
  <2>1. CASE Attaches(r, disk, "failed")
    BY <1>1, <1>2, <1>3, <1>4, <2>1, AttachesIsSound DEF Attaches, Results, Awaited, ipcVars
  <2>2. CASE ToFinalize(r, disk) /\ UNCHANGED mem
    BY <1>1, <1>2, <1>3, <1>4, <2>2, ToFinalizeIsSound DEF Awaited, ipcVars
  <2>3. CASE /\ recovery' = [recovery EXCEPT ![r].pc = "query", ![r].man = disk]
             /\ UNCHANGED <<mem, queue>>
    <3> DEFINE new == [recovery[r] EXCEPT !.pc = "query", !.man = disk]
    <3>1. new \in Recovery /\ new.pc = "query" /\ new.man = disk
      BY <1>2, <1>4 DEF Recovery
    <3>2. /\ recovery' \in [Callers -> Recovery] /\ recovery'[r] = new
          /\ \A other \in Callers \ {r} : recovery'[other] = recovery[other]
      BY <1>1, <2>3, <3>1 DEF QueueSound
    <3> HIDE DEF new
    <3>3. QED
      BY <1>1, <1>2, <1>3, <1>4, <2>3, <3>1, <3>2, RecoveryChanges, RecoveryAlone
         DEF Awaited, ipcVars
  <2>4. QED
    BY <2>1, <2>2, <2>3 DEF LoadManifest
<1>6. OBSTyped' /\ ManifestTyped' /\ AppTyped'
  BY <1>1, <1>3, <1>5 DEF OBSTyped, ManifestTyped, AppTyped, obsVars, statusVars, dbVars, ipcVars
<1>7. QED
  BY <1>5, <1>6, SoundParts

LEMMA QueryRecordingIsSound ==
  ASSUME Sound, NEW r \in Callers, QueryRecording(r) PROVE Sound'
<1> DEFINE m == recovery[r].man
<1>1. QueueSound /\ OBSTyped /\ ManifestTyped /\ AppTyped
  BY SoundParts
<1>2. recovery[r] \in Recovery /\ recovery[r].pc = "query" /\ m.session \in Sessions
  BY <1>1 DEF QueueSound, Carried, QueryRecording
<1>3. m \in [session : Sessions, state : States]
  BY <1>2, ConstantsAssumption DEF Recovery, Manifest, NoManifest
<1>4. UNCHANGED <<obsVars, statusVars, dbVars, ipcVars, incidents>>
  BY DEF QueryRecording
<1> DEFINE taken == [m EXCEPT !.state = IF @ = "stop-intent" THEN @ ELSE "recording"]
           failed == [m EXCEPT !.state = "failed"]
<1>5. /\ m \in Manifest
      /\ taken \in Manifest /\ taken.session \in Sessions
      /\ failed \in Manifest /\ failed.session \in Sessions
  BY <1>3 DEF Manifest, States
<1>6. \/ disk' = taken /\ Attaches(r, disk', "reattached")
      \/ ToApply(r, m, "conflict") /\ UNCHANGED <<disk, mem, queue>>
      \/ disk' = failed /\ Attaches(r, disk', "failed")
      \/ ToFinalize(r, m) /\ UNCHANGED <<disk, mem>>
  BY DEF QueryRecording
<1> HIDE DEF taken, failed, m
<1>7. QueueSound' /\ ManifestTyped'
  <2>1. CASE disk' = taken /\ Attaches(r, disk', "reattached")
    BY <1>1, <1>2, <1>4, <1>5, <2>1, AttachesIsSound
       DEF Attaches, Results, Awaited, ManifestTyped, ipcVars
  <2>2. CASE disk' = failed /\ Attaches(r, disk', "failed")
    BY <1>1, <1>2, <1>4, <1>5, <2>2, AttachesIsSound
       DEF Attaches, Results, Awaited, ManifestTyped, ipcVars
  <2>3. CASE ToFinalize(r, m) /\ UNCHANGED <<disk, mem>>
    BY <1>1, <1>2, <1>4, <1>5, <2>3, ToFinalizeIsSound DEF Awaited, ManifestTyped, ipcVars, m
  <2>4. CASE ToApply(r, m, "conflict") /\ UNCHANGED <<disk, mem, queue>>
    <3>1. "conflict" \in Results \ {"none"} /\ UNCHANGED starting
          /\ recovery[r].pc \notin Awaited \cup {"idle"} /\ m.session \in Sessions
      BY <1>2, <1>4 DEF Results, Awaited, ipcVars, m
    <3>2. /\ recovery' \in [Callers -> Recovery] /\ Carried(recovery')
          /\ StillWaits(recovery, recovery')
          /\ StartStays(queue, recovery, recovery', starting, starting')
      BY <1>1, <1>5, <2>4, <3>1, ToApplyChanges
    <3>3. QED
      BY <1>1, <2>4, <3>2, RecoveryAlone DEF ManifestTyped
  <2>5. QED
    BY <1>6, <2>1, <2>2, <2>3, <2>4
<1>8. OBSTyped' /\ AppTyped'
  BY <1>1, <1>4 DEF OBSTyped, AppTyped, obsVars, statusVars, dbVars, ipcVars
<1>9. QED
  BY <1>7, <1>8, SoundParts

LEMMA NoStartInTail ==
  ASSUME NEW q \in Seq(Command), q # <<>>, NoStart(q) PROVE NoStart(Tail(q))
<1>1. \A i \in 1..Len(Tail(q)) : Tail(q)[i] = q[i + 1] /\ i + 1 \in 1..Len(q)
  OBVIOUS
<1>2. QED
  BY <1>1 DEF NoStart

\* The head is the command that a recovery waits for.
LEMMA AwaitedHead ==
  ASSUME QueueSound, queue # <<>>, Head(queue).kind \in Awaited
  PROVE  /\ Head(queue).who \in Callers
         /\ recovery[Head(queue).who] \in Recovery
         /\ recovery[Head(queue).who].pc = Head(queue).kind
         /\ Head(queue).kind = "provision" => Head(queue).who = "connect"
<1>1. Head(queue) = queue[1] /\ 1 \in 1..Len(queue) /\ Fits(queue[1])
  BY HeadIsACommand DEF QueueSound
<1>2. queue[1].who \in Callers /\ (queue[1].kind = "provision" => queue[1].who = "connect")
  BY <1>1 DEF Fits, Awaited, Callers
<1>3. recovery[queue[1].who].pc = queue[1].kind
  BY <1>1 DEF QueueSound, AwaitedBy
<1>4. QED
  BY <1>1, <1>2, <1>3 DEF QueueSound

LEMMA AwaitedEnds ==
  ASSUME QueueSound, queue # <<>>, Head(queue).kind \in Awaited, Done, UNCHANGED starting,
         NEW r \in Callers, Head(queue).who = r, recovery' \in [Callers -> Recovery],
         \A other \in Callers \ {r} : recovery'[other] = recovery[other],
         recovery'[r].pc \in {"query", "finalize", "apply"} => recovery'[r].man.session \in Sessions,
         recovery'[r].pc = "apply" => recovery'[r].result # "none"
  PROVE  QueueSound'
<1>1. Head(queue) = queue[1]
  BY HeadIsACommand
<1>2. Carried(recovery')
  BY DEF QueueSound, Carried
<1>3. WaitsOn(queue, recovery, recovery')
  BY <1>1 DEF WaitsOn
<1>4. StartStays(queue', recovery, recovery', starting, starting')
  <2>1. CASE r = "start"
    <3>1. recovery["start"].pc # "idle"
      BY <2>1, AwaitedHead DEF Awaited
    <3>2. NoStart(queue')
      BY <3>1, RecoveryOfAStart, NoStartInTail DEF QueueSound, Done
    <3>3. QED
      BY <3>1, <3>2 DEF StartStays, QueueSound, StartAlone
  <2>2. CASE r # "start"
    BY <2>2 DEF StartStays, QueueSound, StartAlone, Callers
  <2>3. QED
    BY <2>1, <2>2
<1>5. QED
  BY <1>2, <1>3, <1>4, DoneIsSound

LEMMA FinalizeRecoveredIsSound == ASSUME Sound, FinalizeRecovered PROVE Sound'
<1> DEFINE r == Head(queue).who
           m == [recovery[r].man EXCEPT !.state = "finalizing"]
<1>1. QueueSound /\ OBSTyped /\ ManifestTyped /\ AppTyped
  BY SoundParts
<1>2. queue # <<>> /\ Head(queue).kind = "finalize"
      /\ UNCHANGED <<obsVars, statusVars, dbVars, ipcVars>>
  BY DEF FinalizeRecovered, Running
<1>3. r \in Callers /\ recovery[r] \in Recovery /\ recovery[r].pc = "finalize"
  BY <1>1, <1>2, AwaitedHead DEF Awaited
<1>4. recovery[r].man.session \in Sessions /\ recovery[r].man \in Manifest
  BY <1>1, <1>3 DEF QueueSound, Carried, Recovery
<1>5. m \in Manifest /\ m.session \in Sessions
  BY <1>4, ConstantsAssumption DEF Manifest, NoManifest, States
<1>6. mem' = m
      /\ \/ disk' = m /\ GoesOn(m, TRUE, "probe") /\ UNCHANGED <<recovery, incidents>>
         \/ Incident /\ Done /\ ToApply(r, recovery[r].man, "interrupted") /\ UNCHANGED disk
  BY DEF FinalizeRecovered
<1> HIDE DEF m, r
<1>7. ManifestTyped' /\ incidents' \in 0..MaxIncidents
  BY <1>1, <1>5, <1>6, IncidentIsTyped DEF ManifestTyped, AppTyped
<1>8. QueueSound'
  <2>1. CASE GoesOn(m, TRUE, "probe") /\ UNCHANGED recovery
    <3>1. TRUE \in BOOLEAN /\ "probe" \in Underway
      BY DEF Underway
    <3>2. QED
      BY <1>1, <1>2, <1>5, <2>1, <3>1, GoesOnIsSound DEF ipcVars
  <2>2. CASE Done /\ ToApply(r, recovery[r].man, "interrupted")
    <3>1. /\ recovery' \in [Callers -> Recovery]
          /\ recovery'[r].man = recovery[r].man /\ recovery'[r].result = "interrupted"
          /\ \A other \in Callers \ {r} : recovery'[other] = recovery[other]
      BY <1>1, <1>3, <1>4, <2>2 DEF ToApply, QueueSound, Recovery, Results
    <3>2. Head(queue).kind \in Awaited /\ Head(queue).who = r /\ UNCHANGED starting
      BY <1>2 DEF Awaited, r, ipcVars
    <3>3. QED
      BY <1>1, <1>2, <1>3, <1>4, <2>2, <3>1, <3>2, AwaitedEnds
  <2>3. QED
    BY <1>6, <2>1, <2>2
<1>9. OBSTyped' /\ AppTyped'
  BY <1>1, <1>2, <1>7 DEF OBSTyped, AppTyped, obsVars, statusVars, dbVars, ipcVars
<1>10. QED
  BY <1>7, <1>8, <1>9, SoundParts

LEMMA ProbeRecoveredIsSound == ASSUME Sound, ProbeRecovered PROVE Sound'
<1> DEFINE r == Head(queue).who
           m == recovery[r].man
<1>1. QueueSound /\ OBSTyped /\ ManifestTyped /\ AppTyped
  BY SoundParts
<1>2. queue # <<>> /\ Head(queue).kind = "finalize" /\ Head(queue).pc # "begin" /\ Done
      /\ UNCHANGED <<obsVars, statusVars, dbVars, ipcVars>>
  BY DEF ProbeRecovered, Running
<1>3. r \in Callers /\ recovery[r] \in Recovery /\ recovery[r].pc = "finalize"
  BY <1>1, <1>2, AwaitedHead DEF Awaited
<1>4. m.session \in Sessions /\ m \in Manifest
  BY <1>1, <1>3 DEF QueueSound, Carried, Recovery
<1>5. PICK state \in {"complete", "interrupted"} : Persists(state) \/ PersistFails(state)
  BY DEF ProbeRecovered
<1>6. PICK result \in {"recovered", "interrupted"} : ToApply(r, m, result)
  BY DEF ProbeRecovered
<1>7. ManifestTyped'
  BY <1>2, <1>5, PersistTyped DEF States
<1>8. incidents' \in 0..MaxIncidents
  BY <1>1, IncidentIsTyped DEF ProbeRecovered, PersistFails, AppTyped
<1>9. QueueSound'
  <2>1. /\ recovery' \in [Callers -> Recovery]
        /\ recovery'[r].man = m /\ recovery'[r].result = result
        /\ \A other \in Callers \ {r} : recovery'[other] = recovery[other]
    BY <1>1, <1>3, <1>4, <1>6 DEF ToApply, QueueSound, Recovery, Results
  <2>2. Head(queue).kind \in Awaited /\ UNCHANGED starting
    BY <1>2 DEF Awaited, ipcVars
  <2> HIDE DEF m, r
  <2>3. Head(queue).who = r
    BY DEF r
  <2>4. QED
    BY <1>1, <1>2, <1>3, <1>4, <2>1, <2>2, <2>3, AwaitedEnds
<1>10. OBSTyped' /\ AppTyped'
  BY <1>1, <1>2, <1>8 DEF OBSTyped, AppTyped, obsVars, statusVars, dbVars, ipcVars
<1>11. QED
  BY <1>7, <1>9, <1>10, SoundParts

LEMMA ConnectFailsTyped == ASSUME ConnectFails PROVE phase' \in Phases
  BY DEF ConnectFails, Phases

LEMMA ProvisionIsSound == ASSUME Sound, Provision PROVE Sound'
<1>1. QueueSound /\ OBSTyped /\ ManifestTyped /\ AppTyped
  BY SoundParts
<1>2. queue # <<>> /\ Head(queue).kind = "provision" /\ Done
      /\ recovery' = [recovery EXCEPT !["connect"] = Idle]
      /\ UNCHANGED <<obsVars, disk, mem, dbVars, ipcVars>>
  BY DEF Provision, Running
<1>3. Head(queue).who = "connect" /\ "connect" \in Callers
  BY <1>1, <1>2, AwaitedHead DEF Awaited, Callers
<1>4. Idle \in Recovery /\ Idle.pc = "idle"
  BY DEF Idle, Recovery, Manifest, Results
<1>5. /\ recovery' \in [Callers -> Recovery] /\ recovery'["connect"] = Idle
      /\ \A other \in Callers \ {"connect"} : recovery'[other] = recovery[other]
  BY <1>1, <1>2, <1>3, <1>4 DEF QueueSound
<1>6. QueueSound'
  BY <1>1, <1>2, <1>3, <1>4, <1>5, AwaitedEnds DEF Awaited, ipcVars
<1>7. AppTyped'
  <2>1. phase' \in Phases /\ active' \in Sessions \cup {NoSession}
        /\ incidents' \in 0..MaxIncidents
    BY <1>1, ConnectFailsTyped, IncidentIsTyped DEF Provision, AppTyped, Phases
  <2>2. QED
    BY <1>1, <1>2, <2>1 DEF AppTyped, dbVars, ipcVars
<1>8. OBSTyped' /\ ManifestTyped'
  BY <1>1, <1>2 DEF OBSTyped, ManifestTyped, obsVars
<1>9. QED
  BY <1>6, <1>7, <1>8, SoundParts

LEMMA DropRecoveryIsSound ==
  ASSUME Sound, NEW r \in Callers, DropRecovery(r) PROVE Sound'
<1>1. QueueSound /\ OBSTyped /\ ManifestTyped /\ AppTyped
  BY SoundParts
<1>2. recovery[r].pc = "apply" /\ recovery' = [recovery EXCEPT ![r] = Idle]
      /\ UNCHANGED <<obsVars, disk, mem, queue, active, dbVars, ipcVars, incidents>>
  BY DEF DropRecovery
<1>3. Idle \in Recovery /\ Idle.pc = "idle"
  BY DEF Idle, Recovery, Manifest, Results
<1>4. /\ recovery' \in [Callers -> Recovery] /\ recovery'[r] = Idle
      /\ \A other \in Callers \ {r} : recovery'[other] = recovery[other]
  BY <1>1, <1>2, <1>3 DEF QueueSound
<1>5. QueueSound'
  BY <1>1, <1>2, <1>3, <1>4, RecoveryChanges, RecoveryAlone DEF Awaited, ipcVars
<1>6. phase' \in Phases
  BY <1>1, ConnectFailsTyped DEF DropRecovery, AppTyped
<1>7. OBSTyped' /\ ManifestTyped' /\ AppTyped'
  BY <1>1, <1>2, <1>6 DEF OBSTyped, ManifestTyped, AppTyped, obsVars, dbVars, ipcVars
<1>8. QED
  BY <1>5, <1>7, SoundParts

\* A queue survives a change of the recoveries that keeps who waits and who starts.
LEMMA OrderOutlivesRecovery ==
  ASSUME NEW q \in Seq(Command), InOrder(q), NEW rec, NEW rec2, NEW session, NEW session2,
         AwaitedBy(q, rec), StillWaits(rec, rec2),
         StartAlone(q, rec, session), StartStays(q, rec, rec2, session, session2)
  PROVE  AwaitedBy(q, rec2) /\ StartAlone(q, rec2, session2)
<1>1. AwaitedBy(q, rec2)
  BY DEF AwaitedBy, Awaited, StillWaits, InOrder, Fits, Callers
<1>2. StartAlone(q, rec2, session2)
  BY DEF StartAlone, StartStays, NoStart
<1>3. QED
  BY <1>1, <1>2

LEMMA OneOrNone ==
  ASSUME NEW q \in Seq(Command), NEW c \in Command
  PROVE  q \o <<>> = q /\ q \o <<c>> = Append(q, c)
OBVIOUS

LEMMA HandledRowsAreRows ==
  ASSUME AppTyped, NEW s \in Sessions, NEW result \in Results \ {"none"}, NEW queued \in BOOLEAN
  PROVE  HandledRows(s, result, queued) \in [Sessions -> Statuses]
<1>1. row \in [Sessions -> Statuses]
      /\ \A status \in Statuses : WithStatus(row, s, status) \in [Sessions -> Statuses]
  BY RowsStayRows DEF AppTyped
<1>2. {"recording", "failed", "interrupted", "processing"} \subseteq Statuses
  BY DEF Statuses
<1>3. result \in {"reattached", "failed", "interrupted", "conflict", "recovered"}
  BY DEF Results
<1>4. QED
  BY <1>1, <1>2, <1>3 DEF HandledRows

LEMMA ApplyRecoveryQueue ==
  ASSUME Sound, NEW r \in Callers, ApplyRecovery(r) PROVE QueueSound'
<1> DEFINE s == recovery[r].man.session
           result == recovery[r].result
           ack == NewCommand("acknowledge", s)
           prov == NewCommand("provision", r)
           q == IF Acknowledges(s, result) THEN Append(queue, ack) ELSE queue
           provisions == r = "connect" /\ result \notin {"reattached", "conflict"}
           new == IF provisions THEN [Idle EXCEPT !.pc = "provision"] ELSE Idle
<1>1. QueueSound
  BY SoundParts
<1>2. recovery[r] \in Recovery /\ recovery[r].pc = "apply" /\ s \in Sessions
  BY <1>1 DEF QueueSound, Carried, ApplyRecovery
<1>3. /\ ack \in Command /\ Fits(ack) /\ ack.pc = "begin" /\ ack.kind = "acknowledge"
      /\ r = "connect" => prov \in Command /\ Fits(prov) /\ prov.pc = "begin"
                            /\ prov.kind = "provision" /\ prov.who = r
  BY <1>2 DEF NewCommand, Command, Fits, Kinds, Manifest, Callers
<1>4. new \in Recovery /\ new.pc = IF provisions THEN "provision" ELSE "idle"
  BY <1>2, NewRecovery DEF Idle
<1>5. /\ recovery' \in [Callers -> Recovery] /\ recovery'[r] = new
      /\ \A other \in Callers \ {r} : recovery'[other] = recovery[other]
  BY <1>1, <1>4 DEF ApplyRecovery, QueueSound
<1>6. starting' = starting \/ r = "start"
  BY DEF ApplyRecovery
<1>7. queue' = IF provisions THEN Append(q, prov) ELSE q
  <2>1. queue' = queue \o (IF Acknowledges(s, result) THEN <<ack>> ELSE <<>>)
                       \o (IF provisions THEN <<prov>> ELSE <<>>)
    BY DEF ApplyRecovery
  <2>2. queue \in Seq(Command)
    BY <1>1 DEF QueueSound
  <2> HIDE DEF ack, prov
  <2>3. queue \o (IF Acknowledges(s, result) THEN <<ack>> ELSE <<>>) = q /\ q \in Seq(Command)
    BY <1>3, <2>2, OneOrNone
  <2> HIDE DEF q
  <2>4. q \o (IF provisions THEN <<prov>> ELSE <<>>) = IF provisions THEN Append(q, prov) ELSE q
    <3>1. CASE provisions
      BY <1>3, <2>3, <3>1, OneOrNone
    <3>2. CASE ~provisions
      BY <1>3, <2>3, <3>2, OneOrNone
    <3>3. QED
      BY <3>1, <3>2
  <2>5. QED
    BY <2>1, <2>3, <2>4
<1> HIDE DEF ack, prov, new, s, result
<1>8. StartStays(queue, recovery, recovery, starting, starting) /\ StillWaits(recovery, recovery)
  BY <1>1 DEF QueueSound, StartAlone, StartStays, StillWaits
<1>9. q \in Seq(Command) /\ InOrder(q) /\ AwaitedBy(q, recovery) /\ StartAlone(q, recovery, starting)
  <2>1. CASE Acknowledges(s, result)
    <3>1. q = Append(queue, ack)
      BY <2>1
    <3>2. q \in Seq(Command) /\ InOrder(q) /\ AwaitedBy(q, recovery)
      BY <1>1, <1>3, <1>8, <3>1, AppendKeepsOrder DEF QueueSound, Awaited
    <3>3. StartAlone(q, recovery, starting)
      BY <1>1, <1>3, <1>8, <3>1, AppendKeepsStart DEF QueueSound
    <3>4. QED
      BY <3>2, <3>3
  <2>2. CASE ~Acknowledges(s, result)
    BY <1>1, <2>2 DEF QueueSound
  <2>3. QED
    BY <2>1, <2>2
<1> HIDE DEF q
<1>10. Carried(recovery') /\ StillWaits(recovery, recovery')
  BY <1>1, <1>2, <1>4, <1>5 DEF QueueSound, Carried, StillWaits, Awaited
<1>11. StartStays(q, recovery, recovery', starting, starting')
  <2>1. CASE r = "start"
    <3>1. NoStart(q)
      BY <1>2, <1>9, <2>1 DEF StartAlone, NoStart
    <3>2. recovery'["start"].pc = "idle"
      BY <1>4, <1>5, <2>1
    <3>3. QED
      BY <3>1, <3>2 DEF StartStays
  <2>2. CASE r # "start"
    BY <1>1, <1>5, <1>6, <2>2 DEF StartStays, QueueSound, StartAlone, Callers
  <2>3. QED
    BY <2>1, <2>2
<1>12. queue' \in Seq(Command) /\ InOrder(queue') /\ AwaitedBy(queue', recovery')
       /\ StartAlone(queue', recovery', starting')
  <2>1. CASE provisions
    <3>1. queue' = Append(q, prov) /\ r = "connect" /\ recovery'[r].pc = "provision"
      BY <1>4, <1>5, <1>7, <2>1
    <3>2. recovery[prov.who].pc \notin Awaited /\ recovery'[prov.who].pc = prov.kind
      BY <1>2, <1>3, <3>1 DEF Awaited
    <3>3. queue' \in Seq(Command) /\ InOrder(queue') /\ AwaitedBy(queue', recovery')
      BY <1>3, <1>9, <1>10, <3>1, <3>2, AppendKeepsOrder
    <3>4. StartAlone(queue', recovery', starting')
      BY <1>3, <1>9, <1>11, <3>1, AppendKeepsStart
    <3>5. QED
      BY <3>3, <3>4
  <2>2. CASE ~provisions
    BY <1>7, <1>9, <1>10, <1>11, <2>2, OrderOutlivesRecovery
  <2>3. QED
    BY <2>1, <2>2
<1>13. QED
  BY <1>5, <1>10, <1>12 DEF QueueSound

LEMMA ApplyRecoveryIsSound ==
  ASSUME Sound, NEW r \in Callers, ApplyRecovery(r) PROVE Sound'
<1> DEFINE s == recovery[r].man.session
           result == recovery[r].result
<1>1. QueueSound /\ OBSTyped /\ ManifestTyped /\ AppTyped
  BY SoundParts
<1>2. s \in Sessions /\ result \in Results \ {"none"}
  BY <1>1 DEF QueueSound, Carried, Recovery, ApplyRecovery
<1>3. attached' \subseteq Sessions
  BY <1>1, <1>2 DEF ApplyRecovery, AppTyped
<1>4. PICK queued \in BOOLEAN :
        LET rows == HandledRows(s, result, queued) IN
        /\ jobs' = IF queued THEN OneMore(s) ELSE jobs
        /\ incidents' = incidents \/ Incident
        /\ IF r # "start"
             THEN /\ active' = IF result = "reattached" THEN s ELSE NoSession
                  /\ phase' = RecoveredPhase(r)
                  /\ row' = rows
                  /\ UNCHANGED <<starting, claim>>
             ELSE /\ active' = IF result = "reattached" THEN s ELSE claim
                  /\ phase' = IF result = "reattached" THEN RecoveredPhase(r)
                              ELSE IF claim # NoSession THEN "recovering"
                              ELSE IF connected THEN "ready" ELSE "disconnected"
                  /\ row' = CASE result = "reattached" -> WithStatus(rows, starting, "recording")
                              [] result # "reattached" /\ claim = starting -> rows
                              [] OTHER -> WithStatus(rows, starting, "draft")
                  /\ starting' = NoSession
                  /\ claim' = NoSession
  BY DEF ApplyRecovery
<1>5. HandledRows(s, result, queued) \in [Sessions -> Statuses]
  BY <1>1, <1>2, HandledRowsAreRows
<1>6. row' \in [Sessions -> Statuses]
  <2> DEFINE rows == HandledRows(s, result, queued)
  <2>1. row' \in {rows, WithStatus(rows, starting, "recording"), WithStatus(rows, starting, "draft")}
    BY <1>4
  <2> HIDE DEF rows
  <2>2. rows \in [Sessions -> Statuses]
    BY <1>5 DEF rows
  <2>3. QED
    BY <2>1, <2>2, RowsStayRows DEF Statuses
<1>7. jobs' \in [Sessions -> 0..2] /\ incidents' \in 0..MaxIncidents
  BY <1>1, <1>4, JobsStayJobs, IncidentIsTyped DEF AppTyped
<1>8. phase' \in Phases
  BY <1>4 DEF RecoveredPhase, Phases
<1>9. {active', starting', claim', deleting'} \subseteq Sessions \cup {NoSession}
  BY <1>1, <1>2, <1>4 DEF AppTyped, ApplyRecovery
<1>10. OBSTyped' /\ ManifestTyped'
  BY <1>1 DEF ApplyRecovery, OBSTyped, ManifestTyped, obsVars
<1>11. AppTyped'
  BY <1>3, <1>6, <1>7, <1>8, <1>9 DEF AppTyped
<1>12. QED
  BY <1>10, <1>11, ApplyRecoveryQueue, SoundParts

----------------------------------------------------------------------------
(* The connection, deletion and crashes.                                   *)

\* Recoveries begin, are aborted or wait to retry; none waits for the queue.
LEMMA RecoveriesMove ==
  ASSUME QueueSound, UNCHANGED <<queue, starting>>, recovery' \in [Callers -> Recovery],
         recovery'["start"].pc = recovery["start"].pc,
         \A r \in Callers : \/ recovery'[r].pc = recovery[r].pc /\ recovery'[r].man = recovery[r].man
                                 /\ recovery'[r].result = recovery[r].result
                            \/ recovery[r].pc \notin Awaited /\ recovery'[r].pc \in {"idle", "retry", "load"}
  PROVE  QueueSound'
<1>1. Carried(recovery') /\ StillWaits(recovery, recovery')
  BY DEF QueueSound, Carried, StillWaits
<1>2. StartStays(queue, recovery, recovery', starting, starting')
  BY DEF QueueSound, StartAlone, StartStays
<1>3. QED
  BY <1>1, <1>2, RecoveryAlone

LEMMA ConnectionIsSound ==
  ASSUME Sound, Connect \/ Disconnect \/ CancelConnect \/ AbortReconnect \/ Reconnect
                  \/ EndReconnect \/ LoseConnection
  PROVE  Sound'
<1>1. QueueSound /\ OBSTyped /\ ManifestTyped /\ AppTyped
  BY SoundParts
<1>2. UNCHANGED <<obs, usable, disk, mem, queue, dbVars, ipcVars>>
  BY DEF Connect, Disconnect, CancelConnect, AbortReconnect, Reconnect, EndReconnect,
     LoseConnection, HandleDisconnect, obsVars
<1>3. recovery \in [Callers -> Recovery] /\ Idle \in Recovery /\ Idle.pc = "idle"
      /\ {"connect", "reconnect", "start"} = Callers
  BY <1>1 DEF QueueSound, Idle, Recovery, Manifest, Results, Callers
<1>4. \/ recovery' = recovery
      \/ recovery["connect"] = Idle /\ recovery' = [recovery EXCEPT !["connect"].pc = "load"]
      \/ recovery' = [recovery EXCEPT !["connect"].aborted = TRUE]
      \/ recovery' = [recovery EXCEPT !["reconnect"].aborted = TRUE]
      \/ recovery["reconnect"] = Idle /\ recovery' = [recovery EXCEPT !["reconnect"].pc = "retry"]
      \/ recovery["reconnect"].pc = "retry" /\ recovery' = [recovery EXCEPT !["reconnect"].pc = "load"]
      \/ recovery["reconnect"].pc = "retry" /\ recovery' = [recovery EXCEPT !["reconnect"] = Idle]
  BY Zenon DEF Connect, Disconnect, CancelConnect, AbortReconnect, Reconnect, EndReconnect,
     LoseConnection, HandleDisconnect
<1>5. recovery' \in [Callers -> Recovery]
  <2>1. \A rec \in Recovery : /\ [rec EXCEPT !.pc = "load"] \in Recovery
                              /\ [rec EXCEPT !.pc = "retry"] \in Recovery
                              /\ [rec EXCEPT !.aborted = TRUE] \in Recovery
    BY DEF Recovery
  <2>2. PICK r \in Callers, rec \in Recovery :
          recovery' \in {recovery, [recovery EXCEPT ![r] = rec]}
    <3>1. recovery["connect"] \in Recovery /\ recovery["reconnect"] \in Recovery
      BY <1>3
    <3>2. CASE recovery' = recovery
      BY <1>3, <3>2
    <3>3. CASE recovery' = [recovery EXCEPT !["connect"].pc = "load"]
      BY <1>3, <2>1, <3>1, <3>3
    <3>4. CASE recovery' = [recovery EXCEPT !["connect"].aborted = TRUE]
      BY <1>3, <2>1, <3>1, <3>4
    <3>5. CASE recovery' = [recovery EXCEPT !["reconnect"].aborted = TRUE]
      BY <1>3, <2>1, <3>1, <3>5
    <3>6. CASE recovery' = [recovery EXCEPT !["reconnect"].pc = "retry"]
      BY <1>3, <2>1, <3>1, <3>6
    <3>7. CASE recovery' = [recovery EXCEPT !["reconnect"].pc = "load"]
      BY <1>3, <2>1, <3>1, <3>7
    <3>8. CASE recovery' = [recovery EXCEPT !["reconnect"] = Idle]
      BY <1>3, <3>8
    <3>9. QED
      BY <1>4, <3>2, <3>3, <3>4, <3>5, <3>6, <3>7, <3>8
  <2>3. QED
    BY <1>3, <2>2
<1>6. /\ recovery'["start"].pc = recovery["start"].pc
      /\ \A r \in Callers :
           \/ recovery'[r].pc = recovery[r].pc /\ recovery'[r].man = recovery[r].man
                /\ recovery'[r].result = recovery[r].result
           \/ recovery[r].pc \notin Awaited /\ recovery'[r].pc \in {"idle", "retry", "load"}
  BY <1>3, <1>4 DEF Recovery, Awaited
<1>7. QueueSound'
  BY <1>1, <1>2, <1>5, <1>6, RecoveriesMove DEF ipcVars
<1>8. connected' \in BOOLEAN
  BY <1>1 DEF Connect, Disconnect, CancelConnect, AbortReconnect, Reconnect, EndReconnect,
     LoseConnection, HandleDisconnect, obsVars, OBSTyped
<1>9. phase' \in Phases
  BY <1>1 DEF Connect, Disconnect, CancelConnect, AbortReconnect, Reconnect, EndReconnect,
     LoseConnection, HandleDisconnect, statusVars, AppTyped, Phases
<1>10. active' \in Sessions \cup {NoSession}
  <2>1. mem.session \in Sessions \cup {NoSession}
    BY <1>1 DEF ManifestTyped, Manifest, NoManifest
  <2>2. active' \in {active, mem.session, NoSession}
    BY DEF Connect, Disconnect, CancelConnect, AbortReconnect, Reconnect, EndReconnect,
       LoseConnection, HandleDisconnect, statusVars
  <2>3. QED
    BY <1>1, <2>1, <2>2 DEF AppTyped
<1>11. incidents' \in 0..MaxIncidents
  <2>1. incidents' = incidents \/ Incident
    BY DEF Connect, Disconnect, CancelConnect, AbortReconnect, Reconnect, EndReconnect,
       LoseConnection
  <2>2. QED
    BY <1>1, <2>1, IncidentIsTyped DEF AppTyped
<1>12. OBSTyped' /\ ManifestTyped' /\ AppTyped'
  BY <1>1, <1>2, <1>8, <1>9, <1>10, <1>11 DEF OBSTyped, ManifestTyped, AppTyped, dbVars, ipcVars
<1>13. QED
  BY <1>7, <1>12, SoundParts

LEMMA DeletionIsSound ==
  ASSUME Sound, (\E s \in Sessions : Delete(s)) \/ DeleteEnds PROVE Sound'
<1>1. QueueSound /\ OBSTyped /\ ManifestTyped /\ AppTyped
  BY SoundParts
<1>2. CASE DeleteEnds
  <2>1. QueueSound'
    BY <1>1, <1>2, QueueKept DEF DeleteEnds
  <2>2. OBSTyped' /\ ManifestTyped' /\ AppTyped'
    BY <1>1, <1>2 DEF DeleteEnds, OBSTyped, ManifestTyped, AppTyped, statusVars, Statuses
  <2>3. QED
    BY <2>1, <2>2, SoundParts
<1>3. ASSUME NEW s \in Sessions, Delete(s) PROVE Sound'
  <2>1. QueueSound'
    BY <1>1, <1>3, QueueKept DEF Delete
  <2>2. OBSTyped' /\ ManifestTyped' /\ AppTyped'
    BY <1>1, <1>3, IncidentIsTyped
       DEF Delete, OBSTyped, ManifestTyped, AppTyped, obsVars, statusVars, dbVars
  <2>3. QED
    BY <2>1, <2>2, SoundParts
<1>4. QED
  BY <1>2, <1>3

LEMMA RestartsAreSound ==
  ASSUME Sound, Restarts, row' \in [Sessions -> Statuses], attached' \subseteq Sessions
  PROVE  Sound'
<1>1. OBSTyped /\ ManifestTyped /\ AppTyped
  BY SoundParts
<1>2. queue' = <<>> /\ queue' \in Seq(Command) /\ Len(queue') = 0
  BY DEF Restarts
<1>3. Idle \in Recovery /\ recovery' = [r \in Callers |-> Idle]
      /\ \A r \in Callers : recovery'[r].pc = "idle"
  BY DEF Restarts, Idle, Recovery, Results, Manifest
<1>4. QueueSound'
  BY <1>2, <1>3 DEF QueueSound, InOrder, AwaitedBy, Carried, StartAlone, Callers
<1>5. OBSTyped' /\ ManifestTyped' /\ AppTyped'
  BY <1>1, IncidentIsTyped DEF Restarts, OBSTyped, ManifestTyped, AppTyped, Manifest, Phases
<1>6. QED
  BY <1>4, <1>5, SoundParts

LEMMA CrashIsSound == ASSUME Sound, Crash \/ CrashInHandoff PROVE Sound'
<1>1. AppTyped
  BY SoundParts
<1>2. row' \in [Sessions -> Statuses] /\ attached' \subseteq Sessions /\ Restarts
  BY <1>1, RowsStayRows DEF Crash, CrashInHandoff, SetStatus, AppTyped, Statuses
<1>3. QED
  BY <1>2, RestartsAreSound

----------------------------------------------------------------------------

LEMMA StutterIsSound == ASSUME Sound, UNCHANGED vars PROVE Sound'
<1>1. QueueSound /\ OBSTyped /\ ManifestTyped /\ AppTyped
  BY SoundParts
<1>2. QueueSound'
  BY <1>1, QueueKept DEF vars
<1>3. OBSTyped' /\ ManifestTyped' /\ AppTyped'
  BY <1>1 DEF vars, OBSTyped, ManifestTyped, AppTyped
<1>4. QED
  BY <1>2, <1>3, SoundParts

LEMMA NextIsSound == ASSUME Sound, [Next]_vars PROVE Sound'
<1>1. CASE RunCommand
  BY <1>1, StartRefusedIsSound, StartReadyIsSound, StartIntentIsSound, RequestStartIsSound,
     AwaitStartIsSound, ReconcileStartIsSound, StartCompletesIsSound, StopIntentIsSound,
     QueryStopIsSound, RequestStopIsSound, ReconcileStopIsSound, StopFinalizesIsSound,
     StopProbesIsSound, StopHandsOffIsSound, AcknowledgeIsSound, FinalizeRecoveredIsSound,
     ProbeRecoveredIsSound, ProvisionIsSound DEF RunCommand
<1>2. ASSUME NEW r \in Callers, Recover(r) PROVE Sound'
  BY <1>2, NothingToRecoverIsSound, LoadManifestIsSound, RecoveryThrowsIsSound,
     QueryRecordingIsSound, ApplyRecoveryIsSound, DropRecoveryIsSound DEF Recover
<1>3. CASE \E s \in Sessions : Start(s)
  BY <1>3, StartIsSound
<1>4. QED
  BY <1>1, <1>2, <1>3, StopIsSound, ConnectionIsSound, OBSIsSound, DeletionIsSound,
     CrashIsSound, StutterIsSound DEF Next

\* Whatever fails and in whatever order the calls overlap, the variables keep their types:
\* no command runs without the manifest it needs, no recovery applies a result it has not got.
THEOREM TypesAlways == Spec => []TypeOK
<1>1. Sound => TypeOK
  BY DEF Sound
<1>2. QED
  BY <1>1, InitIsSound, NextIsSound, PTL DEF Spec

----------------------------------------------------------------------------
(* One pending recording.                                                  *)

\* The manifests of one session, or none at all: on disk, in memory, held by a command,
\* carried by a recovery that has not decided on its result yet.
Of(m, s) == m.session \in {s, NoSession}
HeldOf(q, s) == \A i \in 1..Len(q) : Of(q[i].man, s)
CarriedOf(rec, s) == \A r \in Callers : rec[r].pc \in {"query", "finalize"} => Of(rec[r].man, s)
About(s) == Of(disk, s) /\ Of(mem, s) /\ HeldOf(queue, s) /\ CarriedOf(recovery, s)

LEMMA NothingIsOf == ASSUME NEW s PROVE Of(NoManifest, s)
  BY DEF Of, NoManifest

LEMMA QueuesOf ==
  ASSUME NEW q \in Seq(Command), NEW s, HeldOf(q, s)
  PROVE  /\ q # <<>> => HeldOf(Tail(q), s) /\ Tail(q) \in Seq(Command) /\ Of(Head(q).man, s)
         /\ \A c \in Command : Of(c.man, s) =>
              /\ HeldOf(Append(q, c), s)
              /\ q # <<>> => HeldOf(<<c>> \o Tail(q), s)
<1>1. ASSUME q # <<>>
      PROVE  /\ HeldOf(Tail(q), s) /\ Tail(q) \in Seq(Command) /\ Of(Head(q).man, s)
             /\ Len(Tail(q)) = Len(q) - 1
  <2>1. Tail(q) \in Seq(Command) /\ Len(Tail(q)) = Len(q) - 1 /\ Head(q) = q[1]
        /\ 1 \in 1..Len(q)
        /\ \A i \in 1..Len(Tail(q)) : Tail(q)[i] = q[i + 1] /\ i + 1 \in 1..Len(q)
    BY <1>1
  <2>2. QED
    BY <2>1 DEF HeldOf
<1>2. ASSUME NEW c \in Command, Of(c.man, s) PROVE HeldOf(Append(q, c), s)
  BY <1>2 DEF HeldOf
<1>3. ASSUME NEW c \in Command, Of(c.man, s), q # <<>> PROVE HeldOf(<<c>> \o Tail(q), s)
  <2>1. Tail(q) \in Seq(Command) /\ HeldOf(Tail(q), s)
    BY <1>1, <1>3
  <2>2. \A i \in 1..Len(<<c>> \o Tail(q)) :
          \/ (<<c>> \o Tail(q))[i] = c
          \/ \E j \in 1..Len(Tail(q)) : (<<c>> \o Tail(q))[i] = Tail(q)[j]
    BY <2>1
  <2>3. QED
    BY <1>3, <2>1, <2>2 DEF HeldOf
<1>4. QED
  BY <1>1, <1>2, <1>3

\* The steps of the head of the queue.
LEMMA DoneOf ==
  ASSUME QueueSound, NEW s, HeldOf(queue, s), queue # <<>>, Done PROVE HeldOf(queue', s)
  BY QueuesOf DEF QueueSound, Done

LEMMA AppendOf ==
  ASSUME QueueSound, NEW s, HeldOf(queue, s), NEW kind \in Kinds,
         NEW who \in Sessions \cup Callers \cup {NoSession},
         queue' = Append(queue, NewCommand(kind, who))
  PROVE  HeldOf(queue', s)
<1>1. NewCommand(kind, who) \in Command /\ Of(NewCommand(kind, who).man, s)
  BY NothingIsOf DEF NewCommand, Command, Manifest
<1>2. QED
  BY <1>1, QueuesOf DEF QueueSound

LEMMA GoesOnOf ==
  ASSUME QueueSound, NEW s, HeldOf(queue, s), queue # <<>>,
         NEW m \in Manifest, Of(m, s), NEW own \in BOOLEAN, NEW pc \in Underway, GoesOn(m, own, pc)
  PROVE  HeldOf(queue', s)
<1> DEFINE c == [Head(queue) EXCEPT !.man = m, !.own = own, !.pc = pc]
<1>1. c \in Command /\ c.man = m
  BY HeadIsACommand DEF Command, Underway
<1>2. queue' = <<c>> \o Tail(queue)
  BY DEF GoesOn
<1> HIDE DEF c
<1>3. QED
  BY <1>1, <1>2, QueuesOf DEF QueueSound

\* The command under way, its manifest in another state, and what memory holds then.
LEMMA HeadOf ==
  ASSUME QueueSound, ManifestTyped, NEW s, About(s), queue # <<>>, Head(queue).pc # "begin"
  PROVE  /\ Head(queue).man \in Manifest /\ Head(queue).own \in BOOLEAN /\ Of(Head(queue).man, s)
         /\ \A state \in States : InState(state) \in Manifest /\ Of(InState(state), s)
                                    /\ Of(Remembered(state), s)
<1>1. Of(Head(queue).man, s)
  BY QueuesOf DEF QueueSound, About
<1>2. QED
  BY <1>1, HeadIsACommand, StatesOfHead DEF Of, About, Remembered

LEMMA StartFailsOf ==
  ASSUME QueueSound, NEW s, About(s), queue # <<>>, StartFails
  PROVE  HeldOf(queue', s) /\ CarriedOf(recovery', s)
<1>1. HeldOf(queue', s)
  BY DoneOf DEF StartFails, About
<1>2. recovery' = [recovery EXCEPT !["start"].pc = "load"] \/ recovery' = recovery
  BY Zenon DEF StartFails
<1>3. CarriedOf(recovery', s)
  BY <1>2 DEF QueueSound, About, CarriedOf, Recovery, Callers
<1>4. QED
  BY <1>1, <1>3

\* Every command under way but StartReady.
LEMMA StartsKeepAbout ==
  ASSUME Sound, NEW s, About(s),
         \/ StartRefused \/ StartIntent \/ RequestStart \/ AwaitStart \/ ReconcileStart
         \/ StartCompletes
  PROVE  About(s)'
<1>1. QueueSound /\ ManifestTyped
  BY SoundParts
<1>2. CASE StartRefused
  <2>1. queue # <<>> /\ StartFails /\ UNCHANGED disk /\ mem' \in {mem, disk}
    BY <1>2 DEF StartRefused, Running, Pending
  <2>2. QED
    BY <1>1, <2>1, StartFailsOf DEF About
<1>3. CASE StartIntent \/ RequestStart \/ AwaitStart \/ ReconcileStart \/ StartCompletes
  <2>1. queue # <<>> /\ Head(queue).pc # "begin"
    BY <1>3 DEF StartIntent, RequestStart, AwaitStart, ReconcileStart, StartCompletes, Running
  <2>2. \/ UNCHANGED <<disk, mem>>
        \/ \E state \in {"start-intent", "failed", "recording"} :
             Persists(state) \/ PersistFails(state)
    BY <1>3 DEF StartIntent, RequestStart, AwaitStart, ReconcileStart, StartCompletes
  <2>3. Of(disk', s) /\ Of(mem', s)
    BY <1>1, <2>1, <2>2, HeadOf DEF Persists, PersistFails, About, States
  <2>4. \/ StartFails
        \/ recovery' = recovery
            /\ \/ Done
               \/ \E pc \in Underway :
                    \/ GoesOn(Head(queue).man, Head(queue).own, pc)
                    \/ GoesOn(InState("start-intent"), Head(queue).own, pc)
    BY <1>3 DEF StartIntent, RequestStart, AwaitStart, ReconcileStart, StartCompletes, Underway
  <2>5. HeldOf(queue', s) /\ CarriedOf(recovery', s)
    <3>1. CASE StartFails
      BY <1>1, <2>1, <3>1, StartFailsOf
    <3>2. CASE recovery' = recovery /\ Done
      BY <1>1, <2>1, <3>2, DoneOf DEF About
    <3>3. CASE recovery' = recovery /\ \E pc \in Underway :
                    \/ GoesOn(Head(queue).man, Head(queue).own, pc)
                    \/ GoesOn(InState("start-intent"), Head(queue).own, pc)
      BY <1>1, <2>1, <3>3, HeadOf, GoesOnOf DEF About, States
    <3>4. QED
      BY <2>4, <3>1, <3>2, <3>3
  <2>6. QED
    BY <2>3, <2>5 DEF About
<1>4. QED
  BY <1>2, <1>3

LEMMA StopsKeepAbout ==
  ASSUME Sound, NEW s, About(s),
         \/ StopIntent \/ QueryStop \/ RequestStop \/ ReconcileStop \/ StopFinalizes \/ StopProbes
  PROVE  About(s)'
<1>1. QueueSound /\ ManifestTyped
  BY SoundParts
<1>2. recovery' = recovery
  BY DEF StopIntent, QueryStop, RequestStop, ReconcileStop, StopFinalizes, StopProbes, StopFails
<1>3. CASE StopIntent
  <2>1. queue # <<>>
    BY <1>3 DEF StopIntent, Running
  <2>2. mem.state \in ActiveStates => mem \in [session : Sessions, state : States]
    BY <1>1 DEF ManifestTyped, Manifest, NoManifest, ActiveStates
  <2>3. /\ disk' \in {disk, mem'}
        /\ \/ mem' = mem /\ Done
           \/ /\ mem' \in Manifest /\ mem'.session = mem.session
              /\ Done \/ GoesOn(mem', TRUE, "query")
    BY <1>3, <2>2 DEF StopIntent, StopFails, Manifest, States
  <2>4. Of(disk', s) /\ Of(mem', s)
    BY <2>3 DEF About, Of
  <2>5. HeldOf(queue', s)
    BY <1>1, <2>1, <2>3, <2>4, DoneOf, GoesOnOf DEF About, Underway
  <2>6. QED
    BY <1>2, <2>4, <2>5 DEF About
<1>4. CASE QueryStop \/ RequestStop \/ ReconcileStop \/ StopFinalizes \/ StopProbes
  <2>1. queue # <<>> /\ Head(queue).pc # "begin"
    BY <1>4 DEF QueryStop, RequestStop, ReconcileStop, StopFinalizes, StopProbes, Running
  <2>2. \/ UNCHANGED <<disk, mem>>
        \/ \E state \in {"finalizing", "complete"} : Persists(state) \/ PersistFails(state)
    BY <1>4 DEF QueryStop, RequestStop, ReconcileStop, StopFinalizes, StopProbes
  <2>3. Of(disk', s) /\ Of(mem', s)
    BY <1>1, <2>1, <2>2, HeadOf DEF Persists, PersistFails, About, States
  <2>4. \/ Done
        \/ \E pc \in Underway, m \in {Head(queue).man, InState("finalizing"), InState("complete")} :
             GoesOn(m, Head(queue).own, pc)
    BY <1>4 DEF QueryStop, RequestStop, ReconcileStop, StopFinalizes, StopProbes, StopFails, Underway
  <2>5. HeldOf(queue', s)
    BY <1>1, <2>1, <2>4, DoneOf, HeadOf, GoesOnOf DEF About, States
  <2>6. QED
    BY <1>2, <2>3, <2>5 DEF About
<1>5. QED
  BY <1>3, <1>4

LEMMA HandsOffOrAcknowledges ==
  ASSUME Sound, NEW s, About(s), StopHandsOff \/ Acknowledge PROVE About(s)'
<1>1. QueueSound /\ ManifestTyped
  BY SoundParts
<1>2. recovery' = recovery /\ queue # <<>>
      /\ disk' \in {disk, NoManifest} /\ mem' \in {mem, NoManifest}
  BY DEF StopHandsOff, Acknowledge, Running
<1>3. Of(disk', s) /\ Of(mem', s)
  BY <1>2, NothingIsOf DEF About
<1>4. HeldOf(queue', s)
  <2>1. HeldOf(Tail(queue), s) /\ Tail(queue) \in Seq(Command)
    BY <1>1, <1>2, QueuesOf DEF QueueSound, About
  <2>2. CASE Done
    BY <2>1, <2>2 DEF Done
  <2>3. CASE StopHandsOff /\ ~Done
    <3> DEFINE c == NewCommand("acknowledge", Head(queue).man.session)
    <3>1. queue' = Append(Tail(queue), c) /\ Head(queue).pc # "begin"
      BY <2>3 DEF StopHandsOff, Running
    <3>2. c \in Command /\ Of(c.man, s)
      BY <1>1, <1>2, <3>1, HeadIsACommand, NothingIsOf DEF NewCommand, Command, Manifest, Kinds, Fits
    <3> HIDE DEF c
    <3>3. QED
      BY <2>1, <3>1, <3>2, QueuesOf
  <2>4. QED
    BY <2>2, <2>3 DEF Acknowledge
<1>5. QED
  BY <1>2, <1>3, <1>4 DEF About

\* The only step that takes the manifest of another session: there is none left of the last.
LEMMA StartReadyBegins ==
  ASSUME Sound, ~Overtaking, NEW s, About(s), StartReady
  PROVE  disk = NoManifest /\ \E t \in Sessions : About(t)'
<1> DEFINE t == Head(queue).who
           m == Named(t, "ready")
<1>1. QueueSound /\ ManifestTyped
  BY SoundParts
<1>2. queue # <<>> /\ Head(queue).kind = "start" /\ Head(queue).pc = "begin"
      /\ disk = NoManifest /\ mem = NoManifest
      /\ \A r \in Callers : ~Recovering(r)
  BY DEF StartReady, Running, Pending
<1>3. t \in Sessions /\ m \in Manifest /\ Of(m, t)
  BY <1>1, <1>2, HeadIsACommand DEF Fits, Manifest, Named, States, Of
<1>4. mem' = m /\ disk' \in {m, disk} /\ (StartFails \/ (recovery' = recovery /\ GoesOn(m, TRUE, "intent")))
  <2>1. mem' = m /\ \/ disk' = m /\ StartGoesOn(m, "intent")
                    \/ UNCHANGED disk /\ StartFails
    BY DEF StartReady
  <2>2. QED
    BY <2>1 DEF StartGoesOn
<1> HIDE DEF t, m
<1>5. HeldOf(queue, t)
  <2>1. \A i \in 1..Len(queue) : queue[i].man = NoManifest
    BY <1>1, <1>2, HeadIsACommand DEF QueueSound, InOrder, Fits
  <2>2. QED
    BY <2>1, NothingIsOf DEF HeldOf
<1>6. CarriedOf(recovery, t)
  BY <1>2 DEF CarriedOf, Recovering
<1>7. Of(disk', t) /\ Of(mem', t) /\ About(t)
  BY <1>2, <1>3, <1>4, <1>5, <1>6, NothingIsOf DEF About
<1>8. HeldOf(queue', t) /\ CarriedOf(recovery', t)
  <2>1. CASE StartFails
    BY <1>1, <1>2, <1>7, <2>1, StartFailsOf
  <2>2. CASE recovery' = recovery /\ GoesOn(m, TRUE, "intent")
    BY <1>1, <1>2, <1>3, <1>5, <1>6, <2>2, GoesOnOf DEF Underway
  <2>3. QED
    BY <1>4, <2>1, <2>2
<1>9. QED
  BY <1>2, <1>3, <1>7, <1>8 DEF About

----------------------------------------------------------------------------
(* Recoveries and one pending recording.                                   *)

\* A recovery changes: the manifest it carries then is of the same session.
LEMMA CarriedChanges ==
  ASSUME NEW s, CarriedOf(recovery, s), NEW r \in Callers,
         \A other \in Callers \ {r} : recovery'[other] = recovery[other],
         recovery'[r].pc \in {"query", "finalize"} => Of(recovery'[r].man, s)
  PROVE  CarriedOf(recovery', s)
  BY DEF CarriedOf

LEMMA ToFinalizeOf ==
  ASSUME QueueSound, NEW s, About(s), NEW r \in Callers, NEW m \in Manifest, Of(m, s),
         ToFinalize(r, m)
  PROVE  HeldOf(queue', s) /\ CarriedOf(recovery', s)
<1>1. HeldOf(queue', s)
  BY AppendOf DEF ToFinalize, About, Kinds
<1>2. recovery' = [recovery EXCEPT ![r].pc = "finalize", ![r].man = m]
      /\ recovery \in [Callers -> Recovery] /\ recovery[r] \in Recovery
  BY DEF ToFinalize, QueueSound
<1>3. \A other \in Callers \ {r} : recovery'[other] = recovery[other]
  BY <1>2
<1>4. recovery'[r].man = m
  BY <1>2 DEF Recovery
<1>5. QED
  BY <1>1, <1>3, <1>4, CarriedChanges DEF About

LEMMA ToApplyOf ==
  ASSUME QueueSound, NEW s, About(s), NEW r \in Callers, NEW m, NEW result, ToApply(r, m, result)
  PROVE  CarriedOf(recovery', s)
<1>1. recovery' = [recovery EXCEPT ![r].pc = "apply", ![r].man = m, ![r].result = result]
      /\ recovery \in [Callers -> Recovery] /\ recovery[r] \in Recovery
  BY DEF ToApply, QueueSound
<1>2. (\A other \in Callers \ {r} : recovery'[other] = recovery[other]) /\ recovery'[r].pc = "apply"
  BY <1>1 DEF Recovery
<1>3. QED
  BY <1>2, CarriedChanges DEF About

LEMMA DisownOf ==
  ASSUME NEW q \in Seq(Command), NEW s, HeldOf(q, s),
         NEW q2, q2 = [i \in DOMAIN q |-> [q[i] EXCEPT !.own = FALSE]]
  PROVE  HeldOf(q2, s)
<1>1. DOMAIN q = 1..Len(q) /\ Len(q) \in Nat /\ \A i \in 1..Len(q) : q[i] \in Command
  OBVIOUS
<1>2. \A i \in 1..Len(q) : [q[i] EXCEPT !.own = FALSE] \in Command
  BY <1>1 DEF Command
<1>3. q2 \in Seq(Command) /\ Len(q2) = Len(q)
      /\ \A i \in 1..Len(q) : q2[i] = [q[i] EXCEPT !.own = FALSE]
  BY <1>1, <1>2
<1>4. \A i \in 1..Len(q) : q2[i].man = q[i].man
  BY <1>1, <1>3 DEF Command
<1>5. QED
  BY <1>3, <1>4 DEF HeldOf

LEMMA AttachesOf ==
  ASSUME QueueSound, NEW s, About(s), NEW r \in Callers, NEW m, NEW result, Attaches(r, m, result)
  PROVE  HeldOf(queue', s) /\ CarriedOf(recovery', s)
<1>1. HeldOf(queue', s)
  BY DisownOf DEF Attaches, QueueSound, About
<1>2. QED
  BY <1>1, ToApplyOf DEF Attaches

LEMMA RecoversAbout ==
  ASSUME Sound, NEW s, About(s), NEW r \in Callers, LoadManifest(r) \/ QueryRecording(r)
  PROVE  About(s)'
<1>1. QueueSound /\ ManifestTyped
  BY SoundParts
<1>2. CASE LoadManifest(r)
  <2>1. CASE recovery' = [recovery EXCEPT ![r].pc = "query", ![r].man = disk]
             /\ UNCHANGED <<disk, mem, queue>>
    <3>1. recovery \in [Callers -> Recovery] /\ recovery[r] \in Recovery
      BY <1>1 DEF QueueSound
    <3>2. (\A other \in Callers \ {r} : recovery'[other] = recovery[other])
          /\ recovery'[r].man = disk
      BY <2>1, <3>1 DEF Recovery
    <3>3. QED
      BY <2>1, <3>2, CarriedChanges DEF About
  <2>2. CASE Attaches(r, disk, "failed") /\ UNCHANGED disk
    BY <1>1, <2>2, AttachesOf DEF Attaches, About
  <2>3. CASE ToFinalize(r, disk) /\ UNCHANGED <<disk, mem>>
    BY <1>1, <2>3, ToFinalizeOf DEF About, ManifestTyped
  <2>4. QED
    BY <1>2, <2>1, <2>2, <2>3 DEF LoadManifest
<1>3. CASE QueryRecording(r)
  <2> DEFINE m == recovery[r].man
             taken == [m EXCEPT !.state = IF @ = "stop-intent" THEN @ ELSE "recording"]
             failed == [m EXCEPT !.state = "failed"]
  <2>1. m \in Manifest /\ Of(m, s) /\ m.session \in Sessions
    BY <1>1, <1>3 DEF QueryRecording, QueueSound, Carried, Recovery, About, CarriedOf
  <2>2. Of(taken, s) /\ Of(failed, s)
    BY <2>1, ConstantsAssumption DEF Manifest, NoManifest, Of
  <2>3. \/ disk' = taken /\ Attaches(r, disk', "reattached")
        \/ disk' = failed /\ Attaches(r, disk', "failed")
        \/ ToApply(r, m, "conflict") /\ UNCHANGED <<disk, mem, queue>>
        \/ ToFinalize(r, m) /\ UNCHANGED <<disk, mem>>
    BY <1>3 DEF QueryRecording
  <2> HIDE DEF m, taken, failed
  <2>4. CASE disk' \in {taken, failed}
             /\ (Attaches(r, disk', "reattached") \/ Attaches(r, disk', "failed"))
    <3>1. mem' = disk' /\ HeldOf(queue', s) /\ CarriedOf(recovery', s)
      BY <1>1, <2>4, AttachesOf DEF Attaches
    <3>2. QED
      BY <2>2, <2>4, <3>1 DEF About
  <2>5. CASE ToApply(r, m, "conflict") /\ UNCHANGED <<disk, mem, queue>>
    BY <1>1, <2>5, ToApplyOf DEF About
  <2>6. CASE ToFinalize(r, m) /\ UNCHANGED <<disk, mem>>
    BY <1>1, <2>1, <2>6, ToFinalizeOf DEF About
  <2>7. QED
    BY <2>3, <2>4, <2>5, <2>6
<1>4. QED
  BY <1>2, <1>3

\* A recovery that is over, or begins again, carries no manifest.
LEMMA EndsAbout ==
  ASSUME NEW s, About(s), NEW r \in Callers, UNCHANGED <<disk, mem>>, HeldOf(queue', s),
         \A other \in Callers \ {r} : recovery'[other] = recovery[other],
         recovery'[r].pc \in {"idle", "retry", "load", "provision"}
  PROVE  About(s)'
  BY CarriedChanges DEF About

\* What ends a recovery, alone or with the command it waits for.
LEMMA EndedAbout ==
  ASSUME Sound, NEW s, About(s), NEW r \in Callers,
         RecoveryThrows(r) \/ NothingToRecover(r) \/ DropRecovery(r) \/ ApplyRecovery(r)
  PROVE  About(s)'
<1>1. QueueSound /\ ManifestTyped /\ queue \in Seq(Command)
  BY SoundParts DEF QueueSound
<1>2. UNCHANGED <<disk, mem>>
  BY DEF RecoveryThrows, RecoveryFails, NothingToRecover, DropRecovery, ApplyRecovery
<1>3. /\ \A other \in Callers \ {r} : recovery'[other] = recovery[other]
      /\ recovery'[r].pc \in {"idle", "retry", "load", "provision"}
  <2>1. recovery \in [Callers -> Recovery] /\ recovery[r] \in Recovery
    BY <1>1 DEF QueueSound
  <2>2. [recovery[r] EXCEPT !.pc = "provision"].pc = "provision"
        /\ Idle.pc = "idle" /\ [Idle EXCEPT !.pc = "retry"].pc = "retry"
        /\ [Idle EXCEPT !.pc = "provision"].pc = "provision"
    BY <2>1 DEF Recovery, Idle
  <2>3. \E new : /\ recovery' = [recovery EXCEPT ![r] = new]
                 /\ new.pc \in {"idle", "retry", "load", "provision"}
    <3>1. CASE RecoveryThrows(r)
      BY <2>2, <3>1 DEF RecoveryThrows, RecoveryFails
    <3>2. CASE NothingToRecover(r)
      BY <2>2, <3>2 DEF NothingToRecover
    <3>3. CASE DropRecovery(r)
      BY <2>2, <3>3 DEF DropRecovery
    <3>4. CASE ApplyRecovery(r)
      BY <2>2, <3>4 DEF ApplyRecovery
    <3>5. QED
      BY <3>1, <3>2, <3>3, <3>4
  <2>4. QED
    BY <2>1, <2>3
<1>4. HeldOf(queue', s)
  <2>1. CASE RecoveryThrows(r) \/ DropRecovery(r)
    BY <2>1 DEF RecoveryThrows, RecoveryFails, DropRecovery, About
  <2>2. CASE NothingToRecover(r)
    <3>1. queue' = queue \/ queue' = Append(queue, NewCommand("provision", r))
      BY <2>2 DEF NothingToRecover
    <3>2. QED
      BY <1>1, <3>1, AppendOf DEF About, Kinds
  <2>3. CASE ApplyRecovery(r)
    <3> DEFINE ack == NewCommand("acknowledge", recovery[r].man.session)
               prov == NewCommand("provision", r)
    <3>1. queue' = queue \o (IF Acknowledges(recovery[r].man.session, recovery[r].result)
                               THEN <<ack>> ELSE <<>>)
                         \o (IF r = "connect" /\ recovery[r].result \notin {"reattached", "conflict"}
                               THEN <<prov>> ELSE <<>>)
      BY <2>3 DEF ApplyRecovery
    <3>2. ack \in Command /\ prov \in Command /\ Of(ack.man, s) /\ Of(prov.man, s)
      BY <1>1, <2>3, NothingIsOf
         DEF ApplyRecovery, QueueSound, Carried, NewCommand, Command, Manifest, Kinds
    <3> HIDE DEF ack, prov
    <3>3. \A q \in Seq(Command), c \in {ack, prov} :
            HeldOf(q, s) => /\ q \o <<c>> \in Seq(Command) /\ HeldOf(q \o <<c>>, s)
                            /\ q \o <<>> \in Seq(Command) /\ HeldOf(q \o <<>>, s)
      <4>1. TAKE q \in Seq(Command), c \in {ack, prov}
      <4>2. c \in Command /\ Of(c.man, s) /\ q \o <<>> = q /\ q \o <<c>> = Append(q, c)
        BY <3>2, OneOrNone
      <4>3. HeldOf(q, s) => HeldOf(Append(q, c), s)
        BY <4>2, QueuesOf
      <4>4. Append(q, c) \in Seq(Command)
        BY <4>2
      <4>5. QED
        BY <4>2, <4>3, <4>4
    <3>4. HeldOf(queue, s)
      BY DEF About
    <3>5. QED
      BY <1>1, <3>1, <3>3, <3>4, Zenon
  <2>4. QED
    BY <2>1, <2>2, <2>3
<1>5. QED
  BY <1>1, <1>2, <1>3, <1>4, EndsAbout

LEMMA AwaitedAbout ==
  ASSUME Sound, NEW s, About(s), FinalizeRecovered \/ ProbeRecovered \/ Provision
  PROVE  About(s)'
<1> DEFINE r == Head(queue).who
           m == [recovery[r].man EXCEPT !.state = "finalizing"]
<1>1. QueueSound /\ ManifestTyped
  BY SoundParts
<1>2. queue # <<>>
  BY DEF FinalizeRecovered, ProbeRecovered, Provision, Running
<1>3. CASE Provision
  <2>1. HeldOf(queue', s)
    BY <1>1, <1>2, <1>3, DoneOf DEF Provision, About
  <2>2. recovery' = [recovery EXCEPT !["connect"] = Idle] /\ UNCHANGED <<disk, mem>>
        /\ recovery \in [Callers -> Recovery] /\ "connect" \in Callers /\ Idle.pc = "idle"
    BY <1>1, <1>3 DEF Provision, QueueSound, Callers, Idle
  <2>3. /\ \A other \in Callers \ {"connect"} : recovery'[other] = recovery[other]
        /\ recovery'["connect"].pc = "idle"
    BY <2>2
  <2>4. QED
    BY <2>1, <2>2, <2>3, EndsAbout
<1>4. ASSUME FinalizeRecovered \/ ProbeRecovered
      PROVE  r \in Callers /\ recovery[r] \in Recovery /\ recovery[r].pc = "finalize"
  BY <1>1, <1>2, <1>4, AwaitedHead DEF FinalizeRecovered, ProbeRecovered, Running, Awaited
<1>5. CASE FinalizeRecovered
  <2>1. recovery[r].man \in Manifest /\ recovery[r].man.session \in Sessions /\ Of(recovery[r].man, s)
    BY <1>1, <1>4, <1>5 DEF QueueSound, Carried, Recovery, About, CarriedOf
  <2>2. m \in Manifest /\ Of(m, s)
    BY <2>1, ConstantsAssumption DEF Manifest, NoManifest, Of, States
  <2>3. mem' = m /\ disk' \in {disk, m}
        /\ \/ GoesOn(m, TRUE, "probe") /\ recovery' = recovery
           \/ Done /\ ToApply(r, recovery[r].man, "interrupted")
    BY <1>5 DEF FinalizeRecovered
  <2> HIDE DEF m, r
  <2>4. HeldOf(queue', s) /\ CarriedOf(recovery', s)
    BY <1>1, <1>2, <1>4, <1>5, <2>2, <2>3, GoesOnOf, DoneOf, ToApplyOf DEF About, Underway
  <2>5. QED
    BY <2>2, <2>3, <2>4 DEF About
<1>6. CASE ProbeRecovered
  <2>1. Head(queue).pc # "begin" /\ Done
        /\ \E result \in Results : ToApply(r, recovery[r].man, result)
        /\ \/ UNCHANGED <<disk, mem>>
           \/ \E state \in {"complete", "interrupted"} : Persists(state) \/ PersistFails(state)
    BY <1>6 DEF ProbeRecovered, Running, Results
  <2>2. Of(disk', s) /\ Of(mem', s)
    BY <1>1, <1>2, <2>1, HeadOf DEF Persists, PersistFails, About, States
  <2>3. HeldOf(queue', s) /\ CarriedOf(recovery', s)
    BY <1>1, <1>2, <1>4, <1>6, <2>1, DoneOf, ToApplyOf DEF About
  <2>4. QED
    BY <2>2, <2>3 DEF About
<1>7. QED
  BY <1>3, <1>5, <1>6

\* Recoveries begin, are aborted or wait to retry.
LEMMA ConnectionKeepsAbout ==
  ASSUME Sound, NEW s, About(s),
         Connect \/ Disconnect \/ CancelConnect \/ AbortReconnect \/ Reconnect
           \/ EndReconnect \/ LoseConnection
  PROVE  About(s)'
<1>1. QueueSound
  BY SoundParts
<1>2. UNCHANGED <<disk, mem, queue>>
  BY DEF Connect, Disconnect, CancelConnect, AbortReconnect, Reconnect, EndReconnect,
     LoseConnection, HandleDisconnect
<1>3. \/ recovery' = recovery
      \/ \E r \in Callers : recovery' = [recovery EXCEPT ![r].aborted = TRUE]
      \/ \E r \in Callers : recovery' = [recovery EXCEPT ![r].pc = "load"]
      \/ \E r \in Callers : recovery' = [recovery EXCEPT ![r].pc = "retry"]
      \/ \E r \in Callers : recovery' = [recovery EXCEPT ![r] = Idle]
  <2>1. \/ recovery' = recovery
        \/ recovery' = [recovery EXCEPT !["connect"].pc = "load"]
        \/ recovery' = [recovery EXCEPT !["connect"].aborted = TRUE]
        \/ recovery' = [recovery EXCEPT !["reconnect"].aborted = TRUE]
        \/ recovery' = [recovery EXCEPT !["reconnect"].pc = "retry"]
        \/ recovery' = [recovery EXCEPT !["reconnect"].pc = "load"]
        \/ recovery' = [recovery EXCEPT !["reconnect"] = Idle]
    BY Zenon DEF Connect, Disconnect, CancelConnect, AbortReconnect, Reconnect, EndReconnect,
       LoseConnection, HandleDisconnect
  <2>2. "connect" \in Callers /\ "reconnect" \in Callers
    BY DEF Callers
  <2>3. QED
    BY <2>1, <2>2, Zenon
<1>4. CarriedOf(recovery', s)
  <2>1. recovery \in [Callers -> Recovery] /\ CarriedOf(recovery, s)
    BY <1>1 DEF QueueSound, About
  <2>2. CASE recovery' = recovery
    BY <2>1, <2>2
  <2>3. ASSUME NEW r \in Callers, recovery' = [recovery EXCEPT ![r].aborted = TRUE]
        PROVE  CarriedOf(recovery', s)
    <3>1. recovery[r] \in Recovery
      BY <2>1
    <3>2. (\A other \in Callers \ {r} : recovery'[other] = recovery[other])
          /\ recovery'[r].pc = recovery[r].pc /\ recovery'[r].man = recovery[r].man
      BY <2>1, <2>3, <3>1 DEF Recovery
    <3>3. QED
      BY <2>1, <3>2 DEF CarriedOf
  <2>4. ASSUME NEW r \in Callers,
               \/ recovery' = [recovery EXCEPT ![r].pc = "load"]
               \/ recovery' = [recovery EXCEPT ![r].pc = "retry"]
               \/ recovery' = [recovery EXCEPT ![r] = Idle]
        PROVE  CarriedOf(recovery', s)
    <3>1. recovery[r] \in Recovery
      BY <2>1
    <3>2. (\A other \in Callers \ {r} : recovery'[other] = recovery[other])
          /\ recovery'[r].pc \in {"idle", "load", "retry"}
      BY <2>1, <2>4, <3>1 DEF Recovery, Idle
    <3>3. QED
      BY <2>1, <3>2 DEF CarriedOf
  <2>5. QED
    BY <1>3, <2>2, <2>3, <2>4
<1>5. QED
  BY <1>2, <1>4 DEF About

LEMMA OthersKeepAbout ==
  ASSUME Sound, NEW s, About(s),
         \/ Stop \/ ObsStops \/ ForeignRecording \/ DeleteEnds \/ Crash \/ CrashInHandoff
         \/ UNCHANGED vars \/ \E t \in Sessions : Start(t) \/ Delete(t)
  PROVE  About(s)'
<1>1. QueueSound
  BY SoundParts
<1>2. CASE ObsStops \/ ForeignRecording \/ DeleteEnds \/ UNCHANGED vars
             \/ \E t \in Sessions : Delete(t)
  <2>1. UNCHANGED <<disk, mem, queue, recovery>>
    BY <1>2 DEF ObsStops, ForeignRecording, DeleteEnds, Delete, vars
  <2>2. QED
    BY <2>1 DEF About
<1>3. CASE Stop \/ \E t \in Sessions : Start(t)
  <2>1. UNCHANGED <<disk, mem, recovery>>
        /\ \E kind \in Kinds, who \in Sessions \cup {NoSession} :
             queue' = Append(queue, NewCommand(kind, who))
    BY <1>3 DEF Stop, Start, Kinds
  <2>2. QED
    BY <1>1, <2>1, AppendOf DEF About
<1>4. CASE Crash \/ CrashInHandoff
  <2>1. Restarts
    BY <1>4 DEF Crash, CrashInHandoff
  <2>2. queue' = <<>> /\ mem' = NoManifest /\ disk' = disk
        /\ \A r \in Callers : recovery'[r].pc = "idle"
    BY <2>1 DEF Restarts, Idle
  <2>3. HeldOf(queue', s) /\ CarriedOf(recovery', s)
    BY <2>2 DEF HeldOf, CarriedOf
  <2>4. QED
    BY <2>2, <2>3, NothingIsOf DEF About
<1>5. QED
  BY <1>2, <1>3, <1>4

\* Every step goes on with the session it was about, or begins one when no manifest is left.
LEMMA NextIsAbout ==
  ASSUME Sound, ~Overtaking, NEW s, About(s), [Next]_vars
  PROVE  About(s)' \/ (disk = NoManifest /\ \E t \in Sessions : About(t)')
<1>1. CASE RunCommand
  <2>1. \/ StartRefused \/ StartIntent \/ RequestStart \/ AwaitStart \/ ReconcileStart
        \/ StartCompletes \/ StopIntent \/ QueryStop \/ RequestStop \/ ReconcileStop
        \/ StopFinalizes \/ StopProbes \/ StopHandsOff \/ Acknowledge
        \/ FinalizeRecovered \/ ProbeRecovered \/ Provision
        \/ StartReady
    BY <1>1 DEF RunCommand
  <2>2. CASE StartReady
    BY <2>2, StartReadyBegins
  <2>3. QED
    BY <2>1, <2>2, StartsKeepAbout, StopsKeepAbout, HandsOffOrAcknowledges, AwaitedAbout
<1>2. ASSUME NEW r \in Callers, Recover(r) PROVE About(s)'
  BY <1>2, RecoversAbout, EndedAbout DEF Recover
<1>3. CASE \/ Connect \/ Disconnect \/ CancelConnect \/ AbortReconnect \/ Reconnect
           \/ EndReconnect \/ LoseConnection
  BY <1>3, ConnectionKeepsAbout
<1>4. CASE \/ Stop \/ ObsStops \/ ForeignRecording \/ DeleteEnds \/ Crash \/ CrashInHandoff
           \/ UNCHANGED vars \/ \E t \in Sessions : Start(t) \/ Delete(t)
  BY <1>4, OthersKeepAbout
<1>5. QED
  BY <1>1, <1>2, <1>3, <1>4 DEF Next

\* Unless calls overtake each other, the manifests are those of one session, or there are none.
OfOneSession == ~Overtaking => \E s \in Sessions \cup {NoSession} : About(s)

LEMMA InitIsAbout == ASSUME Init PROVE About(NoSession)
<1>1. queue = <<>> /\ disk = NoManifest /\ mem = NoManifest
      /\ \A r \in Callers : recovery[r].pc = "idle"
  BY DEF Init, Idle
<1>2. QED
  BY <1>1, NothingIsOf DEF About, HeldOf, CarriedOf

LEMMA StepIsOfOneSession ==
  ASSUME Sound, OfOneSession, [Next]_vars
  PROVE  OfOneSession' /\ (~Overtaking => (disk # NoManifest => disk'.session \in {NoSession, disk.session}))
<1>1. CASE Overtaking
  BY <1>1 DEF OfOneSession
<1>2. CASE ~Overtaking
  <2>1. PICK s \in Sessions \cup {NoSession} : About(s)
    BY <1>2 DEF OfOneSession
  <2>2. About(s)' \/ (disk = NoManifest /\ \E t \in Sessions : About(t)')
    BY <1>2, <2>1, NextIsAbout
  <2>3. OfOneSession'
    BY <2>2 DEF OfOneSession
  <2>4. disk # NoManifest => disk.session = s
    <3>1. disk \in Manifest
      BY SoundParts DEF ManifestTyped
    <3>2. QED
      BY <2>1, <3>1, ConstantsAssumption DEF About, Of, Manifest
  <2>5. disk # NoManifest => Of(disk', s)
    BY <2>2 DEF About
  <2>6. QED
    BY <2>3, <2>4, <2>5 DEF Of
<1>3. QED
  BY <1>1, <1>2

\* When starts, stops and recoveries do not overlap, no recording takes the place of one that
\* has not been acknowledged: not after a crash, not through a recovery that loaded its
\* manifest before the acknowledgement, not through a command that failed halfway.
THEOREM OnePending == ASSUME ~Overtaking PROVE Spec => OnePendingRecording
<1>1. Init => Sound /\ OfOneSession
  BY InitIsSound, InitIsAbout DEF OfOneSession
<1>2. Sound /\ OfOneSession /\ [Next]_vars => (Sound /\ OfOneSession)'
  BY NextIsSound, StepIsOfOneSession
<1>3. Sound /\ OfOneSession /\ [Next]_vars =>
        [disk # NoManifest => disk'.session \in {NoSession, disk.session}]_disk
  BY StepIsOfOneSession
<1>4. QED
  BY <1>1, <1>2, <1>3, PTL DEF Spec, OnePendingRecording

----------------------------------------------------------------------------
(* What stands before what in the queue.                                   *)

Is(c, kind, who) == c.kind = kind /\ c.who = who

Has(q, kind) == \E i \in 1..Len(q) : q[i].kind = kind
AckIn(q, s) == \E i \in 1..Len(q) : Is(q[i], "acknowledge", s)
StartOf(q, s) == \E i \in 1..Len(q) : Is(q[i], "start", s)

Before(q, first, second) ==
  \E i, j \in 1..Len(q) : i < j /\ q[i].kind = first /\ q[j].kind = second
StopThenAck(q, s) ==
  \E i, j \in 1..Len(q) : i < j /\ q[i].kind = "stop" /\ Is(q[j], "acknowledge", s)
AckThenStart(q, s) ==
  \E i, j \in 1..Len(q) : i < j /\ Is(q[i], "acknowledge", s) /\ Is(q[j], "start", s)

\* Whatever stands in q2, in this order, stands in q.
Within(q2, q) ==
  /\ \A kind : Has(q2, kind) => Has(q, kind)
  /\ \A first, second : Before(q2, first, second) => Before(q, first, second)
  /\ \A s : /\ AckIn(q2, s) => AckIn(q, s)
            /\ StartOf(q2, s) => StartOf(q, s)
            /\ StopThenAck(q2, s) => StopThenAck(q, s)
            /\ AckThenStart(q2, s) => AckThenStart(q, s)

LEMMA EmbeddedIsWithin ==
  ASSUME NEW q \in Seq(Command), NEW q2 \in Seq(Command), NEW k \in Nat,
         \A i \in 1..Len(q2) : i + k \in 1..Len(q) /\ q2[i].kind = q[i + k].kind
                                 /\ q2[i].who = q[i + k].who
  PROVE  Within(q2, q)
<1>1. Len(q2) \in Nat /\ Len(q) \in Nat
  OBVIOUS
<1>2. \A i \in 1..Len(q2) : \A kind, who : Is(q2[i], kind, who) => Is(q[i + k], kind, who)
  BY DEF Is
<1>3. \A i, j \in 1..Len(q2) : i < j => i + k < j + k
  BY <1>1
<1>4. \A kind : Has(q2, kind) => Has(q, kind)
  BY DEF Has
<1>5. \A first, second : Before(q2, first, second) => Before(q, first, second)
  BY <1>3 DEF Before
<1>6. ASSUME NEW s
      PROVE  /\ AckIn(q2, s) => AckIn(q, s)
             /\ StartOf(q2, s) => StartOf(q, s)
             /\ StopThenAck(q2, s) => StopThenAck(q, s)
             /\ AckThenStart(q2, s) => AckThenStart(q, s)
  <2>1. AckIn(q2, s) => AckIn(q, s)
    BY <1>2 DEF AckIn
  <2>2. StartOf(q2, s) => StartOf(q, s)
    BY <1>2 DEF StartOf
  <2>3. StopThenAck(q2, s) => StopThenAck(q, s)
    BY <1>2, <1>3 DEF StopThenAck
  <2>4. AckThenStart(q2, s) => AckThenStart(q, s)
    BY <1>2, <1>3 DEF AckThenStart
  <2>5. QED
    BY <2>1, <2>2, <2>3, <2>4
<1>7. QED
  BY <1>4, <1>5, <1>6 DEF Within

\* The first command is done: none is under way.
UnderWay == queue # <<>> /\ Head(queue).pc # "begin"
Begun(kind) == UnderWay /\ Head(queue).kind = kind

LEMMA TailIsWithin ==
  ASSUME QueueSound, queue # <<>>, Done
  PROVE  Within(queue', queue) /\ ~UnderWay'
<1>1. queue \in Seq(Command) /\ Tail(queue) \in Seq(Command) /\ queue' = Tail(queue)
      /\ Len(Tail(queue)) = Len(queue) - 1 /\ Len(queue) \in Nat
      /\ \A i \in 1..Len(Tail(queue)) : Tail(queue)[i] = queue[i + 1] /\ i + 1 \in 1..Len(queue)
  BY DEF QueueSound, Done
<1>2. Within(queue', queue)
  BY <1>1, EmbeddedIsWithin
<1>3. queue' # <<>> => Head(queue') = queue[2] /\ 2 \in 1..Len(queue)
  <2>1. queue' # <<>> => 1 \in 1..Len(queue') /\ Head(queue') = queue'[1]
    BY <1>1
  <2>2. QED
    BY <1>1, <2>1
<1>4. ~UnderWay'
  BY <1>3 DEF QueueSound, InOrder, UnderWay
<1>5. QED
  BY <1>2, <1>4

LEMMA HeadIsWithin ==
  ASSUME QueueSound, queue # <<>>, NEW m \in Manifest, NEW own \in BOOLEAN, NEW pc \in Underway,
         GoesOn(m, own, pc)
  PROVE  /\ Within(queue', queue) /\ queue' # <<>>
         /\ Head(queue').kind = Head(queue).kind /\ Head(queue').who = Head(queue).who
         /\ Head(queue').man = m /\ Head(queue').own = own /\ Head(queue').pc = pc
<1> DEFINE c == [Head(queue) EXCEPT !.man = m, !.own = own, !.pc = pc]
<1>1. c \in Command /\ c.kind = Head(queue).kind /\ c.who = Head(queue).who
      /\ c.man = m /\ c.own = own /\ c.pc = pc
  BY HeadIsACommand DEF Command, Underway
<1>2. queue' = <<c>> \o Tail(queue)
  BY DEF GoesOn
<1> HIDE DEF c
<1>3. queue \in Seq(Command) /\ Tail(queue) \in Seq(Command) /\ Len(Tail(queue)) = Len(queue) - 1
      /\ Len(queue) \in Nat /\ 1 \in 1..Len(queue) /\ Head(queue) = queue[1]
      /\ \A i \in 1..Len(queue) - 1 : Tail(queue)[i] = queue[i + 1]
  BY DEF QueueSound
<1>4. queue' \in Seq(Command) /\ Len(queue') = Len(queue) /\ queue'[1] = c
      /\ \A i \in 2..Len(queue) : queue'[i] = queue[i]
  <2>1. queue' \in Seq(Command) /\ Len(queue') = 1 + Len(Tail(queue)) /\ queue'[1] = c
        /\ \A i \in 2..Len(queue') : queue'[i] = Tail(queue)[i - 1]
    BY <1>1, <1>2, <1>3
  <2>2. QED
    BY <1>3, <2>1
<1>5. \A i \in 1..Len(queue') : i + 0 \in 1..Len(queue) /\ queue'[i].kind = queue[i + 0].kind
                                  /\ queue'[i].who = queue[i + 0].who
  <2>1. \A i \in 1..Len(queue') : i + 0 = i /\ (i = 1 \/ i \in 2..Len(queue))
    BY <1>3, <1>4
  <2>2. QED
    BY <1>1, <1>3, <1>4, <2>1
<1>6. Within(queue', queue)
  BY <1>3, <1>4, <1>5, EmbeddedIsWithin
<1>7. queue' # <<>> /\ Head(queue') = c
  BY <1>3, <1>4
<1>8. QED
  BY <1>1, <1>6, <1>7

LEMMA DisownIsWithin ==
  ASSUME QueueSound, queue' = [i \in DOMAIN queue |-> [queue[i] EXCEPT !.own = FALSE]],
         ~UnderWay
  PROVE  Within(queue', queue) /\ ~UnderWay'
<1>1. DOMAIN queue = 1..Len(queue) /\ Len(queue) \in Nat
      /\ \A i \in 1..Len(queue) : queue[i] \in Command
  BY DEF QueueSound
<1>2. \A i \in 1..Len(queue) : [queue[i] EXCEPT !.own = FALSE] \in Command
  BY <1>1 DEF Command
<1>3. queue' \in Seq(Command) /\ Len(queue') = Len(queue)
      /\ \A i \in 1..Len(queue) : queue'[i] = [queue[i] EXCEPT !.own = FALSE]
  BY <1>1, <1>2
<1>4. \A i \in 1..Len(queue') : i + 0 \in 1..Len(queue) /\ queue'[i].kind = queue[i + 0].kind
        /\ queue'[i].who = queue[i + 0].who /\ queue'[i].pc = queue[i].pc
  BY <1>1, <1>3 DEF Command
<1>5. Within(queue', queue)
  <2>1. \A i \in 1..Len(queue') : i + 0 \in 1..Len(queue)
          /\ queue'[i].kind = queue[i + 0].kind /\ queue'[i].who = queue[i + 0].who
    BY <1>4
  <2>2. QED
    BY <1>3, <2>1, EmbeddedIsWithin DEF QueueSound
<1>6. queue' # <<>> => queue # <<>> /\ 1 \in 1..Len(queue) /\ Head(queue') = queue'[1]
                         /\ Head(queue) = queue[1]
  BY <1>1, <1>3 DEF QueueSound
<1>7. ~UnderWay'
  <2>1. queue' # <<>> => Head(queue').pc = Head(queue).pc /\ queue # <<>>
    <3>1. queue' # <<>> => 1 \in 1..Len(queue')
      BY <1>3
    <3>2. QED
      BY <1>4, <1>6, <3>1
  <2>2. QED
    BY <2>1 DEF UnderWay
<1>8. QED
  BY <1>5, <1>7

\* A new command c stands behind all others.
Behind(q2, q, c) ==
  /\ \A kind : Has(q2, kind) => Has(q, kind) \/ c.kind = kind
  /\ \A first, second :
       Before(q2, first, second) => Before(q, first, second) \/ (c.kind = second /\ Has(q, first))
  /\ \A s : /\ AckIn(q2, s) => AckIn(q, s) \/ Is(c, "acknowledge", s)
            /\ StartOf(q2, s) => StartOf(q, s) \/ Is(c, "start", s)
            /\ StopThenAck(q2, s) => StopThenAck(q, s) \/ Is(c, "acknowledge", s)
            /\ AckThenStart(q2, s) => AckThenStart(q, s) \/ Is(c, "start", s)

LEMMA AppendIsBehind ==
  ASSUME NEW q \in Seq(Command), NEW c \in Command
  PROVE  Behind(Append(q, c), q, c)
<1>1. Len(Append(q, c)) = Len(q) + 1 /\ Len(q) \in Nat
      /\ Append(q, c)[Len(q) + 1] = c /\ \A i \in 1..Len(q) : Append(q, c)[i] = q[i]
  OBVIOUS
<1> DEFINE q2 == Append(q, c)
<1>2. \A i \in 1..Len(q2) : (i \in 1..Len(q) /\ q2[i] = q[i]) \/ (i = Len(q) + 1 /\ q2[i] = c)
  BY <1>1
<1>3. \A i, j \in 1..Len(q2) : i < j => i \in 1..Len(q)
  BY <1>1
<1> HIDE DEF q2
<1>4. \A kind : Has(q2, kind) => Has(q, kind) \/ c.kind = kind
  BY <1>2 DEF Has
<1>5. \A first, second :
        Before(q2, first, second) => Before(q, first, second) \/ (c.kind = second /\ Has(q, first))
  BY <1>1, <1>2, <1>3 DEF Before, Has
<1>6. ASSUME NEW s
      PROVE  /\ AckIn(q2, s) => AckIn(q, s) \/ Is(c, "acknowledge", s)
             /\ StartOf(q2, s) => StartOf(q, s) \/ Is(c, "start", s)
             /\ StopThenAck(q2, s) => StopThenAck(q, s) \/ Is(c, "acknowledge", s)
             /\ AckThenStart(q2, s) => AckThenStart(q, s) \/ Is(c, "start", s)
  <2>1. AckIn(q2, s) => AckIn(q, s) \/ Is(c, "acknowledge", s)
    BY <1>2 DEF AckIn
  <2>2. StartOf(q2, s) => StartOf(q, s) \/ Is(c, "start", s)
    BY <1>2 DEF StartOf
  <2>3. StopThenAck(q2, s) => StopThenAck(q, s) \/ Is(c, "acknowledge", s)
    BY <1>1, <1>2, <1>3 DEF StopThenAck
  <2>4. AckThenStart(q2, s) => AckThenStart(q, s) \/ Is(c, "start", s)
    BY <1>1, <1>2, <1>3 DEF AckThenStart
  <2>5. QED
    BY <2>1, <2>2, <2>3, <2>4
<1>7. Behind(q2, q, c)
  BY <1>4, <1>5, <1>6 DEF Behind
<1>8. QED
  BY <1>7 DEF q2

\* The command under way stays the one it is.
LEMMA AppendKeepsHead ==
  ASSUME QueueSound, NEW c \in Command, c.pc = "begin", queue' = Append(queue, c)
  PROVE  /\ UnderWay' <=> UnderWay
         /\ UnderWay => Head(queue') = Head(queue)
<1>1. queue \in Seq(Command) /\ Len(queue) \in Nat
  BY DEF QueueSound
<1>2. CASE queue = <<>>
  <2>1. Head(queue') = c
    BY <1>2
  <2>2. QED
    BY <1>2, <2>1 DEF UnderWay
<1>3. CASE queue # <<>>
  <2>1. Head(queue') = Head(queue) /\ queue' # <<>>
    BY <1>1, <1>3
  <2>2. QED
    BY <1>3, <2>1 DEF UnderWay
<1>4. QED
  BY <1>2, <1>3

\* What stands first.
LEMMA HeadStandsFirst ==
  ASSUME QueueSound, queue # <<>>
  PROVE  /\ Has(queue, Head(queue).kind)
         /\ \A kind : Has(queue, kind) => kind = Head(queue).kind
                        \/ Before(queue, Head(queue).kind, kind)
         /\ \A s : /\ Is(Head(queue), "start", s) => StartOf(queue, s)
                   /\ Is(Head(queue), "acknowledge", s) => AckIn(queue, s)
                   /\ Head(queue).kind = "stop" /\ AckIn(queue, s) => StopThenAck(queue, s)
                   /\ Head(queue).kind = "start" /\ StopThenAck(queue, s) =>
                        Before(queue, "start", "stop")
                   /\ Is(Head(queue), "acknowledge", s) /\ StartOf(queue, s) =>
                        AckThenStart(queue, s)
<1>1. queue \in Seq(Command) /\ Len(queue) \in Nat /\ 1 \in 1..Len(queue) /\ Head(queue) = queue[1]
      /\ \A i \in 1..Len(queue) : i # 1 => 1 < i
  BY DEF QueueSound
<1>2. Has(queue, Head(queue).kind)
  BY <1>1 DEF Has
<1>3. \A kind : Has(queue, kind) => kind = Head(queue).kind \/ Before(queue, Head(queue).kind, kind)
  BY <1>1 DEF Has, Before
<1>4. ASSUME NEW s
      PROVE  /\ Is(Head(queue), "start", s) => StartOf(queue, s)
             /\ Is(Head(queue), "acknowledge", s) => AckIn(queue, s)
             /\ Head(queue).kind = "stop" /\ AckIn(queue, s) => StopThenAck(queue, s)
             /\ Head(queue).kind = "start" /\ StopThenAck(queue, s) =>
                  Before(queue, "start", "stop")
             /\ Is(Head(queue), "acknowledge", s) /\ StartOf(queue, s) => AckThenStart(queue, s)
  <2>1. Is(Head(queue), "start", s) => StartOf(queue, s)
    BY <1>1 DEF StartOf
  <2>2. Is(Head(queue), "acknowledge", s) => AckIn(queue, s)
    BY <1>1 DEF AckIn
  <2>3. Head(queue).kind = "stop" /\ AckIn(queue, s) => StopThenAck(queue, s)
    BY <1>1 DEF AckIn, StopThenAck, Is
  <2>4. Head(queue).kind = "start" /\ StopThenAck(queue, s) => Before(queue, "start", "stop")
    BY <1>1 DEF Before, StopThenAck
  <2>5. Is(Head(queue), "acknowledge", s) /\ StartOf(queue, s) => AckThenStart(queue, s)
    BY <1>1 DEF StartOf, AckThenStart, Is
  <2>6. QED
    BY <2>1, <2>2, <2>3, <2>4, <2>5
<1>5. QED
  BY <1>2, <1>3, <1>4

----------------------------------------------------------------------------
(* The inductive invariant.                                                *)

In(m, s, states) == m.session = s /\ m.state \in states
Fresh == {"ready"} \cup ActiveStates
Over == {"complete", "interrupted"}

\* A manifest of s on disk, in memory, or carried by a recovery that has not decided.
Bears(s, states) ==
  \/ In(disk, s, states) \/ In(mem, s, states)
  \/ \E r \in Callers : recovery[r].pc \in {"query", "finalize"} /\ In(recovery[r].man, s, states)

\* Recoveries exclude each other, and the starts and stops that have begun; so the manifest
\* that OBS is asked about stays the one on disk, unless it is acknowledged.
OneRecovers ==
  /\ \A r, other \in Callers : Recovering(r) /\ Recovering(other) => r = other
  /\ \A r \in Callers : Recovering(r) => ~Begun("start") /\ ~Begun("stop")
  /\ \A r \in Callers : recovery[r].pc = "query" => disk \in {NoManifest, recovery[r].man}

\* The state of its manifest at each step of a command.
StateAt(kind, pc) ==
  CASE kind = "start" -> IF pc = "intent" THEN "ready" ELSE "start-intent"
    [] kind = "stop" -> IF pc = "probe" THEN "finalizing"
                        ELSE IF pc = "handoff" THEN "complete" ELSE "stop-intent"
    [] kind = "finalize" -> "finalizing"

\* The manifest of the command under way is the one in memory and on disk.
HeldIsKept == UnderWay =>
  /\ Head(queue).own = TRUE /\ mem = Head(queue).man /\ disk = Head(queue).man
  /\ Head(queue).man.state = StateAt(Head(queue).kind, Head(queue).pc)
  /\ Head(queue).kind = "start" => Head(queue).man.session = Head(queue).who
  /\ Head(queue).kind = "finalize" =>
       Head(queue).man.session = recovery[Head(queue).who].man.session

MemoryIsOnDisk == mem.state \in ActiveStates => disk.session = mem.session

\* OBS records for no session but the starting one, and not before it was asked to.
NotYetAsked ==
  /\ starting # NoSession => obs \in {NoSession, Elsewhere, starting}
  /\ Has(queue, "start") =>
       obs \notin Sessions \/ (Begun("start") /\ Head(queue).pc \notin {"intent", "request"})
  /\ recovery["start"].pc # "idle" /\ claim = NoSession => obs \notin Sessions

\* A reconnect gives up a recording that OBS goes on with only while it is not connected.
GivesUp(rc) == rc.pc = "finalize" \/ (rc.pc = "apply" /\ rc.result = "interrupted")
LostIsNotAsked ==
  GivesUp(recovery["reconnect"]) => ~connected \/ obs \notin Sessions \/ ~In(disk, obs, ActiveStates)

\* A status that offers a start belongs to an OBS that records for no manifest in progress; no
\* recovery is about to take one up behind the start, and no stop is offered behind it.
Reattaching(r) == recovery[r].pc = "apply" /\ recovery[r].result = "reattached"
Settled == phase = "ready" /\ starting = NoSession
Live(s) ==
  \/ In(disk, s, ActiveStates) \/ In(mem, s, ActiveStates)
  \/ \E r \in Callers : recovery[r].pc = "query" /\ In(recovery[r].man, s, ActiveStates)

ReadyIsQuiet ==
  /\ Settled => \A r \in Callers : ~Reattaching(r)
  /\ Settled /\ recovery["connect"].pc # "provision"
       /\ (connected \/ recovery["reconnect"].pc # "idle") => obs \notin Sessions \/ ~Live(obs)
  /\ Has(queue, "start") => phase # "recording" /\ \A r \in Callers : ~Reattaching(r)
  /\ ~Before(queue, "start", "stop")

\* What the manifests are when a recovery has decided on its result.
ResultHolds(r) ==
  recovery[r].pc = "apply" =>
    /\ recovery[r].result \in {"recovered", "interrupted"} => ~Has(queue, "acknowledge")
    /\ recovery[r].result = "interrupted" => mem.state \notin ActiveStates
    /\ recovery[r].result = "recovered" => disk = mem /\ In(disk, recovery[r].man.session, Over)
    /\ recovery[r].result = "failed" =>
         /\ disk = NoManifest \/ In(disk, recovery[r].man.session, {"failed"})
         /\ mem = NoManifest \/ In(mem, recovery[r].man.session, {"failed"})
    /\ recovery[r].result = "reattached" =>
         /\ disk = mem /\ In(disk, recovery[r].man.session, ActiveStates)
         /\ r = "start" => recovery[r].man.session = starting
ResultsHold ==
  /\ ~Before(queue, "finalize", "acknowledge")
  /\ \A r \in Callers : ResultHolds(r)

FailedNeverStarted ==
  \A s \in Sessions : In(disk, s, {"failed"}) \/ In(mem, s, {"failed"}) => obs # s

\* An acknowledgement that is queued finds a recording that is attached, or one that failed
\* before OBS recorded anything, or nothing it could give up.
AckIsLate(s) ==
  /\ AckIn(queue, s) /\ s \notin attached /\ row[s] # "deleted" =>
        ~In(disk, s, Over) /\ ~In(mem, s, Over)
  /\ Begun("stop") /\ AckIn(queue, s) => Head(queue).man.session # s
  /\ StopThenAck(queue, s) => ~Bears(s, Fresh)
  /\ AckIn(queue, s) => row[s] # "interrupted"

RowIsKept(s) ==
  /\ row[s] = "recording" => disk.session = s /\ ~StartOf(queue, s)
  /\ row[s] = "recording" /\ AckIn(queue, s) =>
       In(disk, s, ActiveStates) /\ (mem = NoManifest \/ In(mem, s, ActiveStates))
  /\ row[s] = "processing" /\ jobs[s] = 0 =>
       s \in attached /\ disk.session = s /\ ~AckIn(queue, s)

\* A session that has its recording neither starts nor stops nor fails again.
AttachedIsOver(s) ==
  /\ jobs[s] # 0 => s \in attached
  /\ jobs[s] < 2
  /\ s \in attached =>
       /\ ~Bears(s, Fresh \cup {"failed"})
       /\ Begun("stop") => Head(queue).man.session # s
       /\ ~AckThenStart(queue, s)
       /\ StartOf(queue, s) => disk.session = s

SessionsHold == \A s \in Sessions : AckIsLate(s) /\ RowIsKept(s) /\ AttachedIsOver(s)

Handed ==
  /\ OneRecovers /\ HeldIsKept /\ MemoryIsOnDisk /\ NotYetAsked /\ LostIsNotAsked
  /\ ReadyIsQuiet /\ ResultsHold /\ FailedNeverStarted /\ SessionsHold
  /\ ManifestBeforeRecording

\* A recording that is pending stays the one that is.
Pends == disk # NoManifest => disk'.session \in {NoSession, disk.session}

----------------------------------------------------------------------------
(* A start or a stop goes on.                                              *)

Moves(m, pc) ==
  /\ queue # <<>> /\ pc \in Underway /\ GoesOn(m, TRUE, pc)
  /\ \A r \in Callers : ~Recovering(r)
  /\ mem' = m /\ disk' = m /\ m \in Manifest /\ m.session \in Sessions
  /\ m.state = StateAt(Head(queue).kind, pc)
  /\ UNCHANGED <<connected, recovery, statusVars, dbVars, ipcVars>>

StartMoves(m, pc) ==
  /\ Moves(m, pc)
  /\ Head(queue).kind = "start" /\ m.session = Head(queue).who
  /\ obs' = obs \/ (obs' = m.session /\ pc \notin {"intent", "request"})
  /\ pc \in {"intent", "request"} => Head(queue).pc \in {"begin", "intent"}
  /\ \/ Head(queue).pc = "begin" /\ disk = NoManifest /\ mem = NoManifest
     \/ Head(queue).pc # "begin" /\ pc # "intent"

StopMoves(m, pc) ==
  /\ Moves(m, pc)
  /\ Head(queue).kind = "stop"
  /\ obs' \in {obs, NoSession}
  /\ \/ Head(queue).pc = "begin" /\ pc = "query"
          /\ mem.state \in ActiveStates /\ m.session = mem.session
     \/ Head(queue).pc # "begin" /\ m.session = Head(queue).man.session
          /\ (pc \notin {"probe", "handoff"} => m.state = Head(queue).man.state)

LEMMA MovesFacts ==
  ASSUME Sound, NEW m, NEW pc, Moves(m, pc)
  PROVE  /\ Within(queue', queue) /\ queue # <<>> /\ UnderWay'
         /\ Head(queue').kind = Head(queue).kind /\ Head(queue').who = Head(queue).who
         /\ Head(queue').man = m /\ Head(queue').own = TRUE /\ Head(queue').pc = pc
         /\ recovery' = recovery
         /\ \A r \in Callers : recovery[r].pc \notin {"query", "finalize", "apply", "provision"}
         /\ Head(queue) \in Command /\ Fits(Head(queue))
<1>1. QueueSound
  BY SoundParts
<1>2. /\ Within(queue', queue) /\ queue' # <<>>
      /\ Head(queue').kind = Head(queue).kind /\ Head(queue').who = Head(queue).who
      /\ Head(queue').man = m /\ Head(queue').own = TRUE /\ Head(queue').pc = pc
  BY <1>1, HeadIsWithin DEF Moves
<1>3. UnderWay'
  BY <1>2 DEF UnderWay, Moves, Underway
<1>4. QED
  BY <1>1, <1>2, <1>3, HeadIsACommand DEF Moves, Recovering

\* What does not depend on the kind of the command.
LEMMA MovesKeep ==
  ASSUME Sound, Handed, NEW m, NEW pc, Moves(m, pc),
         Head(queue).kind \in {"start", "stop"},
         Head(queue).kind = "start" => m.session = Head(queue).who,
         obs' \in {obs, NoSession} \/ obs' = m.session
  PROVE  OneRecovers' /\ HeldIsKept' /\ MemoryIsOnDisk' /\ LostIsNotAsked' /\ ResultsHold'
           /\ FailedNeverStarted' /\ m.state # "failed"
<1>1. /\ Within(queue', queue) /\ UnderWay'
      /\ Head(queue').kind = Head(queue).kind /\ Head(queue').who = Head(queue).who
      /\ Head(queue').man = m /\ Head(queue').own = TRUE /\ Head(queue').pc = pc
      /\ recovery' = recovery
      /\ \A r \in Callers : recovery[r].pc \notin {"query", "finalize", "apply", "provision"}
  BY MovesFacts
<1>2. mem' = m /\ disk' = m /\ m.session \in Sessions
      /\ m.state = StateAt(Head(queue).kind, pc)
  BY DEF Moves
<1>3. m.state \in {"ready", "start-intent", "stop-intent", "finalizing", "complete"}
  BY <1>2 DEF StateAt
<1>4. OneRecovers'
  BY <1>1 DEF OneRecovers, Recovering
<1>5. HeldIsKept'
  BY <1>1, <1>2 DEF HeldIsKept
<1>6. MemoryIsOnDisk'
  BY <1>2 DEF MemoryIsOnDisk
<1>7. LostIsNotAsked'
  BY <1>1 DEF LostIsNotAsked, GivesUp, Callers
<1>8. ResultsHold'
  BY <1>1 DEF ResultsHold, ResultHolds, Handed, Within
<1>9. FailedNeverStarted'
  BY <1>2, <1>3 DEF FailedNeverStarted, In
<1>10. QED
  BY <1>3, <1>4, <1>5, <1>6, <1>7, <1>8, <1>9

LEMMA StartMovesHand ==
  ASSUME Sound, Handed, Pends, NEW m, NEW pc, StartMoves(m, pc)
  PROVE  Handed'
<1>1. /\ Within(queue', queue) /\ queue # <<>> /\ UnderWay'
      /\ Head(queue').kind = "start" /\ Head(queue').who = Head(queue).who
      /\ Head(queue').man = m /\ Head(queue').pc = pc
      /\ recovery' = recovery
      /\ \A r \in Callers : recovery[r].pc \notin {"query", "finalize", "apply", "provision"}
      /\ Head(queue) \in Command /\ Fits(Head(queue))
  BY MovesFacts DEF StartMoves
<1>2. /\ mem' = m /\ disk' = m /\ m.session \in Sessions /\ m.session = Head(queue).who
      /\ m.state \in {"ready", "start-intent"}
      /\ Head(queue).kind = "start"
      /\ pc # "intent" => m.state = "start-intent"
      /\ UNCHANGED <<connected, statusVars, dbVars, ipcVars>>
  BY DEF StartMoves, Moves, StateAt
<1>3. OneRecovers' /\ HeldIsKept' /\ MemoryIsOnDisk' /\ LostIsNotAsked' /\ ResultsHold'
      /\ FailedNeverStarted'
  <2>1. Moves(m, pc) /\ (obs' \in {obs, NoSession} \/ obs' = m.session)
    BY DEF StartMoves
  <2>2. QED
    BY <1>2, <2>1, MovesKeep
<1>4. starting = Head(queue).who /\ recovery["start"].pc = "idle" /\ starting \in Sessions
  <2>1. Head(queue) = queue[1] /\ 1 \in 1..Len(queue)
    BY <1>1, SoundParts DEF QueueSound
  <2>2. QED
    BY <1>1, <1>2, <2>1, SoundParts DEF QueueSound, StartAlone
<1>5. NotYetAsked'
  <2>1. Has(queue, "start")
    BY <1>1, <1>2, SoundParts, HeadStandsFirst
  <2>2. pc \in {"intent", "request"} => obs' = obs /\ obs \notin Sessions
    BY <2>1 DEF StartMoves, Handed, NotYetAsked, Begun, UnderWay
  <2>3. obs' = obs \/ obs' = starting
    BY <1>2, <1>4 DEF StartMoves
  <2>4. UNCHANGED <<starting, claim>>
    BY <1>2 DEF ipcVars
  <2>5. QED
    BY <1>1, <1>4, <2>2, <2>3, <2>4 DEF Handed, NotYetAsked, Begun
<1>6. ReadyIsQuiet'
  <2>1. ~Settled' /\ phase' = phase
    BY <1>2, <1>4, ConstantsAssumption DEF Settled, ipcVars, statusVars
  <2>2. QED
    BY <1>1, <2>1 DEF ReadyIsQuiet, Handed, Within, Reattaching
<1>7. \A s \in Sessions : disk.session = s => m.session = s
  BY <1>2, ConstantsAssumption DEF Pends, NoManifest
<1>8. ASSUME NEW s \in Sessions
      PROVE  (AckIsLate(s) /\ RowIsKept(s) /\ AttachedIsOver(s))'
  <2>1. AckIsLate(s) /\ RowIsKept(s) /\ AttachedIsOver(s)
    BY DEF Handed, SessionsHold
  <2>2. AckIsLate(s)'
    <3>1. ~In(disk', s, Over) /\ ~In(mem', s, Over)
      BY <1>2 DEF In, Over
    <3>2. ~StopThenAck(queue', s)
      BY <1>1, <1>2, SoundParts, HeadStandsFirst DEF Within, Handed, ReadyIsQuiet
    <3>3. ~Begun("stop")'
      BY <1>1 DEF Begun
    <3>4. (AckIn(queue', s) => AckIn(queue, s)) /\ row' = row
      BY <1>1, <1>2 DEF dbVars, Within
    <3>5. QED
      BY <2>1, <3>1, <3>2, <3>3, <3>4 DEF AckIsLate
  <2>3. RowIsKept(s)'
    <3>1. UNCHANGED <<row, jobs, attached>> /\ (AckIn(queue', s) => AckIn(queue, s))
          /\ (StartOf(queue', s) => StartOf(queue, s))
      BY <1>1, <1>2 DEF dbVars, Within
    <3>2. ASSUME row[s] = "recording"
          PROVE  m.session = s /\ m.state \in ActiveStates
      <4>1. disk.session = s /\ disk # NoManifest
        BY <2>1, <3>2, ConstantsAssumption DEF RowIsKept, NoManifest
      <4>2. pc # "intent"
        BY <4>1 DEF StartMoves
      <4>3. QED
        BY <1>2, <1>7, <4>1, <4>2 DEF ActiveStates
    <3>3. QED
      BY <1>2, <1>7, <2>1, <3>1, <3>2 DEF RowIsKept, In
  <2>4. AttachedIsOver(s)'
    <3>1. UNCHANGED <<row, jobs, attached>>
          /\ (AckThenStart(queue', s) => AckThenStart(queue, s))
          /\ (StartOf(queue', s) => StartOf(queue, s))
      BY <1>1, <1>2 DEF dbVars, Within
    <3>2. s \in attached => m.session # s
      <4>1. SUFFICES ASSUME s \in attached, m.session = s PROVE FALSE
        OBVIOUS
      <4>2. StartOf(queue, s)
        BY <1>1, <1>2, <4>1, SoundParts, HeadStandsFirst DEF Is
      <4>3. disk.session = s /\ disk # NoManifest
        BY <2>1, <4>1, <4>2, ConstantsAssumption DEF AttachedIsOver, NoManifest
      <4>4. UnderWay
        BY <1>1, <4>3 DEF StartMoves, UnderWay
      <4>5. disk.state \in Fresh
        BY <1>2, <4>4 DEF Handed, HeldIsKept, StateAt, Fresh, ActiveStates
      <4>6. QED
        BY <2>1, <4>1, <4>3, <4>5 DEF AttachedIsOver, Bears, In
    <3>3. s \in attached => ~Bears(s, Fresh \cup {"failed"})'
      BY <1>1, <1>2, <3>2 DEF Bears, In
    <3>4. ~Begun("stop")'
      BY <1>1 DEF Begun
    <3>5. QED
      BY <1>2, <1>7, <2>1, <3>1, <3>3, <3>4 DEF AttachedIsOver
  <2>5. QED
    BY <2>2, <2>3, <2>4
<1>9. ManifestBeforeRecording'
  <2>1. UNCHANGED <<row, attached>> /\ (obs' = obs \/ obs' = disk'.session)
    BY <1>2 DEF dbVars, StartMoves
  <2>2. QED
    BY <1>2, <1>7, <2>1 DEF ManifestBeforeRecording, Handed
<1>10. QED
  BY <1>3, <1>5, <1>6, <1>8, <1>9 DEF Handed, SessionsHold

LEMMA StopMovesHand ==
  ASSUME Sound, Handed, Pends, NEW m, NEW pc, StopMoves(m, pc)
  PROVE  Handed'
<1>1. /\ Within(queue', queue) /\ queue # <<>> /\ UnderWay'
      /\ Head(queue').kind = "stop"
      /\ Head(queue').man = m /\ Head(queue').pc = pc
      /\ recovery' = recovery
      /\ \A r \in Callers : recovery[r].pc \notin {"query", "finalize", "apply", "provision"}
  BY MovesFacts DEF StopMoves
<1>2. /\ mem' = m /\ disk' = m /\ m.session \in Sessions
      /\ m.state = StateAt("stop", pc)
      /\ m.state \in {"stop-intent", "finalizing", "complete"}
      /\ Head(queue).kind = "stop"
      /\ UNCHANGED <<connected, statusVars, dbVars, ipcVars>>
      /\ obs' \in {obs, NoSession}
  BY DEF StopMoves, Moves, StateAt
<1>3. OneRecovers' /\ HeldIsKept' /\ MemoryIsOnDisk' /\ LostIsNotAsked' /\ ResultsHold'
      /\ FailedNeverStarted'
  <2>1. Moves(m, pc) /\ (obs' \in {obs, NoSession} \/ obs' = m.session)
    BY DEF StopMoves
  <2>2. QED
    BY <1>2, <2>1, MovesKeep
<1>4. NotYetAsked'
  <2>1. ~Begun("start")
    BY <1>2 DEF Begun
  <2>2. UNCHANGED <<starting, claim>> /\ (Has(queue', "start") => Has(queue, "start"))
    BY <1>1, <1>2 DEF ipcVars, Within
  <2>3. QED
    BY <1>1, <1>2, <2>1, <2>2, ConstantsAssumption DEF Handed, NotYetAsked
\* What memory and disk hold now was in progress before.
<1>5. m.state \in ActiveStates => mem.state \in ActiveStates /\ m.session = mem.session
                                    /\ disk.session = m.session
  <2>1. CASE Head(queue).pc = "begin"
    BY <2>1 DEF StopMoves, Handed, MemoryIsOnDisk
  <2>2. CASE Head(queue).pc # "begin"
    <3>1. UnderWay /\ mem = Head(queue).man /\ disk = Head(queue).man
      BY <1>1, <2>2 DEF UnderWay, Handed, HeldIsKept
    <3>2. m.state \in ActiveStates => pc \notin {"probe", "handoff"}
      BY <1>2 DEF StateAt, ActiveStates
    <3>3. QED
      BY <2>2, <3>1, <3>2 DEF StopMoves
  <2>3. QED
    BY <2>1, <2>2
<1>6. ReadyIsQuiet'
  <2>1. UNCHANGED <<phase, starting, connected>>
    BY <1>2 DEF statusVars, ipcVars
  <2>2. \A s \in Sessions : Live(s)' => Live(s)
    BY <1>1, <1>2, <1>5 DEF Live, In
  <2>3. (obs' \in Sessions => obs' = obs)
    BY <1>2, ConstantsAssumption
  <2>4. QED
    BY <1>1, <2>1, <2>2, <2>3 DEF ReadyIsQuiet, Handed, Within, Reattaching, Settled
<1>7. \A s \in Sessions : disk.session = s => m.session = s
  BY <1>2, ConstantsAssumption DEF Pends, NoManifest
\* No acknowledgement waits for the session that is stopped, and it is not attached.
<1>8. ~AckIn(queue, m.session) /\ m.session \notin attached
  <2>1. AckIsLate(m.session) /\ AttachedIsOver(m.session)
    BY <1>2 DEF Handed, SessionsHold
  <2>2. CASE Head(queue).pc = "begin"
    <3>1. mem.state \in Fresh /\ m.session = mem.session
      BY <2>2 DEF StopMoves, Fresh
    <3>2. Bears(m.session, Fresh) /\ Bears(m.session, Fresh \cup {"failed"})
      BY <3>1 DEF Bears, In
    <3>3. AckIn(queue, m.session) => StopThenAck(queue, m.session)
      BY <1>1, <1>2, SoundParts, HeadStandsFirst
    <3>4. QED
      BY <2>1, <3>2, <3>3 DEF AckIsLate, AttachedIsOver
  <2>3. CASE Head(queue).pc # "begin"
    <3>1. Begun("stop") /\ m.session = Head(queue).man.session
      BY <1>1, <1>2, <2>3 DEF Begun, UnderWay, StopMoves
    <3>2. QED
      BY <2>1, <3>1 DEF AckIsLate, AttachedIsOver
  <2>4. QED
    BY <2>2, <2>3
<1>9. ASSUME NEW s \in Sessions
      PROVE  (AckIsLate(s) /\ RowIsKept(s) /\ AttachedIsOver(s))'
  <2>1. AckIsLate(s) /\ RowIsKept(s) /\ AttachedIsOver(s)
    BY DEF Handed, SessionsHold
  <2>2. UNCHANGED <<row, jobs, attached>>
        /\ (AckIn(queue', s) => AckIn(queue, s))
        /\ (StartOf(queue', s) => StartOf(queue, s))
        /\ (StopThenAck(queue', s) => StopThenAck(queue, s))
        /\ (AckThenStart(queue', s) => AckThenStart(queue, s))
    BY <1>1, <1>2 DEF dbVars, Within
  <2>3. Bears(s, Fresh)' => Bears(s, Fresh)
    BY <1>1, <1>2, <1>5 DEF Bears, In, Fresh, ActiveStates
  <2>4. AckIsLate(s)'
    BY <1>1, <1>2, <1>8, <2>1, <2>2, <2>3 DEF AckIsLate, In
  <2>5. RowIsKept(s)'
    <3>1. row[s] = "recording" /\ AckIn(queue', s) => FALSE
      BY <1>7, <1>8, <2>1, <2>2 DEF RowIsKept
    <3>2. QED
      BY <1>2, <1>7, <2>1, <2>2, <3>1 DEF RowIsKept
  <2>6. AttachedIsOver(s)'
    <3>1. s \in attached => ~Bears(s, Fresh \cup {"failed"})'
      BY <1>1, <1>2, <1>8 DEF Bears, In
    <3>2. QED
      BY <1>1, <1>2, <1>7, <1>8, <2>1, <2>2, <3>1 DEF AttachedIsOver
  <2>7. QED
    BY <2>4, <2>5, <2>6
<1>10. ManifestBeforeRecording'
  <2>1. UNCHANGED <<row, attached>> /\ (obs' \in Sessions => obs' = obs)
    BY <1>2, ConstantsAssumption DEF dbVars
  <2>2. QED
    BY <1>2, <1>7, <2>1 DEF ManifestBeforeRecording, Handed
<1>11. QED
  BY <1>3, <1>4, <1>6, <1>9, <1>10 DEF Handed, SessionsHold

\* What is known of the command under way.
LEMMA HeadUnderWay ==
  ASSUME Sound, Handed, UnderWay
  PROVE  /\ QueueSound /\ ManifestTyped
         /\ Head(queue).own = TRUE /\ mem = Head(queue).man /\ disk = Head(queue).man
         /\ Head(queue).man \in Manifest /\ Head(queue).man.session \in Sessions
         /\ Head(queue).man.state = StateAt(Head(queue).kind, Head(queue).pc)
         /\ Head(queue).kind = "start" => Head(queue).man.session = Head(queue).who
         /\ \A state \in States :
              /\ InState(state) \in Manifest /\ Remembered(state) = InState(state)
              /\ InState(state).session = Head(queue).man.session
              /\ InState(state).state = state
<1>1. QueueSound /\ ManifestTyped /\ queue # <<>> /\ Head(queue).pc # "begin"
  BY SoundParts DEF UnderWay
<1>2. Head(queue).own = TRUE /\ mem = Head(queue).man /\ disk = Head(queue).man
      /\ Head(queue).man.state = StateAt(Head(queue).kind, Head(queue).pc)
      /\ (Head(queue).kind = "start" => Head(queue).man.session = Head(queue).who)
  BY DEF Handed, HeldIsKept
<1>3. Head(queue).man \in Manifest /\ Head(queue).man.session \in Sessions
  BY <1>1, HeadIsACommand DEF Fits
<1>4. Head(queue).man \in [session : Sessions, state : States]
  BY <1>3, ConstantsAssumption DEF Manifest, NoManifest
<1>5. ASSUME NEW state \in States
      PROVE  /\ InState(state) \in Manifest /\ Remembered(state) = InState(state)
             /\ InState(state).session = Head(queue).man.session
             /\ InState(state).state = state
  BY <1>2, <1>4 DEF InState, Remembered, Manifest
<1>6. QED
  BY <1>1, <1>2, <1>3, <1>5

\* The start under way goes on to pc.
LEMMA StartsGoOn ==
  ASSUME Sound, Handed, ~Overtaking,
         \/ StartIntent \/ RequestStart \/ AwaitStart \/ ReconcileStart, ~StartFails
  PROVE  \E m, pc : StartMoves(m, pc)
<1>1. UnderWay /\ Head(queue).kind = "start" /\ \A r \in Callers : ~Recovering(r)
  BY DEF StartIntent, RequestStart, AwaitStart, ReconcileStart, Running, UnderWay
<1> DEFINE man == Head(queue).man
<1>2. /\ Head(queue).own = TRUE /\ mem = man /\ disk = man
      /\ man \in Manifest /\ man.session \in Sessions /\ man.session = Head(queue).who
      /\ man.state = StateAt("start", Head(queue).pc)
      /\ \A state \in States :
           /\ InState(state) \in Manifest /\ Remembered(state) = InState(state)
           /\ InState(state).session = man.session
           /\ InState(state).state = state
  BY <1>1, HeadUnderWay
<1>3. CASE StartIntent
  <2>1. mem' = InState("start-intent") /\ disk' = InState("start-intent")
        /\ GoesOn(InState("start-intent"), TRUE, "request") /\ Head(queue).pc = "intent"
        /\ UNCHANGED <<connected, obs, recovery, statusVars, dbVars, ipcVars>>
    BY <1>2, <1>3 DEF StartIntent, Persists, States, Running, obsVars
  <2>2. StartMoves(InState("start-intent"), "request")
    BY <1>1, <1>2, <2>1 DEF StartMoves, Moves, UnderWay, Underway, StateAt, States
  <2>3. QED
    BY <2>2
<1>4. CASE RequestStart \/ AwaitStart \/ ReconcileStart
  <2>1. /\ Head(queue).pc \in {"request", "started", "reconcile"}
        /\ UNCHANGED <<connected, disk, mem, recovery, statusVars, dbVars, ipcVars>>
        /\ \E pc \in {"started", "reconcile", "confirmed"} :
             /\ GoesOn(man, TRUE, pc)
             /\ obs' \in {obs, man.session}
    BY <1>2, <1>4 DEF RequestStart, AwaitStart, ReconcileStart, Running, obsVars
  <2>2. PICK pc \in {"started", "reconcile", "confirmed"} :
          GoesOn(man, TRUE, pc) /\ obs' \in {obs, man.session}
    BY <2>1
  <2>3. StartMoves(man, pc)
    BY <1>1, <1>2, <2>1, <2>2 DEF StartMoves, Moves, UnderWay, Underway, StateAt
  <2>4. QED
    BY <2>3
<1>5. QED
  BY <1>3, <1>4

LEMMA StartReadyGoesOn ==
  ASSUME Sound, ~Overtaking, StartReady, ~StartFails PROVE \E m, pc : StartMoves(m, pc)
<1> DEFINE m == Named(Head(queue).who, "ready")
<1>1. queue # <<>> /\ Head(queue).kind = "start" /\ Head(queue).pc = "begin"
      /\ disk = NoManifest /\ mem = NoManifest /\ \A r \in Callers : ~Recovering(r)
  BY DEF StartReady, Running, Pending
<1>2. Head(queue).who \in Sessions
  BY <1>1, HeadIsACommand, SoundParts DEF Fits
<1>3. m \in Manifest /\ m.session = Head(queue).who /\ m.state = "ready"
  BY <1>2 DEF Named, Manifest, States
<1>4. mem' = m /\ disk' = m /\ StartGoesOn(m, "intent") /\ obs' = obs
  BY DEF StartReady
<1> HIDE DEF m
<1>5. GoesOn(m, TRUE, "intent")
      /\ UNCHANGED <<connected, recovery, statusVars, dbVars, ipcVars>>
  BY <1>4 DEF StartGoesOn
<1>6. StartMoves(m, "intent")
  BY <1>1, <1>2, <1>3, <1>4, <1>5 DEF StartMoves, Moves, Underway, StateAt
<1>7. QED
  BY <1>6

LEMMA StopsGoOn ==
  ASSUME Sound, Handed, ~Overtaking,
         StopIntent \/ QueryStop \/ RequestStop \/ ReconcileStop \/ StopFinalizes \/ StopProbes,
         ~StopFails
  PROVE  \E m, pc : StopMoves(m, pc)
<1>1. queue # <<>> /\ Head(queue).kind = "stop" /\ \A r \in Callers : ~Recovering(r)
  BY DEF StopIntent, QueryStop, RequestStop, ReconcileStop, StopFinalizes, StopProbes, Running
<1> DEFINE man == Head(queue).man
<1>2. CASE StopIntent
  <2>1. mem.state \in ActiveStates /\ Head(queue).pc = "begin"
        /\ mem' = [mem EXCEPT !.state = "stop-intent"] /\ disk' = mem' /\ GoesOn(mem', TRUE, "query")
        /\ UNCHANGED <<connected, obs, recovery, statusVars, dbVars, ipcVars>>
    BY <1>2 DEF StopIntent, Running, obsVars
  <2>2. mem \in [session : Sessions, state : States]
    BY <2>1, SoundParts DEF ManifestTyped, Manifest, NoManifest, ActiveStates
  <2>3. mem' \in Manifest /\ mem'.session = mem.session /\ mem'.session \in Sessions
        /\ mem'.state = "stop-intent"
    BY <2>1, <2>2 DEF Manifest, States
  <2>4. StopMoves(mem', "query")
    BY <1>1, <2>1, <2>3 DEF StopMoves, Moves, Underway, StateAt
  <2>5. QED
    BY <2>4
<1>3. CASE QueryStop \/ RequestStop \/ ReconcileStop \/ StopFinalizes \/ StopProbes
  <2>1. Head(queue).pc \in {"query", "stop", "confirm", "stopped", "probe"} /\ UnderWay
    BY <1>1, <1>3 DEF QueryStop, RequestStop, ReconcileStop, StopFinalizes, StopProbes, Running,
       UnderWay
  <2>2. /\ Head(queue).own = TRUE /\ mem = man /\ disk = man
        /\ man \in Manifest /\ man.session \in Sessions
        /\ man.state = StateAt("stop", Head(queue).pc)
        /\ \A state \in States :
             /\ InState(state) \in Manifest /\ Remembered(state) = InState(state)
             /\ InState(state).session = man.session
             /\ InState(state).state = state
    BY <1>1, <2>1, HeadUnderWay
  <2>3. CASE QueryStop \/ RequestStop \/ ReconcileStop
    <3>1. /\ Head(queue).pc \in {"query", "stop", "confirm"}
          /\ UNCHANGED <<connected, disk, mem, recovery, statusVars, dbVars, ipcVars>>
          /\ obs' \in {obs, NoSession}
          /\ \E pc \in {"stop", "stopped", "confirm"} : GoesOn(man, TRUE, pc)
      BY <2>2, <2>3 DEF QueryStop, RequestStop, ReconcileStop, Running, obsVars, OutputEnds
    <3>2. PICK pc \in {"stop", "stopped", "confirm"} : GoesOn(man, TRUE, pc)
      BY <3>1
    <3>3. StopMoves(man, pc)
      BY <1>1, <2>1, <2>2, <3>1, <3>2 DEF StopMoves, Moves, Underway, StateAt
    <3>4. QED
      BY <3>3
  <2>4. CASE StopFinalizes
    <3>1. mem' = InState("finalizing") /\ disk' = InState("finalizing")
          /\ GoesOn(InState("finalizing"), TRUE, "probe")
          /\ UNCHANGED <<connected, obs, recovery, statusVars, dbVars, ipcVars>>
      BY <2>2, <2>4 DEF StopFinalizes, Persists, States, obsVars
    <3>2. StopMoves(InState("finalizing"), "probe")
      BY <1>1, <2>1, <2>2, <3>1 DEF StopMoves, Moves, Underway, StateAt, States
    <3>3. QED
      BY <3>2
  <2>5. CASE StopProbes
    <3>1. mem' = InState("complete") /\ disk' = InState("complete")
          /\ GoesOn(InState("complete"), TRUE, "handoff")
          /\ UNCHANGED <<connected, obs, recovery, statusVars, dbVars, ipcVars>>
      BY <2>2, <2>5 DEF StopProbes, Persists, States, obsVars
    <3>2. StopMoves(InState("complete"), "handoff")
      BY <1>1, <2>1, <2>2, <3>1 DEF StopMoves, Moves, Underway, StateAt, States
    <3>3. QED
      BY <3>2
  <2>6. QED
    BY <1>3, <2>3, <2>4, <2>5
<1>4. QED
  BY <1>2, <1>3

----------------------------------------------------------------------------
(* A start or a stop fails.                                                *)

LEMMA DoneIsNotGoesOn ==
  ASSUME QueueSound, queue # <<>>, Done, NEW m, NEW own, NEW pc PROVE ~GoesOn(m, own, pc)
<1>1. queue \in Seq(Command) /\ Tail(queue) \in Seq(Command)
  BY DEF QueueSound
<1>2. \A c : Len(<<c>> \o Tail(queue)) = 1 + Len(Tail(queue)) /\ Len(Tail(queue)) \in Nat
  BY <1>1
<1>3. QED
  BY <1>2 DEF Done, GoesOn

\* A command is over and no recovery has loaded a manifest.
LEMMA EndsKeep ==
  ASSUME Sound, Handed, queue # <<>>, Done,
         \A r \in Callers : ~Recovering(r),
         \A r \in Callers : recovery'[r].pc = recovery[r].pc \/ recovery'[r].pc = "load"
  PROVE  /\ OneRecovers' /\ HeldIsKept' /\ LostIsNotAsked' /\ ResultsHold'
         /\ Within(queue', queue) /\ ~UnderWay' /\ ~Before(queue', "start", "stop")
         /\ \A r \in Callers : recovery'[r].pc \notin {"query", "finalize", "apply", "provision"}
<1>1. Within(queue', queue) /\ ~UnderWay'
  BY SoundParts, TailIsWithin
<1>2. \A r \in Callers : recovery'[r].pc \notin {"query", "finalize", "apply", "provision"}
  BY DEF Recovering
<1>3. OneRecovers' /\ HeldIsKept'
  BY <1>1, <1>2 DEF OneRecovers, HeldIsKept, Recovering
<1>4. LostIsNotAsked'
  BY <1>2 DEF LostIsNotAsked, GivesUp, Callers
<1>5. ResultsHold'
  BY <1>1, <1>2 DEF ResultsHold, ResultHolds, Handed, Within
<1>6. QED
  BY <1>1, <1>2, <1>3, <1>4, <1>5 DEF Handed, ReadyIsQuiet, Within

\* The ways a stop fails: the manifest stays on disk as it is.
StopFailing ==
  /\ queue # <<>> /\ Head(queue).kind = "stop" /\ StopFails
  /\ \A r \in Callers : ~Recovering(r)
  /\ disk' = disk
  /\ \/ mem' = mem
     \/ mem.state \in ActiveStates /\ mem'.session = mem.session /\ mem'.state = "stop-intent"
     \/ UnderWay /\ mem'.session = mem.session /\ mem'.state \in {"finalizing", "complete"}

LEMMA StopFailingHand == ASSUME Sound, Handed, StopFailing PROVE Handed'
<1>1. /\ queue # <<>> /\ Head(queue).kind = "stop" /\ Done /\ disk' = disk /\ recovery' = recovery
      /\ \A r \in Callers : ~Recovering(r)
      /\ UNCHANGED <<connected, obs, phase, row, attached, jobs, starting, claim>>
  BY DEF StopFailing, StopFails, obsVars, statusVars, dbVars
<1>2. /\ OneRecovers' /\ HeldIsKept' /\ LostIsNotAsked' /\ ResultsHold'
      /\ Within(queue', queue) /\ ~UnderWay' /\ ~Before(queue', "start", "stop")
      /\ \A r \in Callers : recovery'[r].pc \notin {"query", "finalize", "apply", "provision"}
  BY <1>1, EndsKeep
<1>3. mem'.state \in ActiveStates => mem.state \in ActiveStates /\ mem'.session = mem.session
  BY DEF StopFailing, ActiveStates
<1>4. mem'.state \in Fresh => mem.state \in Fresh /\ mem'.session = mem.session
  BY DEF StopFailing, ActiveStates, Fresh
<1>5. mem'.state = "failed" => mem'= mem
  BY DEF StopFailing
<1>6. MemoryIsOnDisk' /\ FailedNeverStarted'
  BY <1>1, <1>3, <1>5 DEF Handed, MemoryIsOnDisk, FailedNeverStarted, In
<1>7. NotYetAsked'
  <2>1. ~Begun("start")
    BY <1>1 DEF Begun
  <2>2. QED
    BY <1>1, <1>2, <2>1 DEF NotYetAsked, Handed, Within
<1>8. ReadyIsQuiet'
  <2>1. \A s : Live(s)' => Live(s)
    BY <1>1, <1>2, <1>3 DEF Live, In
  <2>2. QED
    BY <1>1, <1>2, <2>1 DEF ReadyIsQuiet, Handed, Within, Reattaching, Settled
<1>9. ASSUME NEW s \in Sessions
      PROVE  (AckIsLate(s) /\ RowIsKept(s) /\ AttachedIsOver(s))'
  <2>1. AckIsLate(s) /\ RowIsKept(s) /\ AttachedIsOver(s)
    BY DEF Handed, SessionsHold
  <2>2. (AckIn(queue', s) => AckIn(queue, s)) /\ (StartOf(queue', s) => StartOf(queue, s))
        /\ (StopThenAck(queue', s) => StopThenAck(queue, s))
        /\ (AckThenStart(queue', s) => AckThenStart(queue, s))
    BY <1>2 DEF Within
  <2>3. (Bears(s, Fresh)' => Bears(s, Fresh))
        /\ (Bears(s, Fresh \cup {"failed"})' => Bears(s, Fresh \cup {"failed"}))
    BY <1>1, <1>2, <1>4, <1>5 DEF Bears, In
  <2>4. AckIn(queue, s) /\ mem'.session = s =>
          mem' = mem \/ (mem.state \in ActiveStates /\ mem'.state = "stop-intent" /\ mem.session = s)
    <3>1. UnderWay => Begun("stop") /\ mem = Head(queue).man
      BY <1>1, HeadUnderWay DEF Begun
    <3>2. QED
      BY <2>1, <3>1 DEF StopFailing, AckIsLate
  <2>5. AckIsLate(s)'
    BY <1>1, <1>2, <2>1, <2>2, <2>3, <2>4 DEF AckIsLate, In, Over, Begun
  <2>6. RowIsKept(s)'
    <3>1. AckIn(queue, s) /\ In(mem, s, ActiveStates) =>
            In(mem', s, ActiveStates)
      <4>1. mem.session = s => mem'.session = s
        BY DEF StopFailing
      <4>2. QED
        BY <2>4, <4>1 DEF In, ActiveStates
    <3>2. mem = NoManifest => mem' = NoManifest
      <4>1. SUFFICES ASSUME mem = NoManifest PROVE mem' = mem
        OBVIOUS
      <4>2. ~UnderWay
        <5>1. UnderWay => mem.session \in Sessions
          BY HeadUnderWay
        <5>2. QED
          BY <4>1, <5>1, ConstantsAssumption DEF NoManifest
      <4>3. mem.state \notin ActiveStates
        BY <4>1 DEF NoManifest, ActiveStates
      <4>4. QED
        BY <4>2, <4>3 DEF StopFailing
    <3>3. QED
      BY <1>1, <2>1, <2>2, <3>1, <3>2 DEF RowIsKept
  <2>7. AttachedIsOver(s)'
    BY <1>1, <1>2, <2>1, <2>2, <2>3 DEF AttachedIsOver, Begun
  <2>8. QED
    BY <2>5, <2>6, <2>7
<1>10. ManifestBeforeRecording'
  BY <1>1 DEF ManifestBeforeRecording, Handed
<1>11. QED
  BY <1>2, <1>6, <1>7, <1>8, <1>9, <1>10 DEF Handed, SessionsHold

\* The ways a start fails.
StartFailing ==
  /\ queue # <<>> /\ Head(queue).kind = "start" /\ StartFails
  /\ \A r \in Callers : ~Recovering(r)
  /\ \/ Head(queue).pc = "begin" /\ disk' = disk /\ mem' = Pending
     \/ Head(queue).pc = "begin" /\ disk' = disk /\ disk = NoManifest
          /\ mem'.session = Head(queue).who /\ mem'.state = "ready"
     \/ UnderWay /\ disk' = disk /\ mem'.session = mem.session
          /\ mem'.state \in {"start-intent", "recording"}
          /\ (mem'.state \in ActiveStates \/ ~connected)
     \/ UnderWay /\ obs = NoSession /\ mem'.session = mem.session /\ mem'.state = "failed"
          /\ \/ disk' = disk
             \/ disk'.session = disk.session /\ disk'.state = "failed"

LEMMA StartFailingHand == ASSUME Sound, Handed, StartFailing PROVE Handed'
<1>1. /\ queue # <<>> /\ Head(queue).kind = "start" /\ Done
      /\ \A r \in Callers : ~Recovering(r)
      /\ UNCHANGED <<connected, obs, usable, attached, jobs, deleting>>
  BY DEF StartFailing, StartFails, obsVars
<1>2. starting = Head(queue).who /\ recovery["start"].pc = "idle" /\ starting \in Sessions
      /\ recovery \in [Callers -> Recovery] /\ ~Has(queue', "start")
  <2>1. Head(queue) = queue[1] /\ 1 \in 1..Len(queue) /\ Fits(Head(queue)) /\ queue \in Seq(Command)
        /\ StartAlone(queue, recovery, starting) /\ recovery \in [Callers -> Recovery]
    BY <1>1, SoundParts, HeadIsACommand DEF QueueSound
  <2>2. NoStart(Tail(queue))
    BY <1>1, <2>1, NoStartBehindStart
  <2>3. QED
    BY <1>1, <2>1, <2>2 DEF StartAlone, Fits, NoStart, Has, Done
<1> DEFINE loads == mem' # NoManifest /\ connected
           recoverable == IF mem'.state \in ActiveStates THEN mem'.session ELSE NoSession
<1>3. /\ loads => /\ recovery' = [recovery EXCEPT !["start"].pc = "load"]
                  /\ claim' = recoverable /\ UNCHANGED <<phase, active, row, starting>>
      /\ ~loads => /\ recovery' = recovery /\ starting' = NoSession
                   /\ phase' \in {"recovering", "disconnected"} \/ mem' = NoManifest
                   /\ row' = row \/ row' = WithStatus(row, starting, "draft")
  BY DEF StartFailing, StartFails, StartEnds, SetStatus, statusVars
<1>4. /\ \A r \in Callers : recovery'[r].pc = recovery[r].pc \/ recovery'[r].pc = "load"
      /\ recovery'["start"].pc # "idle" => loads
  <2>1. recovery["start"] \in Recovery /\ "start" \in Callers
    BY <1>2 DEF Callers
  <2>2. QED
    BY <1>2, <1>3, <2>1 DEF Recovery
<1>5. /\ OneRecovers' /\ HeldIsKept' /\ LostIsNotAsked' /\ ResultsHold'
      /\ Within(queue', queue) /\ ~UnderWay' /\ ~Before(queue', "start", "stop")
      /\ \A r \in Callers : recovery'[r].pc \notin {"query", "finalize", "apply", "provision"}
  BY <1>1, <1>4, EndsKeep
\* What is under way is the manifest of the starting session, on disk and in memory.
<1>6. UnderWay => /\ mem = disk /\ disk.session = starting /\ disk # NoManifest
                  /\ disk.state \in Fresh
  <2>1. UnderWay => disk.state = StateAt("start", Head(queue).pc)
    BY <1>1, HeadUnderWay
  <2>2. QED
    BY <1>1, <1>2, <2>1, HeadUnderWay, ConstantsAssumption
       DEF NoManifest, StateAt, Fresh, ActiveStates
<1>7. StartOf(queue, starting) /\ Has(queue, "start") /\ \A s : ~StopThenAck(queue, s)
  BY <1>1, <1>2, HeadStandsFirst, SoundParts DEF Is, Handed, ReadyIsQuiet
<1>8. ~UnderWay => obs \notin Sessions
  BY <1>7 DEF Handed, NotYetAsked, Begun
<1>9. disk'.session = disk.session /\ (disk'.state = disk.state \/ disk'.state = "failed")
  BY DEF StartFailing
<1>10. MemoryIsOnDisk'
  <2>1. CASE Head(queue).pc = "begin"
    <3>1. mem'.state \in ActiveStates => disk' = disk /\ (mem' = mem \/ mem' = disk)
      BY <2>1 DEF StartFailing, UnderWay, Pending, ActiveStates
    <3>2. QED
      BY <3>1 DEF Handed, MemoryIsOnDisk
  <2>2. CASE UnderWay
    BY <1>6, <1>9, <2>2 DEF StartFailing, UnderWay, MemoryIsOnDisk
  <2>3. QED
    BY <1>1, <2>1, <2>2 DEF UnderWay
<1>11. FailedNeverStarted'
  <2>1. ASSUME obs \in Sessions
        PROVE  disk' = disk /\ mem'.state # "failed"
    BY <1>8, <2>1, ConstantsAssumption DEF StartFailing, UnderWay
  <2>2. QED
    BY <1>1, <2>1 DEF FailedNeverStarted, Handed, In
<1>12. NotYetAsked'
  <2>1. loads /\ claim' = NoSession => obs \notin Sessions
    <3>1. SUFFICES ASSUME loads, claim' = NoSession, UnderWay PROVE obs \notin Sessions
      BY <1>8
    <3>2. mem'.state \notin ActiveStates
      BY <1>2, <1>3, <1>6, <3>1, ConstantsAssumption DEF StartFailing, UnderWay
    <3>3. QED
      BY <3>1, <3>2, ConstantsAssumption DEF StartFailing, UnderWay
  <2>2. starting' # NoSession => starting' = starting
    BY <1>3
  <2>3. QED
    BY <1>1, <1>2, <1>4, <2>1, <2>2 DEF NotYetAsked, Handed
<1>13. ReadyIsQuiet'
  <2>1. Settled' => mem' = NoManifest
    BY <1>2, <1>3, ConstantsAssumption DEF Settled
  <2>2. mem' = NoManifest => disk' = NoManifest
    <3>1. mem' = NoManifest => disk' = disk /\ Pending = NoManifest
      BY <1>2, <1>6, ConstantsAssumption DEF StartFailing, NoManifest
    <3>2. QED
      BY <3>1 DEF Pending
  <2>3. Settled' => ~Live(obs)'
    BY <1>5, <2>1, <2>2 DEF Live, In, NoManifest, ActiveStates
  <2>4. QED
    BY <1>2, <1>5, <2>3 DEF ReadyIsQuiet, Reattaching
<1>14. ASSUME NEW s \in Sessions
       PROVE  (AckIsLate(s) /\ RowIsKept(s) /\ AttachedIsOver(s))'
  <2>1. AckIsLate(s) /\ RowIsKept(s) /\ AttachedIsOver(s)
    BY DEF Handed, SessionsHold
  <2>2. (AckIn(queue', s) => AckIn(queue, s)) /\ (StartOf(queue', s) => FALSE)
        /\ (StopThenAck(queue', s) => FALSE)
        /\ (AckThenStart(queue', s) => AckThenStart(queue, s))
    BY <1>2, <1>5, <1>7 DEF Within, StartOf, Has, Is
  <2>3. row'[s] = row[s] \/ (row'[s] = "draft" /\ row[s] # "deleted")
    <3>1. row \in [Sessions -> Statuses]
      BY SoundParts DEF AppTyped
    <3>2. QED
      BY <1>3, <3>1 DEF WithStatus
  <2>4. AckIsLate(s)'
    <3>1. (In(disk', s, Over) => In(disk, s, Over))
          /\ (In(mem', s, Over) => In(mem, s, Over) \/ In(disk, s, Over))
      BY DEF StartFailing, In, Over, Pending
    <3>2. QED
      BY <1>1, <1>5, <2>1, <2>2, <2>3, <3>1 DEF AckIsLate, Begun
  <2>5. RowIsKept(s)'
    <3>1. row'[s] = "recording" => row[s] = "recording" /\ s # starting
      BY <1>7, <2>1, <2>3 DEF RowIsKept
    <3>2. row[s] = "recording" /\ s # starting => disk # NoManifest /\ disk' = disk /\ mem' \in {mem, disk}
      <4>1. row[s] = "recording" => disk # NoManifest /\ disk.session = s
        BY <2>1, ConstantsAssumption DEF RowIsKept, NoManifest
      <4>2. QED
        BY <1>6, <4>1 DEF StartFailing, Pending
    <3>3. QED
      BY <1>1, <1>9, <2>1, <2>2, <2>3, <3>1, <3>2 DEF RowIsKept
  <2>6. AttachedIsOver(s)'
    <3>1. ASSUME s \in attached PROVE ~Bears(s, Fresh \cup {"failed"})'
      <4>1. ~Bears(s, Fresh \cup {"failed"})
        BY <2>1, <3>1 DEF AttachedIsOver
      <4>2. s = starting => disk.session = s
        BY <1>7, <2>1, <3>1 DEF AttachedIsOver
      <4>3. s = starting => ~UnderWay /\ disk # NoManifest
        BY <1>6, <4>1, <4>2, ConstantsAssumption DEF Bears, In, NoManifest
      <4>4. CASE s = starting
        BY <1>2, <1>5, <4>1, <4>3, <4>4 DEF StartFailing, Bears, In, Pending
      <4>5. CASE s # starting
        BY <1>2, <1>5, <1>6, <4>1, <4>5 DEF StartFailing, Bears, In, Pending
      <4>6. QED
        BY <4>4, <4>5
    <3>2. QED
      BY <1>1, <1>5, <2>1, <2>2, <3>1 DEF AttachedIsOver, Begun
  <2>7. QED
    BY <2>4, <2>5, <2>6
<1>15. ManifestBeforeRecording'
  <2>1. \A s \in Sessions : row[s] = "deleted" => row'[s] = "deleted"
    <3>1. row \in [Sessions -> Statuses]
      BY SoundParts DEF AppTyped
    <3>2. QED
      BY <1>3, <3>1 DEF WithStatus
  <2>2. QED
    BY <1>1, <1>9, <2>1 DEF ManifestBeforeRecording, Handed
<1>16. QED
  BY <1>5, <1>10, <1>11, <1>12, <1>13, <1>14, <1>15 DEF Handed, SessionsHold

LEMMA StartsFail ==
  ASSUME Sound, Handed, ~Overtaking, StartFails,
         \/ StartRefused \/ StartReady \/ StartIntent \/ RequestStart \/ AwaitStart
         \/ ReconcileStart \/ StartCompletes
  PROVE  StartFailing
<1>1. QueueSound /\ Done
  BY SoundParts DEF StartFails
<1>2. queue # <<>> /\ Head(queue).kind = "start" /\ \A r \in Callers : ~Recovering(r)
  BY DEF StartRefused, StartReady, StartIntent, RequestStart, AwaitStart, ReconcileStart,
     StartCompletes, Running
<1>3. \A m, own, pc : ~GoesOn(m, own, pc)
  BY <1>1, <1>2, DoneIsNotGoesOn
<1>4. CASE StartRefused
  <2>1. Head(queue).pc = "begin" /\ disk' = disk /\ mem' = Pending
    BY <1>4 DEF StartRefused, Running, Pending
  <2>2. QED
    BY <1>2, <2>1 DEF StartFailing
<1>5. CASE StartReady
  <2>1. Head(queue).pc = "begin" /\ disk' = disk /\ disk = NoManifest
        /\ mem' = Named(Head(queue).who, "ready")
    BY <1>3, <1>5 DEF StartReady, StartGoesOn, Running, Pending
  <2>2. QED
    BY <1>2, <2>1 DEF StartFailing, Named
<1>6. CASE RequestStart \/ AwaitStart
  BY <1>3, <1>6 DEF RequestStart, AwaitStart
<1>7. CASE StartIntent \/ ReconcileStart \/ StartCompletes
  <2>1. UnderWay
    BY <1>7 DEF StartIntent, ReconcileStart, StartCompletes, Running, UnderWay
  <2>2. /\ mem = Head(queue).man /\ disk = Head(queue).man
        /\ Head(queue).man.state = StateAt(Head(queue).kind, Head(queue).pc)
        /\ \A state \in States :
             /\ Remembered(state) = InState(state)
             /\ InState(state).session = Head(queue).man.session
             /\ InState(state).state = state
    BY <2>1, HeadUnderWay
  <2>3. CASE StartIntent
    <3>1. disk' = disk /\ mem' = InState("start-intent")
      BY <1>3, <2>2, <2>3 DEF StartIntent, PersistFails, States
    <3>2. mem'.session = mem.session /\ mem'.state = "start-intent"
      BY <2>2, <3>1 DEF States
    <3>3. QED
      BY <1>2, <2>1, <3>1, <3>2 DEF StartFailing, ActiveStates
  <2>4. CASE ReconcileStart
    <3>1. Head(queue).pc = "reconcile"
      BY <2>4 DEF ReconcileStart, Running
    <3>2. \/ ~connected /\ disk' = disk /\ mem' = mem
          \/ obs = NoSession /\ mem' = InState("failed") /\ disk' \in {disk, InState("failed")}
      BY <1>3, <2>2, <2>4 DEF ReconcileStart, Persists, PersistFails, States
    <3>3. mem.state = "start-intent"
      BY <1>2, <2>2, <3>1 DEF StateAt
    <3>4. CASE ~connected /\ disk' = disk /\ mem' = mem
      BY <1>2, <2>1, <3>3, <3>4 DEF StartFailing
    <3>5. CASE obs = NoSession /\ mem' = InState("failed") /\ disk' \in {disk, InState("failed")}
      <4>1. mem'.session = mem.session /\ mem'.state = "failed"
            /\ (disk' = disk \/ (disk'.session = disk.session /\ disk'.state = "failed"))
        BY <2>2, <3>5 DEF States
      <4>2. QED
        BY <1>2, <2>1, <3>5, <4>1 DEF StartFailing
    <3>6. QED
      BY <3>2, <3>4, <3>5
  <2>5. CASE StartCompletes
    <3>1. CASE PersistFails("recording")
      <4>1. disk' = disk /\ mem' = InState("recording")
        BY <2>2, <3>1 DEF PersistFails, States
      <4>2. mem'.session = mem.session /\ mem'.state = "recording"
        BY <2>2, <4>1 DEF States
      <4>3. QED
        BY <1>2, <2>1, <4>1, <4>2 DEF StartFailing, ActiveStates
    <3>2. CASE Persists("recording") /\ phase' = "recording" /\ starting' = NoSession
      <4>1. starting = Head(queue).who /\ starting \in Sessions
        <5>1. Head(queue) = queue[1] /\ 1 \in 1..Len(queue) /\ Fits(Head(queue))
              /\ StartAlone(queue, recovery, starting)
          BY <1>1, <1>2, HeadIsACommand DEF QueueSound
        <5>2. QED
          BY <1>2, <5>1 DEF StartAlone, Fits
      <4>2. phase' # "recording"
        BY <3>2, <4>1, ConstantsAssumption DEF StartFails, StartEnds
      <4>3. QED
        BY <3>2, <4>2
    <3>3. QED
      BY <2>5, <3>1, <3>2 DEF StartCompletes
  <2>6. QED
    BY <1>7, <2>3, <2>4, <2>5
<1>8. QED
  BY <1>4, <1>5, <1>6, <1>7

LEMMA StopsFail ==
  ASSUME Sound, Handed, ~Overtaking, StopFails,
         StopIntent \/ QueryStop \/ RequestStop \/ ReconcileStop \/ StopFinalizes \/ StopProbes
  PROVE  StopFailing
<1>1. QueueSound /\ Done
  BY SoundParts DEF StopFails
<1>2. queue # <<>> /\ Head(queue).kind = "stop" /\ \A r \in Callers : ~Recovering(r)
  BY DEF StopIntent, QueryStop, RequestStop, ReconcileStop, StopFinalizes, StopProbes, Running
<1>3. \A m, own, pc : ~GoesOn(m, own, pc)
  BY <1>1, <1>2, DoneIsNotGoesOn
<1>4. CASE StopIntent
  <2>1. disk' = disk /\ (mem' = mem \/ (mem.state \in ActiveStates
                                          /\ mem' = [mem EXCEPT !.state = "stop-intent"]))
    BY <1>3, <1>4 DEF StopIntent
  <2>2. mem.state \in ActiveStates => mem \in [session : Sessions, state : States]
    BY SoundParts DEF ManifestTyped, Manifest, NoManifest, ActiveStates
  <2>3. mem' = mem \/ (mem.state \in ActiveStates /\ mem'.session = mem.session
                         /\ mem'.state = "stop-intent")
    BY <2>1, <2>2
  <2>4. QED
    BY <1>2, <2>1, <2>3 DEF StopFailing
<1>5. CASE QueryStop \/ RequestStop \/ ReconcileStop
  BY <1>2, <1>5 DEF QueryStop, RequestStop, ReconcileStop, StopFailing
<1>6. CASE StopFinalizes \/ StopProbes
  <2>1. UnderWay
    BY <1>6 DEF StopFinalizes, StopProbes, Running, UnderWay
  <2>2. /\ mem = Head(queue).man
        /\ \A state \in States :
             /\ Remembered(state) = InState(state)
             /\ InState(state).session = Head(queue).man.session
             /\ InState(state).state = state
    BY <2>1, HeadUnderWay
  <2>3. disk' = disk /\ mem' \in {mem, InState("finalizing"), InState("complete")}
    BY <1>3, <1>6, <2>2 DEF StopFinalizes, StopProbes, PersistFails, States
  <2>4. mem' = mem \/ (mem'.session = mem.session /\ mem'.state \in {"finalizing", "complete"})
    BY <2>2, <2>3 DEF States
  <2>5. QED
    BY <1>2, <2>1, <2>3, <2>4 DEF StopFailing
<1>7. QED
  BY <1>4, <1>5, <1>6

----------------------------------------------------------------------------
(* A start completes, a stop hands its recording off, an acknowledgement.  *)

LEMMA StartCompletesHand ==
  ASSUME Sound, Handed, ~Overtaking, Pends, StartCompletes, ~StartFails PROVE Handed'
<1> DEFINE s == Head(queue).man.session
<1>1. /\ UnderWay /\ Begun("start") /\ queue # <<>> /\ Head(queue).kind = "start"
      /\ Head(queue).pc = "confirmed"
      /\ \A r \in Callers : ~Recovering(r)
      /\ Persists("recording") /\ Done
      /\ active' = s /\ phase' = "recording" /\ starting' = NoSession
      /\ row' = WithStatus(row, s, "recording")
      /\ UNCHANGED <<connected, obs, recovery, attached, jobs, claim>>
  BY DEF StartCompletes, Running, UnderWay, Begun, SetStatus, obsVars
<1>2. /\ mem = disk /\ s \in Sessions /\ disk.session = s /\ disk.state = "start-intent"
      /\ s = Head(queue).who
      /\ mem' = disk' /\ disk'.session = s /\ disk'.state = "recording"
  BY <1>1, HeadUnderWay DEF Persists, States, StateAt
<1>3. starting = s /\ recovery["start"].pc = "idle" /\ ~Has(queue', "start")
  <2>1. Head(queue) = queue[1] /\ 1 \in 1..Len(queue) /\ queue \in Seq(Command)
        /\ StartAlone(queue, recovery, starting)
    BY <1>1, SoundParts, HeadIsACommand DEF QueueSound
  <2>2. NoStart(Tail(queue))
    BY <1>1, <2>1, NoStartBehindStart
  <2>3. QED
    BY <1>1, <1>2, <2>1, <2>2 DEF StartAlone, NoStart, Has, Done
<1>4. /\ OneRecovers' /\ HeldIsKept' /\ LostIsNotAsked' /\ ResultsHold'
      /\ Within(queue', queue) /\ ~UnderWay' /\ ~Before(queue', "start", "stop")
      /\ \A r \in Callers : recovery'[r].pc \notin {"query", "finalize", "apply", "provision"}
  BY <1>1, EndsKeep
<1>5. MemoryIsOnDisk' /\ FailedNeverStarted'
  BY <1>2 DEF MemoryIsOnDisk, FailedNeverStarted, In
<1>6. NotYetAsked' /\ ReadyIsQuiet'
  BY <1>1, <1>3, <1>4 DEF NotYetAsked, ReadyIsQuiet, Settled, Reattaching
<1>7. \A t : ~StopThenAck(queue, t)
  BY <1>1, HeadStandsFirst, SoundParts DEF Handed, ReadyIsQuiet
<1>8. ASSUME NEW t \in Sessions
      PROVE  (AckIsLate(t) /\ RowIsKept(t) /\ AttachedIsOver(t))'
  <2>1. AckIsLate(t) /\ RowIsKept(t) /\ AttachedIsOver(t)
    BY DEF Handed, SessionsHold
  <2>2. AckIsLate(t)'
    <3>1. row'[t] = "interrupted" => row[t] = "interrupted"
      BY <1>1 DEF WithStatus
    <3>2. AckIn(queue', t) => AckIn(queue, t)
      BY <1>4 DEF Within
    <3>3. QED
      BY <1>2, <1>4, <1>7, <2>1, <3>1, <3>2 DEF AckIsLate, In, Over, Begun, Within
  <2>3. row'[t] = row[t] \/ t = s
    BY <1>1 DEF WithStatus
  <2>4. ~StartOf(queue', t) /\ (AckIn(queue', t) => AckIn(queue, t))
        /\ (AckThenStart(queue', t) => AckThenStart(queue, t))
    BY <1>3, <1>4 DEF StartOf, Has, Is, Within
  <2>5. RowIsKept(t)'
    <3>1. row'[t] = "processing" => row[t] = "processing"
      BY <1>1 DEF WithStatus
    <3>2. t # s => row[t] # "recording"
      BY <1>2, <2>1 DEF RowIsKept
    <3>3. row'[t] = "recording" => t = s
      BY <2>3, <3>2
    <3>4. QED
      BY <1>1, <1>2, <2>1, <2>4, <3>1, <3>3 DEF RowIsKept, In, ActiveStates
  <2>6. AttachedIsOver(t)'
    <3>1. t \in attached => t # s
      BY <1>2, <2>1 DEF AttachedIsOver, Bears, In, Fresh, ActiveStates
    <3>2. t # s => ~Bears(t, Fresh \cup {"failed"})'
      BY <1>2, <1>4 DEF Bears, In
    <3>3. QED
      BY <1>1, <1>4, <2>1, <2>4, <3>1, <3>2 DEF AttachedIsOver, Begun
  <2>7. QED
    BY <2>2, <2>5, <2>6
<1>9. ManifestBeforeRecording'
  <2>1. obs \in Sessions => obs = s
    BY <1>2, <1>3, ConstantsAssumption DEF Handed, NotYetAsked
  <2>2. QED
    BY <1>1, <1>2, <2>1 DEF ManifestBeforeRecording
<1>10. QED
  BY <1>4, <1>5, <1>6, <1>8, <1>9 DEF Handed, SessionsHold

LEMMA TailFacts ==
  ASSUME QueueSound, queue # <<>>
  PROVE  /\ Tail(queue) \in Seq(Command) /\ Within(Tail(queue), queue)
         /\ Tail(queue) # <<>> => Head(Tail(queue)).pc = "begin"
<1>1. queue \in Seq(Command) /\ Tail(queue) \in Seq(Command)
      /\ Len(Tail(queue)) = Len(queue) - 1 /\ Len(queue) \in Nat
      /\ \A i \in 1..Len(Tail(queue)) : Tail(queue)[i] = queue[i + 1] /\ i + 1 \in 1..Len(queue)
  BY DEF QueueSound
<1>2. Within(Tail(queue), queue)
  BY <1>1, EmbeddedIsWithin
<1>3. Tail(queue) # <<>> => Head(Tail(queue)) = queue[2] /\ 2 \in 1..Len(queue)
  <2>1. Tail(queue) # <<>> => 1 \in 1..Len(Tail(queue)) /\ Head(Tail(queue)) = Tail(queue)[1]
    BY <1>1
  <2>2. QED
    BY <1>1, <2>1
<1>4. QED
  BY <1>1, <1>2, <1>3 DEF QueueSound, InOrder

LEMMA HeadOfAppend ==
  ASSUME NEW q \in Seq(Command), NEW c \in Command
  PROVE  Head(Append(q, c)) = IF q = <<>> THEN c ELSE Head(q)
<1>1. CASE q = <<>>
  BY <1>1
<1>2. CASE q # <<>>
  <2>1. Len(q) \in Nat \ {0} /\ Head(q) = q[1] /\ Append(q, c)[1] = q[1]
        /\ Append(q, c) \in Seq(Command) /\ Append(q, c) # <<>>
    BY <1>2
  <2>2. QED
    BY <1>2, <2>1
<1>3. QED
  BY <1>1, <1>2

LEMMA FinalizeIsAwaited ==
  ASSUME QueueSound, Has(queue, "finalize") PROVE \E r \in Callers : recovery[r].pc = "finalize"
  BY DEF QueueSound, Has, AwaitedBy, Awaited, InOrder, Fits

LEMMA StopHandsOffHand ==
  ASSUME Sound, Handed, ~Overtaking, StopHandsOff PROVE Handed'
<1> DEFINE s == Head(queue).man.session
           ack == NewCommand("acknowledge", s)
<1>1. /\ UnderWay /\ Begun("stop") /\ ~Begun("start") /\ queue # <<>> /\ Head(queue).kind = "stop"
      /\ Head(queue).pc = "handoff"
      /\ \A r \in Callers : ~Recovering(r)
      /\ phase' = "ready"
      /\ UNCHANGED <<connected, obs, disk, mem, recovery, starting, claim>>
  BY DEF StopHandsOff, Running, UnderWay, Begun, obsVars
<1>2. /\ mem = disk /\ s \in Sessions /\ disk.session = s /\ disk.state = "complete"
  BY <1>1, HeadUnderWay DEF StateAt
<1>3. /\ \A r \in Callers : recovery[r].pc \notin {"query", "finalize", "apply", "provision"}
      /\ QueueSound /\ ~Has(queue, "finalize")
  <2>1. \A r \in Callers : recovery[r].pc \notin {"query", "finalize", "apply", "provision"}
    BY <1>1 DEF Recovering
  <2>2. QED
    BY <2>1, SoundParts, FinalizeIsAwaited
<1>4. s \notin attached /\ ~AckIn(queue, s) /\ jobs[s] = 0
  BY <1>1, <1>2 DEF Handed, SessionsHold, AckIsLate, AttachedIsOver
<1>5. ack \in Command /\ ack.pc = "begin" /\ Is(ack, "acknowledge", s) /\ ack.kind = "acknowledge"
  BY <1>2 DEF NewCommand, Command, Manifest, Kinds, Is
<1>6. \/ row[s] = "deleted" /\ Done /\ UNCHANGED <<row, attached, jobs>>
      \/ /\ row[s] # "deleted" /\ attached' = attached \cup {s}
         /\ queue' = Append(Tail(queue), ack)
         /\ \/ jobs' = [jobs EXCEPT ![s] = 1] /\ row' = [row EXCEPT ![s] = "processing"]
            \/ jobs' = jobs /\ row' = [row EXCEPT ![s] = "failed"]
  BY <1>4 DEF StopHandsOff, dbVars, SetStatus, WithStatus, OneMore
<1> HIDE DEF ack, s
<1>7. /\ Tail(queue) \in Seq(Command) /\ Within(Tail(queue), queue)
      /\ Tail(queue) # <<>> => Head(Tail(queue)).pc = "begin"
  BY <1>1, <1>3, TailFacts
<1>8. ~UnderWay'
  <2>1. queue' = Append(Tail(queue), ack) =>
          Head(queue') = IF Tail(queue) = <<>> THEN ack ELSE Head(Tail(queue))
    BY <1>5, <1>7, HeadOfAppend
  <2>2. Head(queue').pc = "begin" \/ queue' = <<>>
    <3>1. CASE queue' = Tail(queue)
      BY <1>7, <3>1
    <3>2. CASE queue' = Append(Tail(queue), ack)
      BY <1>5, <1>7, <2>1, <3>2
    <3>3. QED
      BY <1>6, <3>1, <3>2 DEF Done
  <2>3. QED
    BY <2>2 DEF UnderWay
<1>9. /\ \A kind : Has(queue', kind) => Has(queue, kind) \/ kind = "acknowledge"
      /\ ~Before(queue', "start", "stop") /\ ~Before(queue', "finalize", "acknowledge")
      /\ \A t : /\ AckIn(queue', t) => AckIn(queue, t) \/ (t = s /\ row[s] # "deleted")
                /\ StartOf(queue', t) => StartOf(queue, t)
                /\ AckThenStart(queue', t) => AckThenStart(queue, t)
  <2>1. ~Before(queue, "start", "stop") /\ ~Before(queue, "finalize", "acknowledge")
    BY DEF Handed, ReadyIsQuiet, ResultsHold
  <2>2. CASE Done /\ row[s] = "deleted"
    BY <1>7, <2>1, <2>2 DEF Within, Done
  <2>3. CASE queue' = Append(Tail(queue), ack) /\ row[s] # "deleted"
    <3>1. Behind(queue', Tail(queue), ack)
      BY <1>5, <1>7, <2>3, AppendIsBehind
    <3>2. ~Has(Tail(queue), "finalize")
      BY <1>3, <1>7 DEF Within
    <3>3. QED
      BY <1>5, <1>7, <2>1, <2>3, <3>1, <3>2 DEF Within, Behind, Is
  <2>4. QED
    BY <1>6, <2>2, <2>3
<1>10. OneRecovers' /\ HeldIsKept'
  BY <1>1, <1>3, <1>8 DEF OneRecovers, HeldIsKept, Recovering
<1>11. MemoryIsOnDisk' /\ FailedNeverStarted' /\ LostIsNotAsked' /\ ManifestBeforeRecording'
  <2>1. MemoryIsOnDisk' /\ FailedNeverStarted' /\ LostIsNotAsked'
    BY <1>1, <1>2, <1>3 DEF MemoryIsOnDisk, FailedNeverStarted, LostIsNotAsked, GivesUp, In, Callers
  <2>2. \A t \in Sessions : row[t] = "deleted" => row'[t] = "deleted"
    <3>1. row \in [Sessions -> Statuses]
      BY SoundParts DEF AppTyped
    <3>2. QED
      BY <1>6, <3>1
  <2>3. attached \subseteq attached'
    BY <1>6
  <2>4. ManifestBeforeRecording'
    BY <1>1, <2>2, <2>3 DEF ManifestBeforeRecording, Handed
  <2>5. QED
    BY <2>1, <2>4
<1>12. NotYetAsked' /\ ResultsHold'
  BY <1>1, <1>3, <1>9 DEF NotYetAsked, Handed, ResultsHold, ResultHolds
<1>13. ReadyIsQuiet'
  <2>1. ~Live(obs)'
    BY <1>1, <1>2, <1>3 DEF Live, In, ActiveStates
  <2>2. QED
    BY <1>1, <1>3, <1>9, <2>1 DEF ReadyIsQuiet, Reattaching
<1>14. ASSUME NEW t \in Sessions
       PROVE  (AckIsLate(t) /\ RowIsKept(t) /\ AttachedIsOver(t))'
  <2>1. AckIsLate(t) /\ RowIsKept(t) /\ AttachedIsOver(t)
    BY DEF Handed, SessionsHold
  <2>2. ~Bears(t, Fresh \cup {"failed"})' /\ ~Bears(t, Fresh)'
    BY <1>1, <1>2, <1>3 DEF Bears, In, Fresh, ActiveStates
  <2>3. jobs \in [Sessions -> 0..2] /\ row \in [Sessions -> Statuses]
    BY SoundParts DEF AppTyped
  <2>4. AckIsLate(t)'
    <3>1. row'[t] = "interrupted" => row[t] = "interrupted" /\ (t # s \/ row[s] = "deleted")
      BY <1>2, <1>6, <2>3
    <3>2. QED
      BY <1>1, <1>2, <1>6, <1>8, <1>9, <2>1, <2>2, <3>1 DEF AckIsLate, In, Begun
  <2>5. CASE t = s
    <3>1. \/ row[t] = "deleted" /\ UNCHANGED <<row, attached, jobs>>
          \/ /\ t \in attached' /\ jobs'[t] \in {0, 1} /\ row'[t] \in {"processing", "failed"}
             /\ row'[t] = "processing" => jobs'[t] = 1
      BY <1>2, <1>4, <1>6, <2>3, <2>5
    <3>2. ~AckThenStart(queue', t)
      BY <1>4, <1>9, <2>5 DEF AckIn, AckThenStart
    <3>3. RowIsKept(t)'
      BY <3>1 DEF RowIsKept
    <3>4. AttachedIsOver(t)'
      BY <1>1, <1>2, <1>4, <1>8, <2>2, <2>5, <3>1, <3>2 DEF AttachedIsOver, Begun
    <3>5. QED
      BY <2>4, <3>3, <3>4
  <2>6. CASE t # s
    <3>1. row'[t] = row[t] /\ jobs'[t] = jobs[t] /\ (t \in attached' => t \in attached)
      BY <1>6, <2>3, <2>6
    <3>2. RowIsKept(t)'
      BY <1>1, <1>2, <2>1, <2>6, <3>1 DEF RowIsKept
    <3>3. AttachedIsOver(t)'
      <4>1. attached \subseteq attached'
        BY <1>6
      <4>2. QED
        BY <1>1, <1>8, <1>9, <2>1, <2>2, <3>1, <4>1 DEF AttachedIsOver, Begun
    <3>4. QED
      BY <2>4, <3>2, <3>3
  <2>7. QED
    BY <2>5, <2>6
<1>15. QED
  BY <1>10, <1>11, <1>12, <1>13, <1>14 DEF Handed, SessionsHold

\* The manifests in memory and on disk are of one session.
Agree == mem # NoManifest /\ disk # NoManifest => mem.session = disk.session

LEMMA AcknowledgeHand ==
  ASSUME Sound, Handed, Agree, Acknowledge PROVE Handed'
<1> DEFINE w == Head(queue).who
           m == IF mem = NoManifest THEN disk ELSE mem
<1>1. /\ queue # <<>> /\ Head(queue).kind = "acknowledge" /\ Is(Head(queue), "acknowledge", w) /\ Done
      /\ UNCHANGED <<connected, obs, recovery, phase, row, attached, jobs, starting, claim>>
      /\ \/ UNCHANGED <<disk, mem>>
         \/ /\ disk' = NoManifest /\ mem' = NoManifest
            /\ m.session = w /\ m.state \in FinalStates
  BY DEF Acknowledge, Running, obsVars, statusVars, dbVars, ipcVars, Is
<1>2. Within(queue', queue) /\ ~UnderWay' /\ QueueSound /\ ~Begun("start")
  BY <1>1, SoundParts, TailIsWithin DEF Begun
<1>3. AckIn(queue, w) /\ Has(queue, "acknowledge") /\ w \in Sessions
      /\ (StartOf(queue, w) => AckThenStart(queue, w))
  BY <1>1, <1>2, HeadStandsFirst, HeadIsACommand DEF Fits
<1>4. NoManifest.session = NoSession /\ NoManifest.state = "none"
      /\ disk' \in {disk, NoManifest} /\ mem' \in {mem, NoManifest}
  BY <1>1 DEF NoManifest
<1>5. OneRecovers' /\ HeldIsKept'
  BY <1>1, <1>2 DEF OneRecovers, HeldIsKept, Handed, Begun, Recovering
<1>6. MemoryIsOnDisk' /\ LostIsNotAsked' /\ FailedNeverStarted'
  BY <1>1, <1>4, ConstantsAssumption
     DEF Handed, MemoryIsOnDisk, LostIsNotAsked, FailedNeverStarted, In, ActiveStates
<1>7. NotYetAsked'
  BY <1>1, <1>2 DEF NotYetAsked, Handed, Within
<1>8. ReadyIsQuiet'
  <2>1. obs \in Sessions /\ Live(obs)' => Live(obs)
    BY <1>1, <1>4, ConstantsAssumption DEF Live, In
  <2>2. QED
    BY <1>1, <1>2, <2>1 DEF ReadyIsQuiet, Handed, Within, Reattaching, Settled
<1>9. ResultsHold'
  <2>1. ASSUME NEW r \in Callers PROVE ResultHolds(r)'
    <3>1. ResultHolds(r)
      BY DEF Handed, ResultsHold
    <3>2. recovery[r].pc = "apply" => recovery[r].result \notin {"recovered", "interrupted"}
      BY <1>3, <3>1 DEF ResultHolds
    <3>3. recovery[r].pc = "apply" /\ recovery[r].result = "reattached" => UNCHANGED <<disk, mem>>
      <4>1. recovery[r].pc = "apply" /\ recovery[r].result = "reattached" =>
              m.state \in ActiveStates
        BY <3>1 DEF ResultHolds, In
      <4>2. QED
        BY <1>1, <4>1 DEF ActiveStates, FinalStates
    <3>4. QED
      BY <1>1, <1>4, <3>1, <3>2, <3>3 DEF ResultHolds
  <2>2. QED
    BY <1>2, <2>1 DEF ResultsHold, Handed, Within
\* A session whose manifest is given up is the acknowledged one.
<1>10. \A t \in Sessions : disk.session = t /\ ~UNCHANGED <<disk, mem>> => t = w
  BY <1>1, <1>4, ConstantsAssumption DEF Agree
<1>11. ASSUME NEW t \in Sessions
       PROVE  (AckIsLate(t) /\ RowIsKept(t) /\ AttachedIsOver(t))'
  <2>1. AckIsLate(t) /\ RowIsKept(t) /\ AttachedIsOver(t)
    BY DEF Handed, SessionsHold
  <2>2. /\ AckIn(queue', t) => AckIn(queue, t)
        /\ StartOf(queue', t) => StartOf(queue, t)
        /\ StopThenAck(queue', t) => StopThenAck(queue, t)
        /\ AckThenStart(queue', t) => AckThenStart(queue, t)
    BY <1>2 DEF Within
  <2>3. \A states : Bears(t, states)' => Bears(t, states)
    BY <1>1, <1>4, ConstantsAssumption DEF Bears, In
  <2>4. AckIsLate(t)'
    BY <1>1, <1>2, <1>4, <2>1, <2>2, <2>3, ConstantsAssumption DEF AckIsLate, In, Begun
  <2>5. RowIsKept(t)'
    <3>1. row[t] = "recording" => UNCHANGED <<disk, mem>>
      <4>1. SUFFICES ASSUME row[t] = "recording", ~UNCHANGED <<disk, mem>> PROVE FALSE
        OBVIOUS
      <4>2. t = w
        BY <1>10, <2>1, <4>1 DEF RowIsKept
      <4>3. m.state \in ActiveStates
        BY <1>3, <2>1, <4>1, <4>2 DEF RowIsKept, In
      <4>4. QED
        BY <1>1, <4>1, <4>3 DEF ActiveStates, FinalStates
    <3>2. row[t] = "processing" /\ jobs[t] = 0 => UNCHANGED <<disk, mem>>
      BY <1>3, <1>10, <2>1 DEF RowIsKept
    <3>3. QED
      BY <1>1, <2>1, <2>2, <3>1, <3>2 DEF RowIsKept
  <2>6. AttachedIsOver(t)'
    <3>1. t \in attached /\ StartOf(queue, t) => UNCHANGED <<disk, mem>>
      BY <1>3, <1>10, <2>1 DEF AttachedIsOver
    <3>2. QED
      BY <1>1, <1>2, <2>1, <2>2, <2>3, <3>1 DEF AttachedIsOver, Begun
  <2>7. QED
    BY <2>4, <2>5, <2>6
<1>12. ManifestBeforeRecording'
  <2>1. SUFFICES ASSUME obs \in Sessions, disk.session = obs, ~UNCHANGED <<disk, mem>>
                 PROVE  obs \in attached \/ row[obs] = "deleted"
    BY <1>1 DEF ManifestBeforeRecording, Handed
  <2>2. obs = w /\ AckIsLate(w) /\ m.session = w
    BY <1>1, <1>3, <1>10, <2>1 DEF Handed, SessionsHold
  <2>3. m.state # "failed"
    BY <1>3, <2>2 DEF Handed, FailedNeverStarted, In
  <2>4. In(m, w, Over)
    BY <1>1, <2>1, <2>2, <2>3 DEF In, Over, FinalStates
  <2>5. QED
    BY <1>3, <2>2, <2>4 DEF AckIsLate
<1>13. QED
  BY <1>5, <1>6, <1>7, <1>8, <1>9, <1>11, <1>12 DEF Handed, SessionsHold

----------------------------------------------------------------------------
(* Steps that leave the manifests and the recordings alone.                *)

\* No acknowledgement, no start, and nothing that would stand between them, is new.
Kept(q2, q) ==
  /\ \A kind \in {"start", "acknowledge"} : Has(q2, kind) => Has(q, kind)
  /\ Before(q2, "finalize", "acknowledge") => Before(q, "finalize", "acknowledge")
  /\ \A s : /\ AckIn(q2, s) => AckIn(q, s)
            /\ StartOf(q2, s) => StartOf(q, s)
            /\ StopThenAck(q2, s) => StopThenAck(q, s)
            /\ AckThenStart(q2, s) => AckThenStart(q, s)

HeadKept == (UnderWay' <=> UnderWay) /\ (UnderWay => Head(queue') = Head(queue))

\* A recovery stays where it is, or ends or begins, or goes on alone to ask OBS, to finalize or
\* to provision, or to apply that OBS records something else.
Stays(r) ==
  /\ recovery'[r].pc = recovery[r].pc /\ recovery'[r].man = recovery[r].man
  /\ recovery'[r].result = recovery[r].result
Rests(r) == recovery[r].pc # "finalize" /\ recovery'[r].pc \in {"idle", "retry", "load"}
Decides(r) ==
  /\ ~UnderWay
  /\ \A other \in Callers \ {r} : Stays(other) /\ ~Recovering(other)
  /\ \/ recovery'[r].pc \in {"query", "finalize"}
          /\ (recovery'[r].man = disk \/ (recovery[r].pc = "query" /\ recovery'[r].man = recovery[r].man))
     \/ recovery'[r].pc = "provision"
     \/ recovery'[r].pc = "apply" /\ recovery'[r].result = "conflict"

\* A row changes only to be a draft again.
RowsRest ==
  \A s \in Sessions : row'[s] = row[s] \/ (row[s] # "deleted" /\ row'[s] = "draft")

Calm ==
  /\ UNCHANGED <<disk, mem, attached, jobs>> /\ obs' \in {obs, NoSession, Elsewhere}
  /\ Kept(queue', queue) /\ HeadKept
  /\ \A r \in Callers : Stays(r) \/ Rests(r) \/ Decides(r)
  /\ RowsRest
  /\ \/ UNCHANGED <<starting, claim>> /\ (recovery["start"].pc = "idle" => recovery'["start"].pc = "idle")
     \/ recovery'["start"].pc = "idle" /\ starting' = NoSession

LEMMA WithinIsKept == ASSUME NEW q2, NEW q, Within(q2, q) PROVE Kept(q2, q)
  BY DEF Within, Kept

LEMMA AppendIsKept ==
  ASSUME QueueSound, NEW kind \in {"stop", "finalize", "provision"}, NEW who,
         queue' = Append(queue, NewCommand(kind, who)),
         who \in Sessions \cup Callers \cup {NoSession}
  PROVE  /\ Kept(queue', queue) /\ HeadKept
         /\ \A first, second : Before(queue', first, second) =>
              Before(queue, first, second) \/ (second = kind /\ Has(queue, first))
<1> DEFINE c == NewCommand(kind, who)
<1>1. c \in Command /\ c.pc = "begin" /\ c.kind = kind
  BY DEF NewCommand, Command, Manifest, Kinds
<1> HIDE DEF c
<1>2. Behind(queue', queue, c)
  BY <1>1, AppendIsBehind DEF QueueSound, c
<1>3. HeadKept
  BY <1>1, AppendKeepsHead DEF HeadKept, c
<1>4. \A s : ~Is(c, "acknowledge", s) /\ ~Is(c, "start", s)
  BY <1>1 DEF Is
<1>5. QED
  BY <1>1, <1>2, <1>3, <1>4 DEF Behind, Kept

\* What the steps below need of the whole invariant.
LEMMA CalmKeeps ==
  ASSUME Sound, Handed, Calm
  PROVE  /\ OneRecovers' /\ HeldIsKept' /\ MemoryIsOnDisk' /\ ResultsHold' /\ FailedNeverStarted'
         /\ NotYetAsked' /\ SessionsHold' /\ ManifestBeforeRecording'
<1>1. /\ UNCHANGED <<disk, mem, attached, jobs>> /\ obs' \in {obs, NoSession, Elsewhere}
      /\ Kept(queue', queue) /\ HeadKept
      /\ \A r \in Callers : Stays(r) \/ Rests(r) \/ Decides(r)
      /\ RowsRest
  BY DEF Calm
<1>2. \A kind : Begun(kind)' => Begun(kind) /\ Head(queue') = Head(queue)
  BY <1>1 DEF HeadKept, Begun
<1>3. OneRecovers'
  <2>1. OneRecovers
    BY DEF Handed
  <2>2. \A r \in Callers : Recovering(r)' => Recovering(r) \/ Decides(r)
    BY <1>1 DEF Stays, Rests, Recovering
  <2>3. \A r, other \in Callers : Recovering(r)' /\ Recovering(other)' => r = other
    <3>1. SUFFICES ASSUME NEW r \in Callers, NEW other \in Callers, Recovering(r)',
                          Recovering(other)', r # other
                   PROVE  FALSE
      OBVIOUS
    <3>2. Decides(r) => Stays(other) /\ ~Recovering(other)
      BY <3>1 DEF Decides
    <3>3. Decides(other) => Stays(r) /\ ~Recovering(r)
      BY <3>1 DEF Decides
    <3>4. QED
      BY <2>1, <2>2, <3>1, <3>2, <3>3 DEF OneRecovers, Stays, Recovering
  <2>4. \A r \in Callers : Recovering(r)' => ~Begun("start")' /\ ~Begun("stop")'
    BY <1>2, <2>1, <2>2 DEF OneRecovers, Decides, Begun
  <2>5. \A r \in Callers : recovery'[r].pc = "query" => disk \in {NoManifest, recovery'[r].man}
    BY <1>1, <2>1 DEF OneRecovers, Stays, Rests, Decides
  <2>6. QED
    BY <1>1, <2>3, <2>4, <2>5 DEF OneRecovers
<1>4. HeldIsKept'
  <2>1. SUFFICES ASSUME UnderWay' PROVE HeldIsKept'
    BY DEF HeldIsKept
  <2>2. UnderWay /\ Head(queue') = Head(queue)
    BY <1>1, <2>1 DEF HeadKept
  <2>3. Head(queue).kind = "finalize" => recovery'[Head(queue).who].man = recovery[Head(queue).who].man
    <3>1. SUFFICES ASSUME Head(queue).kind = "finalize"
                   PROVE  recovery'[Head(queue).who].man = recovery[Head(queue).who].man
      OBVIOUS
    <3>2. Head(queue).who \in Callers /\ recovery[Head(queue).who].pc = "finalize"
      BY <2>2, <3>1, SoundParts, AwaitedHead DEF UnderWay, Awaited
    <3>3. QED
      BY <1>1, <2>2, <3>2 DEF Stays, Rests, Decides
  <2>4. QED
    BY <1>1, <2>2, <2>3 DEF Handed, HeldIsKept
<1>5. MemoryIsOnDisk'
  BY <1>1 DEF Handed, MemoryIsOnDisk
<1>6. ResultsHold'
  <2>1. ASSUME NEW r \in Callers PROVE ResultHolds(r)'
    <3>1. ResultHolds(r)
      BY DEF Handed, ResultsHold
    <3>2. CASE Stays(r)
      <4>1. r = "start" => starting' = starting \/ recovery'[r].pc = "idle"
        BY DEF Calm
      <4>2. QED
        BY <1>1, <3>1, <3>2, <4>1 DEF ResultHolds, Stays, Kept
    <3>3. CASE Rests(r) \/ Decides(r)
      BY <3>3 DEF Rests, Decides, ResultHolds
    <3>4. QED
      BY <1>1, <3>2, <3>3
  <2>2. QED
    BY <1>1, <2>1 DEF ResultsHold, Kept, Handed
<1>7. FailedNeverStarted'
  BY <1>1, ConstantsAssumption DEF Handed, FailedNeverStarted, In
<1>8. NotYetAsked'
  <2>1. starting # NoSession => obs' \in {NoSession, Elsewhere, starting}
    BY <1>1 DEF Handed, NotYetAsked
  <2>2. Has(queue', "start") =>
          obs' \notin Sessions \/ (Begun("start")' /\ Head(queue').pc \notin {"intent", "request"})
    BY <1>1, ConstantsAssumption DEF Handed, NotYetAsked, Kept, HeadKept, Begun
  <2>3. recovery'["start"].pc # "idle" => recovery["start"].pc # "idle" /\ UNCHANGED <<starting, claim>>
    BY DEF Calm
  <2>4. QED
    BY <1>1, <2>1, <2>2, <2>3, ConstantsAssumption DEF Handed, NotYetAsked, Calm
<1>9. \A s \in Sessions : \A states : Bears(s, states)' => Bears(s, states)
  <2>1. SUFFICES ASSUME NEW s \in Sessions, NEW states, NEW r \in Callers,
                        recovery'[r].pc \in {"query", "finalize"}, In(recovery'[r].man, s, states)
                 PROVE  Bears(s, states)
    BY <1>1 DEF Bears
  <2>2. CASE Stays(r)
    BY <2>1, <2>2 DEF Stays, Bears
  <2>3. CASE Decides(r)
    BY <2>1, <2>3 DEF Decides, Bears
  <2>4. QED
    BY <1>1, <2>1, <2>2, <2>3 DEF Rests
<1>10. ASSUME NEW s \in Sessions
       PROVE  (AckIsLate(s) /\ RowIsKept(s) /\ AttachedIsOver(s))'
  <2>1. AckIsLate(s) /\ RowIsKept(s) /\ AttachedIsOver(s)
    BY DEF Handed, SessionsHold
  <2>2. row'[s] = row[s] \/ (row[s] # "deleted" /\ row'[s] = "draft")
    BY <1>1 DEF RowsRest
  <2>3. AckIsLate(s)'
    BY <1>1, <1>2, <1>9, <2>1, <2>2 DEF AckIsLate, Kept
  <2>4. RowIsKept(s)'
    BY <1>1, <2>1, <2>2 DEF RowIsKept, Kept
  <2>5. AttachedIsOver(s)'
    BY <1>1, <1>2, <1>9, <2>1 DEF AttachedIsOver, Kept
  <2>6. QED
    BY <2>3, <2>4, <2>5
<1>11. ManifestBeforeRecording'
  BY <1>1, ConstantsAssumption DEF ManifestBeforeRecording, Handed, RowsRest
<1>12. QED
  BY <1>3, <1>4, <1>5, <1>6, <1>7, <1>8, <1>10, <1>11 DEF SessionsHold
\* The same of ReadyIsQuiet: the status does not become one that offers a start or a stop, and
\* a connection that was unknown does not become one that is relied on.
Watched(rc, rr, conn) == rc.pc # "provision" /\ (conn \/ rr.pc # "idle")
LEMMA CalmIsQuiet ==
  ASSUME Sound, Handed, Calm,
         Before(queue', "start", "stop") => Before(queue, "start", "stop"),
         phase' = phase \/ phase' \notin {"ready", "recording"},
         phase' = "ready" =>
           /\ starting' = starting
           /\ Watched(recovery'["connect"], recovery'["reconnect"], connected')
                => Watched(recovery["connect"], recovery["reconnect"], connected)
  PROVE  ReadyIsQuiet'
<1>1. /\ UNCHANGED <<disk, mem>> /\ obs' \in {obs, NoSession, Elsewhere}
      /\ Has(queue', "start") => Has(queue, "start")
      /\ \A r \in Callers : Stays(r) \/ Rests(r) \/ Decides(r)
  BY DEF Calm, Kept
<1>2. \A r \in Callers : Reattaching(r)' => Reattaching(r)
  BY <1>1 DEF Reattaching, Stays, Rests, Decides
<1>3. \A s \in Sessions : Live(s)' => Live(s)
  <2>1. SUFFICES ASSUME NEW s \in Sessions, NEW r \in Callers, recovery'[r].pc = "query",
                        In(recovery'[r].man, s, ActiveStates)
                 PROVE  Live(s)
    BY <1>1 DEF Live
  <2>2. CASE Stays(r)
    BY <2>1, <2>2 DEF Stays, Live
  <2>3. CASE Decides(r)
    BY <2>1, <2>3 DEF Decides, Live
  <2>4. QED
    BY <1>1, <2>1, <2>2, <2>3 DEF Rests
<1>4. obs' \in Sessions => obs' = obs
  BY <1>1, ConstantsAssumption
<1>5. Settled' => Settled
  BY DEF Settled
<1>6. ReadyIsQuiet
  BY DEF Handed
<1>7. (Settled => \A r \in Callers : ~Reattaching(r))'
  BY <1>2, <1>5, <1>6 DEF ReadyIsQuiet
<1>8. (Settled /\ recovery["connect"].pc # "provision"
         /\ (connected \/ recovery["reconnect"].pc # "idle") => obs \notin Sessions \/ ~Live(obs))'
  BY <1>3, <1>4, <1>5, <1>6 DEF ReadyIsQuiet, Settled, Watched
<1>9. (Has(queue, "start") => phase # "recording" /\ \A r \in Callers : ~Reattaching(r))'
  BY <1>1, <1>2, <1>6 DEF ReadyIsQuiet
<1>10. QED
  BY <1>6, <1>7, <1>8, <1>9 DEF ReadyIsQuiet

----------------------------------------------------------------------------
(* The connection, and what happens to OBS.                                *)

\* A step on the connection leaves the manifests alone; a recovery begins or ends, or is aborted.
LEMMA ConnectionIsCalm ==
  ASSUME Sound, Handed,
         \/ Connect \/ Disconnect \/ CancelConnect \/ AbortReconnect \/ Reconnect
         \/ EndReconnect \/ LoseConnection
  PROVE  /\ Calm /\ UNCHANGED <<queue, starting>>
         /\ recovery'["connect"].pc # "provision" => recovery["connect"].pc # "provision"
         /\ GivesUp(recovery'["reconnect"]) => GivesUp(recovery["reconnect"])
<1>1. UNCHANGED <<obs, disk, mem, queue, row, attached, jobs, starting, claim>>
  BY DEF Connect, Disconnect, CancelConnect, AbortReconnect, Reconnect, EndReconnect,
     LoseConnection, HandleDisconnect, obsVars, dbVars, ipcVars
<1>2. /\ recovery \in [Callers -> Recovery] /\ Idle.pc = "idle" /\ QueueSound
      /\ {"connect", "reconnect", "start"} = Callers
  BY SoundParts DEF QueueSound, Idle, Callers
<1>3. \/ recovery' = recovery
      \/ recovery["connect"] = Idle /\ recovery' = [recovery EXCEPT !["connect"].pc = "load"]
      \/ recovery' = [recovery EXCEPT !["connect"].aborted = TRUE]
      \/ recovery' = [recovery EXCEPT !["reconnect"].aborted = TRUE]
      \/ recovery["reconnect"] = Idle /\ recovery' = [recovery EXCEPT !["reconnect"].pc = "retry"]
      \/ recovery["reconnect"].pc = "retry" /\ recovery' = [recovery EXCEPT !["reconnect"].pc = "load"]
      \/ recovery["reconnect"].pc = "retry" /\ recovery' = [recovery EXCEPT !["reconnect"] = Idle]
  BY Zenon DEF Connect, Disconnect, CancelConnect, AbortReconnect, Reconnect, EndReconnect,
     LoseConnection, HandleDisconnect
<1>4. /\ \A r \in Callers : Stays(r) \/ Rests(r)
      /\ recovery'["start"].pc = recovery["start"].pc
      /\ recovery'["connect"].pc # "provision" => recovery["connect"].pc # "provision"
      /\ GivesUp(recovery'["reconnect"]) => GivesUp(recovery["reconnect"])
  BY <1>2, <1>3 DEF Recovery, Stays, Rests, GivesUp
<1>5. Kept(queue', queue) /\ HeadKept
  BY <1>1 DEF Kept, HeadKept, UnderWay
<1>6. QED
  BY <1>1, <1>4, <1>5 DEF Calm, RowsRest

LEMMA ConnectionHands ==
  ASSUME Sound, Handed,
         \/ Connect \/ Disconnect \/ CancelConnect \/ AbortReconnect \/ Reconnect
         \/ EndReconnect \/ LoseConnection
  PROVE  Handed'
<1>1. /\ Calm /\ UNCHANGED <<queue, starting>>
      /\ recovery'["connect"].pc # "provision" => recovery["connect"].pc # "provision"
      /\ GivesUp(recovery'["reconnect"]) => GivesUp(recovery["reconnect"])
  BY ConnectionIsCalm
<1>2. /\ UNCHANGED <<obs, disk>> /\ recovery \in [Callers -> Recovery] /\ Idle.pc = "idle"
      /\ "reconnect" \in Callers
  BY SoundParts DEF Connect, Disconnect, CancelConnect, AbortReconnect, Reconnect,
     EndReconnect, LoseConnection, QueueSound, obsVars, Idle, Callers
<1>3. \/ connected' = FALSE /\ phase' \notin {"ready", "recording"}
      \/ Connect \/ Reconnect \/ EndReconnect
  BY DEF Disconnect, CancelConnect, AbortReconnect, LoseConnection, HandleDisconnect
<1>4. /\ phase' = phase \/ phase' \notin {"ready", "recording"}
      /\ phase' = "ready" =>
           (Watched(recovery'["connect"], recovery'["reconnect"], connected')
              => Watched(recovery["connect"], recovery["reconnect"], connected))
  <2>1. CASE Connect
    BY <2>1 DEF Connect
  <2>2. CASE Reconnect
    BY <1>1, <2>2 DEF Reconnect, statusVars, Watched
  <2>3. CASE EndReconnect
    BY <1>1, <2>3 DEF EndReconnect, Watched
  <2>4. QED
    BY <1>3, <2>1, <2>2, <2>3
<1>5. ReadyIsQuiet'
  BY <1>1, <1>4, CalmIsQuiet
<1>6. LostIsNotAsked'
  <2>1. GivesUp(recovery'["reconnect"]) => connected' = FALSE \/ connected' = connected
    BY <1>1, <1>2, <1>3 DEF Connect, Reconnect, EndReconnect, GivesUp, obsVars
  <2>2. QED
    BY <1>1, <1>2, <2>1 DEF LostIsNotAsked, Handed
<1>7. QED
  BY <1>1, <1>5, <1>6, CalmKeeps DEF Handed

\* OBS stops, or records something else.
LEMMA OBSHands == ASSUME Sound, Handed, ObsStops \/ ForeignRecording PROVE Handed'
<1>1. /\ obs' \in {NoSession, Elsewhere}
      /\ UNCHANGED <<connected, disk, mem, queue, recovery, phase, row, attached, jobs,
                     starting, claim>>
  BY DEF ObsStops, ForeignRecording, OutputEnds, statusVars, dbVars, ipcVars
<1>2. Calm
  BY <1>1 DEF Calm, Kept, HeadKept, UnderWay, Stays, RowsRest
<1>3. ReadyIsQuiet'
  BY <1>1, <1>2, CalmIsQuiet
<1>4. LostIsNotAsked'
  BY <1>1, ConstantsAssumption DEF LostIsNotAsked
<1>5. QED
  BY <1>2, <1>3, <1>4, CalmKeeps DEF Handed

----------------------------------------------------------------------------
(* The user's calls, deletion and crashes.                                 *)

\* A step on nothing that the invariant is about.
LEMMA StutterHands ==
  ASSUME Sound, Handed,
         UNCHANGED <<connected, obs, disk, mem, queue, recovery, phase, row, attached, jobs,
                     starting, claim>>
  PROVE  Handed'
<1>1. Calm
  BY DEF Calm, Kept, HeadKept, UnderWay, Stays, RowsRest
<1>2. ReadyIsQuiet'
  BY <1>1, CalmIsQuiet
<1>3. LostIsNotAsked'
  BY DEF LostIsNotAsked, Handed
<1>4. QED
  BY <1>1, <1>2, <1>3, CalmKeeps DEF Handed

\* What the database does not decide, or decides for each session, stays.
LEMMA DeleteEndsHands == ASSUME Sound, Handed, DeleteEnds PROVE Handed'
<1>1. /\ UNCHANGED <<connected, obs, disk, mem, queue, recovery, phase, starting, claim>>
      /\ row' = [row EXCEPT ![deleting] = "deleted"]
      /\ attached' = attached \ {deleting}
      /\ jobs' = [jobs EXCEPT ![deleting] = 0]
      /\ row \in [Sessions -> Statuses] /\ jobs \in [Sessions -> 0..2]
  BY SoundParts DEF DeleteEnds, statusVars, AppTyped
<1>2. /\ OneRecovers' /\ HeldIsKept' /\ MemoryIsOnDisk' /\ NotYetAsked' /\ LostIsNotAsked'
      /\ FailedNeverStarted'
  BY <1>1 DEF Handed, OneRecovers, Recovering, HeldIsKept, UnderWay, Begun, MemoryIsOnDisk,
     NotYetAsked, LostIsNotAsked, FailedNeverStarted
<1>3. ReadyIsQuiet' /\ ResultsHold'
  BY <1>1 DEF Handed, ReadyIsQuiet, Settled, Reattaching, Live, ResultsHold, ResultHolds
<1>4. ASSUME NEW s \in Sessions
      PROVE  (AckIsLate(s) /\ RowIsKept(s) /\ AttachedIsOver(s))'
  <2>1. AckIsLate(s) /\ RowIsKept(s) /\ AttachedIsOver(s)
    BY DEF Handed, SessionsHold
  <2>2. \A states : Bears(s, states)' <=> Bears(s, states)
    BY <1>1 DEF Bears
  <2>3. CASE s = deleting
    <3>1. row'[s] = "deleted" /\ s \notin attached' /\ jobs'[s] = 0
      BY <1>1, <2>3
    <3>2. QED
      BY <1>1, <2>1, <2>2, <3>1 DEF AckIsLate, RowIsKept, AttachedIsOver, Begun, UnderWay
  <2>4. CASE s # deleting
    <3>1. row'[s] = row[s] /\ (s \in attached' <=> s \in attached) /\ jobs'[s] = jobs[s]
      BY <1>1, <2>4
    <3>2. QED
      BY <1>1, <2>1, <2>2, <3>1 DEF AckIsLate, RowIsKept, AttachedIsOver, Begun, UnderWay
  <2>5. QED
    BY <2>3, <2>4
<1>5. ManifestBeforeRecording'
  BY <1>1 DEF ManifestBeforeRecording, Handed
<1>6. QED
  BY <1>2, <1>3, <1>4, <1>5 DEF Handed, SessionsHold

\* After a restart there is the manifest on disk and no other.
LEMMA RestartsHand ==
  ASSUME Sound, Handed, Restarts,
         \/ UNCHANGED <<row, attached>>
         \/ \E s \in Sessions : /\ In(disk, s, Over)
                                /\ attached' = attached \cup {s}
                                /\ row' = [row EXCEPT ![s] = "processing"]
                                /\ row[s] # "deleted"
  PROVE  Handed'
<1>1. /\ connected' = FALSE /\ mem' = NoManifest /\ queue' = <<>>
      /\ recovery' = [r \in Callers |-> Idle]
      /\ phase' = "disconnected" /\ starting' = NoSession /\ claim' = NoSession
      /\ UNCHANGED <<obs, disk, jobs>>
      /\ row \in [Sessions -> Statuses]
  BY SoundParts DEF Restarts, AppTyped
<1>2. /\ \A r \in Callers : recovery'[r].pc = "idle"
      /\ "start" \in Callers /\ "reconnect" \in Callers
      /\ NoManifest.session = NoSession /\ NoManifest.state = "none"
      /\ \A kind : ~Has(queue', kind)
      /\ \A first, second : ~Before(queue', first, second)
      /\ \A s : ~AckIn(queue', s) /\ ~StartOf(queue', s) /\ ~AckThenStart(queue', s)
                  /\ ~StopThenAck(queue', s)
      /\ ~UnderWay'
  BY <1>1 DEF Idle, Callers, NoManifest, Has, Before, AckIn, StartOf, AckThenStart, StopThenAck,
     UnderWay
<1>3. OneRecovers' /\ HeldIsKept' /\ MemoryIsOnDisk' /\ NotYetAsked' /\ LostIsNotAsked'
  BY <1>1, <1>2 DEF OneRecovers, Recovering, HeldIsKept, MemoryIsOnDisk, ActiveStates,
     NotYetAsked, LostIsNotAsked
<1>4. ReadyIsQuiet' /\ ResultsHold' /\ FailedNeverStarted'
  BY <1>1, <1>2, ConstantsAssumption DEF ReadyIsQuiet, Settled, Reattaching, ResultsHold,
     ResultHolds, FailedNeverStarted, Handed, In
<1>5. ASSUME NEW t \in Sessions
      PROVE  (AckIsLate(t) /\ RowIsKept(t) /\ AttachedIsOver(t))'
  <2>1. RowIsKept(t) /\ AttachedIsOver(t)
    BY DEF Handed, SessionsHold
  <2>2. \A states : Bears(t, states)' <=> In(disk, t, states)
    BY <1>1, <1>2, ConstantsAssumption DEF Bears, In
  <2>3. AckIsLate(t)'
    BY <1>2 DEF AckIsLate, Begun
  <2>4. CASE row'[t] = row[t] /\ (t \in attached' => t \in attached) /\ attached \subseteq attached'
    <3>1. \A states : In(disk, t, states) => Bears(t, states)
      BY DEF Bears
    <3>2. QED
      BY <1>1, <1>2, <2>1, <2>2, <2>3, <2>4, <3>1 DEF RowIsKept, AttachedIsOver, Begun
  <2>5. CASE In(disk, t, Over) /\ t \in attached' /\ row'[t] = "processing"
    <3>1. ~In(disk, t, Fresh \cup {"failed"}) /\ disk.session = t
      BY <2>5 DEF In, Over, Fresh, ActiveStates
    <3>2. QED
      BY <1>1, <1>2, <2>1, <2>2, <2>3, <2>5, <3>1 DEF RowIsKept, AttachedIsOver, Begun
  <2>6. QED
    BY <1>1, <2>4, <2>5
<1>6. ManifestBeforeRecording'
  BY <1>1 DEF ManifestBeforeRecording, Handed
<1>7. QED
  BY <1>3, <1>4, <1>5, <1>6 DEF Handed, SessionsHold

LEMMA CrashHands == ASSUME Sound, Handed, Crash \/ CrashInHandoff PROVE Handed'
<1>1. CASE Crash
  BY <1>1, RestartsHand DEF Crash
<1>2. CASE CrashInHandoff
  <2>1. PICK s \in Sessions :
          /\ \/ Running("stop", "handoff") /\ Head(queue).man.session = s
             \/ \E r \in Callers :
                  /\ recovery[r].pc = "apply"
                  /\ recovery[r].result = "recovered" /\ recovery[r].man.session = s
          /\ row[s] # "deleted" /\ attached' = attached \cup {s}
          /\ SetStatus(s, "processing") /\ Restarts
    BY <1>2 DEF CrashInHandoff
  <2>2. row' = [row EXCEPT ![s] = "processing"]
    BY <2>1 DEF SetStatus, WithStatus
  <2>3. In(disk, s, Over)
    <3>1. CASE Running("stop", "handoff") /\ Head(queue).man.session = s
      <4>1. UnderWay /\ Head(queue).kind = "stop" /\ Head(queue).pc = "handoff"
        BY <3>1 DEF Running, UnderWay
      <4>2. disk = Head(queue).man /\ disk.state = "complete"
        BY <4>1 DEF Handed, HeldIsKept, StateAt
      <4>3. QED
        BY <3>1, <4>2 DEF In, Over
    <3>2. ASSUME NEW r \in Callers, recovery[r].pc = "apply", recovery[r].result = "recovered",
                 recovery[r].man.session = s
          PROVE  In(disk, s, Over)
      BY <3>2 DEF Handed, ResultsHold, ResultHolds
    <3>3. QED
      BY <2>1, <3>1, <3>2
  <2>4. QED
    BY <2>1, <2>2, <2>3, RestartsHand
<1>3. QED
  BY <1>1, <1>2

LEMMA StopHands == ASSUME Sound, Handed, Stop PROVE Handed'
<1>1. /\ phase = "recording" /\ phase' = "finalizing"
      /\ queue' = Append(queue, NewCommand("stop", NoSession))
      /\ UNCHANGED <<connected, obs, disk, mem, recovery, row, attached, jobs, starting, claim>>
  BY DEF Stop, StopOffered, obsVars, dbVars
<1>2. /\ Kept(queue', queue) /\ HeadKept
      /\ Before(queue', "start", "stop") => Before(queue, "start", "stop") \/ Has(queue, "start")
  BY <1>1, SoundParts, AppendIsKept
<1>3. Calm
  BY <1>1, <1>2 DEF Calm, Stays, RowsRest
<1>4. ReadyIsQuiet'
  <2>1. ~Has(queue, "start")
    BY <1>1 DEF Handed, ReadyIsQuiet
  <2>2. QED
    BY <1>1, <1>2, <1>3, <2>1, CalmIsQuiet
<1>5. LostIsNotAsked'
  BY <1>1 DEF LostIsNotAsked, Handed
<1>6. QED
  BY <1>3, <1>4, <1>5, CalmKeeps DEF Handed

LEMMA StartHands == ASSUME Sound, Handed, NEW s \in Sessions, Start(s) PROVE Handed'
<1> DEFINE c == NewCommand("start", s)
<1>1. /\ connected /\ phase = "ready" /\ starting = NoSession /\ obs = NoSession
      /\ row[s] = "draft" /\ s \notin attached
      /\ starting' = s /\ phase' = "configuring" /\ queue' = Append(queue, c)
      /\ UNCHANGED <<connected, obs, disk, mem, recovery, row, attached, jobs, claim>>
  BY DEF Start, StartOffered, obsVars, dbVars
<1>2. /\ c \in Command /\ c.pc = "begin" /\ c.kind = "start" /\ c.who = s
  BY DEF NewCommand, Command, Manifest, Kinds
<1> HIDE DEF c
<1>3. Behind(queue', queue, c)
  BY <1>1, <1>2, SoundParts, AppendIsBehind DEF QueueSound
<1>4. (UnderWay' <=> UnderWay) /\ (UnderWay => Head(queue') = Head(queue))
  BY <1>1, <1>2, SoundParts, AppendKeepsHead
<1>5. /\ recovery["start"].pc = "idle"
      /\ \A t : /\ AckIn(queue', t) => AckIn(queue, t)
                /\ StartOf(queue', t) => StartOf(queue, t) \/ t = s
                /\ StopThenAck(queue', t) => StopThenAck(queue, t)
                /\ AckThenStart(queue', t) => AckThenStart(queue, t) \/ t = s
      /\ Has(queue', "acknowledge") => Has(queue, "acknowledge")
      /\ Before(queue', "start", "stop") => Before(queue, "start", "stop")
      /\ Before(queue', "finalize", "acknowledge") => Before(queue, "finalize", "acknowledge")
  BY <1>1, <1>2, <1>3, SoundParts DEF Behind, Is, QueueSound, StartAlone
<1>6. /\ OneRecovers' /\ HeldIsKept' /\ MemoryIsOnDisk' /\ NotYetAsked' /\ LostIsNotAsked'
      /\ FailedNeverStarted'
  BY <1>1, <1>4, ConstantsAssumption DEF Handed, OneRecovers, Recovering, HeldIsKept, Begun,
     MemoryIsOnDisk, NotYetAsked, LostIsNotAsked, FailedNeverStarted
<1>7. ResultsHold'
  <2>1. \A r \in Callers : r # "start" \/ recovery'[r].pc = "idle"
    BY <1>1, <1>5
  <2>2. QED
    BY <1>1, <1>5, <2>1 DEF Handed, ResultsHold, ResultHolds
<1>8. ReadyIsQuiet'
  <2>1. \A r \in Callers : ~Reattaching(r)
    BY <1>1 DEF Handed, ReadyIsQuiet, Settled
  <2>2. QED
    BY <1>1, <1>5, <2>1 DEF ReadyIsQuiet, Settled, Reattaching, Handed
<1>9. ASSUME NEW t \in Sessions
      PROVE  (AckIsLate(t) /\ RowIsKept(t) /\ AttachedIsOver(t))'
  <2>1. AckIsLate(t) /\ RowIsKept(t) /\ AttachedIsOver(t)
    BY DEF Handed, SessionsHold
  <2>2. \A states : Bears(t, states)' <=> Bears(t, states)
    BY <1>1 DEF Bears
  <2>3. Begun("stop")' => Begun("stop") /\ Head(queue') = Head(queue)
    BY <1>4 DEF Begun
  <2>4. AckIsLate(t)'
    BY <1>1, <1>5, <2>1, <2>2, <2>3 DEF AckIsLate
  <2>5. RowIsKept(t)'
    BY <1>1, <1>5, <2>1 DEF RowIsKept
  <2>6. AttachedIsOver(t)'
    BY <1>1, <1>5, <2>1, <2>2, <2>3 DEF AttachedIsOver
  <2>7. QED
    BY <2>4, <2>5, <2>6
<1>10. ManifestBeforeRecording'
  BY <1>1, ConstantsAssumption DEF ManifestBeforeRecording
<1>11. QED
  BY <1>6, <1>7, <1>8, <1>9, <1>10 DEF Handed, SessionsHold

LEMMA InitHands == ASSUME Init PROVE Handed
<1>1. /\ connected = FALSE /\ mem = NoManifest /\ disk = NoManifest /\ queue = <<>>
      /\ recovery = [r \in Callers |-> Idle] /\ obs = NoSession
      /\ phase = "disconnected" /\ starting = NoSession /\ attached = {}
      /\ row = [s \in Sessions |-> "draft"] /\ jobs = [s \in Sessions |-> 0]
  BY DEF Init
<1>2. /\ \A r \in Callers : recovery[r].pc = "idle"
      /\ "reconnect" \in Callers
      /\ NoManifest.session = NoSession /\ NoManifest.state = "none"
      /\ ~UnderWay
  BY <1>1 DEF Idle, Callers, NoManifest, UnderWay
<1>3. /\ \A kind : ~Has(queue, kind)
      /\ \A first, second : ~Before(queue, first, second)
      /\ \A s : ~AckIn(queue, s) /\ ~StartOf(queue, s) /\ ~AckThenStart(queue, s)
                  /\ ~StopThenAck(queue, s)
  BY <1>1 DEF Has, Before, AckIn, StartOf, AckThenStart, StopThenAck
<1>4. OneRecovers /\ HeldIsKept /\ MemoryIsOnDisk /\ NotYetAsked
  BY <1>1, <1>2, ConstantsAssumption DEF OneRecovers, Recovering, HeldIsKept, MemoryIsOnDisk,
     ActiveStates, NotYetAsked
<1>5. LostIsNotAsked
  BY <1>1 DEF LostIsNotAsked
<1>6. ReadyIsQuiet /\ ResultsHold /\ FailedNeverStarted /\ ManifestBeforeRecording
  BY <1>1, <1>2, <1>3, ConstantsAssumption DEF ReadyIsQuiet, Settled, Reattaching, ResultsHold,
     ResultHolds, FailedNeverStarted, In, ManifestBeforeRecording
<1>7. ASSUME NEW s \in Sessions PROVE AckIsLate(s) /\ RowIsKept(s) /\ AttachedIsOver(s)
  <2>1. row[s] = "draft" /\ s \notin attached /\ jobs[s] = 0
    BY <1>1
  <2>2. QED
    BY <1>2, <1>3, <2>1 DEF AckIsLate, RowIsKept, AttachedIsOver, Begun
<1>8. QED
  BY <1>4, <1>5, <1>6, <1>7 DEF Handed, SessionsHold

----------------------------------------------------------------------------
(* Recoveries that leave the manifests alone.                              *)

\* Nothing is under way beside a recovery that does not wait for the queue.
LEMMA RecoversAlone ==
  ASSUME Sound, Handed, ~Overtaking, NEW r \in Callers,
         Loading(r) \/ (Recovering(r) /\ recovery[r].pc # "finalize")
  PROVE  ~UnderWay /\ \A other \in Callers \ {r} : ~Recovering(other)
<1>1. \A other \in Callers \ {r} : ~Recovering(other)
  BY DEF Loading, Handed, OneRecovers
<1>2. SUFFICES ASSUME UnderWay PROVE FALSE
  BY <1>1
<1>3. /\ queue # <<>> /\ Head(queue) = queue[1] /\ 1 \in 1..Len(queue)
      /\ DOMAIN queue = 1..Len(queue)
      /\ Head(queue).kind \in {"start", "stop", "finalize"} /\ QueueSound
  BY <1>2, SoundParts, HeadIsACommand DEF UnderWay, Fits, QueueSound
<1>4. CASE Head(queue).kind = "finalize"
  <2>1. Head(queue).who \in Callers /\ recovery[Head(queue).who].pc = "finalize"
    BY <1>3, <1>4, AwaitedHead DEF Awaited
  <2>2. Head(queue).who # r
    BY <2>1 DEF Loading
  <2>3. QED
    BY <1>1, <2>1, <2>2 DEF Recovering
<1>5. CASE Head(queue).kind \in {"start", "stop"}
  <2>1. CASE Loading(r)
    BY <1>3, <1>5, <2>1 DEF Loading
  <2>2. CASE Recovering(r)
    BY <1>2, <1>5, <2>2 DEF Handed, OneRecovers, Begun
  <2>3. QED
    BY <2>1, <2>2
<1>6. QED
  BY <1>3, <1>4, <1>5

\* What the rows are after a start that failed.
LEMMA StartEndsRests ==
  ASSUME Sound, NEW c, StartEnds(c), recovery["start"].pc # "idle" PROVE RowsRest
<1>1. row \in [Sessions -> Statuses] /\ starting \in Sessions
  BY SoundParts DEF AppTyped, QueueSound, StartAlone
<1>2. row' = row \/ row' = WithStatus(row, starting, "draft")
  BY DEF StartEnds, SetStatus
<1>3. QED
  BY <1>1, <1>2 DEF RowsRest, WithStatus

\* A start whose recovery ends without taking the recording up.
LEMMA StartGivesUp ==
  ASSUME Sound, Handed, Calm, UNCHANGED <<queue, connected>>, recovery["start"].pc # "idle",
         recovery'["start"].pc = "idle", StartEnds(claim),
         \A other \in Callers \ {"start"} : ~Recovering(other) /\ recovery'[other] = recovery[other]
  PROVE  ReadyIsQuiet'
<1>1. \A r \in Callers : ~Reattaching(r)'
  BY DEF Reattaching, Recovering
<1>2. ~Has(queue, "start") /\ starting \in Sessions
  BY SoundParts DEF QueueSound, StartAlone, Has, AppTyped
<1>3. obs' \in Sessions => obs' = obs
  BY ConstantsAssumption DEF Calm
<1>4. phase' = "ready" => claim = NoSession
  BY DEF StartEnds
<1>5. phase' = "ready" => obs' \notin Sessions
  BY <1>3, <1>4 DEF Handed, NotYetAsked
<1>6. QED
  BY <1>1, <1>2, <1>5 DEF ReadyIsQuiet, Settled, Handed

LEMMA RecoveryThrowsHands ==
  ASSUME Sound, Handed, ~Overtaking, NEW r \in Callers, RecoveryThrows(r) PROVE Handed'
<1>1. /\ recovery[r].pc \in {"query", "apply"}
      /\ UNCHANGED <<connected, obs, disk, mem, queue, attached, jobs>>
      /\ recovery \in [Callers -> Recovery]
  BY SoundParts DEF RecoveryThrows, RecoveryFails, obsVars, QueueSound
<1>2. \A other \in Callers \ {r} : ~Recovering(other) /\ recovery'[other] = recovery[other]
  BY <1>1, RecoversAlone DEF Recovering, RecoveryThrows, RecoveryFails
<1>3. recovery'[r].pc \in {"idle", "retry"} /\ (r # "reconnect" => recovery'[r].pc = "idle")
  BY <1>1 DEF RecoveryThrows, RecoveryFails, Idle
<1>4. RowsRest /\ (UNCHANGED <<starting, claim>> \/ (r = "start" /\ starting' = NoSession))
  <2>1. CASE r = "start"
    <3>1. StartEnds(claim)
      BY <2>1 DEF RecoveryThrows, RecoveryFails
    <3>2. QED
      BY <1>1, <2>1, <3>1, StartEndsRests DEF StartEnds
  <2>2. CASE r # "start"
    BY <2>2 DEF RecoveryThrows, RecoveryFails, RowsRest, Callers
  <2>3. QED
    BY <2>1, <2>2
<1>5. Calm
  <2>1. \A other \in Callers : Stays(other) \/ Rests(other)
    BY <1>1, <1>2, <1>3 DEF Stays, Rests
  <2>2. "start" \in Callers
    BY DEF Callers
  <2>3. QED
    BY <1>1, <1>2, <1>3, <1>4, <2>1, <2>2 DEF Calm, Kept, HeadKept, UnderWay
<1>6. ReadyIsQuiet'
  <2>1. CASE r = "start"
    <3>1. StartEnds(claim)
      BY <2>1 DEF RecoveryThrows, RecoveryFails
    <3>2. QED
      BY <1>1, <1>2, <1>3, <1>5, <2>1, <3>1, StartGivesUp
  <2>2. CASE r = "connect"
    <3>1. phase' \notin {"ready", "recording"}
      BY <2>2 DEF RecoveryThrows, RecoveryFails, ConnectFails
    <3>2. QED
      BY <1>1, <1>5, <3>1, CalmIsQuiet
  <2>3. CASE r = "reconnect"
    <3>1. UNCHANGED <<phase, starting>> /\ recovery'["connect"] = recovery["connect"]
      BY <1>2, <2>3 DEF RecoveryThrows, RecoveryFails, statusVars, Callers
    <3>2. QED
      BY <1>1, <1>5, <2>3, <3>1, CalmIsQuiet DEF Watched
  <2>4. QED
    BY <2>1, <2>2, <2>3 DEF Callers
<1>7. LostIsNotAsked'
  <2>1. GivesUp(recovery'["reconnect"]) => recovery'["reconnect"] = recovery["reconnect"]
    BY <1>2, <1>3 DEF GivesUp, Callers
  <2>2. QED
    BY <1>1, <2>1 DEF LostIsNotAsked, Handed
<1>8. QED
  BY <1>5, <1>6, <1>7, CalmKeeps DEF Handed

LEMMA DropRecoveryHands ==
  ASSUME Sound, Handed, ~Overtaking, NEW r \in Callers, DropRecovery(r) PROVE Handed'
<1>1. /\ recovery[r].pc = "apply" /\ recovery' = [recovery EXCEPT ![r] = Idle]
      /\ UNCHANGED <<connected, obs, disk, mem, queue, row, attached, jobs, starting, claim>>
      /\ recovery \in [Callers -> Recovery] /\ "start" \in Callers /\ Idle.pc = "idle"
  BY SoundParts DEF DropRecovery, obsVars, dbVars, ipcVars, QueueSound, Callers, Idle
<1>2. \A other \in Callers : recovery'[other] = IF other = r THEN Idle ELSE recovery[other]
  BY <1>1
<1>3. Calm
  BY <1>1, <1>2 DEF Calm, Stays, Rests, RowsRest, Kept, HeadKept, UnderWay
<1>4. ReadyIsQuiet'
  <2>1. phase' = phase \/ phase' \notin {"ready", "recording"}
    BY DEF DropRecovery, ConnectFails
  <2>2. Watched(recovery'["connect"], recovery'["reconnect"], connected')
          => phase' # "ready" \/ Watched(recovery["connect"], recovery["reconnect"], connected)
    BY <1>1, <1>2 DEF Watched, Callers, DropRecovery, ConnectFails
  <2>3. QED
    BY <1>1, <1>3, <2>1, <2>2, CalmIsQuiet
<1>5. LostIsNotAsked'
  BY <1>1, <1>2 DEF LostIsNotAsked, GivesUp, Handed, Callers
<1>6. QED
  BY <1>3, <1>4, <1>5, CalmKeeps DEF Handed

LEMMA LoadingFacts ==
  ASSUME Sound, Handed, ~Overtaking, NEW r \in Callers, Loading(r)
  PROVE  /\ recovery[r].pc = "load" /\ ~UnderWay
         /\ \A other \in Callers : ~Recovering(other)
         /\ ~Has(queue, "start") /\ ~Has(queue, "stop")
         /\ recovery \in [Callers -> Recovery] /\ recovery[r] \in Recovery
<1>1. DOMAIN queue = 1..Len(queue) /\ recovery \in [Callers -> Recovery]
  BY SoundParts DEF QueueSound
<1>2. QED
  BY <1>1, RecoversAlone DEF Loading, Has

LEMMA NothingToRecoverHands ==
  ASSUME Sound, Handed, ~Overtaking, NEW r \in Callers, NothingToRecover(r) PROVE Handed'
<1>1. /\ UNCHANGED <<connected, obs, disk, mem, attached, jobs>> /\ disk = NoManifest
      /\ "start" \in Callers /\ Idle.pc = "idle"
  BY DEF NothingToRecover, obsVars, Callers, Idle
<1>2. /\ recovery[r].pc = "load" /\ ~UnderWay /\ recovery[r] \in Recovery
      /\ \A other \in Callers : ~Recovering(other)
      /\ ~Has(queue, "start") /\ ~Has(queue, "stop") /\ recovery \in [Callers -> Recovery]
  BY LoadingFacts DEF NothingToRecover
<1>3. /\ \A other \in Callers \ {r} : recovery'[other] = recovery[other]
      /\ \/ recovery'[r].pc = "idle" /\ queue' = queue
         \/ /\ r = "connect" /\ recovery'[r].pc = "provision"
            /\ queue' = Append(queue, NewCommand("provision", r))
  BY <1>1, <1>2 DEF NothingToRecover, Recovery
<1>4. RowsRest /\ (UNCHANGED <<starting, claim>> \/ (r = "start" /\ starting' = NoSession))
  <2>1. CASE r = "start"
    <3>1. StartEnds(claim)
      BY <2>1 DEF NothingToRecover
    <3>2. QED
      BY <1>2, <2>1, <3>1, StartEndsRests DEF StartEnds
  <2>2. CASE r # "start"
    BY <2>2 DEF NothingToRecover, RowsRest, Callers
  <2>3. QED
    BY <2>1, <2>2
<1>5. Kept(queue', queue) /\ HeadKept
      /\ (Before(queue', "start", "stop") => Before(queue, "start", "stop"))
  <2>1. CASE queue' = queue
    BY <2>1 DEF Kept, HeadKept, UnderWay
  <2>2. CASE queue' = Append(queue, NewCommand("provision", r))
    BY <2>2, SoundParts, AppendIsKept
  <2>3. QED
    BY <1>3, <2>1, <2>2
<1>6. \A other \in Callers : Stays(other) \/ Rests(other) \/ Decides(other)
  BY <1>2, <1>3 DEF Stays, Rests, Decides
<1>7. Calm
  BY <1>1, <1>2, <1>3, <1>4, <1>5, <1>6 DEF Calm, Callers
<1>8. ReadyIsQuiet'
  <2>1. \A other \in Callers : ~Reattaching(other)'
    BY <1>2, <1>3 DEF Reattaching, Recovering
  <2>2. obs' \in Sessions => ~Live(obs)'
    <3>1. NoManifest.session = NoSession /\ NoManifest.state = "none"
      BY DEF NoManifest
    <3>2. obs \in Sessions => ~In(disk, obs, ActiveStates) /\ ~In(mem, obs, ActiveStates)
      BY <1>1, <3>1, ConstantsAssumption DEF In, Handed, MemoryIsOnDisk
    <3>3. \A other \in Callers : recovery'[other].pc # "query"
      BY <1>2, <1>3 DEF Recovering
    <3>4. QED
      BY <1>1, <3>2, <3>3 DEF Live
  <2>3. ~Has(queue', "start")
    BY <1>2, <1>5 DEF Kept
  <2>4. QED
    BY <1>5, <2>1, <2>2, <2>3 DEF ReadyIsQuiet, Handed
<1>9. LostIsNotAsked'
  BY <1>2, <1>3 DEF LostIsNotAsked, GivesUp, Recovering, Callers
<1>10. QED
  BY <1>7, <1>8, <1>9, CalmKeeps DEF Handed

\* A recovery that asks OBS or hands its manifest to the queue.
LEMMA DecidesHands ==
  ASSUME Sound, Handed, NEW r \in Callers, Decides(r),
         UNCHANGED <<connected, obs, disk, mem, statusVars, dbVars, ipcVars>>,
         recovery[r].pc \in {"load", "query"},
         \A other \in Callers \ {r} : recovery'[other] = recovery[other],
         \/ recovery'[r].pc \in {"query", "apply"} /\ queue' = queue
         \/ recovery'[r].pc = "finalize" /\ queue' = Append(queue, NewCommand("finalize", r)),
         GivesUp(recovery'[r]) => ~connected \/ obs \notin Sessions \/ ~In(disk, obs, ActiveStates)
  PROVE  Handed'
<1>1. "start" \in Callers /\ {"connect", "reconnect", "start"} = Callers
  BY DEF Callers
<1>2. Kept(queue', queue) /\ HeadKept
      /\ (Before(queue', "start", "stop") => Before(queue, "start", "stop"))
  <2>1. CASE queue' = queue
    BY <2>1 DEF Kept, HeadKept, UnderWay
  <2>2. CASE queue' = Append(queue, NewCommand("finalize", r))
    BY <2>2, SoundParts, AppendIsKept
  <2>3. QED
    BY <2>1, <2>2
<1>3. Calm
  BY <1>1, <1>2 DEF Calm, Decides, Stays, RowsRest, dbVars, ipcVars
<1>4. ReadyIsQuiet'
  <2>1. Watched(recovery'["connect"], recovery'["reconnect"], connected')
          => Watched(recovery["connect"], recovery["reconnect"], connected)
    BY <1>1 DEF Watched
  <2>2. QED
    BY <1>2, <1>3, <2>1, CalmIsQuiet DEF statusVars, ipcVars
<1>5. LostIsNotAsked'
  BY <1>1 DEF LostIsNotAsked, Handed
<1>6. QED
  BY <1>3, <1>4, <1>5, CalmKeeps DEF Handed

LEMMA ProvisionHands == ASSUME Sound, Handed, ~Overtaking, Provision PROVE Handed'
<1>1. /\ queue # <<>> /\ Head(queue).kind = "provision" /\ Head(queue).pc = "begin" /\ Done
      /\ UNCHANGED <<connected, obs, disk, mem, row, attached, jobs, starting, claim>>
      /\ recovery' = [recovery EXCEPT !["connect"] = Idle]
      /\ \/ obs = NoSession
         \/ phase' \notin {"ready", "recording"}
      /\ phase' # "recording"
  BY DEF Provision, Running, ConnectFails, obsVars, dbVars, ipcVars
<1>2. /\ QueueSound /\ recovery["connect"].pc = "provision" /\ recovery \in [Callers -> Recovery]
      /\ "connect" \in Callers /\ "start" \in Callers /\ "reconnect" \in Callers /\ Idle.pc = "idle"
  BY <1>1, SoundParts, AwaitedHead DEF Awaited, QueueSound, Callers, Idle
<1>3. ~UnderWay /\ \A other \in Callers \ {"connect"} :
                       ~Recovering(other) /\ recovery'[other] = recovery[other]
  BY <1>1, <1>2, RecoversAlone DEF Recovering
<1>4. recovery'["connect"].pc = "idle"
  BY <1>1, <1>2
<1>5. Within(queue', queue) /\ ~UnderWay'
  BY <1>1, <1>2, TailIsWithin
<1>6. Calm
  BY <1>1, <1>2, <1>3, <1>4, <1>5, WithinIsKept DEF Calm, HeadKept, Stays, Rests, RowsRest
<1>7. ReadyIsQuiet'
  <2>1. \A other \in Callers : ~Reattaching(other)'
    BY <1>3, <1>4 DEF Reattaching, Recovering
  <2>2. phase' = "ready" => obs' \notin Sessions
    BY <1>1, ConstantsAssumption
  <2>3. QED
    BY <1>1, <1>5, <2>1, <2>2 DEF ReadyIsQuiet, Settled, Handed, Within
<1>8. LostIsNotAsked'
  BY <1>2, <1>3 DEF LostIsNotAsked, GivesUp, Recovering
<1>9. QED
  BY <1>6, <1>7, <1>8, CalmKeeps DEF Handed

----------------------------------------------------------------------------
(* Recoveries that attach their manifest.                                  *)

LEMMA AttachesFacts ==
  ASSUME Sound, Handed, ~Overtaking, NEW r \in Callers, Loading(r) \/ recovery[r].pc = "query",
         NEW m, NEW result, Attaches(r, m, result)
  PROVE  /\ ~UnderWay /\ ~UnderWay' /\ Within(queue', queue) /\ mem' = m
         /\ recovery'[r].pc = "apply" /\ recovery'[r].man = m /\ recovery'[r].result = result
         /\ \A other \in Callers \ {r} : ~Recovering(other) /\ recovery'[other] = recovery[other]
         /\ \A other \in Callers : recovery'[other].pc \notin {"query", "finalize"}
<1>1. ~UnderWay /\ (\A other \in Callers \ {r} : ~Recovering(other))
      /\ QueueSound /\ recovery[r] \in Recovery /\ recovery \in [Callers -> Recovery]
  BY SoundParts, RecoversAlone DEF Recovering, QueueSound
<1>2. Within(queue', queue) /\ ~UnderWay'
  BY <1>1, DisownIsWithin DEF Attaches
<1>3. /\ mem' = m
      /\ recovery'[r].pc = "apply" /\ recovery'[r].man = m /\ recovery'[r].result = result
      /\ \A other \in Callers \ {r} : recovery'[other] = recovery[other]
  BY <1>1 DEF Attaches, ToApply, Recovery
<1>4. QED
  BY <1>1, <1>2, <1>3 DEF Recovering

\* A failed manifest is attached as it is, or because OBS never recorded for it.
LEMMA AttachFailedHands ==
  ASSUME Sound, Handed, ~Overtaking, NEW r \in Callers, NEW m, Attaches(r, m, "failed"),
         UNCHANGED <<connected, obs, statusVars, dbVars, ipcVars>>,
         m.state = "failed", disk' = m, m.session \in Sessions,
         \/ Loading(r) /\ disk = m
         \/ /\ recovery[r].pc = "query" /\ obs = NoSession
            /\ recovery[r].man.session = m.session /\ recovery[r].man.state = "ready"
  PROVE  Handed'
<1>1. /\ ~UnderWay /\ ~UnderWay' /\ Within(queue', queue) /\ mem' = m
      /\ recovery'[r].pc = "apply" /\ recovery'[r].man = m /\ recovery'[r].result = "failed"
      /\ \A other \in Callers \ {r} : ~Recovering(other) /\ recovery'[other] = recovery[other]
      /\ \A other \in Callers : recovery'[other].pc \notin {"query", "finalize"}
  BY AttachesFacts DEF Loading
<1>2. /\ recovery[r].pc # "idle" /\ "start" \in Callers /\ "reconnect" \in Callers
      /\ recovery[r].pc # "provision" /\ "connect" \in Callers
      /\ UNCHANGED <<phase, row, attached, jobs, starting, claim>>
  BY DEF Loading, Callers, statusVars, dbVars, ipcVars
<1>3. OneRecovers' /\ HeldIsKept' /\ MemoryIsOnDisk'
  BY <1>1 DEF OneRecovers, Recovering, Begun, HeldIsKept, MemoryIsOnDisk
<1>4. NotYetAsked'
  <2>1. Has(queue, "start") => obs \notin Sessions
    BY <1>1 DEF Handed, NotYetAsked, Begun
  <2>2. recovery'["start"].pc # "idle" => recovery["start"].pc # "idle"
    BY <1>1, <1>2
  <2>3. QED
    BY <1>1, <1>2, <2>1, <2>2 DEF NotYetAsked, Handed, Within
<1>5. LostIsNotAsked'
  BY <1>1, <1>2 DEF LostIsNotAsked, GivesUp, Recovering
<1>6. ResultsHold'
  <2>1. ASSUME NEW other \in Callers PROVE ResultHolds(other)'
    BY <1>1, <1>2 DEF ResultHolds, Recovering, In
  <2>2. QED
    BY <1>1, <2>1 DEF ResultsHold, Handed, Within
\* Disk and memory hold no other states of an unfinished recording than before.
<1>7. \A s \in Sessions : ~In(disk', s, Fresh) /\ ~In(mem', s, Fresh)
                            /\ ~In(disk', s, Over) /\ ~In(mem', s, Over)
  BY <1>1 DEF In, Fresh, Over, ActiveStates
<1>8. ReadyIsQuiet'
  <2>1. \A other \in Callers : ~Reattaching(other)'
    BY <1>1 DEF Reattaching, Recovering
  <2>2. \A s \in Sessions : ~Live(s)'
    BY <1>1, <1>7 DEF Live, In, Fresh
  <2>3. QED
    BY <1>1, <1>2, <2>1, <2>2 DEF ReadyIsQuiet, Handed, Within
<1>9. \A s \in Sessions : disk.session = s => m.session = s /\ disk.state \notin ActiveStates
  <2>1. CASE disk = m
    BY <2>1 DEF ActiveStates
  <2>2. CASE recovery[r].pc = "query" /\ recovery[r].man.session = m.session
               /\ recovery[r].man.state = "ready"
    BY <2>2, ConstantsAssumption DEF Handed, OneRecovers, NoManifest, ActiveStates
  <2>3. QED
    BY <2>1, <2>2
<1>10. \A s \in Sessions : m.session = s /\ s \in attached => FALSE
  <2>1. SUFFICES ASSUME m.session \in attached PROVE FALSE
    OBVIOUS
  <2>2. ~Bears(m.session, Fresh \cup {"failed"})
    BY <2>1 DEF Handed, SessionsHold, AttachedIsOver
  <2>3. QED
    BY <2>2 DEF Bears, In, Fresh
<1>11. ASSUME NEW s \in Sessions
       PROVE  (AckIsLate(s) /\ RowIsKept(s) /\ AttachedIsOver(s))'
  <2>1. AckIsLate(s) /\ RowIsKept(s) /\ AttachedIsOver(s)
    BY DEF Handed, SessionsHold
  <2>2. /\ AckIn(queue', s) => AckIn(queue, s)
        /\ StartOf(queue', s) => StartOf(queue, s)
        /\ AckThenStart(queue', s) => AckThenStart(queue, s)
    BY <1>1 DEF Within
  <2>3. ~Bears(s, Fresh)' /\ ~Begun("stop")'
    BY <1>1, <1>7 DEF Bears, Begun
  <2>4. AckIsLate(s)'
    BY <1>2, <1>7, <2>1, <2>2, <2>3 DEF AckIsLate
  <2>5. RowIsKept(s)'
    <3>1. row[s] = "recording" /\ AckIn(queue, s) => FALSE
      BY <1>9, <2>1 DEF RowIsKept, In
    <3>2. QED
      BY <1>2, <1>9, <2>1, <2>2, <3>1 DEF RowIsKept
  <2>6. AttachedIsOver(s)'
    <3>1. s \in attached => ~Bears(s, Fresh \cup {"failed"})'
      BY <1>1, <1>10 DEF Bears, In
    <3>2. QED
      BY <1>2, <1>9, <2>1, <2>2, <2>3, <3>1 DEF AttachedIsOver
  <2>7. QED
    BY <2>4, <2>5, <2>6
<1>12. ManifestBeforeRecording'
  BY <1>2, <1>9 DEF ManifestBeforeRecording, Handed
<1>13. FailedNeverStarted'
  BY <1>1, ConstantsAssumption DEF FailedNeverStarted, Handed, In
<1>14. QED
  BY <1>3, <1>4, <1>5, <1>6, <1>8, <1>11, <1>12, <1>13 DEF Handed, SessionsHold

\* OBS goes on recording for the manifest: it is taken up again.
LEMMA ReattachHands ==
  ASSUME Sound, Handed, ~Overtaking, NEW r \in Callers, NEW m, Attaches(r, m, "reattached"),
         UNCHANGED <<connected, obs, statusVars, dbVars, ipcVars>>,
         recovery[r].pc = "query", connected, obs = m.session, m.session \in Sessions,
         recovery[r].man.session = m.session, recovery[r].man.state \in ActiveStates,
         m.state \in ActiveStates, disk' = m
  PROVE  Handed'
<1>1. /\ ~UnderWay /\ ~UnderWay' /\ Within(queue', queue) /\ mem' = m
      /\ recovery'[r].pc = "apply" /\ recovery'[r].man = m /\ recovery'[r].result = "reattached"
      /\ \A other \in Callers \ {r} : ~Recovering(other) /\ recovery'[other] = recovery[other]
      /\ \A other \in Callers : recovery'[other].pc \notin {"query", "finalize"}
  BY AttachesFacts
<1>2. /\ "start" \in Callers /\ "reconnect" \in Callers /\ "connect" \in Callers
      /\ UNCHANGED <<phase, row, attached, jobs, starting, claim>>
  BY DEF Callers, statusVars, dbVars, ipcVars
<1>3. OneRecovers' /\ HeldIsKept' /\ MemoryIsOnDisk' /\ FailedNeverStarted'
      /\ ManifestBeforeRecording'
  BY <1>1 DEF OneRecovers, Recovering, Begun, HeldIsKept, MemoryIsOnDisk, FailedNeverStarted, In,
     ActiveStates, ManifestBeforeRecording
\* OBS records for a session, so no start is queued and the starting session is the one.
<1>4. ~Has(queue, "start") /\ (starting # NoSession => starting = m.session)
  BY <1>1, ConstantsAssumption DEF Handed, NotYetAsked, Begun
<1>5. NotYetAsked'
  <2>1. recovery'["start"].pc # "idle" => recovery["start"].pc # "idle"
    BY <1>1, <1>2
  <2>2. QED
    BY <1>1, <1>2, <1>4, <2>1 DEF NotYetAsked, Handed, Within
<1>6. LostIsNotAsked'
  BY <1>1, <1>2 DEF LostIsNotAsked, GivesUp, Recovering
\* The status does not offer a start: the manifest that OBS is asked about is live.
<1>7. ~Settled
  <2>1. Live(obs)
    BY DEF Live, In
  <2>2. recovery["connect"].pc # "provision"
    BY <1>1, <1>2 DEF Recovering
  <2>3. QED
    BY <2>1, <2>2 DEF Handed, ReadyIsQuiet
<1>8. ReadyIsQuiet'
  BY <1>1, <1>2, <1>4, <1>7 DEF ReadyIsQuiet, Settled, Handed, Within
<1>9. ResultsHold'
  <2>1. r = "start" => starting = m.session
    BY <1>4, SoundParts DEF QueueSound, StartAlone
  <2>2. ASSUME NEW other \in Callers PROVE ResultHolds(other)'
    BY <1>1, <1>2, <2>1 DEF ResultHolds, Recovering, In
  <2>3. QED
    BY <1>1, <2>2 DEF ResultsHold, Handed, Within
<1>10. \A s \in Sessions : disk.session = s => m.session = s
  BY ConstantsAssumption DEF Handed, OneRecovers, NoManifest
<1>11. Bears(m.session, Fresh) /\ Bears(m.session, Fresh \cup {"failed"})
  BY DEF Bears, In, Fresh
<1>12. ASSUME NEW s \in Sessions
       PROVE  (AckIsLate(s) /\ RowIsKept(s) /\ AttachedIsOver(s))'
  <2>1. AckIsLate(s) /\ RowIsKept(s) /\ AttachedIsOver(s)
    BY DEF Handed, SessionsHold
  <2>2. /\ AckIn(queue', s) => AckIn(queue, s)
        /\ StartOf(queue', s) => StartOf(queue, s)
        /\ StopThenAck(queue', s) => StopThenAck(queue, s)
        /\ AckThenStart(queue', s) => AckThenStart(queue, s)
    BY <1>1 DEF Within
  <2>3. \A states : Bears(s, states)' => m.session = s
    BY <1>1 DEF Bears, In
  <2>4. AckIsLate(s)'
    BY <1>1, <1>2, <1>11, <2>1, <2>2, <2>3 DEF AckIsLate, In, Over, ActiveStates, Begun
  <2>5. RowIsKept(s)'
    BY <1>1, <1>2, <1>10, <2>1, <2>2 DEF RowIsKept, In
  <2>6. AttachedIsOver(s)'
    BY <1>1, <1>2, <1>10, <1>11, <2>1, <2>2, <2>3 DEF AttachedIsOver, Begun
  <2>7. QED
    BY <2>4, <2>5, <2>6
<1>13. QED
  BY <1>3, <1>5, <1>6, <1>8, <1>9, <1>12 DEF Handed, SessionsHold

LEMMA LoadManifestHands ==
  ASSUME Sound, Handed, ~Overtaking, NEW r \in Callers, LoadManifest(r) PROVE Handed'
<1>1. /\ Loading(r) /\ disk # NoManifest /\ disk \in Manifest /\ disk.session \in Sessions
      /\ UNCHANGED <<connected, obs, disk, statusVars, dbVars, ipcVars>>
  BY SoundParts DEF LoadManifest, obsVars, ManifestTyped, Manifest
<1>2. /\ recovery[r].pc = "load" /\ ~UnderWay /\ recovery[r] \in Recovery
      /\ \A other \in Callers : ~Recovering(other)
      /\ recovery \in [Callers -> Recovery]
  BY <1>1, LoadingFacts
<1>3. CASE disk.state = "failed" /\ Attaches(r, disk, "failed")
  BY <1>1, <1>3, AttachFailedHands
<1>4. CASE (disk.state \in FinalStates \/ ~connected) /\ ToFinalize(r, disk) /\ UNCHANGED mem
  <2>1. /\ recovery'[r].pc = "finalize" /\ recovery'[r].man = disk
        /\ queue' = Append(queue, NewCommand("finalize", r))
        /\ \A other \in Callers \ {r} : recovery'[other] = recovery[other]
    BY <1>2, <1>4 DEF ToFinalize, Recovery
  <2>2. Decides(r)
    BY <1>2, <2>1 DEF Decides, Stays
  <2>3. ~connected \/ ~In(disk, obs, ActiveStates)
    BY <1>4 DEF In, FinalStates, ActiveStates
  <2>4. QED
    BY <1>1, <1>2, <1>4, <2>1, <2>2, <2>3, DecidesHands
<1>5. CASE /\ recovery' = [recovery EXCEPT ![r].pc = "query", ![r].man = disk]
           /\ UNCHANGED <<mem, queue>>
  <2>1. /\ recovery'[r].pc = "query" /\ recovery'[r].man = disk
        /\ \A other \in Callers \ {r} : recovery'[other] = recovery[other]
    BY <1>2, <1>5 DEF Recovery
  <2>2. Decides(r)
    BY <1>2, <2>1 DEF Decides, Stays
  <2>3. ~GivesUp(recovery'[r])
    BY <2>1 DEF GivesUp
  <2>4. QED
    BY <1>1, <1>2, <1>5, <2>1, <2>2, <2>3, DecidesHands
<1>6. QED
  BY <1>3, <1>4, <1>5 DEF LoadManifest

LEMMA QueryRecordingHands ==
  ASSUME Sound, Handed, ~Overtaking, NEW r \in Callers, QueryRecording(r) PROVE Handed'
<1> DEFINE m == recovery[r].man
           taken == [m EXCEPT !.state = IF @ = "stop-intent" THEN @ ELSE "recording"]
           failed == [m EXCEPT !.state = "failed"]
<1>1. /\ recovery[r].pc = "query" /\ connected /\ m.session \in Sessions
      /\ recovery[r] \in Recovery /\ recovery \in [Callers -> Recovery]
      /\ UNCHANGED <<connected, obs, statusVars, dbVars, ipcVars>>
  BY SoundParts DEF QueryRecording, obsVars, QueueSound, Carried
<1>2. m \in [session : Sessions, state : States]
  BY <1>1, ConstantsAssumption DEF Recovery, Manifest, NoManifest
<1>3. /\ ~UnderWay /\ \A other \in Callers \ {r} : ~Recovering(other)
  BY <1>1, RecoversAlone DEF Recovering
<1>4. \/ obs = m.session /\ m.state \in ActiveStates /\ disk' = taken
           /\ Attaches(r, taken, "reattached")
      \/ ToApply(r, m, "conflict") /\ UNCHANGED <<disk, mem, queue>>
      \/ obs = NoSession /\ m.state = "ready" /\ disk' = failed /\ Attaches(r, failed, "failed")
      \/ obs = NoSession /\ ToFinalize(r, m) /\ UNCHANGED <<disk, mem>>
  BY DEF QueryRecording
<1>5. /\ taken.session = m.session /\ (m.state \in ActiveStates => taken.state \in ActiveStates)
      /\ failed.session = m.session /\ failed.state = "failed"
  BY <1>2 DEF ActiveStates
<1> HIDE DEF taken, failed
<1>6. CASE obs = m.session /\ m.state \in ActiveStates /\ disk' = taken
             /\ Attaches(r, taken, "reattached")
  BY <1>1, <1>5, <1>6, ReattachHands
<1>7. CASE obs = NoSession /\ m.state = "ready" /\ disk' = failed /\ Attaches(r, failed, "failed")
  BY <1>1, <1>5, <1>7, AttachFailedHands
<1>8. CASE ToApply(r, m, "conflict") /\ UNCHANGED <<disk, mem, queue>>
  <2>1. /\ recovery'[r].pc = "apply" /\ recovery'[r].result = "conflict"
        /\ \A other \in Callers \ {r} : recovery'[other] = recovery[other]
    BY <1>1, <1>8 DEF ToApply, Recovery
  <2>2. Decides(r) /\ ~GivesUp(recovery'[r])
    BY <1>3, <2>1 DEF Decides, Stays, GivesUp
  <2>3. QED
    BY <1>1, <1>8, <2>1, <2>2, DecidesHands
<1>9. CASE obs = NoSession /\ ToFinalize(r, m) /\ UNCHANGED <<disk, mem>>
  <2>1. /\ recovery'[r].pc = "finalize" /\ recovery'[r].man = m
        /\ queue' = Append(queue, NewCommand("finalize", r))
        /\ \A other \in Callers \ {r} : recovery'[other] = recovery[other]
    BY <1>1, <1>9 DEF ToFinalize, Recovery
  <2>2. Decides(r)
    BY <1>1, <1>3, <2>1 DEF Decides, Stays
  <2>3. QED
    BY <1>1, <1>9, <2>1, <2>2, ConstantsAssumption, DecidesHands
<1>10. QED
  BY <1>4, <1>6, <1>7, <1>8, <1>9

----------------------------------------------------------------------------
(* A recording is finalized again, in the queue.                           *)

\* What a step of finalizeRecovered does to the manifests and to its recovery.
Finalizes(r) ==
  /\ queue # <<>> /\ Head(queue).kind = "finalize" /\ Head(queue).who = r
  /\ UNCHANGED <<connected, obs, statusVars, dbVars, ipcVars>>
  /\ mem'.session = recovery[r].man.session
  /\ mem'.state \in {"finalizing", "complete", "interrupted"}
  /\ disk' \in {disk, mem'}
  /\ \A other \in Callers \ {r} : recovery'[other] = recovery[other]
  /\ \/ /\ mem' \in Manifest /\ GoesOn(mem', TRUE, "probe")
        /\ disk' = mem' /\ mem'.state = "finalizing" /\ recovery' = recovery
     \/ /\ Done
        /\ recovery'[r].pc = "apply" /\ recovery'[r].man = recovery[r].man
        /\ \/ recovery'[r].result = "interrupted"
           \/ recovery'[r].result = "recovered" /\ disk' = mem' /\ mem'.state \in Over

LEMMA FinalizesHand ==
  ASSUME Sound, Handed, Pends, NEW r \in Callers, Finalizes(r) PROVE Handed'
<1>1. /\ recovery[r].pc = "finalize" /\ recovery[r].man.session \in Sessions /\ QueueSound
      /\ UNCHANGED <<connected, obs, phase, row, attached, jobs, starting, claim>>
  BY SoundParts, AwaitedHead DEF Finalizes, Awaited, QueueSound, Carried, statusVars, dbVars, ipcVars
<1>2. /\ \A other \in Callers \ {r} : ~Recovering(other) /\ recovery'[other] = recovery[other]
      /\ ~Begun("start") /\ ~Begun("stop")
  BY <1>1 DEF Finalizes, Handed, OneRecovers, Recovering
<1>3. Within(queue', queue)
      /\ \/ /\ UnderWay' /\ Head(queue').kind = "finalize" /\ Head(queue').who = r
            /\ Head(queue').man = mem' /\ Head(queue').own = TRUE /\ Head(queue').pc = "probe"
            /\ disk' = mem' /\ mem'.state = "finalizing" /\ recovery' = recovery
         \/ /\ ~UnderWay' /\ recovery'[r].pc = "apply" /\ recovery'[r].man = recovery[r].man
            /\ \/ recovery'[r].result = "interrupted"
               \/ recovery'[r].result = "recovered" /\ disk' = mem' /\ mem'.state \in Over
  <2>1. CASE /\ mem' \in Manifest /\ GoesOn(mem', TRUE, "probe")
             /\ disk' = mem' /\ mem'.state = "finalizing" /\ recovery' = recovery
    <3>1. TRUE \in BOOLEAN /\ "probe" \in Underway /\ "probe" # "begin"
      BY DEF Underway
    <3>2. /\ Within(queue', queue) /\ queue' # <<>>
          /\ Head(queue').kind = Head(queue).kind /\ Head(queue').who = Head(queue).who
          /\ Head(queue').man = mem' /\ Head(queue').own = TRUE /\ Head(queue').pc = "probe"
      BY <1>1, <2>1, <3>1, HeadIsWithin DEF Finalizes
    <3>3. QED
      BY <2>1, <3>1, <3>2 DEF Finalizes, UnderWay
  <2>2. CASE Done
    <3>1. ~\E m : GoesOn(m, TRUE, "probe")
      BY <1>1, <2>2, DoneIsNotGoesOn DEF Finalizes
    <3>2. QED
      BY <1>1, <2>2, <3>1, TailIsWithin DEF Finalizes
  <2>3. QED
    BY <2>1, <2>2 DEF Finalizes
<1>4. ~Has(queue, "acknowledge")
  BY <1>1, HeadStandsFirst DEF Finalizes, Handed, ResultsHold
<1>5. /\ ~Begun("start")' /\ ~Begun("stop")'
      /\ \A other \in Callers : recovery'[other].pc # "query"
      /\ \A other \in Callers : ~Reattaching(other)'
      /\ Recovering(r)' /\ \A other \in Callers \ {r} : ~Recovering(other)'
  BY <1>1, <1>2, <1>3 DEF Begun, Reattaching, Recovering
<1>6. OneRecovers'
  BY <1>5 DEF OneRecovers
<1>7. HeldIsKept'
  BY <1>3 DEF HeldIsKept, StateAt, Finalizes
<1>8. /\ mem'.state \notin ActiveStates /\ mem'.state # "failed" /\ mem'.state \notin Fresh
      /\ mem'.session = recovery[r].man.session
      /\ disk' = disk \/ disk' = mem'
  BY DEF Finalizes, ActiveStates, Fresh
<1>9. MemoryIsOnDisk' /\ FailedNeverStarted'
  BY <1>1, <1>8 DEF MemoryIsOnDisk, FailedNeverStarted, Handed, In
<1>10. NotYetAsked'
  <2>1. recovery'["start"].pc # "idle" => recovery["start"].pc # "idle"
    BY <1>1, <1>2 DEF Callers
  <2>2. QED
    BY <1>1, <1>2, <1>3, <2>1 DEF NotYetAsked, Handed, Within
<1>11. LostIsNotAsked'
  <2>1. GivesUp(recovery'["reconnect"]) => GivesUp(recovery["reconnect"])
    BY <1>1, <1>2 DEF GivesUp, Callers
  <2>2. QED
    BY <1>1, <1>8, <2>1 DEF LostIsNotAsked, Handed, In
<1>12. ReadyIsQuiet'
  <2>1. \A s \in Sessions : Live(s)' => Live(s)
    BY <1>5, <1>8 DEF Live, In
  <2>2. Watched(recovery'["connect"], recovery'["reconnect"], connected)
          => Watched(recovery["connect"], recovery["reconnect"], connected)
    BY <1>1, <1>2 DEF Watched, Callers
  <2>3. QED
    BY <1>1, <1>3, <1>5, <2>1, <2>2 DEF ReadyIsQuiet, Settled, Watched, Handed, Within
<1>13. ResultsHold'
  <2>1. ResultHolds(r)'
    BY <1>1, <1>3, <1>4, <1>8 DEF ResultHolds, In, Within
  <2>2. QED
    BY <1>2, <1>3, <1>5, <2>1 DEF ResultsHold, ResultHolds, Handed, Within, Recovering
<1>14. \A s \in Sessions : disk.session = s => disk'.session = s
  BY <1>1, <1>8, ConstantsAssumption DEF Pends, NoManifest
<1>15. ASSUME NEW s \in Sessions
       PROVE  (AckIsLate(s) /\ RowIsKept(s) /\ AttachedIsOver(s))'
  <2>1. AckIsLate(s) /\ RowIsKept(s) /\ AttachedIsOver(s)
    BY DEF Handed, SessionsHold
  <2>2. /\ ~AckIn(queue', s) /\ ~StopThenAck(queue', s) /\ ~AckThenStart(queue', s)
        /\ StartOf(queue', s) => StartOf(queue, s)
    <3>1. ~AckIn(queue, s)
      BY <1>4 DEF AckIn, Has, Is
    <3>2. QED
      BY <1>3, <3>1 DEF Within, StopThenAck, AckThenStart, AckIn
  <2>3. AckIsLate(s)'
    BY <2>2 DEF AckIsLate
  <2>4. RowIsKept(s)'
    BY <1>1, <1>14, <2>1, <2>2 DEF RowIsKept
  <2>5. Bears(s, Fresh \cup {"failed"})' => Bears(s, Fresh \cup {"failed"})
    <3>1. \A other \in Callers : recovery'[other].pc = "finalize" =>
            recovery[other].pc = "finalize" /\ recovery'[other].man = recovery[other].man
      BY <1>1, <1>2, <1>3
    <3>2. QED
      BY <1>5, <1>8, <3>1 DEF Bears, In
  <2>6. AttachedIsOver(s)'
    BY <1>1, <1>5, <1>14, <2>1, <2>2, <2>5 DEF AttachedIsOver
  <2>7. QED
    BY <2>3, <2>4, <2>6
<1>16. ManifestBeforeRecording'
  BY <1>1, <1>14 DEF ManifestBeforeRecording, Handed
<1>17. QED
  BY <1>6, <1>7, <1>9, <1>10, <1>11, <1>12, <1>13, <1>15, <1>16 DEF Handed, SessionsHold

LEMMA FinalizeRecoveredHands ==
  ASSUME Sound, Handed, Pends, FinalizeRecovered PROVE Handed'
<1> DEFINE r == Head(queue).who
           m == [recovery[r].man EXCEPT !.state = "finalizing"]
<1>1. queue # <<>> /\ Head(queue).kind = "finalize" /\ QueueSound
      /\ UNCHANGED <<connected, obs, statusVars, dbVars, ipcVars>>
  BY SoundParts DEF FinalizeRecovered, Running, obsVars
<1>2. /\ r \in Callers /\ recovery[r] \in Recovery /\ recovery \in [Callers -> Recovery]
      /\ recovery[r].man.session \in Sessions
  BY <1>1, AwaitedHead DEF Awaited, QueueSound, Carried
<1>3. m \in Manifest /\ m.session = recovery[r].man.session /\ m.state = "finalizing"
  BY <1>2, ConstantsAssumption DEF Manifest, NoManifest, States, Recovery
<1>4. mem' = m
      /\ \/ disk' = m /\ GoesOn(m, TRUE, "probe") /\ UNCHANGED recovery
         \/ Done /\ ToApply(r, recovery[r].man, "interrupted") /\ UNCHANGED disk
  BY DEF FinalizeRecovered
<1> HIDE DEF m, r
<1>5. Head(queue).who = r
  BY DEF r
<1>6. CASE disk' = m /\ GoesOn(m, TRUE, "probe") /\ UNCHANGED recovery
  <2>1. Finalizes(r)
    BY <1>1, <1>3, <1>4, <1>5, <1>6 DEF Finalizes
  <2>2. QED
    BY <1>2, <2>1, FinalizesHand
<1>7. CASE Done /\ ToApply(r, recovery[r].man, "interrupted") /\ UNCHANGED disk
  <2>1. /\ recovery'[r].pc = "apply" /\ recovery'[r].man = recovery[r].man
        /\ recovery'[r].result = "interrupted"
        /\ \A other \in Callers \ {r} : recovery'[other] = recovery[other]
    BY <1>2, <1>7 DEF ToApply, Recovery
  <2>2. Finalizes(r)
    BY <1>1, <1>3, <1>4, <1>5, <1>7, <2>1 DEF Finalizes
  <2>3. QED
    BY <1>2, <2>2, FinalizesHand
<1>8. QED
  BY <1>4, <1>6, <1>7

LEMMA ProbeRecoveredHands ==
  ASSUME Sound, Handed, Pends, ProbeRecovered PROVE Handed'
<1> DEFINE r == Head(queue).who
<1>1. queue # <<>> /\ Head(queue).kind = "finalize" /\ UnderWay /\ Done /\ QueueSound
      /\ UNCHANGED <<connected, obs, statusVars, dbVars, ipcVars>>
  BY SoundParts DEF ProbeRecovered, Running, obsVars, UnderWay
<1>2. /\ r \in Callers /\ recovery[r] \in Recovery /\ recovery \in [Callers -> Recovery]
  BY <1>1, AwaitedHead DEF Awaited, QueueSound
<1>3. /\ Head(queue).man.session = recovery[r].man.session
      /\ \A state \in States :
           /\ Remembered(state) = InState(state)
           /\ InState(state).session = recovery[r].man.session
           /\ InState(state).state = state
  BY <1>1, HeadUnderWay DEF Handed, HeldIsKept
<1>4. \/ /\ ToApply(r, recovery[r].man, "recovered")
         /\ \E state \in Over : Persists(state)
      \/ /\ ToApply(r, recovery[r].man, "interrupted")
         /\ Persists("interrupted") \/ PersistFails("interrupted")
  BY DEF ProbeRecovered, Over
<1>5. /\ recovery'[r].pc = "apply" /\ recovery'[r].man = recovery[r].man
      /\ \A other \in Callers \ {r} : recovery'[other] = recovery[other]
      /\ \/ recovery'[r].result = "recovered" /\ \E state \in Over : Persists(state)
         \/ recovery'[r].result = "interrupted" /\ (Persists("interrupted") \/ PersistFails("interrupted"))
  BY <1>2, <1>4 DEF ToApply, Recovery
<1>6. \A state \in Over : state \in States
  BY DEF Over, States
<1>7. /\ mem'.session = recovery[r].man.session /\ mem'.state \in Over
      /\ disk' \in {disk, mem'} /\ (recovery'[r].result = "recovered" => disk' = mem')
  <2>1. CASE \E state \in Over : Persists(state)
    BY <1>3, <1>6, <2>1 DEF Persists
  <2>2. CASE recovery'[r].result = "interrupted" /\ PersistFails("interrupted")
    BY <1>3, <1>6, <2>2 DEF PersistFails, Over
  <2>3. QED
    BY <1>5, <2>1, <2>2 DEF Over
<1> HIDE DEF r
<1>8. Finalizes(r)
  BY <1>1, <1>5, <1>7 DEF Finalizes, Over, r
<1>9. QED
  BY <1>2, <1>8, FinalizesHand

----------------------------------------------------------------------------
(* The result of a recovery is applied.                                    *)

\* It appends an acknowledgement, or a provisioning, or both.
LEMMA AppliedQueue ==
  ASSUME Sound, NEW r \in Callers, ApplyRecovery(r), ~UnderWay, ~Has(queue, "finalize"),
         NEW s, s = recovery[r].man.session, NEW result, result = recovery[r].result
  PROVE  /\ ~UnderWay' /\ ~Has(queue', "finalize")
         /\ \A kind \in {"start", "stop"} : Has(queue', kind) => Has(queue, kind)
         /\ Before(queue', "start", "stop") => Before(queue, "start", "stop")
         /\ \A t : /\ AckIn(queue', t) => AckIn(queue, t) \/ (t = s /\ Acknowledges(s, result))
                   /\ StartOf(queue', t) => StartOf(queue, t)
                   /\ StopThenAck(queue', t) =>
                        StopThenAck(queue, t) \/ (t = s /\ Acknowledges(s, result))
                   /\ AckThenStart(queue', t) => AckThenStart(queue, t)
<1> DEFINE ack == NewCommand("acknowledge", s)
           prov == NewCommand("provision", r)
           q == IF Acknowledges(s, result) THEN Append(queue, ack) ELSE queue
           provisions == r = "connect" /\ result \notin {"reattached", "conflict"}
<1>1. QueueSound /\ queue \in Seq(Command) /\ s \in Sessions
  BY SoundParts DEF QueueSound, Carried, ApplyRecovery
<1>2. /\ ack \in Command /\ ack.pc = "begin" /\ ack.kind = "acknowledge" /\ ack.who = s
      /\ prov \in Command /\ prov.pc = "begin" /\ prov.kind = "provision"
  BY <1>1 DEF NewCommand, Command, Kinds, Manifest, Callers
<1>3. queue' = queue \o (IF Acknowledges(s, result) THEN <<ack>> ELSE <<>>)
                     \o (IF provisions THEN <<prov>> ELSE <<>>)
  BY DEF ApplyRecovery
<1> HIDE DEF ack, prov, provisions
<1>4. queue \o (IF Acknowledges(s, result) THEN <<ack>> ELSE <<>>) = q /\ q \in Seq(Command)
  BY <1>1, <1>2, OneOrNone
<1>5. /\ ~Has(q, "finalize")
      /\ \A kind \in {"start", "stop"} : Has(q, kind) => Has(queue, kind)
      /\ Before(q, "start", "stop") => Before(queue, "start", "stop")
      /\ \A t : /\ AckIn(q, t) => AckIn(queue, t) \/ (t = s /\ Acknowledges(s, result))
                /\ StartOf(q, t) => StartOf(queue, t)
                /\ StopThenAck(q, t) => StopThenAck(queue, t) \/ (t = s /\ Acknowledges(s, result))
                /\ AckThenStart(q, t) => AckThenStart(queue, t)
      /\ q # <<>> => Head(q).pc = "begin"
  <2>1. CASE Acknowledges(s, result)
    <3>1. q = Append(queue, ack)
      BY <2>1
    <3>2. Behind(q, queue, ack) /\ Head(q) = IF queue = <<>> THEN ack ELSE Head(queue)
      BY <1>1, <1>2, <3>1, AppendIsBehind, HeadOfAppend
    <3>3. QED
      BY <1>2, <2>1, <3>2 DEF Behind, Is, UnderWay
  <2>2. CASE ~Acknowledges(s, result)
    BY <2>2 DEF UnderWay
  <2>3. QED
    BY <2>1, <2>2
<1> HIDE DEF q
<1>6. CASE provisions
  <2>1. queue' = Append(q, prov)
    BY <1>2, <1>3, <1>4, <1>6, OneOrNone
  <2>2. Behind(queue', q, prov) /\ Head(queue') = IF q = <<>> THEN prov ELSE Head(q)
    BY <1>2, <1>4, <2>1, AppendIsBehind, HeadOfAppend
  <2>3. QED
    BY <1>2, <1>5, <2>2 DEF Behind, Is, UnderWay
<1>7. CASE ~provisions
  <2>1. queue' = q
    BY <1>3, <1>4, <1>7, OneOrNone, <1>2
  <2>2. QED
    BY <1>5, <2>1 DEF UnderWay
<1>8. QED
  BY <1>6, <1>7

\* What it does to the rows, the recordings and the jobs.
LEMMA AppliedRows ==
  ASSUME Sound, NEW r \in Callers, ApplyRecovery(r),
         NEW s, s = recovery[r].man.session, NEW result, result = recovery[r].result,
         result = "reattached" /\ r = "start" => starting = s,
         NEW t \in Sessions
  PROVE  /\ row[t] = "deleted" => row'[t] = "deleted"
         /\ row'[t] = "recording" =>
              \/ result = "reattached" /\ t = s
              \/ row[t] = "recording" /\ (t # s \/ ~Acknowledges(s, result))
         /\ row'[t] = "processing" =>
              \/ t = s /\ jobs'[t] # 0
              \/ row[t] = "processing" /\ (t # s \/ ~Acknowledges(s, result))
         /\ row'[t] = "interrupted" =>
              \/ result = "interrupted" /\ t = s
              \/ row[t] = "interrupted" /\ (t # s \/ ~Acknowledges(s, result))
         /\ t \in attached => t \in attached'
         /\ t \in attached' => t \in attached \/ (t = s /\ result = "recovered")
         /\ \/ jobs'[t] = jobs[t]
            \/ t = s /\ result = "recovered" /\ jobs'[t] = 1 /\ t \in attached'
         /\ t = s /\ result = "recovered" /\ row[t] # "deleted" => t \in attached'
<1>1. /\ s \in Sessions /\ row \in [Sessions -> Statuses] /\ jobs \in [Sessions -> 0..2]
      /\ result \in Results \ {"none"} /\ starting \in Sessions \cup {NoSession}
  BY SoundParts DEF QueueSound, Carried, Recovery, AppTyped, ApplyRecovery
<1>2. PICK queued \in BOOLEAN :
        LET rows == HandledRows(s, result, queued) IN
        /\ queued => result = "recovered" /\ row[s] # "deleted" /\ NoJobYet(s)
        /\ jobs' = IF queued THEN OneMore(s) ELSE jobs
        /\ IF r # "start" THEN row' = rows
           ELSE row' = CASE result = "reattached" -> WithStatus(rows, starting, "recording")
                         [] result # "reattached" /\ claim = starting -> rows
                         [] OTHER -> WithStatus(rows, starting, "draft")
  BY DEF ApplyRecovery
<1> DEFINE rows == HandledRows(s, result, queued)
<1>3. attached' = IF result = "recovered" /\ row[s] # "deleted" THEN attached \cup {s} ELSE attached
  BY DEF ApplyRecovery
<1>4. /\ \/ ~queued /\ jobs'[t] = jobs[t]
         \/ queued /\ t = s /\ jobs'[t] = 1 /\ result = "recovered" /\ row[s] # "deleted"
         \/ queued /\ t # s /\ jobs'[t] = jobs[t]
  BY <1>1, <1>2 DEF OneMore, NoJobYet
\* After the handler.
<1>5. /\ rows \in [Sessions -> Statuses]
      /\ row[t] = "deleted" => rows[t] = "deleted"
      /\ t # s => rows[t] = row[t]
      /\ rows[s] = "recording" => result = "reattached" \/ (row[s] = "recording" /\ ~Acknowledges(s, result))
      /\ rows[s] = "processing" => \/ jobs'[s] # 0
                                   \/ row[s] = "processing" /\ ~Acknowledges(s, result)
      /\ rows[s] = "interrupted" => \/ result = "interrupted"
                                    \/ row[s] = "interrupted" /\ ~Acknowledges(s, result)
  <2>1. rows \in [Sessions -> Statuses]
    BY <1>1, SoundParts, HandledRowsAreRows
  <2>2. CASE row[s] = "deleted"
    <3>1. rows = row
      BY <1>1, <2>2 DEF HandledRows, WithStatus, Results
    <3>2. QED
      BY <1>1, <2>1, <2>2, <3>1
  <2>3. CASE row[s] # "deleted"
    <3>1. \/ result = "reattached" /\ rows = [row EXCEPT ![s] = "recording"]
          \/ result = "failed" /\ rows = [row EXCEPT ![s] = "failed"]
          \/ result = "interrupted" /\ rows = [row EXCEPT ![s] = "interrupted"]
          \/ result = "conflict" /\ rows = row
          \/ result = "recovered" /\ (queued \/ jobs[s] # 0) /\ rows = [row EXCEPT ![s] = "processing"]
          \/ result = "recovered" /\ rows = [row EXCEPT ![s] = "failed"]
      BY <1>1, <2>3 DEF HandledRows, WithStatus, Results, NoJobYet
    <3>2. (queued \/ jobs[s] # 0) => jobs'[s] # 0
      BY <1>1, <1>2 DEF OneMore, NoJobYet
    <3>3. QED
      BY <1>1, <2>1, <2>3, <3>1, <3>2 DEF Acknowledges
  <2>4. QED
    BY <2>2, <2>3
<1> HIDE DEF rows
\* After the caller's continuation.
<1>6. \/ row' = rows
      \/ r = "start" /\ \E status \in {"recording", "draft"} :
           /\ row' = WithStatus(rows, starting, status)
           /\ status = "recording" => result = "reattached"
  BY <1>2 DEF rows
<1>7. \/ row'[t] = rows[t]
      \/ rows[t] # "deleted" /\ row'[t] = "draft"
      \/ rows[t] # "deleted" /\ row'[t] = "recording" /\ result = "reattached" /\ t = s
  BY <1>1, <1>5, <1>6 DEF WithStatus
<1>8. /\ row[t] = "deleted" => row'[t] = "deleted"
      /\ row'[t] = "recording" =>
           \/ result = "reattached" /\ t = s
           \/ row[t] = "recording" /\ (t # s \/ ~Acknowledges(s, result))
      /\ row'[t] = "processing" =>
           \/ t = s /\ jobs'[t] # 0
           \/ row[t] = "processing" /\ (t # s \/ ~Acknowledges(s, result))
      /\ row'[t] = "interrupted" =>
           \/ result = "interrupted" /\ t = s
           \/ row[t] = "interrupted" /\ (t # s \/ ~Acknowledges(s, result))
  BY <1>5, <1>7
<1>9. QED
  BY <1>3, <1>4, <1>8

LEMMA ApplyRecoveryHands ==
  ASSUME Sound, Handed, ~Overtaking, NEW r \in Callers, ApplyRecovery(r) PROVE Handed'
<1> DEFINE s == recovery[r].man.session
           result == recovery[r].result
<1>1. /\ recovery[r].pc = "apply" /\ Recovering(r)
      /\ UNCHANGED <<connected, obs, disk, mem>>
      /\ s \in Sessions /\ recovery[r] \in Recovery /\ recovery \in [Callers -> Recovery]
      /\ result \in Results \ {"none"} /\ ResultHolds(r) /\ QueueSound
  BY SoundParts DEF ApplyRecovery, obsVars, QueueSound, Carried, Recovery, Recovering, Handed,
     ResultsHold
<1>2. ~UnderWay /\ \A other \in Callers \ {r} : ~Recovering(other)
  BY <1>1, RecoversAlone
<1>3. ~Has(queue, "finalize")
  BY <1>1, <1>2, FinalizeIsAwaited DEF Recovering
<1>4. /\ \/ r = "connect" /\ result \notin {"reattached", "conflict"} /\ recovery'[r].pc = "provision"
         \/ (r = "connect" => result \in {"reattached", "conflict"}) /\ recovery'[r].pc = "idle"
      /\ \A other \in Callers \ {r} : recovery'[other] = recovery[other]
  BY <1>1 DEF ApplyRecovery, Idle
<1>5. /\ ~UnderWay' /\ ~Has(queue', "finalize")
      /\ \A kind \in {"start", "stop"} : Has(queue', kind) => Has(queue, kind)
      /\ Before(queue', "start", "stop") => Before(queue, "start", "stop")
      /\ \A t : /\ AckIn(queue', t) => AckIn(queue, t) \/ (t = s /\ Acknowledges(s, result))
                /\ StartOf(queue', t) => StartOf(queue, t)
                /\ StopThenAck(queue', t) => StopThenAck(queue, t) \/ (t = s /\ Acknowledges(s, result))
                /\ AckThenStart(queue', t) => AckThenStart(queue, t)
  BY <1>2, <1>3, AppliedQueue
<1>6. result = "reattached" /\ r = "start" => starting = s
  BY <1>1 DEF ResultHolds
<1>7. \A t \in Sessions :
        /\ row[t] = "deleted" => row'[t] = "deleted"
        /\ row'[t] = "recording" =>
             \/ result = "reattached" /\ t = s
             \/ row[t] = "recording" /\ (t # s \/ ~Acknowledges(s, result))
        /\ row'[t] = "processing" =>
             \/ t = s /\ jobs'[t] # 0
             \/ row[t] = "processing" /\ (t # s \/ ~Acknowledges(s, result))
        /\ row'[t] = "interrupted" =>
             \/ result = "interrupted" /\ t = s
             \/ row[t] = "interrupted" /\ (t # s \/ ~Acknowledges(s, result))
        /\ t \in attached => t \in attached'
        /\ t \in attached' => t \in attached \/ (t = s /\ result = "recovered")
        /\ \/ jobs'[t] = jobs[t]
           \/ t = s /\ result = "recovered" /\ jobs'[t] = 1 /\ t \in attached'
        /\ t = s /\ result = "recovered" /\ row[t] # "deleted" => t \in attached'
  BY <1>6, AppliedRows
<1>8. /\ IF r = "start" THEN starting' = NoSession /\ claim' = NoSession
         ELSE UNCHANGED <<starting, claim>>
      /\ phase' = "ready" =>
           /\ result \notin {"reattached", "conflict"} \/ r = "start"
           /\ r = "start" => claim = NoSession
      /\ phase' = "recording" => result = "reattached"
  <2>1. RecoveredPhase(r) = "ready" => result \notin {"reattached", "conflict"}
    BY DEF RecoveredPhase
  <2>2. RecoveredPhase(r) = "recording" => result = "reattached"
    BY DEF RecoveredPhase
  <2>3. IF r # "start" THEN phase' = RecoveredPhase(r) /\ UNCHANGED <<starting, claim>>
        ELSE /\ starting' = NoSession /\ claim' = NoSession
             /\ phase' = IF result = "reattached" THEN RecoveredPhase(r)
                         ELSE IF claim # NoSession THEN "recovering"
                         ELSE IF connected THEN "ready" ELSE "disconnected"
    BY DEF ApplyRecovery
  <2>4. QED
    BY <2>1, <2>2, <2>3
<1> HIDE DEF s, result
<1>9. /\ result = recovery[r].result
      /\ Acknowledges(s, result) => row[s] # "deleted" /\ result \in {"failed", "recovered"}
      /\ result \in {"recovered", "interrupted"} => ~Has(queue, "acknowledge")
      /\ result = "interrupted" => mem.state \notin ActiveStates
      /\ result = "recovered" => disk = mem /\ In(disk, s, Over)
      /\ result = "failed" =>
           /\ disk = NoManifest \/ In(disk, s, {"failed"})
           /\ mem = NoManifest \/ In(mem, s, {"failed"})
      /\ result = "reattached" => disk = mem /\ In(disk, s, ActiveStates)
  BY <1>1 DEF ResultHolds, s, result, Acknowledges
\* No recovery asks OBS, finalizes or applies any more.
<1>10. /\ \A other \in Callers : recovery'[other].pc \notin {"query", "finalize", "apply"}
       /\ \A other \in Callers : Recovering(other)' => other = r
       /\ "connect" \in Callers /\ "reconnect" \in Callers /\ "start" \in Callers
  BY <1>2, <1>4 DEF Recovering, Callers
<1>11. OneRecovers' /\ HeldIsKept'
  BY <1>5, <1>10 DEF OneRecovers, HeldIsKept, Begun
<1>12. MemoryIsOnDisk' /\ FailedNeverStarted' /\ LostIsNotAsked' /\ ResultsHold'
  <2>1. MemoryIsOnDisk' /\ FailedNeverStarted'
    BY <1>1 DEF MemoryIsOnDisk, FailedNeverStarted, Handed
  <2>2. LostIsNotAsked'
    BY <1>10 DEF LostIsNotAsked, GivesUp
  <2>3. ResultsHold'
    BY <1>5, <1>10 DEF ResultsHold, ResultHolds, Before, Has
  <2>4. QED
    BY <2>1, <2>2, <2>3
<1>13. NotYetAsked'
  <2>1. starting' # NoSession => starting' = starting
    BY <1>8
  <2>2. Has(queue', "start") => obs \notin Sessions
    BY <1>2, <1>5 DEF Handed, NotYetAsked, Begun
  <2>3. recovery'["start"].pc # "idle" => recovery["start"].pc # "idle" /\ claim' = claim
    BY <1>4, <1>8, <1>10
  <2>4. QED
    BY <1>1, <2>1, <2>2, <2>3 DEF Handed, NotYetAsked
<1>14. ReadyIsQuiet'
  <2>1. \A other \in Callers : ~Reattaching(other)'
    BY <1>10 DEF Reattaching
  <2>2. Live(obs)' => In(disk, obs, ActiveStates) \/ In(mem, obs, ActiveStates)
    BY <1>1, <1>10 DEF Live
  <2>3. ASSUME Settled', recovery'["connect"].pc # "provision",
               connected \/ recovery'["reconnect"].pc # "idle",
               obs \in Sessions, Live(obs)'
        PROVE  FALSE
    <3>1. phase' = "ready"
      BY <2>3 DEF Settled
    <3>2. CASE r = "connect"
      BY <1>4, <1>8, <2>3, <3>1, <3>2
    <3>3. CASE r = "start"
      BY <1>1, <1>8, <2>3, <3>1, <3>3 DEF Handed, NotYetAsked
    <3>4. CASE r = "reconnect"
      <4>1. result \in {"failed", "recovered", "interrupted"} /\ connected
        BY <1>1, <1>4, <1>8, <2>3, <3>1, <3>4 DEF Results, result
      <4>2. result = "interrupted" => ~In(disk, obs, ActiveStates)
        BY <1>1, <1>9, <2>3, <3>4, <4>1 DEF Handed, LostIsNotAsked, GivesUp
      <4>3. QED
        BY <1>9, <2>2, <2>3, <4>1, <4>2 DEF In, Over, ActiveStates, NoManifest
    <3>5. QED
      BY <3>2, <3>3, <3>4 DEF Callers
  <2>4. Has(queue', "start") => phase' # "recording"
    <3>1. Has(queue, "start") => ~Reattaching(r)
      BY DEF Handed, ReadyIsQuiet
    <3>2. QED
      BY <1>1, <1>5, <1>8, <1>9, <3>1 DEF Reattaching
  <2>5. ~Before(queue', "start", "stop")
    BY <1>5 DEF Handed, ReadyIsQuiet
  <2>6. QED
    BY <1>1, <2>1, <2>3, <2>4, <2>5 DEF ReadyIsQuiet
<1>15. ASSUME NEW t \in Sessions
       PROVE  (AckIsLate(t) /\ RowIsKept(t) /\ AttachedIsOver(t))'
  <2>1. AckIsLate(t) /\ RowIsKept(t) /\ AttachedIsOver(t)
    BY DEF Handed, SessionsHold
  <2>2. \A states : Bears(t, states)' => Bears(t, states) /\ (In(disk, t, states) \/ In(mem, t, states))
    BY <1>1, <1>10 DEF Bears
  <2>3. ~Begun("stop")'
    BY <1>5 DEF Begun
  <2>4. AckIsLate(t)'
    <3>1. CASE t = s /\ Acknowledges(s, result)
      BY <1>1, <1>7, <1>9, <2>2, <2>3, <3>1, ConstantsAssumption
         DEF AckIsLate, In, Over, Fresh, ActiveStates, NoManifest
    <3>2. CASE ~(t = s /\ Acknowledges(s, result))
      <4>1. AckIn(queue', t) /\ row'[t] = "interrupted" => row[t] = "interrupted"
        BY <1>5, <1>7, <1>9, <3>2 DEF AckIn, Has, Is
      <4>2. QED
        BY <1>1, <1>5, <1>7, <2>1, <2>2, <2>3, <3>2, <4>1 DEF AckIsLate
    <3>3. QED
      BY <3>1, <3>2
  <2>5. RowIsKept(t)'
    <3>1. CASE row'[t] = "recording" /\ result = "reattached" /\ t = s
      <4>1. ~Has(queue, "start")
        BY <1>1, <1>9, <3>1 DEF Handed, ReadyIsQuiet, Reattaching
      <4>2. ~StartOf(queue', t)
        BY <1>5, <4>1 DEF StartOf, Has, Is
      <4>3. QED
        BY <1>1, <1>9, <3>1, <4>2 DEF RowIsKept, In
    <3>2. CASE row'[t] = "recording" /\ row[t] = "recording" /\ (t # s \/ ~Acknowledges(s, result))
      BY <1>1, <1>5, <2>1, <3>2 DEF RowIsKept
    <3>3. CASE row'[t] = "processing"
      BY <1>1, <1>5, <1>7, <2>1, <3>3 DEF RowIsKept
    <3>4. CASE row'[t] \notin {"recording", "processing"}
      BY <3>4 DEF RowIsKept
    <3>5. QED
      BY <1>7, <3>1, <3>2, <3>3, <3>4
  <2>6. AttachedIsOver(t)'
    <3>1. (jobs'[t] # 0 => t \in attached') /\ jobs'[t] < 2
      BY <1>7, <2>1 DEF AttachedIsOver
    <3>2. CASE t \in attached
      BY <1>1, <1>5, <2>1, <2>2, <2>3, <3>1, <3>2 DEF AttachedIsOver
    <3>3. CASE t = s /\ result = "recovered"
      <4>1. ~AckThenStart(queue', t)
        <5>1. ~Has(queue, "acknowledge")
          BY <1>9, <3>3
        <5>2. ~AckThenStart(queue, t)
          BY <5>1 DEF AckThenStart, Has, Is
        <5>3. QED
          BY <1>5, <5>2
      <4>2. ~Bears(t, Fresh \cup {"failed"})'
        BY <1>9, <2>2, <3>3 DEF In, Over, Fresh, ActiveStates
      <4>3. disk'.session = t
        BY <1>1, <1>9, <3>3 DEF In
      <4>4. QED
        BY <2>3, <3>1, <4>1, <4>2, <4>3 DEF AttachedIsOver
    <3>4. CASE t \notin attached'
      BY <3>1, <3>4 DEF AttachedIsOver
    <3>5. QED
      BY <1>7, <3>2, <3>3, <3>4
  <2>7. QED
    BY <2>4, <2>5, <2>6
<1>16. ManifestBeforeRecording'
  BY <1>1, <1>7 DEF ManifestBeforeRecording, Handed
<1>17. QED
  BY <1>11, <1>12, <1>13, <1>14, <1>15, <1>16 DEF Handed, SessionsHold

----------------------------------------------------------------------------
(* The handoff invariant holds always.                                     *)

LEMMA RunCommandHands ==
  ASSUME Sound, Handed, ~Overtaking, Pends, Agree, RunCommand PROVE Handed'
<1>1. CASE StartRefused
  <2>1. StartFails
    BY <1>1 DEF StartRefused
  <2>2. QED
    BY <1>1, <2>1, StartsFail, StartFailingHand
<1>2. CASE StartFails /\ \/ StartReady \/ StartIntent \/ RequestStart \/ AwaitStart
                         \/ ReconcileStart \/ StartCompletes
  BY <1>2, StartsFail, StartFailingHand
<1>3. CASE ~StartFails /\ (StartIntent \/ RequestStart \/ AwaitStart \/ ReconcileStart)
  BY <1>3, StartsGoOn, StartMovesHand
<1>4. CASE ~StartFails /\ StartReady
  BY <1>4, StartReadyGoesOn, StartMovesHand
<1>5. CASE ~StartFails /\ StartCompletes
  BY <1>5, StartCompletesHand
<1>6. CASE StopIntent \/ QueryStop \/ RequestStop \/ ReconcileStop \/ StopFinalizes \/ StopProbes
  <2>1. CASE StopFails
    BY <1>6, <2>1, StopsFail, StopFailingHand
  <2>2. CASE ~StopFails
    BY <1>6, <2>2, StopsGoOn, StopMovesHand
  <2>3. QED
    BY <2>1, <2>2
<1>7. QED
  BY <1>1, <1>2, <1>3, <1>4, <1>5, <1>6, StopHandsOffHand, AcknowledgeHand,
     FinalizeRecoveredHands, ProbeRecoveredHands, ProvisionHands DEF RunCommand

LEMMA OneSessionAgrees == ASSUME Sound, OfOneSession, ~Overtaking PROVE Agree
<1>1. \E s \in Sessions \cup {NoSession} : Of(disk, s) /\ Of(mem, s)
  BY DEF OfOneSession, About
<1>2. disk \in Manifest /\ mem \in Manifest
  BY SoundParts DEF ManifestTyped
<1>3. QED
  BY <1>1, <1>2, ConstantsAssumption DEF Of, Manifest, Agree

LEMMA NextHands ==
  ASSUME Sound, OfOneSession, Handed, ~Overtaking, [Next]_vars PROVE Handed'
<1>1. Pends
  BY StepIsOfOneSession DEF Pends
<1>2. Agree
  BY OneSessionAgrees
<1>3. CASE RunCommand
  BY <1>1, <1>2, <1>3, RunCommandHands
<1>4. ASSUME NEW r \in Callers, Recover(r) PROVE Handed'
  BY <1>4, NothingToRecoverHands, LoadManifestHands, RecoveryThrowsHands,
     QueryRecordingHands, ApplyRecoveryHands, DropRecoveryHands DEF Recover
<1>5. CASE UNCHANGED vars \/ \E s \in Sessions : Delete(s)
  <2>1. UNCHANGED <<connected, obs, disk, mem, queue, recovery, phase, row, attached, jobs,
                    starting, claim>>
    BY <1>5 DEF vars, Delete, obsVars, statusVars, dbVars
  <2>2. QED
    BY <2>1, StutterHands
<1>6. CASE \E s \in Sessions : Start(s)
  BY <1>6, StartHands
<1>7. CASE \/ Connect \/ Disconnect \/ CancelConnect \/ AbortReconnect \/ Reconnect
           \/ EndReconnect \/ LoseConnection
  BY <1>7, ConnectionHands
<1>8. QED
  BY <1>3, <1>4, <1>5, <1>6, <1>7, StopHands, OBSHands, DeleteEndsHands, CrashHands DEF Next

\* The invariant of the theorems below: types and the order of the queue, one session at a
\* time, and the handoff.
HandoffInvariant == Sound /\ OfOneSession /\ Handed

LEMMA HandoffAlways ==
  ASSUME ~Overtaking
  PROVE  (Init => HandoffInvariant) /\ (HandoffInvariant /\ [Next]_vars => HandoffInvariant')
<1>1. Init => HandoffInvariant
  BY InitIsSound, InitIsAbout, InitHands DEF OfOneSession, HandoffInvariant
<1>2. ASSUME HandoffInvariant, [Next]_vars PROVE HandoffInvariant'
  BY <1>2, NextIsSound, StepIsOfOneSession, NextHands DEF HandoffInvariant
<1>3. QED
  BY <1>1, <1>2

\* A crash at any moment leaves a pointer to what OBS records: the manifest on disk names its
\* session, or the session has a recording already, or it was deleted.
THEOREM ManifestFirst == ASSUME ~Overtaking PROVE Spec => []ManifestBeforeRecording
<1>1. (Init => HandoffInvariant) /\ (HandoffInvariant /\ [Next]_vars => HandoffInvariant')
  BY HandoffAlways
<1>2. HandoffInvariant => ManifestBeforeRecording
  BY DEF HandoffInvariant, Handed
<1>3. QED
  BY <1>1, <1>2, PTL DEF Spec

\* Provided that starts, stops and recoveries do not overlap (~Overtaking), which the code does
\* not enforce (RecoveryService.ts:62): a row never says that a session is recording when
\* recovery could not find its recording; the manifest on disk is that of the session.
THEOREM RecordingIsFound == ASSUME ~Overtaking PROVE Spec => []RecordingHasManifest
<1>1. (Init => HandoffInvariant) /\ (HandoffInvariant /\ [Next]_vars => HandoffInvariant')
  BY HandoffAlways
<1>2. HandoffInvariant => RecordingHasManifest
  BY DEF HandoffInvariant, Handed, SessionsHold, RowIsKept, RecordingHasManifest
<1>3. QED
  BY <1>1, <1>2, PTL DEF Spec

\* Provided that starts, stops and recoveries do not overlap (~Overtaking), which the code does
\* not enforce (RecoveryService.ts:62): no session that has its recording, but no manifest and
\* no job, waits for a job; the manifest is given up after the handoff, or the row says that it
\* failed.
THEOREM HandoffIsComplete == ASSUME ~Overtaking PROVE Spec => []HandedOffOrReported
<1>1. (Init => HandoffInvariant) /\ (HandoffInvariant /\ [Next]_vars => HandoffInvariant')
  BY HandoffAlways
<1>2. attached \subseteq Sessions /\ SessionsHold => HandedOffOrReported
  BY DEF SessionsHold, RowIsKept, HandedOffOrReported
<1>3. HandoffInvariant => HandedOffOrReported
  BY <1>2, SoundParts DEF HandoffInvariant, Handed, AppTyped
<1>4. QED
  BY <1>1, <1>3, PTL DEF Spec

\* Provided that starts, stops and recoveries do not overlap (~Overtaking), which the code does
\* not enforce (RecoveryService.ts:62): a stop, the recoveries that repeat its work after
\* crashes and failures, and the retries of a reconnect create at most one job for a recording.
\* Where they overlap this is false: the run recording_twice refutes it.
THEOREM QueuedAtMostOnce == ASSUME ~Overtaking PROVE Spec => []QueuedOnce
<1>1. (Init => HandoffInvariant) /\ (HandoffInvariant /\ [Next]_vars => HandoffInvariant')
  BY HandoffAlways
<1>2. SessionsHold => QueuedOnce
  BY DEF SessionsHold, AttachedIsOver, QueuedOnce
<1>3. HandoffInvariant => QueuedOnce
  BY <1>2 DEF HandoffInvariant, Handed
<1>4. QED
  BY <1>1, <1>3, PTL DEF Spec

----------------------------------------------------------------------------
(* A manifest is given up by an acknowledgement, and with what the row says. *)

\* Every other step leaves a manifest on disk, of whatever state.
LEMMA OnlyAcknowledgeGivesUp ==
  ASSUME Sound, [Next]_vars, disk.session \in Sessions, disk'.session \notin Sessions
  PROVE  Acknowledge
<1>1. QueueSound /\ ManifestTyped
  BY SoundParts
<1>2. SUFFICES ASSUME ~Acknowledge PROVE FALSE
  OBVIOUS
<1>3. disk' # disk
  OBVIOUS
\* The manifest of a command under way, of a recovery and of memory name a session.
<1>4. /\ \A kind, pc, state : Running(kind, pc) /\ pc # "begin" => InState(state).session \in Sessions
      /\ \A r \in Callers : \A state :
           recovery[r].pc \in {"query", "finalize"} =>
             [recovery[r].man EXCEPT !.state = state].session \in Sessions
      /\ mem.state \in ActiveStates => \A state : [mem EXCEPT !.state = state].session \in Sessions
  <2>1. \A kind, pc, state :
          Running(kind, pc) /\ pc # "begin" => InState(state).session \in Sessions
    <3>1. SUFFICES ASSUME NEW kind, NEW pc, NEW state, Running(kind, pc), pc # "begin"
                   PROVE  InState(state).session \in Sessions
      OBVIOUS
    <3>2. Head(queue) \in Command /\ Fits(Head(queue)) /\ Head(queue).pc # "begin"
      BY <1>1, <3>1, HeadIsACommand DEF Running
    <3>3. Head(queue).man.session \in Sessions /\ Head(queue).man \in Manifest
      BY <3>2 DEF Fits, Command
    <3>4. QED
      BY <3>3 DEF InState, Manifest, NoManifest
  <2>2. \A r \in Callers : \A state :
          recovery[r].pc \in {"query", "finalize"} =>
            [recovery[r].man EXCEPT !.state = state].session \in Sessions
    <3>1. \A r \in Callers : recovery[r].man \in Manifest
            /\ (recovery[r].pc \in {"query", "finalize"} => recovery[r].man.session \in Sessions)
      BY <1>1 DEF QueueSound, Carried, Recovery
    <3>2. QED
      BY <3>1 DEF Manifest, NoManifest
  <2>3. mem.state \in ActiveStates => \A state : [mem EXCEPT !.state = state].session \in Sessions
    BY <1>1 DEF ManifestTyped, Manifest, NoManifest, ActiveStates
  <2>4. QED
    BY <2>1, <2>2, <2>3
<1>5. CASE RunCommand
  <2>1. CASE StartReady
    <3>1. Head(queue).who \in Sessions
      BY <1>1, <2>1, HeadIsACommand DEF StartReady, Running, Fits
    <3>2. QED
      BY <1>3, <2>1, <3>1 DEF StartReady, Named
  <2>2. CASE StartIntent \/ ReconcileStart \/ StartCompletes \/ StopFinalizes \/ StopProbes
    <3>1. (\E kind, pc : Running(kind, pc) /\ pc # "begin") /\ \E state : disk' = InState(state)
      BY <1>3, <2>2 DEF StartIntent, ReconcileStart, StartCompletes, StopFinalizes, StopProbes,
         Persists, PersistFails
    <3>2. QED
      BY <1>4, <3>1
  <2>3. CASE StopIntent
    <3>1. mem.state \in ActiveStates /\ disk' = [mem EXCEPT !.state = "stop-intent"]
      BY <1>3, <2>3 DEF StopIntent
    <3>2. QED
      BY <1>4, <3>1
  <2>4. CASE FinalizeRecovered
    <3>1. Head(queue).who \in Callers /\ recovery[Head(queue).who].pc = "finalize"
      BY <2>4, <1>1, AwaitedHead DEF FinalizeRecovered, Running, Awaited
    <3>2. disk' = [recovery[Head(queue).who].man EXCEPT !.state = "finalizing"]
      BY <1>3, <2>4 DEF FinalizeRecovered
    <3>3. QED
      BY <1>4, <3>1, <3>2
  <2>5. CASE ProbeRecovered
    <3>1. Running("finalize", "probe") /\ \E state : disk' = InState(state)
      BY <1>3, <2>5 DEF ProbeRecovered, Persists, PersistFails
    <3>2. QED
      BY <1>4, <3>1
  <2>6. CASE \/ StartRefused \/ RequestStart \/ AwaitStart \/ QueryStop \/ RequestStop
             \/ ReconcileStop \/ StopHandsOff \/ Provision
    BY <1>3, <2>6 DEF StartRefused, RequestStart, AwaitStart, QueryStop, RequestStop,
       ReconcileStop, StopHandsOff, Provision
  <2>7. QED
    BY <1>2, <1>5, <2>1, <2>2, <2>3, <2>4, <2>5, <2>6 DEF RunCommand
<1>6. ASSUME NEW r \in Callers, Recover(r) PROVE FALSE
  <2>1. QueryRecording(r)
    BY <1>3, <1>6 DEF Recover, NothingToRecover, LoadManifest, RecoveryThrows, RecoveryFails,
       ApplyRecovery, DropRecovery
  <2>2. recovery[r].pc = "query" /\ \E state : disk' = [recovery[r].man EXCEPT !.state = state]
    BY <1>3, <2>1 DEF QueryRecording
  <2>3. QED
    BY <1>4, <2>2
<1>7. CASE ~RunCommand /\ \A r \in Callers : ~Recover(r)
  BY <1>3, <1>7 DEF Next, vars, Start, Delete, Stop, Connect, Disconnect, CancelConnect,
     AbortReconnect, Reconnect, EndReconnect, LoseConnection, ObsStops, ForeignRecording,
     DeleteEnds, Crash, CrashInHandoff, Restarts
<1>8. QED
  BY <1>5, <1>6, <1>7

\* Of the sessions without a recording it acknowledges one that is a draft again, or failed, or
\* was deleted.
LEMMA GivesUpWithItsStart ==
  ASSUME HandoffInvariant, ~Overtaking, [Next]_vars,
         NEW s \in Sessions, disk.session = s, disk'.session # s, s \notin attached'
  PROVE  row'[s] \in {"draft", "failed", "deleted"}
<1>1. /\ Sound /\ OfOneSession /\ Handed /\ QueueSound /\ row \in [Sessions -> Statuses]
      /\ AckIsLate(s) /\ RowIsKept(s) /\ AttachedIsOver(s)
  BY SoundParts DEF HandoffInvariant, AppTyped, Handed, SessionsHold
<1>2. disk # NoManifest /\ disk'.session \notin Sessions
  BY <1>1, StepIsOfOneSession, ConstantsAssumption DEF NoManifest
<1>3. Acknowledge
  BY <1>1, <1>2, OnlyAcknowledgeGivesUp
<1>4. Agree
  BY <1>1, OneSessionAgrees
<1> DEFINE m == IF mem = NoManifest THEN disk ELSE mem
<1>5. /\ queue # <<>> /\ Head(queue).kind = "acknowledge"
      /\ m.session = Head(queue).who /\ m.state \in FinalStates
      /\ UNCHANGED <<row, attached>>
  BY <1>2, <1>3 DEF Acknowledge, Running, dbVars
<1>6. AckIn(queue, s)
  <2>1. m.session = s
    BY <1>2, <1>4 DEF Agree
  <2>2. Is(Head(queue), "acknowledge", s)
    BY <1>5, <2>1 DEF Is
  <2>3. QED
    BY <1>1, <1>5, <2>2, HeadStandsFirst
<1>7. row[s] # "recording"
  <2>1. m.state \notin ActiveStates
    BY <1>5 DEF FinalStates, ActiveStates
  <2>2. QED
    BY <1>1, <1>6, <2>1 DEF RowIsKept, In
<1>8. row[s] # "processing"
  BY <1>1, <1>5 DEF RowIsKept, AttachedIsOver
<1>9. QED
  BY <1>1, <1>5, <1>6, <1>7, <1>8 DEF AckIsLate, Statuses

\* Provided that starts, stops and recoveries do not overlap (~Overtaking), which the code does
\* not enforce (RecoveryService.ts:62): the manifest of a usable recording that its session does
\* not hold is never given up while the session says that it is recording, being processed or
\* interrupted; only a start that was reported as failed loses it.
THEOREM GivenUpWithItsStart == ASSUME ~Overtaking PROVE Spec => GivenUpOnlyWithItsStart
<1>1. (Init => HandoffInvariant) /\ (HandoffInvariant /\ [Next]_vars => HandoffInvariant')
  BY HandoffAlways
<1>2. HandoffInvariant => usable \subseteq Sessions
  BY SoundParts DEF HandoffInvariant, OBSTyped
<1>3. HandoffInvariant /\ [Next]_vars =>
        [\A s \in usable : disk.session = s /\ disk'.session # s /\ s \notin attached' =>
           row'[s] \in {"draft", "failed", "deleted"}]_<<usable, disk, attached, row>>
  BY <1>2, GivesUpWithItsStart
<1>4. QED
  BY <1>1, <1>3, PTL DEF Spec, GivenUpOnlyWithItsStart

----------------------------------------------------------------------------
(* The recording keeps the promise of Handoff.                             *)

Simulated == [Promise!Next]_<<disk.session, attached, jobs, Shown>>

\* Rows of sessions that exist change, and one waits for a recording only while that is pending.
Waiting == {"recording", "processing"}
Allowed(rows) ==
  \A t \in Sessions : rows[t] # row[t] =>
    /\ "deleted" \notin {row[t], rows[t]}
    /\ rows[t] \in Waiting => disk.session = t \/ row[t] \in Waiting

LEMMA Showing == ASSUME Sound, Sound', Allowed(row') PROVE Promise!Shows
<1>1. /\ row \in [Sessions -> Statuses] /\ row' \in [Sessions -> Statuses]
      /\ Shown \in [Sessions -> {"closed", "open", "deleted"}]
      /\ Shown' \in [Sessions -> {"closed", "open", "deleted"}]
  <2>1. row \in [Sessions -> Statuses] /\ row' \in [Sessions -> Statuses]
    BY SoundParts DEF AppTyped
  <2>2. QED
    BY <2>1 DEF Shown
<1>2. \A t \in Sessions : Shown'[t] # Shown[t] =>
        /\ "deleted" \notin {Shown'[t], Shown[t]}
        /\ Shown'[t] = "open" => disk.session = t
  <2>1. SUFFICES ASSUME NEW t \in Sessions, Shown'[t] # Shown[t]
                 PROVE  /\ "deleted" \notin {Shown'[t], Shown[t]}
                        /\ Shown'[t] = "open" => disk.session = t
    OBVIOUS
  <2>2. /\ Shown[t] = "open" <=> row[t] \in Waiting
        /\ Shown[t] = "deleted" <=> row[t] = "deleted"
    BY DEF Shown, Waiting
  <2>3. /\ Shown'[t] = "open" <=> row'[t] \in Waiting
        /\ Shown'[t] = "deleted" <=> row'[t] = "deleted"
    BY DEF Shown, Waiting
  <2>4. row'[t] # row[t]
    BY <2>1 DEF Shown
  <2>5. QED
    BY <2>1, <2>2, <2>3, <2>4 DEF Allowed
<1>3. QED
  BY <1>1, <1>2 DEF Promise!Shows

\* A step that neither begins nor hands off a recording nor gives one up.
LEMMA ShowSimulates ==
  ASSUME Sound, Sound', Allowed(row'), disk'.session = disk.session, UNCHANGED <<attached, jobs>>
  PROVE  Simulated
<1>1. Promise!Shows
  BY Showing
<1>2. QED
  BY <1>1 DEF Simulated, Promise!Next

LEMMA BeginSimulates ==
  ASSUME disk.session = NoSession, disk'.session \in Sessions, UNCHANGED <<row, attached, jobs>>
  PROVE  Simulated
<1>1. Promise!Begin(disk'.session)
  BY DEF Promise!Begin, Shown
<1>2. QED
  BY <1>1 DEF Simulated, Promise!Next

LEMMA HandOffSimulates ==
  ASSUME Sound, Sound', Allowed(row'), NEW s \in Sessions, disk.session = s, row[s] # "deleted",
         disk' = disk, attached' = attached \cup {s},
         jobs' = jobs \/ (jobs[s] = 0 /\ jobs' = [jobs EXCEPT ![s] = 1])
  PROVE  Simulated
<1>1. Promise!Shows /\ Shown[s] # "deleted"
  BY Showing DEF Shown
<1>2. Promise!HandOff(s)
  BY <1>1 DEF Promise!HandOff
<1>3. QED
  BY <1>2 DEF Simulated, Promise!Next

\* A row that gets a status, if its session exists.
LEMMA StatusOf ==
  ASSUME NEW rows \in [Sessions -> Statuses], NEW s, NEW status, NEW t \in Sessions
  PROVE  WithStatus(rows, s, status)[t]
           = IF t = s /\ rows[t] # "deleted" THEN status ELSE rows[t]
  BY DEF WithStatus

LEMMA StatusShows ==
  ASSUME Sound, NEW s, NEW status \in Statuses \ {"deleted"}, SetStatus(s, status),
         status \in Waiting => disk.session = s
  PROVE  Allowed(row')
<1>1. row \in [Sessions -> Statuses]
  BY SoundParts DEF AppTyped
<1>2. \A t \in Sessions : row'[t] = IF t = s /\ row[t] # "deleted" THEN status ELSE row[t]
  BY <1>1, StatusOf DEF SetStatus
<1>3. QED
  BY <1>2 DEF Allowed

LEMMA StartEndsShows == ASSUME Sound, NEW c, StartEnds(c) PROVE Allowed(row')
<1>1. CASE UNCHANGED row
  BY <1>1 DEF Allowed
<1>2. CASE SetStatus(starting, "draft")
  BY <1>2, StatusShows DEF Statuses, Waiting
<1>3. QED
  BY <1>1, <1>2 DEF StartEnds

LEMMA AcknowledgeSimulates ==
  ASSUME HandoffInvariant, HandoffInvariant', Acknowledge PROVE Simulated
<1>1. /\ disk' = disk \/ disk' = NoManifest
      /\ UNCHANGED <<row, attached, jobs>>
      /\ disk \in Manifest /\ Sound /\ Sound'
  BY SoundParts DEF Acknowledge, dbVars, HandoffInvariant, ManifestTyped
<1>2. Allowed(row')
  BY <1>1 DEF Allowed
<1>3. CASE disk'.session = disk.session
  BY <1>1, <1>2, <1>3, ShowSimulates
<1>4. CASE disk'.session # disk.session
  <2>1. disk.session \in Sessions /\ disk'.session = NoSession
    BY <1>1, <1>4 DEF Manifest, NoManifest
  <2>2. SUFFICES ASSUME NEW s \in Sessions, s = disk.session PROVE Simulated
    BY <2>1
  <2>3. RowIsKept(s)'
    BY DEF HandoffInvariant, Handed, SessionsHold
  <2>4. row[s] = "recording" \/ row[s] = "processing" => jobs[s] # 0
    BY <1>1, <2>1, <2>2, <2>3, ConstantsAssumption DEF RowIsKept
  <2>5. Shown[s] = "open" => jobs[s] > 0
    <3>1. jobs[s] \in 0..2
      BY <1>1, SoundParts DEF AppTyped
    <3>2. Shown[s] = "open" => row[s] \in Waiting
      BY DEF Shown, Waiting
    <3>3. QED
      BY <2>4, <3>1, <3>2 DEF Waiting
  <2>6. Promise!GiveUp(s)
    BY <1>1, <2>1, <2>2, <2>5 DEF Promise!GiveUp, Shown
  <2>7. QED
    BY <2>6 DEF Simulated, Promise!Next
<1>5. QED
  BY <1>3, <1>4

LEMMA DeleteEndsSimulates == ASSUME Sound, DeleteEnds PROVE Simulated
<1>1. deleting \in Sessions /\ row \in [Sessions -> Statuses]
  BY SoundParts DEF AppTyped, DeleteEnds
<1>2. Shown' = [Shown EXCEPT ![deleting] = "deleted"]
  BY <1>1 DEF DeleteEnds, Shown
<1>3. Promise!Discard(deleting)
  BY <1>2 DEF DeleteEnds, Promise!Discard
<1>4. QED
  BY <1>1, <1>3 DEF Simulated, Promise!Next

\* A stop that has finalized its recording holds the manifest on disk, and its session has
\* neither the recording nor a job.
LEMMA HandingOff ==
  ASSUME HandoffInvariant, Running("stop", "handoff"), NEW s, s = Head(queue).man.session
  PROVE  s \in Sessions /\ disk.session = s /\ s \notin attached /\ jobs[s] = 0
<1>1. UnderWay /\ Begun("stop") /\ Sound /\ Handed
  BY DEF Running, UnderWay, Begun, HandoffInvariant
<1>2. s \in Sessions /\ disk.session = s
  BY <1>1, HeadUnderWay
<1>3. AttachedIsOver(s)
  BY <1>1, <1>2 DEF Handed, SessionsHold
<1>4. QED
  BY <1>1, <1>2, <1>3 DEF AttachedIsOver

LEMMA StopHandsOffSimulates ==
  ASSUME HandoffInvariant, HandoffInvariant', StopHandsOff PROVE Simulated
<1> DEFINE s == Head(queue).man.session
<1>1. /\ Running("stop", "handoff") /\ UNCHANGED disk /\ Sound /\ Sound'
      /\ jobs \in [Sessions -> 0..2]
  BY SoundParts DEF StopHandsOff, HandoffInvariant, AppTyped
<1>2. s \in Sessions /\ disk.session = s /\ jobs[s] = 0
  BY <1>1, HandingOff
<1>3. CASE row[s] = "deleted"
  <2>1. UNCHANGED <<row, attached, jobs>>
    BY <1>3 DEF StopHandsOff, dbVars
  <2>2. QED
    BY <1>1, <2>1, ShowSimulates DEF Allowed
<1>4. CASE row[s] # "deleted"
  <2>1. /\ attached' = attached \cup {s}
        /\ \/ jobs' = OneMore(s) /\ SetStatus(s, "processing")
           \/ UNCHANGED jobs /\ SetStatus(s, "failed")
    BY <1>4 DEF StopHandsOff
  <2>2. Allowed(row')
    BY <1>1, <1>2, <2>1, StatusShows DEF Statuses, Waiting
  <2>3. OneMore(s) = [jobs EXCEPT ![s] = 1]
    BY <1>1, <1>2 DEF OneMore
  <2> HIDE DEF s
  <2>4. QED
    BY <1>1, <1>2, <1>4, <2>1, <2>2, <2>3, HandOffSimulates
<1>5. QED
  BY <1>3, <1>4

\* The manifest of a recovered recording is on disk.
LEMMA RecoveredIsPending ==
  ASSUME HandoffInvariant, NEW r \in Callers, recovery[r].pc = "apply",
         recovery[r].result \in {"recovered", "reattached"}
  PROVE  disk.session = recovery[r].man.session /\ recovery[r].man.session \in Sessions
<1>1. ResultHolds(r) /\ Carried(recovery)
  BY SoundParts DEF HandoffInvariant, Handed, ResultsHold, QueueSound
<1>2. QED
  BY <1>1 DEF ResultHolds, In, Carried

LEMMA CrashSimulates ==
  ASSUME HandoffInvariant, HandoffInvariant', Crash \/ CrashInHandoff PROVE Simulated
<1>1. UNCHANGED <<disk, jobs>> /\ Sound /\ Sound'
  BY DEF Crash, CrashInHandoff, Restarts, HandoffInvariant
<1>2. CASE Crash
  BY <1>1, <1>2, ShowSimulates DEF Crash, Allowed
<1>3. CASE CrashInHandoff
  <2>1. PICK s \in Sessions :
          /\ \/ Running("stop", "handoff") /\ Head(queue).man.session = s
             \/ \E r \in Callers : recovery[r].pc = "apply" /\ recovery[r].result = "recovered"
                                     /\ recovery[r].man.session = s
          /\ row[s] # "deleted" /\ attached' = attached \cup {s} /\ SetStatus(s, "processing")
    BY <1>3 DEF CrashInHandoff
  <2>2. disk.session = s
    BY <2>1, HandingOff, RecoveredIsPending
  <2>3. Allowed(row')
    BY <1>1, <2>1, <2>2, StatusShows DEF Statuses
  <2>4. QED
    BY <1>1, <2>1, <2>2, <2>3, HandOffSimulates
<1>4. QED
  BY <1>2, <1>3

LEMMA HandledIsAllowed ==
  ASSUME Sound, NEW s \in Sessions, NEW result \in Results \ {"none"}, NEW queued \in BOOLEAN,
         result \in {"recovered", "reattached"} => disk.session = s
  PROVE  Allowed(HandledRows(s, result, queued))
<1>1. row \in [Sessions -> Statuses]
  BY SoundParts DEF AppTyped
<1>2. \A status \in Statuses \ {"deleted"} :
        (status \in Waiting => disk.session = s) => Allowed(WithStatus(row, s, status))
  <2>1. SUFFICES ASSUME NEW status \in Statuses \ {"deleted"}, status \in Waiting => disk.session = s
                 PROVE  Allowed(WithStatus(row, s, status))
    OBVIOUS
  <2>2. \A t \in Sessions :
          WithStatus(row, s, status)[t] = IF t = s /\ row[t] # "deleted" THEN status ELSE row[t]
    BY <1>1, StatusOf
  <2>3. QED
    BY <2>1, <2>2 DEF Allowed
<1>3. Allowed(row)
  BY DEF Allowed
<1>4. \E status \in Statuses \ {"deleted"} :
        /\ status \in Waiting => disk.session = s
        /\ HandledRows(s, result, queued) \in {row, WithStatus(row, s, status)}
  <2>1. CASE result = "conflict"
    BY <2>1 DEF HandledRows, Statuses, Waiting
  <2>2. CASE result = "failed" \/ result = "interrupted"
    BY <2>2 DEF HandledRows, Statuses, Waiting
  <2>3. CASE result = "reattached"
    BY <2>3 DEF HandledRows, Statuses
  <2>4. CASE result = "recovered"
    BY <2>4 DEF HandledRows, Statuses
  <2>5. QED
    BY <2>1, <2>2, <2>3, <2>4 DEF Results
<1>5. QED
  BY <1>2, <1>3, <1>4

LEMMA ApplySimulates ==
  ASSUME HandoffInvariant, HandoffInvariant', NEW r \in Callers, ApplyRecovery(r)
  PROVE  Simulated
<1> DEFINE s == recovery[r].man.session
           result == recovery[r].result
           fresh == result = "recovered" /\ row[s] # "deleted" /\ NoJobYet(s)
<1>1. /\ Sound /\ Sound' /\ row \in [Sessions -> Statuses] /\ jobs \in [Sessions -> 0..2]
      /\ AppTyped /\ ResultHolds(r)
  BY SoundParts DEF HandoffInvariant, Handed, ResultsHold, AppTyped
<1>2. s \in Sessions /\ result \in Results \ {"none"} /\ recovery[r].pc = "apply" /\ disk' = disk
  BY <1>1, SoundParts DEF QueueSound, Carried, Recovery, ApplyRecovery
<1>3. result \in {"recovered", "reattached"} => disk.session = s
  BY <1>2, RecoveredIsPending
<1>4. attached' = IF result = "recovered" /\ row[s] # "deleted" THEN attached \cup {s} ELSE attached
  BY DEF ApplyRecovery
<1>5. PICK queued \in BOOLEAN :
        /\ queued => fresh
        /\ jobs' = IF queued THEN OneMore(s) ELSE jobs
        /\ \/ row' = HandledRows(s, result, queued)
           \/ result = "reattached" /\ r = "start"
                /\ row' = WithStatus(HandledRows(s, result, queued), starting, "recording")
           \/ row' = WithStatus(HandledRows(s, result, queued), starting, "draft")
  <2>1. PICK queued \in BOOLEAN :
          /\ queued => fresh
          /\ jobs' = IF queued THEN OneMore(s) ELSE jobs
          /\ IF r # "start" THEN row' = HandledRows(s, result, queued)
             ELSE row' = CASE result = "reattached" ->
                                 WithStatus(HandledRows(s, result, queued), starting, "recording")
                           [] result # "reattached" /\ claim = starting ->
                                 HandledRows(s, result, queued)
                           [] OTHER -> WithStatus(HandledRows(s, result, queued), starting, "draft")
    BY DEF ApplyRecovery
  <2>2. QED
    BY <2>1
<1> DEFINE rows == HandledRows(s, result, queued)
<1>6. rows \in [Sessions -> Statuses] /\ Allowed(rows)
  BY <1>1, <1>2, <1>3, HandledRowsAreRows, HandledIsAllowed
<1>7. \A status : \A t \in Sessions :
        WithStatus(rows, starting, status)[t]
          = IF t = starting /\ rows[t] # "deleted" THEN status ELSE rows[t]
  BY <1>6, StatusOf
<1>8. result = "reattached" /\ r = "start" => starting = s
  BY <1>1, <1>2 DEF ResultHolds
<1> HIDE DEF s, result, rows
<1>9. Allowed(row')
  <2>1. CASE row' = rows
    BY <1>6, <2>1
  <2>2. CASE result = "reattached" /\ r = "start" /\ row' = WithStatus(rows, starting, "recording")
    BY <1>3, <1>6, <1>7, <1>8, <2>2 DEF Allowed
  <2>3. CASE row' = WithStatus(rows, starting, "draft")
    BY <1>6, <1>7, <2>3 DEF Allowed, Waiting
  <2>4. QED
    BY <1>5, <2>1, <2>2, <2>3 DEF rows
<1>10. queued => jobs[s] = 0 /\ jobs' = [jobs EXCEPT ![s] = 1]
  BY <1>1, <1>2, <1>5 DEF NoJobYet, OneMore
<1>11. CASE result = "recovered" /\ row[s] # "deleted"
  BY <1>1, <1>2, <1>3, <1>4, <1>5, <1>9, <1>10, <1>11, HandOffSimulates
<1>12. CASE ~(result = "recovered" /\ row[s] # "deleted")
  BY <1>1, <1>2, <1>4, <1>5, <1>9, <1>12, ShowSimulates
<1>13. QED
  BY <1>11, <1>12

\* A start that fails makes the session a draft again, or leaves the row to its recovery.
LEMMA StartFailsShows ==
  ASSUME Sound, StartFails PROVE Allowed(row') /\ UNCHANGED <<attached, jobs>>
<1>1. (\E c : StartEnds(c)) \/ UNCHANGED row
  BY DEF StartFails
<1>2. CASE UNCHANGED row
  BY <1>2 DEF Allowed, StartFails
<1>3. CASE \E c : StartEnds(c)
  BY <1>3, StartEndsShows DEF StartFails
<1>4. QED
  BY <1>1, <1>2, <1>3

\* The manifest that a start under way goes on with is the one on disk.
LEMMA PersistsItsManifest ==
  ASSUME HandoffInvariant, NEW pc, pc # "begin", Running("start", pc), NEW state \in States,
         Persists(state) \/ PersistFails(state)
  PROVE  disk'.session = disk.session
<1>1. UnderWay /\ Sound /\ Handed
  BY DEF Running, UnderWay, HandoffInvariant
<1>2. disk' = disk \/ disk' = InState(state)
  BY DEF Persists, PersistFails
<1>3. QED
  BY <1>1, <1>2, HeadUnderWay

LEMMA StartSimulates ==
  ASSUME HandoffInvariant, HandoffInvariant',
         \/ StartRefused \/ StartIntent \/ RequestStart \/ AwaitStart \/ ReconcileStart
         \/ StartCompletes
  PROVE  Simulated
<1>1. Sound /\ Sound'
  BY DEF HandoffInvariant
<1>2. disk'.session = disk.session
  <2>1. CASE StartRefused \/ RequestStart \/ AwaitStart
    BY <2>1 DEF StartRefused, RequestStart, AwaitStart
  <2>2. CASE StartIntent
    BY <2>2, PersistsItsManifest DEF StartIntent, States
  <2>3. CASE ReconcileStart
    BY <2>3, PersistsItsManifest DEF ReconcileStart, States
  <2>4. CASE StartCompletes
    BY <2>4, PersistsItsManifest DEF StartCompletes, States
  <2>5. QED
    BY <2>1, <2>2, <2>3, <2>4
<1>3. Allowed(row') /\ UNCHANGED <<attached, jobs>>
  <2>1. CASE StartFails
    BY <1>1, <2>1, StartFailsShows
  <2>2. CASE UNCHANGED dbVars
    BY <2>2 DEF dbVars, Allowed
  <2>3. CASE StartCompletes /\ ~StartFails
    <3>1. /\ SetStatus(Head(queue).man.session, "recording") /\ UNCHANGED <<attached, jobs>>
          /\ UnderWay /\ Sound /\ Handed
      BY <2>3 DEF StartCompletes, Running, UnderWay, HandoffInvariant
    <3>2. disk.session = Head(queue).man.session
      BY <3>1, HeadUnderWay
    <3>3. QED
      BY <1>1, <3>1, <3>2, StatusShows DEF Statuses
  <2>4. QED
    BY <2>1, <2>2, <2>3 DEF StartRefused, StartIntent, RequestStart, AwaitStart, ReconcileStart
<1>4. QED
  BY <1>1, <1>2, <1>3, ShowSimulates

\* A step that changes neither rows nor recordings nor jobs may begin a recording and does
\* nothing else.
LEMMA ManifestSimulates ==
  ASSUME HandoffInvariant, HandoffInvariant', [Next]_vars, ~Overtaking, ~Acknowledge,
         UNCHANGED dbVars
  PROVE  Simulated
<1>1. Sound /\ Sound' /\ disk \in Manifest /\ disk' \in Manifest /\ UNCHANGED <<row, attached, jobs>>
  BY SoundParts DEF HandoffInvariant, ManifestTyped, dbVars
<1>2. Pends
  BY <1>1, StepIsOfOneSession DEF HandoffInvariant, Pends
<1>3. CASE disk'.session = disk.session
  BY <1>1, <1>3, ShowSimulates DEF Allowed
<1>4. CASE disk'.session # disk.session
  <2>1. disk'.session \notin Sessions => disk.session \notin Sessions
    BY <1>1, OnlyAcknowledgeGivesUp
  <2>2. disk = NoManifest /\ disk'.session \in Sessions
    BY <1>1, <1>2, <1>4, <2>1, ConstantsAssumption DEF Pends, Manifest, NoManifest
  <2>3. QED
    BY <1>1, <2>2, BeginSimulates DEF NoManifest
<1>5. QED
  BY <1>3, <1>4

LEMMA StartReadySimulates ==
  ASSUME HandoffInvariant, HandoffInvariant', [Next]_vars, ~Overtaking, StartReady
  PROVE  Simulated
<1>1. CASE StartFails /\ UNCHANGED disk
  BY <1>1, StartFailsShows, ShowSimulates DEF HandoffInvariant
<1>2. CASE UNCHANGED dbVars
  BY <1>2, ManifestSimulates DEF StartReady, Acknowledge, Running
<1>3. QED
  BY <1>1, <1>2 DEF StartReady, StartGoesOn

LEMMA RecoverSimulates ==
  ASSUME HandoffInvariant, HandoffInvariant', [Next]_vars, ~Overtaking, ~Acknowledge,
         NEW r \in Callers, Recover(r)
  PROVE  Simulated
<1>1. CASE LoadManifest(r) \/ QueryRecording(r) \/ DropRecovery(r)
  BY <1>1, ManifestSimulates DEF LoadManifest, QueryRecording, DropRecovery
<1>2. CASE NothingToRecover(r) \/ RecoveryThrows(r)
  <2>1. UNCHANGED <<disk, attached, jobs>> /\ (StartEnds(claim) \/ UNCHANGED row)
    BY <1>2 DEF NothingToRecover, RecoveryThrows, RecoveryFails, Callers
  <2>2. Allowed(row')
    BY <2>1, StartEndsShows DEF Allowed, HandoffInvariant
  <2>3. QED
    BY <2>1, <2>2, ShowSimulates DEF HandoffInvariant
<1>3. QED
  BY <1>1, <1>2, ApplySimulates DEF Recover

LEMMA StepSimulates ==
  ASSUME HandoffInvariant, HandoffInvariant', [Next]_vars, ~Overtaking
  PROVE  Simulated
<1>1. CASE Acknowledge
  BY <1>1, AcknowledgeSimulates
<1>2. CASE ~Acknowledge /\ UNCHANGED dbVars
  BY <1>2, ManifestSimulates
<1>3. ASSUME NEW r \in Callers, Recover(r), ~Acknowledge PROVE Simulated
  BY <1>3, RecoverSimulates
<1>4. CASE RunCommand /\ ~Acknowledge /\ ~UNCHANGED dbVars
  <2>1. \/ StartRefused \/ StartIntent \/ RequestStart \/ AwaitStart \/ ReconcileStart
        \/ StartCompletes \/ StartReady \/ StopHandsOff
    BY <1>4 DEF RunCommand, StopIntent, QueryStop, RequestStop, ReconcileStop, StopFinalizes,
       StopProbes, FinalizeRecovered, ProbeRecovered, Provision, StopFails
  <2>2. QED
    BY <2>1, StartSimulates, StartReadySimulates, StopHandsOffSimulates
<1>5. CASE DeleteEnds \/ Crash \/ CrashInHandoff
  BY <1>5, DeleteEndsSimulates, CrashSimulates DEF HandoffInvariant
<1>6. \/ Acknowledge \/ UNCHANGED dbVars \/ RunCommand \/ (\E r \in Callers : Recover(r))
      \/ DeleteEnds \/ Crash \/ CrashInHandoff
  BY DEF Next, vars, dbVars, Start, Delete, Stop, Connect, Disconnect, CancelConnect,
     AbortReconnect, Reconnect, EndReconnect, LoseConnection, ObsStops, ForeignRecording
<1>7. QED
  BY <1>1, <1>2, <1>3, <1>4, <1>5, <1>6

\* The recording implements Handoff: whatever starts, stops, recoveries, failures, deletions and
\* crashes do in whatever order, one recording is pending at a time, it is given to its session
\* and queued once and only while it is pending, and it is given up only when its job is there
\* or its session waits for nothing.
THEOREM RecordingImplementsHandoff == ASSUME ~Overtaking PROVE Spec => ImplementsHandoff
<1>1. (Init => HandoffInvariant) /\ (HandoffInvariant /\ [Next]_vars => HandoffInvariant')
  BY HandoffAlways
<1>2. Init => Promise!Init
  BY DEF Init, Promise!Init, Shown, NoManifest
<1>3. HandoffInvariant /\ HandoffInvariant' /\ [Next]_vars =>
        [Promise!Next]_<<disk.session, attached, jobs, Shown>>
  BY StepSimulates DEF Simulated
<1>4. QED
  BY <1>1, <1>2, <1>3, PTL DEF Spec, ImplementsHandoff, Promise!Spec

----------------------------------------------------------------------------
(* Which recording is lost.                                                *)

\* A start that was not answered finds OBS idle and is declared failed; but OBS recorded in
\* the meantime, and left a usable file.
DeclaresLost ==
  ReconcileStart /\ connected /\ obs = NoSession /\ Head(queue).man.session \in usable

\* The manifest of s says that OBS was not asked to record, or that its start failed.
Unasked == {"ready", "failed"}
Refused(s) == In(disk, s, Unasked) \/ In(mem, s, Unasked)

\* OBS records for no such manifest, and none is that of a usable recording: that one is named
\* by the manifest on disk, until its session has it.
IsKept(s) ==
  /\ Refused(s) => obs # s
  /\ s \in usable /\ s \notin attached /\ row[s] # "deleted" => disk.session = s /\ ~Refused(s)
UsableIsKept == \A s \in Sessions : IsKept(s)

\* A manifest that is not new, or says that OBS was asked.
Asked(m) == m \in {disk, mem, NoManifest} \/ m.state \notin Unasked

LEMMA AskedIsNotRefused ==
  ASSUME NEW s \in Sessions, Asked(disk'), Asked(mem'), Refused(s)' PROVE Refused(s)
  BY ConstantsAssumption DEF Asked, Refused, In, NoManifest

LEMMA StartsAsk ==
  ASSUME Sound, StartRefused \/ StartIntent \/ RequestStart \/ AwaitStart \/ StartCompletes
  PROVE  Asked(disk') /\ Asked(mem')
<1>1. CASE StartRefused \/ RequestStart \/ AwaitStart
  BY <1>1 DEF StartRefused, RequestStart, AwaitStart, Pending, Asked
<1>2. CASE StartIntent \/ StartCompletes
  <2>1. \E state \in {"start-intent", "recording"} : Persists(state) \/ PersistFails(state)
    BY <1>2 DEF StartIntent, StartCompletes
  <2>2. Running("start", "intent") \/ Running("start", "confirmed")
    BY <1>2 DEF StartIntent, StartCompletes
  <2>3. \A state : InState(state).state = state
    BY <2>2, SoundParts, HeadIsACommand DEF Running, InState, Manifest, NoManifest
  <2>4. QED
    BY <2>1, <2>3 DEF Persists, PersistFails, Remembered, Asked, Unasked
<1>3. QED
  BY <1>1, <1>2

LEMMA StopsAsk ==
  ASSUME Sound, StopIntent \/ QueryStop \/ RequestStop \/ ReconcileStop \/ StopFinalizes
                  \/ StopProbes \/ StopHandsOff \/ Acknowledge
  PROVE  Asked(disk') /\ Asked(mem')
<1>1. CASE QueryStop \/ RequestStop \/ ReconcileStop \/ StopHandsOff \/ Acknowledge
  BY <1>1 DEF QueryStop, RequestStop, ReconcileStop, StopHandsOff, Acknowledge, Asked
<1>2. CASE StopIntent
  <2>1. \/ UNCHANGED <<disk, mem>>
        \/ mem' = [mem EXCEPT !.state = "stop-intent"] /\ disk' \in {disk, mem'}
    BY <1>2 DEF StopIntent
  <2>2. mem \in Manifest
    BY SoundParts DEF ManifestTyped
  <2>3. QED
    BY <2>1, <2>2 DEF Asked, Unasked, Manifest, NoManifest
<1>3. CASE StopFinalizes \/ StopProbes
  <2>1. \/ UNCHANGED <<disk, mem>>
        \/ \E state \in {"finalizing", "complete"} : Persists(state) \/ PersistFails(state)
    BY <1>3 DEF StopFinalizes, StopProbes
  <2>2. Running("stop", "stopped") \/ Running("stop", "probe")
    BY <1>3 DEF StopFinalizes, StopProbes
  <2>3. \A state : InState(state).state = state
    BY <2>2, SoundParts, HeadIsACommand DEF Running, InState, Manifest, NoManifest
  <2>4. QED
    BY <2>1, <2>3 DEF Persists, PersistFails, Remembered, Asked, Unasked
<1>4. QED
  BY <1>1, <1>2, <1>3

LEMMA AwaitedAsk ==
  ASSUME Sound, FinalizeRecovered \/ ProbeRecovered \/ Provision
  PROVE  Asked(disk') /\ Asked(mem')
<1>1. CASE Provision
  BY <1>1 DEF Provision, Asked
<1>2. CASE FinalizeRecovered
  <2>1. Head(queue).who \in Callers /\ recovery[Head(queue).who].man \in Manifest
    BY <1>2, SoundParts, AwaitedHead DEF FinalizeRecovered, Running, Awaited, QueueSound, Recovery
  <2>2. mem' = [recovery[Head(queue).who].man EXCEPT !.state = "finalizing"] /\ disk' \in {disk, mem'}
    BY <1>2 DEF FinalizeRecovered
  <2>3. mem'.state = "finalizing"
    BY <2>1, <2>2 DEF Manifest, NoManifest
  <2>4. QED
    BY <2>2, <2>3 DEF Asked, Unasked
<1>3. CASE ProbeRecovered
  <2>1. \E state \in {"complete", "interrupted"} : Persists(state) \/ PersistFails(state)
    BY <1>3 DEF ProbeRecovered
  <2>2. Running("finalize", "probe")
    BY <1>3 DEF ProbeRecovered
  <2>3. \A state : InState(state).state = state
    BY <2>2, SoundParts, HeadIsACommand DEF Running, InState, Manifest, NoManifest
  <2>4. QED
    BY <2>1, <2>3 DEF Persists, PersistFails, Remembered, Asked, Unasked
<1>4. QED
  BY <1>1, <1>2, <1>3

\* The steps of a recovery but the one that finds that OBS was never asked.
LEMMA RecoveryAsks ==
  ASSUME Sound, NEW r \in Callers, Recover(r),
         ~(obs = NoSession /\ recovery[r].pc = "query" /\ recovery[r].man.state = "ready")
  PROVE  Asked(disk') /\ Asked(mem')
<1>1. CASE RecoveryThrows(r) \/ NothingToRecover(r) \/ DropRecovery(r) \/ ApplyRecovery(r)
  BY <1>1 DEF RecoveryThrows, RecoveryFails, NothingToRecover, DropRecovery, ApplyRecovery, Asked
<1>2. CASE LoadManifest(r)
  BY <1>2 DEF LoadManifest, Attaches, Asked
<1>3. CASE QueryRecording(r)
  <2>1. \/ UNCHANGED <<disk, mem>>
        \/ /\ mem' = disk'
           /\ disk' = [recovery[r].man EXCEPT !.state = IF @ = "stop-intent" THEN @ ELSE "recording"]
    BY <1>3 DEF QueryRecording, Attaches
  <2>2. recovery[r].man \in Manifest
    BY SoundParts DEF QueueSound, Recovery
  <2>3. QED
    BY <2>1, <2>2 DEF Asked, Unasked, Manifest, NoManifest
<1>4. QED
  BY <1>1, <1>2, <1>3 DEF Recover

LEMMA OthersAsk ==
  ASSUME [Next]_vars, ~RunCommand, \A r \in Callers : ~Recover(r)
  PROVE  Asked(disk') /\ Asked(mem')
  BY DEF Next, vars, Start, Delete, Stop, Connect, Disconnect, CancelConnect,
     AbortReconnect, Reconnect, EndReconnect, LoseConnection, ObsStops, ForeignRecording,
     DeleteEnds, Crash, CrashInHandoff, Restarts, Asked

\* A manifest becomes one of a start that was not asked for or failed while OBS is idle: a
\* first one, or that of a start under way, which is not that of a usable recording.
LEMMA RefusedOfIdle ==
  ASSUME HandoffInvariant, [Next]_vars, ~DeclaresLost, NEW s \in Sessions, Refused(s)', ~Refused(s)
  PROVE  obs' = NoSession /\ (s \in usable => disk.session # s)
<1>1. Sound /\ Handed /\ QueueSound /\ ManifestTyped
  BY SoundParts DEF HandoffInvariant
<1>2. ~(Asked(disk') /\ Asked(mem'))
  BY AskedIsNotRefused
<1>3. CASE StartReady
  <2>1. obs' = NoSession
    BY <1>3 DEF StartReady, StartFails, obsVars
  <2>2. disk = NoManifest
    BY <1>3 DEF StartReady, Pending
  <2>3. QED
    BY <2>1, <2>2, ConstantsAssumption DEF NoManifest
<1>4. CASE ReconcileStart
  <2>1. /\ connected /\ obs = NoSession /\ obs' = NoSession
        /\ Persists("failed") \/ PersistFails("failed")
    BY <1>2, <1>4 DEF ReconcileStart, StartFails, obsVars, Asked
  <2>2. Head(queue).man.session \notin usable
    BY <1>4, <2>1 DEF DeclaresLost
  <2>3. UnderWay
    BY <1>4 DEF ReconcileStart, Running, UnderWay
  <2>4. disk = Head(queue).man
    BY <1>1, <2>3 DEF Handed, HeldIsKept
  <2>5. QED
    BY <2>1, <2>2, <2>4
<1>5. ASSUME NEW r \in Callers, Recover(r)
      PROVE  obs' = NoSession /\ (s \in usable => disk.session # s)
  <2>1. obs = NoSession /\ recovery[r].pc = "query" /\ recovery[r].man.state = "ready"
    BY <1>1, <1>2, <1>5, RecoveryAsks
  <2>2. obs' = NoSession
    BY <1>5, <2>1 DEF Recover, NothingToRecover, LoadManifest, RecoveryThrows, RecoveryFails,
       QueryRecording, ApplyRecovery, DropRecovery, obsVars
  <2>3. disk \in {NoManifest, recovery[r].man}
    BY <1>1, <2>1 DEF Handed, OneRecovers
  <2>4. disk.session # s
    BY <2>1, <2>3, ConstantsAssumption DEF Refused, In, Unasked, NoManifest
  <2>5. QED
    BY <2>2, <2>4
<1>6. CASE RunCommand
  <2>1. StartReady \/ ReconcileStart
    BY <1>1, <1>2, <1>6, StartsAsk, StopsAsk, AwaitedAsk DEF RunCommand
  <2>2. QED
    BY <1>3, <1>4, <2>1
<1>7. QED
  BY <1>2, <1>5, <1>6, OthersAsk

\* What changes OBS and the files it leaves.
LEMMA OBSChanges ==
  ASSUME [Next]_vars, <<obs, usable>>' # <<obs, usable>>
  PROVE  \/ RequestStart /\ obs' = Head(queue).man.session /\ usable' = usable
         \/ obs' = Elsewhere /\ usable' = usable
         \/ /\ (ObsStops \/ RequestStop) /\ OutputEnds
            /\ UNCHANGED <<disk, mem, attached, row>>
         \/ obs' = obs /\ usable' = usable \ {deleting}
<1>1. CASE ObsStops \/ ForeignRecording \/ DeleteEnds
  BY <1>1 DEF ObsStops, ForeignRecording, DeleteEnds, dbVars
<1>2. CASE RequestStart
  BY <1>2 DEF RequestStart
<1>3. CASE RequestStop
  BY <1>3 DEF RequestStop, dbVars
<1>4. RunCommand => RequestStart \/ RequestStop
  BY DEF RunCommand, StartRefused, StartReady, StartIntent, AwaitStart, ReconcileStart,
     StartCompletes, StartFails, StartGoesOn, StopIntent, QueryStop, ReconcileStop,
     StopFinalizes, StopProbes, StopHandsOff, StopFails, Acknowledge, FinalizeRecovered,
     ProbeRecovered, Provision, obsVars
<1>5. \A r \in Callers : ~Recover(r)
  BY DEF Recover, NothingToRecover, LoadManifest, RecoveryThrows, RecoveryFails,
     QueryRecording, ApplyRecovery, DropRecovery, obsVars
<1>6. ~RunCommand => ObsStops \/ ForeignRecording \/ DeleteEnds
  BY <1>5 DEF Next, vars, Start, Delete, Stop, Connect, Disconnect, CancelConnect,
     AbortReconnect, Reconnect, EndReconnect, LoseConnection, Crash, CrashInHandoff, Restarts,
     obsVars
<1>7. QED
  BY <1>1, <1>2, <1>3, <1>4, <1>6

\* A session that has its recording, or was deleted, does not come back as one without.
LEMMA NotTakenBack ==
  ASSUME HandoffInvariant, HandoffInvariant', [Next]_vars, ~Overtaking, NEW s \in Sessions,
         s \notin attached', row'[s] # "deleted"
  PROVE  s \notin attached /\ row[s] # "deleted"
<1>1. Shown[s] = "deleted" <=> row[s] = "deleted"
  BY DEF Shown
<1>2. Shown'[s] = "deleted" <=> row'[s] = "deleted"
  BY DEF Shown
<1>3. Simulated
  BY StepSimulates
<1>4. CASE UNCHANGED <<attached, Shown>>
  BY <1>1, <1>2, <1>4
<1>5. CASE Promise!Shows /\ (attached' = attached \/ \E t \in Sessions : attached' = attached \cup {t})
  BY <1>1, <1>2, <1>5 DEF Promise!Shows
<1>6. ASSUME NEW t \in Sessions, Promise!Discard(t) PROVE s \notin attached /\ row[s] # "deleted"
  <2>1. /\ attached' = attached \ {t} /\ Shown' = [Shown EXCEPT ![t] = "deleted"]
        /\ DOMAIN Shown = Sessions
    BY <1>6 DEF Promise!Discard, Shown
  <2>2. s # t
    BY <1>2, <2>1
  <2>3. QED
    BY <1>1, <1>2, <2>1, <2>2
<1>7. QED
  BY <1>3, <1>4, <1>5, <1>6
     DEF Simulated, Promise!Next, Promise!Begin, Promise!HandOff, Promise!GiveUp

\* The manifest of a recording that its session does not have is given up only by a session
\* whose start failed.
LEMMA GivenUpIsRefused ==
  ASSUME HandoffInvariant, ~Overtaking, [Next]_vars, NEW s \in Sessions,
         s \notin attached, row[s] # "deleted", disk.session = s, disk'.session # s
  PROVE  Refused(s)
<1>1. /\ Sound /\ OfOneSession /\ Handed /\ QueueSound /\ AckIsLate(s)
  BY SoundParts DEF HandoffInvariant, Handed, SessionsHold
<1>2. disk # NoManifest /\ disk'.session \notin Sessions
  BY <1>1, StepIsOfOneSession, ConstantsAssumption DEF NoManifest
<1>3. Acknowledge
  BY <1>1, <1>2, OnlyAcknowledgeGivesUp
<1> DEFINE m == IF mem = NoManifest THEN disk ELSE mem
<1>4. queue # <<>> /\ m.session = s /\ m.state \in FinalStates /\ Is(Head(queue), "acknowledge", s)
  BY <1>1, <1>2, <1>3, OneSessionAgrees DEF Acknowledge, Running, Agree, Is
<1>5. ~In(disk, s, Over) /\ ~In(mem, s, Over)
  BY <1>1, <1>4, HeadStandsFirst DEF AckIsLate
<1>6. m.state = "failed" /\ m \in {disk, mem}
  BY <1>4, <1>5 DEF In, Over, FinalStates
<1>7. QED
  BY <1>4, <1>6 DEF Refused, In, Unasked

LEMMA UsableStaysKept ==
  ASSUME HandoffInvariant, HandoffInvariant', UsableIsKept, [Next]_vars, ~DeclaresLost, ~Overtaking
  PROVE  UsableIsKept'
<1>1. SUFFICES ASSUME NEW s \in Sessions PROVE IsKept(s)'
  BY DEF UsableIsKept
<1>2. Sound /\ Handed /\ IsKept(s)
  BY DEF HandoffInvariant, UsableIsKept
<1>3. Refused(s)' => obs' # s
  <2>1. SUFFICES ASSUME Refused(s)', obs' = s PROVE FALSE
    OBVIOUS
  <2>2. Refused(s) /\ obs # s
    BY <1>2, <2>1, RefusedOfIdle, ConstantsAssumption DEF IsKept
  <2>3. RequestStart /\ s = Head(queue).man.session
    BY <2>1, <2>2, OBSChanges, ConstantsAssumption DEF OutputEnds
  <2>4. UnderWay /\ Head(queue).kind = "start" /\ Head(queue).pc = "request"
    BY <2>3 DEF RequestStart, Running, UnderWay
  <2>5. disk.state = "start-intent" /\ mem.state = "start-intent"
    BY <1>2, <2>4 DEF Handed, HeldIsKept, StateAt
  <2>6. QED
    BY <2>2, <2>5 DEF Refused, In, Unasked
<1>4. ASSUME s \in usable', s \notin attached', row'[s] # "deleted"
      PROVE  disk'.session = s /\ ~Refused(s)'
  <2>1. s \notin attached /\ row[s] # "deleted"
    BY <1>4, NotTakenBack
  <2>2. s \notin usable => obs = s /\ UNCHANGED <<disk, mem>>
    BY <1>4, OBSChanges DEF OutputEnds
  <2>3. disk.session = s /\ ~Refused(s)
    BY <1>2, <2>1, <2>2 DEF IsKept, Handed, ManifestBeforeRecording
  <2>4. disk'.session = s
    BY <2>1, <2>3, GivenUpIsRefused
  <2>5. ~Refused(s)'
    BY <2>2, <2>3, RefusedOfIdle DEF Refused
  <2>6. QED
    BY <2>4, <2>5
<1>5. QED
  BY <1>3, <1>4 DEF IsKept

\* One step alone loses a usable recording: unless a start is declared failed whose recording
\* OBS has begun and ended in the meantime, every usable recording is attached to its session
\* or named by the manifest on disk, whatever fails, crashes and is recovered.
THEOREM OnlyADeclaredFailureLoses ==
  ASSUME ~Overtaking
  PROVE  Spec /\ [][~DeclaresLost]_vars => []AcknowledgedOnlyAfterHandoff
<1>1. (Init => HandoffInvariant) /\ (HandoffInvariant /\ [Next]_vars => HandoffInvariant')
  BY HandoffAlways
<1>2. ASSUME Init PROVE UsableIsKept
  <2>1. usable = {} /\ disk.state = "none" /\ mem.state = "none"
    BY <1>2 DEF Init, NoManifest
  <2>2. QED
    BY <2>1 DEF UsableIsKept, IsKept, Refused, In, Unasked
<1>3. HandoffInvariant /\ HandoffInvariant' /\ UsableIsKept /\ [Next]_vars /\ [~DeclaresLost]_vars
        => UsableIsKept'
  <2>1. CASE UNCHANGED vars
    BY <2>1 DEF vars, UsableIsKept, IsKept, Refused, In
  <2>2. QED
    BY <2>1, UsableStaysKept
<1>4. HandoffInvariant /\ UsableIsKept => AcknowledgedOnlyAfterHandoff
  BY SoundParts DEF HandoffInvariant, OBSTyped, UsableIsKept, IsKept, AcknowledgedOnlyAfterHandoff
<1>5. QED
  BY <1>1, <1>2, <1>3, <1>4, PTL DEF Spec

=============================================================================
