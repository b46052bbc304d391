------------------------ MODULE SummaryEngineProofs ------------------------
(***************************************************************************)
(* What SummaryEngine promises for transcripts of any length, any budget   *)
(* of a chunk and any answers: the drafts of a meeting stay grounded, the  *)
(* chapters of a lecture are complete and in order.  The first part is     *)
(* about sequences that are built step by step.                            *)
(***************************************************************************)
EXTENDS SummaryEngine, WellFoundedInduction, TLAPS

EngineConstants ==
  Lines \subseteq Seq(Nat) /\ Budget \in Nat /\ Tags \in Nat /\ Tags < Budget
  /\ Floor \in Nat /\ MaxChapters \in Nat

----------------------------------------------------------------------------
(* Recursion over an index.                                                *)

\* Every set of numbers has a least one: an induction that needs no predicate.
LEMMA Least ==
  ASSUME NEW S \in SUBSET Nat, S # {}
  PROVE  \E m \in S : \A k \in S : m <= k
<1>1. PICK m \in S : \A y \in S : ~(<<y, m>> \in OpToRel(<, Nat))
  BY WFMin, NatLessThanWellFounded
<1>2. \A y \in S : ~(y < m)
  BY <1>1 DEF OpToRel
<1>3. QED
  BY <1>2

LEMMA Induction ==
  ASSUME NEW N \in Nat, NEW S, 0 \in S, \A n \in 1..N : n - 1 \in S => n \in S
  PROVE  \A n \in 0..N : n \in S
<1> DEFINE Bad == {n \in 0..N : n \notin S}
<1>1. SUFFICES ASSUME Bad # {} PROVE FALSE
  OBVIOUS
<1>2. Bad \in SUBSET Nat
  OBVIOUS
<1>3. PICK m \in Bad : \A k \in Bad : m <= k
  <2> HIDE DEF Bad
  <2>1. QED
    BY <1>1, <1>2, Least
<1>4. m \in 1..N /\ m - 1 \in 0..N /\ m \notin S
  BY <1>3
<1>5. m - 1 \notin Bad
  BY <1>3, <1>4
<1>6. QED
  BY <1>4, <1>5

\* A sequence of values, each made of the one before by a step.
Runs(f, N, X, base, step) ==
  /\ f \in [0..N -> X] /\ f[0] = base
  /\ \A n \in 1..N : f[n] = step[<<n, f[n - 1]>>]

LEMMA Recursion ==
  ASSUME NEW N \in Nat, NEW X, NEW base \in X, NEW step \in [(1..N) \X X -> X]
  PROVE  \E f : Runs(f, N, X, base, step)
<1> DEFINE Good == {n \in 0..N : \E f : Runs(f, n, X, base, step)}
<1>1. 0 \in Good
  <2>1. Runs([i \in 0..0 |-> base], 0, X, base, step)
    BY DEF Runs
  <2>2. QED
    BY <2>1
<1>2. ASSUME NEW m \in 1..N, m - 1 \in Good PROVE m \in Good
  <2>1. PICK f : Runs(f, m - 1, X, base, step)
    BY <1>2
  <2> DEFINE g == [i \in 0..m |-> IF i = m THEN step[<<m, f[m - 1]>>] ELSE f[i]]
  <2>2. m - 1 \in 0..(m - 1) /\ f[m - 1] \in X
    BY <2>1 DEF Runs
  <2>3. step[<<m, f[m - 1]>>] \in X
    BY <2>2
  <2>4. g \in [0..m -> X] /\ g[0] = base
    BY <2>1, <2>3 DEF Runs
  <2>5. ASSUME NEW n \in 1..m PROVE g[n] = step[<<n, g[n - 1]>>]
    <3>1. n - 1 \in 0..m /\ n - 1 # m /\ n \in 0..m
      OBVIOUS
    <3>2. g[n - 1] = f[n - 1]
      BY <3>1
    <3>3. CASE n = m
      BY <3>1, <3>2, <3>3
    <3>4. CASE n # m
      <4>1. n \in 1..(m - 1)
        BY <3>4
      <4>2. f[n] = step[<<n, f[n - 1]>>]
        BY <2>1, <4>1 DEF Runs
      <4>3. g[n] = f[n]
        BY <3>1, <3>4
      <4>4. QED
        BY <3>2, <4>2, <4>3
    <3>5. QED
      BY <3>3, <3>4
  <2>6. Runs(g, m, X, base, step)
    <3> HIDE DEF g
    <3>1. QED
      BY <2>4, <2>5 DEF Runs
  <2>7. QED
    BY <2>6
<1>3. \A n \in 0..N : n \in Good
  <2> HIDE DEF Good
  <2>1. QED
    BY <1>1, <1>2, Induction
<1>4. N \in Good
  BY <1>3
<1>5. QED
  BY <1>4

----------------------------------------------------------------------------
(* FlattenSeq().                                                           *)

\* f has the concatenations of the first n sequences.
Joins(f, ss, n) ==
  f[0] = <<>> /\ \A i \in 1..n : f[i] = f[i - 1] \o ss[i]

LEMMA JoinsAgree ==
  ASSUME NEW n \in Nat, NEW f, NEW g, NEW ss, NEW ts, Joins(f, ss, n), Joins(g, ts, n),
         \A i \in 1..n : ss[i] = ts[i]
  PROVE  f[n] = g[n]
<1> DEFINE Same == {i \in 0..n : f[i] = g[i]}
<1>1. 0 \in Same
  BY DEF Joins
<1>2. ASSUME NEW i \in 1..n, i - 1 \in Same PROVE i \in Same
  <2>1. f[i] = f[i - 1] \o ss[i] /\ g[i] = g[i - 1] \o ts[i]
    BY DEF Joins
  <2>2. f[i - 1] = g[i - 1] /\ ss[i] = ts[i]
    BY <1>2
  <2>3. f[i] = g[i]
    BY <2>1, <2>2, Zenon
  <2>4. QED
    BY <2>3
<1>3. n \in Same
  <2> HIDE DEF Same
  <2>1. QED
    BY <1>1, <1>2, Induction
<1>4. QED
  BY <1>3

LEMMA JoinEmpty ==
  ASSUME NEW S, NEW s \in Seq(S) PROVE <<>> \o s = s /\ s \o <<>> = s
OBVIOUS

LEMMA FlattenJoins ==
  ASSUME NEW S, NEW ss \in Seq(Seq(S))
  PROVE  \E f \in [0..Len(ss) -> Seq(S)] : Joins(f, ss, Len(ss)) /\ FlattenSeq(ss) = f[Len(ss)]
<1> DEFINE N == Len(ss)
           step == [p \in (1..N) \X Seq(S) |-> p[2] \o ss[p[1]]]
           Flat(flatten) ==
             [i \in 1..N |-> IF i = 1 THEN ss[i] ELSE flatten[i - 1] \o ss[i]]
           flat == CHOOSE flatten : flatten = Flat(flatten)
<1>1. N \in Nat /\ \A i \in 1..N : ss[i] \in Seq(S)
  OBVIOUS
<1>2. step \in [(1..N) \X Seq(S) -> Seq(S)]
  <2>1. ASSUME NEW p \in (1..N) \X Seq(S) PROVE p[2] \o ss[p[1]] \in Seq(S)
    <3>1. p[2] \in Seq(S) /\ ss[p[1]] \in Seq(S)
      OBVIOUS
    <3>2. QED
      BY <3>1
  <2>2. QED
    BY <2>1
<1>3. <<>> \in Seq(S)
  OBVIOUS
<1>4. PICK f : Runs(f, N, Seq(S), <<>>, step)
  <2> HIDE DEF N, step
  <2>1. QED
    BY <1>1, <1>2, <1>3, Recursion
<1>5. /\ f \in [0..N -> Seq(S)] /\ f[0] = <<>>
      /\ \A i \in 1..N : f[i] = f[i - 1] \o ss[i]
  <2>1. f \in [0..N -> Seq(S)] /\ f[0] = <<>> /\ \A i \in 1..N : f[i] = step[<<i, f[i - 1]>>]
    BY <1>4 DEF Runs
  <2>2. ASSUME NEW i \in 1..N PROVE step[<<i, f[i - 1]>>] = f[i - 1] \o ss[i]
    <3>1. i - 1 \in 0..N
      BY <1>1
    <3>2. f[i - 1] \in Seq(S)
      BY <2>1, <3>1
    <3>3. QED
      BY <3>2
  <2>3. QED
    BY <2>1, <2>2
<1>6. Joins(f, ss, N)
  BY <1>5 DEF Joins
<1>7. CASE N = 0
  <2>1. FlattenSeq(ss) = <<>>
    BY <1>7 DEF FlattenSeq
  <2>2. QED
    BY <1>5, <1>6, <1>7, <2>1
<1>8. CASE N # 0
  <2>1. FlattenSeq(ss) = flat[N]
    BY <1>8 DEF FlattenSeq
  <2> DEFINE g == [i \in 1..N |-> f[i]]
  <2>2. g = Flat(g)
    <3>1. ASSUME NEW i \in 1..N
          PROVE  g[i] = IF i = 1 THEN ss[i] ELSE g[i - 1] \o ss[i]
      <4>1. f[i] = f[i - 1] \o ss[i] /\ ss[i] \in Seq(S) /\ g[i] = f[i]
        BY <1>1, <1>5
      <4>2. CASE i = 1
        <5>1. f[i - 1] = <<>>
          BY <1>5, <4>2
        <5>2. QED
          BY <4>1, <4>2, <5>1, JoinEmpty
      <4>3. CASE i # 1
        <5>1. i - 1 \in 1..N
          BY <1>1, <4>3
        <5>2. QED
          BY <4>1, <4>3, <5>1
      <4>4. QED
        BY <4>2, <4>3
    <3>2. QED
      BY <3>1
  <2>3. flat = Flat(flat)
    BY <2>2
  <2> DEFINE h == [i \in 0..N |-> IF i = 0 THEN <<>> ELSE flat[i]]
  <2>4. Joins(h, ss, N)
    <3>1. ASSUME NEW i \in 1..N PROVE h[i] = h[i - 1] \o ss[i]
      <4>1. flat[i] = IF i = 1 THEN ss[i] ELSE flat[i - 1] \o ss[i]
        BY <2>3
      <4>2. i - 1 \in 0..N /\ i \in 0..N /\ ss[i] \in Seq(S)
        BY <1>1, SMTT(30)
      <4>3. CASE i = 1
        <5>1. h[i - 1] = <<>> /\ h[i] = ss[i]
          BY <4>1, <4>2, <4>3, SMTT(30)
        <5>2. QED
          BY <4>2, <5>1, JoinEmpty
      <4>4. CASE i # 1
        <5>1. h[i - 1] = flat[i - 1] /\ h[i] = flat[i]
          BY <4>2, <4>4
        <5>2. QED
          BY <4>1, <4>4, <5>1
      <4>5. QED
        BY <4>3, <4>4
    <3>2. h[0] = <<>>
      BY <1>1
    <3> HIDE DEF h
    <3>3. QED
      BY <3>1, <3>2 DEF Joins
  <2>5. h[N] = flat[N]
    BY <1>1, <1>8
  <2> HIDE DEF h, flat, N
  <2>6. h[N] = f[N]
    BY <1>1, <1>6, <2>4, JoinsAgree
  <2>7. FlattenSeq(ss) = f[N]
    BY <2>1, <2>5, <2>6
  <2>8. QED
    BY <1>5, <1>6, <2>7 DEF N
<1>9. QED
  BY <1>7, <1>8

LEMMA JoinType ==
  ASSUME NEW S, NEW s \in Seq(S), NEW t \in Seq(S)
  PROVE  s \o t \in Seq(S) /\ Len(s \o t) = Len(s) + Len(t)
OBVIOUS

LEMMA JoinAssociates ==
  ASSUME NEW S, NEW r \in Seq(S), NEW s \in Seq(S), NEW t \in Seq(S)
  PROVE  (r \o s) \o t = r \o (s \o t)
OBVIOUS

LEMMA EqualSeqs ==
  ASSUME NEW S, NEW s \in Seq(S), NEW t \in Seq(S), Len(s) = Len(t),
         \A k \in 1..Len(s) : s[k] = t[k]
  PROVE  s = t
OBVIOUS

LEMMA FlattenType ==
  ASSUME NEW S, NEW ss \in Seq(Seq(S)) PROVE FlattenSeq(ss) \in Seq(S)
<1>1. PICK f \in [0..Len(ss) -> Seq(S)] : FlattenSeq(ss) = f[Len(ss)]
  BY FlattenJoins
<1>2. Len(ss) \in 0..Len(ss)
  OBVIOUS
<1>3. QED
  BY <1>1, <1>2

LEMMA FlattenEmpty == FlattenSeq(<<>>) = <<>>
  BY DEF FlattenSeq

LEMMA FlattenAppend ==
  ASSUME NEW S, NEW ss \in Seq(Seq(S)), NEW s \in Seq(S)
  PROVE  FlattenSeq(Append(ss, s)) = FlattenSeq(ss) \o s
<1> DEFINE N == Len(ss)
           ts == Append(ss, s)
<1>1. /\ N \in Nat /\ ts \in Seq(Seq(S)) /\ Len(ts) = N + 1 /\ ts[N + 1] = s
      /\ \A i \in 1..N : ts[i] = ss[i]
  OBVIOUS
<1>2. PICK f \in [0..N -> Seq(S)] : Joins(f, ss, N) /\ FlattenSeq(ss) = f[N]
  BY FlattenJoins
<1> HIDE DEF ts, N
<1>3. PICK g \in [0..Len(ts) -> Seq(S)] :
        Joins(g, ts, Len(ts)) /\ FlattenSeq(ts) = g[Len(ts)]
  BY <1>1, FlattenJoins
<1>4. Joins(g, ts, N) /\ g[N + 1] = g[N] \o s
  <2>1. g[0] = <<>> /\ \A i \in 1..(N + 1) : g[i] = g[i - 1] \o ts[i]
    BY <1>1, <1>3 DEF Joins
  <2>2. N + 1 \in 1..(N + 1) /\ (N + 1) - 1 = N /\ \A i \in 1..N : i \in 1..(N + 1)
    BY <1>1
  <2>3. g[N + 1] = g[N] \o s
    BY <1>1, <2>1, <2>2
  <2>4. \A i \in 1..N : g[i] = g[i - 1] \o ts[i]
    BY <2>1, <2>2
  <2>5. QED
    BY <2>1, <2>3, <2>4 DEF Joins
<1>5. f[N] = g[N]
  BY <1>1, <1>2, <1>4, JoinsAgree
<1>6. QED
  BY <1>1, <1>2, <1>3, <1>4, <1>5 DEF ts

\* Sequences of one element each.
LEMMA FlattenOnes ==
  ASSUME NEW S, NEW s \in Seq(S)
  PROVE  FlattenSeq([i \in 1..Len(s) |-> <<s[i]>>]) = s
<1> DEFINE N == Len(s)
           ss == [i \in 1..N |-> <<s[i]>>]
<1>1. N \in Nat /\ ss \in Seq(Seq(S)) /\ Len(ss) = N /\ \A i \in 1..N : s[i] \in S
  OBVIOUS
<1>2. \A i \in 1..N : ss[i] = <<s[i]>>
  OBVIOUS
<1> HIDE DEF ss
<1>3. PICK f \in [0..N -> Seq(S)] : Joins(f, ss, N) /\ FlattenSeq(ss) = f[N]
  BY <1>1, FlattenJoins
<1> DEFINE Good == {n \in 0..N : Len(f[n]) = n /\ \A k \in 1..n : f[n][k] = s[k]}
<1> HIDE DEF N
<1>4. 0 \in Good
  BY <1>1, <1>3 DEF Joins
<1>5. ASSUME NEW n \in 1..N, n - 1 \in Good PROVE n \in Good
  <2>1. f[n] = f[n - 1] \o <<s[n]>>
    BY <1>2, <1>3 DEF Joins
  <2>2. n \in Nat /\ n - 1 \in 0..N /\ f[n - 1] \in Seq(S) /\ s[n] \in S
    BY <1>1, <1>3
  <2>3. Len(f[n - 1]) = n - 1 /\ \A k \in 1..(n - 1) : f[n - 1][k] = s[k]
    BY <1>5
  <2>4. Len(f[n]) = n
    BY <2>1, <2>2, <2>3
  <2>5. \A k \in 1..n : f[n][k] = s[k]
    BY <2>1, <2>2, <2>3
  <2>6. QED
    BY <1>1, <2>4, <2>5
<1>6. N \in Good
  <2> HIDE DEF Good
  <2>1. N \in Nat
    BY <1>1
  <2>2. \A n \in 0..N : n \in Good
    BY <1>4, <1>5, <2>1, Induction
  <2>3. QED
    BY <2>1, <2>2
<1>7. f[N] \in Seq(S) /\ Len(f[N]) = N /\ \A k \in 1..N : f[N][k] = s[k]
  BY <1>1, <1>3, <1>6
<1>8. f[N] = s
  <2>1. N = Len(s)
    BY DEF N
  <2>2. QED
    BY <1>7, <2>1, EqualSeqs
<1>9. QED
  BY <1>3, <1>8 DEF ss, N

\* What is done to the elements may be done after.  (Joined keeps \o out of the provers' way.)
Joined(u, s, t) == u = s \o t

MapOf(M, s) == [j \in 1..Len(s) |-> M[s[j]]]

LEMMA MapType ==
  ASSUME NEW S, NEW T, NEW M, \A x \in S : M[x] \in T, NEW s \in Seq(S)
  PROVE  MapOf(M, s) \in Seq(T) /\ Len(MapOf(M, s)) = Len(s)
<1>1. Len(s) \in Nat /\ \A j \in 1..Len(s) : s[j] \in S
  OBVIOUS
<1>2. \A j \in 1..Len(s) : M[s[j]] \in T
  BY <1>1
<1>3. QED
  BY <1>1, <1>2 DEF MapOf

LEMMA MapLength ==
  ASSUME NEW M, NEW s, Len(s) \in Nat PROVE Len(MapOf(M, s)) = Len(s)
BY DEF MapOf

LEMMA MapJoin ==
  ASSUME NEW S, NEW M
  PROVE  \A s, t \in Seq(S) : \A u, v :
           Joined(u, s, t) /\ Joined(v, MapOf(M, s), MapOf(M, t)) => v = MapOf(M, u)
<1> DEFINE T == {M[x] : x \in S}
<1>0. \A x \in S : M[x] \in T
  OBVIOUS
<1> HIDE DEF T
<1> SUFFICES ASSUME NEW s \in Seq(S), NEW t \in Seq(S)
             PROVE  MapOf(M, s \o t) = MapOf(M, s) \o MapOf(M, t)
  BY DEF Joined
<1>1. Len(s) \in Nat /\ Len(t) \in Nat /\ s \o t \in Seq(S) /\ Len(s \o t) = Len(s) + Len(t)
  OBVIOUS
<1>2. MapOf(M, s) \in Seq(T) /\ MapOf(M, t) \in Seq(T) /\ MapOf(M, s \o t) \in Seq(T)
  BY <1>0, <1>1, MapType
<1>3. /\ Len(MapOf(M, s)) = Len(s) /\ Len(MapOf(M, t)) = Len(t)
      /\ Len(MapOf(M, s \o t)) = Len(s) + Len(t)
  <2> DEFINE u == s \o t
  <2>0. Len(u) \in Nat
    BY <1>1
  <2>1. Len(MapOf(M, u)) = Len(u)
    <3> HIDE DEF u
    <3>1. QED
      BY <2>0, MapLength
  <2>2. Len(MapOf(M, s)) = Len(s) /\ Len(MapOf(M, t)) = Len(t)
    BY <1>1, MapLength
  <2>3. QED
    BY <1>1, <2>1, <2>2
<1>4. ASSUME NEW k \in 1..(Len(s) + Len(t))
      PROVE  MapOf(M, s \o t)[k] = (MapOf(M, s) \o MapOf(M, t))[k]
  <2>1. MapOf(M, s \o t)[k] = M[(s \o t)[k]]
    BY <1>1 DEF MapOf
  <2>2. CASE k <= Len(s)
    <3>1. (s \o t)[k] = s[k] /\ k \in 1..Len(s)
      BY <1>1, <2>2
    <3>2. (MapOf(M, s) \o MapOf(M, t))[k] = MapOf(M, s)[k]
      BY <1>1, <1>2, <1>3, <2>2
    <3>3. QED
      BY <2>1, <3>1, <3>2 DEF MapOf
  <2>3. CASE k > Len(s)
    <3>1. (s \o t)[k] = t[k - Len(s)] /\ k - Len(s) \in 1..Len(t)
      BY <1>1, <2>3
    <3>2. (MapOf(M, s) \o MapOf(M, t))[k] = MapOf(M, t)[k - Len(s)]
      BY <1>1, <1>2, <1>3, <2>3
    <3>3. QED
      BY <2>1, <3>1, <3>2 DEF MapOf
  <2>4. k \in Int /\ (k <= Len(s) \/ k > Len(s))
    BY <1>1
  <2>5. QED
    BY <2>2, <2>3, <2>4
<1>5. MapOf(M, s) \o MapOf(M, t) \in Seq(T)
      /\ Len(MapOf(M, s) \o MapOf(M, t)) = Len(s) + Len(t)
  <2>1. /\ MapOf(M, s) \o MapOf(M, t) \in Seq(T)
        /\ Len(MapOf(M, s) \o MapOf(M, t)) = Len(MapOf(M, s)) + Len(MapOf(M, t))
    BY <1>2, JoinType
  <2>2. QED
    BY <1>3, <2>1
<1>6. QED
  BY <1>2, <1>3, <1>4, <1>5, EqualSeqs

LEMMA FlattenMaps ==
  ASSUME NEW S, NEW M, NEW ss \in Seq(Seq(S))
  PROVE  FlattenSeq([i \in 1..Len(ss) |-> MapOf(M, ss[i])]) = MapOf(M, FlattenSeq(ss))
<1> DEFINE T == {M[x] : x \in S}
<1>0. \A x \in S : M[x] \in T
  OBVIOUS
<1> HIDE DEF T
<1> DEFINE N == Len(ss)
           ts == [i \in 1..N |-> MapOf(M, ss[i])]
<1>1. N \in Nat /\ \A i \in 1..N : ss[i] \in Seq(S)
  OBVIOUS
<1>2. \A i \in 1..N : ts[i] = MapOf(M, ss[i]) /\ ts[i] \in Seq(T)
  BY <1>0, <1>1, MapType
<1>3. ts \in Seq(Seq(T)) /\ Len(ts) = N
  BY <1>1, <1>2
<1>4. PICK f \in [0..N -> Seq(S)] : Joins(f, ss, N) /\ FlattenSeq(ss) = f[N]
  BY FlattenJoins
<1> HIDE DEF ts, N
<1>5. PICK g \in [0..N -> Seq(T)] : Joins(g, ts, N) /\ FlattenSeq(ts) = g[N]
  BY <1>3, FlattenJoins
<1> DEFINE Good == {n \in 0..N : g[n] = MapOf(M, f[n])}
<1>6. 0 \in Good
  <2>1. f[0] = <<>> /\ g[0] = <<>>
    BY <1>4, <1>5 DEF Joins
  <2>2. QED
    BY <1>1, <2>1 DEF MapOf
<1>7. ASSUME NEW n \in 1..N, n - 1 \in Good PROVE n \in Good
  <2>1. f[n] = f[n - 1] \o ss[n] /\ g[n] = g[n - 1] \o ts[n]
    BY <1>4, <1>5 DEF Joins
  <2>2. f[n - 1] \in Seq(S) /\ ss[n] \in Seq(S) /\ g[n - 1] = MapOf(M, f[n - 1])
    BY <1>1, <1>4, <1>7
  <2>3. ts[n] = MapOf(M, ss[n])
    BY <1>2
  <2>4. Joined(f[n], f[n - 1], ss[n]) /\ Joined(g[n], MapOf(M, f[n - 1]), MapOf(M, ss[n]))
    BY <2>1, <2>2, <2>3, Zenon DEF Joined
  <2>5. g[n] = MapOf(M, f[n])
    BY <2>2, <2>4, MapJoin
  <2>6. QED
    BY <2>5
<1>8. N \in Good
  <2> HIDE DEF Good
  <2>1. N \in Nat
    BY <1>1
  <2>2. \A n \in 0..N : n \in Good
    BY <1>6, <1>7, <2>1, Induction
  <2>3. QED
    BY <2>1, <2>2
<1>9. QED
  BY <1>4, <1>5, <1>8 DEF ts, N

----------------------------------------------------------------------------
(* The chunks of a transcript.                                             *)

Piece == [id : Nat, len : Int]
Chunk == [len : Int, ids : SUBSET Nat]

LEMMA SplitType ==
  ASSUME EngineConstants, NEW id \in Nat, NEW len \in Nat
  PROVE  Split([id |-> id, len |-> len]) \in Seq(Piece)
<1> DEFINE line == [id |-> id, len |-> len]
           body == len - Tags
           room == Max({Floor, Budget - Tags})
           pieces == (body + room - 1) \div room
           part(i) == Tags + (IF i < pieces THEN room ELSE body - (i - 1) * room)
<1>1. line \in Piece /\ line.len = len
  BY DEF Piece
<1>2. CASE len <= Budget
  <2>1. Split(line) = <<line>>
    BY <1>1, <1>2 DEF Split
  <2>2. <<line>> \in Seq(Piece)
    BY <1>1
  <2>3. QED
    BY <2>1, <2>2
<1>3. CASE ~(len <= Budget)
  <2>1. body + room - 1 \in Nat /\ room \in Nat /\ room > 0 /\ body \in Int
    <3>1. PICK larger \in {Floor, Budget - Tags} : \A y \in {Floor, Budget - Tags} : larger >= y
      BY DEF EngineConstants
    <3>2. room \in {Floor, Budget - Tags} /\ \A y \in {Floor, Budget - Tags} : room >= y
      BY <3>1 DEF Max
    <3>3. room \in Nat /\ room > 0
      <4> HIDE DEF room
      <4>1. QED
        BY <3>2 DEF EngineConstants
    <3>4. QED
      <4> HIDE DEF room
      <4>1. QED
        BY <1>3, <3>3 DEF EngineConstants
  <2>2. \A a, b \in Nat : b > 0 => a \div b \in Nat
    OBVIOUS
  <2>3. pieces \in Nat
    <3> HIDE DEF room, body
    <3>1. QED
      BY <2>1, <2>2
  <2>4. \A i \in 1..pieces : part(i) \in Int
    <3> HIDE DEF pieces, body, room
    <3>1. Tags \in Int
      BY DEF EngineConstants
    <3>2. QED
      BY <2>1, <2>3, <3>1
  <2> DEFINE whole(i) == [line EXCEPT !.len = part(i)]
  <2>5. \A i \in 1..pieces : whole(i) \in Piece
    <3> HIDE DEF part, line
    <3>1. QED
      BY <1>1, <2>4 DEF Piece
  <2>6. Split(line) = [i \in 1..pieces |-> whole(i)]
    BY <1>1, <1>3 DEF Split
  <2>7. QED
    <3>1. [i \in 1..pieces |-> whole(i)] \in Seq(Piece)
      <4> HIDE DEF pieces, whole
      <4>1. QED
        BY <2>3, <2>5
    <3>2. QED
      BY <2>6, <3>1, Zenon
<1>4. QED
  BY <1>2, <1>3

LEMMA PiecesType ==
  ASSUME EngineConstants, NEW lengths \in Seq(Nat)
  PROVE  Pieces(lengths) \in Seq(Piece)
<1>1. \A i \in 1..Len(lengths) : Split([id |-> i, len |-> lengths[i]]) \in Seq(Piece)
  <2>1. \A i \in 1..Len(lengths) : i \in Nat /\ lengths[i] \in Nat
    OBVIOUS
  <2>2. QED
    BY <2>1, SplitType
<1> DEFINE ss == [i \in 1..Len(lengths) |-> Split([id |-> i, len |-> lengths[i]])]
<1>2. ss \in Seq(Seq(Piece))
  <2>1. Len(lengths) \in Nat
    OBVIOUS
  <2>2. QED
    BY <1>1, <2>1
<1>3. QED
  <2> HIDE DEF ss
  <2>1. FlattenSeq(ss) \in Seq(Piece)
    BY <1>2, FlattenType
  <2>2. QED
    BY <2>1 DEF Pieces, ss

LEMMA AddPieceType ==
  ASSUME EngineConstants, NEW chunks \in Seq(Chunk), NEW piece \in Piece
  PROVE  AddPiece(chunks, piece) \in Seq(Chunk)
<1>1. piece.id \in Nat /\ piece.len \in Int
  BY DEF Piece
<1>2. [len |-> piece.len, ids |-> {piece.id}] \in Chunk
  BY <1>1 DEF Chunk
<1>3. Append(chunks, [len |-> piece.len, ids |-> {piece.id}]) \in Seq(Chunk)
  BY <1>2
<1>4. CASE chunks = <<>> \/ Last(chunks).len + piece.len + 1 > Budget
  BY <1>3, <1>4 DEF AddPiece
<1>5. CASE ~(chunks = <<>> \/ Last(chunks).len + piece.len + 1 > Budget)
  <2> DEFINE last == chunks[Len(chunks)]
             grown == [len |-> last.len + piece.len + 1, ids |-> last.ids \cup {piece.id}]
  <2>1. Len(chunks) \in 1..Len(chunks)
    BY <1>5
  <2>2. last \in Chunk
    BY <2>1
  <2>3. last.len \in Int /\ last.ids \in SUBSET Nat
    <3> HIDE DEF last
    <3>1. QED
      BY <2>2 DEF Chunk
  <2>4. grown \in Chunk
    <3> HIDE DEF last
    <3>1. QED
      BY <1>1, <2>3 DEF Chunk
  <2>5. AddPiece(chunks, piece) = [chunks EXCEPT ![Len(chunks)] = grown]
    BY <1>5 DEF AddPiece
  <2>6. [chunks EXCEPT ![Len(chunks)] = grown] \in Seq(Chunk)
    <3> HIDE DEF grown
    <3>1. QED
      BY <2>1, <2>4
  <2>7. QED
    BY <2>5, <2>6
<1>6. QED
  BY <1>4, <1>5

LEMMA ChunksType ==
  ASSUME EngineConstants, NEW lengths \in Seq(Nat)
  PROVE  Chunks(lengths) \in Seq(Chunk)
<1> DEFINE pieces == Pieces(lengths)
           N == Len(pieces)
           X == Seq(Chunk)
           Body(u) == [n \in 0..N |-> IF n = 0 THEN <<>> ELSE AddPiece(u[n - 1], pieces[n])]
           upTo == CHOOSE u : u = Body(u)
           step == [p \in (1..N) \X X |-> AddPiece(p[2], pieces[p[1]])]
<1>1. N \in Nat /\ \A i \in 1..N : pieces[i] \in Piece
  BY PiecesType
<1>2. <<>> \in X /\ step \in [(1..N) \X X -> X]
  <2>1. ASSUME NEW p \in (1..N) \X X PROVE AddPiece(p[2], pieces[p[1]]) \in X
    <3>1. p[1] \in 1..N /\ p[2] \in X
      OBVIOUS
    <3>2. pieces[p[1]] \in Piece
      BY <1>1, <3>1
    <3>3. QED
      BY <3>1, <3>2, AddPieceType
  <2> HIDE DEF pieces, N
  <2>2. QED
    BY <2>1
<1> HIDE DEF pieces, N
<1>3. PICK f : Runs(f, N, X, <<>>, step)
  <2> HIDE DEF X, step
  <2>1. QED
    BY <1>1, <1>2, Recursion
<1>4. f = Body(f)
  <2>1. f \in [0..N -> X] /\ f[0] = <<>> /\ \A n \in 1..N : f[n] = step[<<n, f[n - 1]>>]
    BY <1>3 DEF Runs
  <2>2. ASSUME NEW n \in 1..N PROVE step[<<n, f[n - 1]>>] = AddPiece(f[n - 1], pieces[n])
    <3>1. n - 1 \in 0..N
      BY <1>1
    <3>2. f[n - 1] \in X
      BY <2>1, <3>1
    <3>3. QED
      BY <3>2
  <2>3. \A n \in 0..N : f[n] = IF n = 0 THEN <<>> ELSE AddPiece(f[n - 1], pieces[n])
    <3>1. \A n \in 0..N : n = 0 \/ n \in 1..N
      BY <1>1
    <3> HIDE DEF step, X
    <3>2. QED
      BY <2>1, <2>2, <3>1
  <2>4. QED
    BY <2>1, <2>3
<1>5. upTo = Body(upTo)
  BY <1>4
<1>6. /\ upTo[0] = <<>>
      /\ \A n \in 1..N : upTo[n] = AddPiece(upTo[n - 1], pieces[n])
  <2> HIDE DEF upTo
  <2>1. 0 \in 0..N /\ \A n \in 1..N : n \in 0..N /\ n # 0
    BY <1>1
  <2>2. QED
    BY <1>5, <2>1
<1> DEFINE Good == {n \in 0..N : upTo[n] \in X}
<1> HIDE DEF upTo
<1>7. 0 \in Good
  <2>1. 0 \in 0..N /\ upTo[0] \in X
    BY <1>1, <1>6
  <2>2. QED
    BY <2>1
<1>8. ASSUME NEW n \in 1..N, n - 1 \in Good PROVE n \in Good
  <2>1. upTo[n] \in X
    BY <1>1, <1>6, <1>8, AddPieceType
  <2>2. QED
    BY <1>1, <2>1
<1>9. N \in Good
  <2> HIDE DEF Good
  <2>1. \A n \in 0..N : n \in Good
    BY <1>1, <1>7, <1>8, Induction
  <2>2. QED
    BY <1>1, <2>1
<1>10. Chunks(lengths) = upTo[N]
  BY DEF Chunks, pieces, N, upTo
<1>11. QED
  BY <1>9, <1>10

----------------------------------------------------------------------------
(* A round of requests.                                                    *)

Draft == [cites : SUBSET Int, titles : Seq(Titles)]
Active(w) == workers[w].pc \in {"first", "repair"}
Stopped == \A w \in Workers : workers[w].pc = "stopped"

EngineTypes ==
  /\ mode \in {"meeting", "lecture"}
  /\ phase \in Rounds \cup {"none", "drafted", "done", "failed"}
  /\ inputs \in Seq(SUBSET Nat)
  /\ drafts \in Seq(Draft) /\ Len(drafts) = Len(inputs)
  /\ \A i \in 1..Len(drafts) : drafts[i] # NoDraft => drafts[i].cites \subseteq Nat
  /\ next \in 1..(Len(inputs) + 1)
  /\ workers \in [Workers -> [pc : {"idle", "first", "repair", "stopped"},
                              at : 0..Len(inputs)]]
  /\ \A w \in Workers : Active(w) => workers[w].at \in 1..(next - 1)
  /\ \A i \in DOMAIN accepted : accepted[i] \in Draft /\ accepted[i].cites \subseteq Nat

\* A request that was taken has its draft or a worker; the first worker stops last.
Filling ==
  /\ phase \in {"none", "drafted", "done"} => Stopped
  /\ phase = "none" => drafts = <<>>
  /\ phase \in Rounds =>
       /\ \A i \in 1..(next - 1) :
            drafts[i] # NoDraft \/ \E w \in Workers : Active(w) /\ workers[w].at = i
       /\ workers[1].pc = "stopped" => next = Len(inputs) + 1

LEMMA NoDraftType == NoDraft \in Draft
  BY DEF NoDraft, Draft

LEMMA EngineInit == EngineConstants /\ Init => EngineTypes /\ Filling
<1> SUFFICES ASSUME EngineConstants, Init PROVE EngineTypes /\ Filling
  OBVIOUS
<1>1. inputs = <<>> /\ drafts = <<>> /\ next = 1 /\ phase = "none" /\ accepted = <<>>
  BY DEF Init
<1>2. \A w \in Workers : workers[w] = [pc |-> "stopped", at |-> 0]
  BY DEF Init, Idle
<1>3. workers \in [Workers -> [pc : {"idle", "first", "repair", "stopped"}, at : 0..0]]
  <2>1. workers = [w \in Workers |-> [pc |-> "stopped", at |-> 0]]
    BY DEF Init, Idle
  <2>2. QED
    BY <2>1
<1>4. EngineTypes
  BY <1>1, <1>2, <1>3 DEF EngineTypes, Active, Init
<1>5. Filling
  BY <1>1, <1>2 DEF Filling, Stopped, Rounds
<1>6. QED
  BY <1>4, <1>5

\* A round begins with all to do.
LEMMA RoundStarts ==
  ASSUME NEW name \in Rounds, NEW allowed \in Seq(SUBSET Nat), Round(name, allowed)
  PROVE  /\ phase' = name /\ inputs' = allowed /\ next' = 1
         /\ drafts' \in Seq(Draft) /\ Len(drafts') = Len(inputs')
         /\ \A i \in 1..Len(inputs') : drafts'[i] = NoDraft
         /\ workers' \in [Workers -> [pc : {"idle", "first", "repair", "stopped"},
                                      at : 0..Len(inputs')]]
         /\ \A w \in Workers : ~Active(w)'
         /\ workers'[1].pc = "stopped" => next' = Len(inputs') + 1
<1>1. /\ phase' = name /\ inputs' = allowed /\ next' = 1
      /\ drafts' = [i \in 1..Len(allowed) |-> NoDraft]
      /\ workers' = [w \in Workers |-> IF w <= Len(allowed) THEN Idle
                                       ELSE [Idle EXCEPT !.pc = "stopped"]]
  BY DEF Round
<1>2. Len(allowed) \in Nat
  OBVIOUS
<1>3. drafts' \in Seq(Draft) /\ Len(drafts') = Len(inputs')
      /\ \A i \in 1..Len(inputs') : drafts'[i] = NoDraft
  BY <1>1, <1>2, NoDraftType
<1>4. \A w \in Workers :
        workers'[w] = IF w <= Len(allowed) THEN [pc |-> "idle", at |-> 0]
                                           ELSE [pc |-> "stopped", at |-> 0]
  BY <1>1 DEF Idle
<1>5. workers' \in [Workers -> [pc : {"idle", "first", "repair", "stopped"},
                                at : 0..Len(inputs')]]
  <2>1. \A w \in Workers : workers'[w] \in [pc : {"idle", "first", "repair", "stopped"},
                                            at : 0..Len(inputs')]
    BY <1>1, <1>2, <1>4
  <2>2. workers' = [w \in Workers |-> workers'[w]]
    BY <1>1
  <2>3. QED
    BY <2>1, <2>2
<1>6. \A w \in Workers : ~Active(w)'
  BY <1>4 DEF Active
<1>7. workers'[1].pc = "stopped" => next' = Len(inputs') + 1
  BY <1>1, <1>2, <1>4 DEF Workers
<1>8. QED
  BY <1>1, <1>3, <1>5, <1>6, <1>7

LEMMA RoundInv ==
  ASSUME EngineTypes, NEW name \in Rounds, NEW allowed \in Seq(SUBSET Nat),
         Round(name, allowed), mode' = mode, accepted' = accepted
  PROVE  EngineTypes' /\ Filling'
<1>1. EngineTypes'
  BY RoundStarts DEF EngineTypes
<1>2. Filling'
  BY RoundStarts DEF Filling, Rounds
<1>3. QED
  BY <1>1, <1>2

\* All workers have stopped in a round: every draft is there.
LEMMA AllDrafted ==
  ASSUME EngineTypes, Filling, phase \in Rounds, Stopped
  PROVE  \A i \in 1..Len(drafts) : drafts[i] # NoDraft
<1>1. next = Len(inputs) + 1
  BY DEF Filling, Stopped, Workers
<1>2. \A w \in Workers : ~Active(w)
  BY DEF Stopped, Active
<1>3. Len(inputs) \in Nat /\ Len(drafts) = Len(inputs)
  BY DEF EngineTypes
<1>4. \A i \in 1..(next - 1) : drafts[i] # NoDraft
  BY <1>2 DEF Filling
<1>5. QED
  BY <1>1, <1>3, <1>4

LEMMA GroupingsType ==
  ASSUME NEW n \in Nat, NEW lasts \in Groupings(n)
  PROVE  /\ lasts \in Seq(1..n) /\ Len(lasts) \in Nat \ {0}
         /\ \A g \in 1..Len(lasts) : Before(lasts, g) \in 0..n /\ lasts[g] \in 1..n
<1>1. PICK k \in 1..n : lasts \in [1..k -> 1..n]
  BY DEF Groupings
<1>2. lasts \in Seq(1..n) /\ Len(lasts) = k
  BY <1>1
<1>3. ASSUME NEW g \in 1..k PROVE Before(lasts, g) \in 0..n
  <2>1. CASE g = 1
    BY <2>1 DEF Before
  <2>2. CASE g # 1
    <3>1. g - 1 \in 1..k
      BY <2>2
    <3>2. lasts[g - 1] \in 1..n
      BY <1>1, <3>1
    <3>3. QED
      BY <2>2, <3>2 DEF Before
  <2>3. QED
    BY <2>1, <2>2
<1>4. QED
  BY <1>1, <1>2, <1>3

\* What the groups cite was cited by a draft.
LEMMA CitedByType ==
  ASSUME EngineTypes, NEW G, \A i \in 1..Len(drafts) : drafts[i].cites \subseteq G,
         NEW lasts \in Groupings(Len(drafts))
  PROVE  CitedBy(lasts) \in Seq(SUBSET G)
<1>1. Len(drafts) \in Nat
  BY DEF EngineTypes
<1>2. /\ Len(lasts) \in Nat
      /\ \A g \in 1..Len(lasts) :
           Before(lasts, g) \in 0..Len(drafts) /\ lasts[g] \in 1..Len(drafts)
  BY <1>1, GroupingsType
<1>3. ASSUME NEW g \in 1..Len(lasts)
      PROVE  UNION {drafts[i].cites : i \in (Before(lasts, g) + 1)..lasts[g]} \in SUBSET G
  <2>1. \A i \in (Before(lasts, g) + 1)..lasts[g] : i \in 1..Len(drafts)
    BY <1>1, <1>2
  <2>2. QED
    BY <2>1
<1>4. QED
  BY <1>2, <1>3 DEF CitedBy

LEMMA AnswersType ==
  ASSUME EngineConstants, NEW allowed, NEW draft \in Answers(allowed) \cup {NoDraft}
  PROVE  /\ draft.titles \in Seq(Titles)
         /\ draft = [cites |-> draft.cites, titles |-> draft.titles]
<1>1. CASE draft = NoDraft
  BY <1>1 DEF NoDraft
<1>2. CASE draft = [cites |-> {}, titles |-> <<>>]
  BY <1>2
<1>3. CASE draft \in [cites : SUBSET UNION Range(inputs), titles : {<<>>}]
  <2>1. draft.titles = <<>> /\ draft = [cites |-> draft.cites, titles |-> draft.titles]
    BY <1>3
  <2>2. <<>> \in Seq(Titles)
    OBVIOUS
  <2>3. QED
    BY <2>1, <2>2
<1>4. CASE draft \in [cites : {allowed}, titles : UNION {[1..n -> Titles] : n \in 0..MaxChapters}]
  <2>1. PICK n \in 0..MaxChapters : draft.titles \in [1..n -> Titles]
    BY <1>4
  <2>2. n \in Nat
    BY DEF EngineConstants
  <2>3. draft.titles \in Seq(Titles)
    BY <2>1, <2>2
  <2>4. QED
    BY <1>4, <2>3
<1>5. CASE draft \in Answers(allowed)
  <2>1. CASE mode = "meeting"
    <3>1. Answers(allowed) = [cites : SUBSET UNION Range(inputs), titles : {<<>>}]
      BY <2>1 DEF Answers
    <3>2. QED
      BY <1>3, <1>5, <3>1, Zenon
  <2>2. CASE mode = "lecture" /\ phase = "overview"
    <3>1. Answers(allowed) = {[cites |-> {}, titles |-> <<>>]}
      BY <2>2 DEF Answers
    <3>2. QED
      BY <1>2, <1>5, <3>1, Zenon
  <2>3. CASE ~(mode = "meeting") /\ ~(mode = "lecture" /\ phase = "overview")
    <3>1. Answers(allowed) =
            [cites : {allowed}, titles : UNION {[1..n -> Titles] : n \in 0..MaxChapters}]
      BY <2>3, Zenon DEF Answers
    <3>2. QED
      BY <1>4, <1>5, <3>1, Zenon
  <2>4. QED
    BY <2>1, <2>2, <2>3
<1>6. QED
  BY <1>1, <1>5

\* What an accepted answer leaves: its draft, which is not NoDraft and cites what it may.
AcceptedAt(w, draft) ==
  /\ workers' = [workers EXCEPT ![w] = Idle]
  /\ drafts' = [drafts EXCEPT ![workers[w].at] = draft]
  /\ accepted' = IF phase = "collect"
                 THEN [i \in DOMAIN accepted \cup {workers[w].at} |->
                         IF i = workers[w].at THEN draft ELSE accepted[i]]
                 ELSE accepted
  /\ draft \in Draft /\ draft # NoDraft
  /\ draft.cites \subseteq inputs[workers[w].at] /\ draft.cites \subseteq Nat
  /\ draft \in Answers(inputs[workers[w].at])
  /\ UNCHANGED phase

RefusedAt(w) ==
  /\ UNCHANGED <<drafts, accepted>>
  /\ \/ workers' = [workers EXCEPT ![w].pc = "repair"] /\ UNCHANGED phase
     \/ workers' = [workers EXCEPT ![w].pc = "stopped"] /\ phase' = "failed"

LEMMA AnswerEnds ==
  ASSUME EngineConstants, EngineTypes, NEW w \in Workers, Answered(w)
  PROVE  /\ Active(w) /\ UNCHANGED <<mode, said, inputs, next, chapters, aborted>>
         /\ workers[w].at \in 1..Len(inputs)
         /\ RefusedAt(w) \/ \E draft : AcceptedAt(w, draft)
<1>1. Active(w) /\ UNCHANGED <<mode, said, inputs, next, chapters, aborted>>
  BY DEF Answered, Active
<1> DEFINE at == workers[w].at
<1>2. at \in 1..Len(inputs) /\ inputs[at] \subseteq Nat
  <2>1. at \in 1..(next - 1) /\ next \in 1..(Len(inputs) + 1) /\ Len(inputs) \in Nat
    BY <1>1 DEF EngineTypes
  <2>2. inputs \in Seq(SUBSET Nat)
    BY DEF EngineTypes
  <2> HIDE DEF at
  <2>3. at \in 1..Len(inputs)
    BY <2>1
  <2>4. QED
    BY <2>2, <2>3
<1>3. PICK draft \in Answers(inputs[at]) \cup {NoDraft} :
        IF Accepts(w, draft)
        THEN /\ workers' = [workers EXCEPT ![w] = Idle]
             /\ Store(w, draft)
             /\ accepted' = IF phase = "collect"
                            THEN [i \in DOMAIN accepted \cup {at} |->
                                    IF i = at THEN [draft EXCEPT !.cites = @ \cap inputs[i]]
                                    ELSE accepted[i]]
                            ELSE accepted
             /\ UNCHANGED phase
        ELSE /\ UNCHANGED <<drafts, accepted>>
             /\ IF workers[w].pc = "first"
                THEN workers' = [workers EXCEPT ![w].pc = "repair"] /\ UNCHANGED phase
                ELSE workers' = [workers EXCEPT ![w].pc = "stopped"] /\ phase' = "failed"
  BY DEF Answered
<1>4. CASE ~Accepts(w, draft)
  BY <1>1, <1>2, <1>3, <1>4 DEF RefusedAt
<1>5. CASE Accepts(w, draft)
  <2>1. draft.cites \subseteq inputs[at]
    BY <1>5 DEF Accepts, Valid
  <2>2. draft # NoDraft
    BY <1>2, <2>1 DEF NoDraft
  <2>3. draft.titles \in Seq(Titles) /\ draft = [cites |-> draft.cites, titles |-> draft.titles]
    BY AnswersType
  <2>4. draft.cites \subseteq Nat /\ draft \in Draft
    <3>1. draft.cites \subseteq Nat
      BY <1>2, <2>1
    <3>2. draft.cites \in SUBSET Int
      BY <3>1
    <3>3. QED
      BY <2>3, <3>1, <3>2 DEF Draft
  <2>5. [draft EXCEPT !.cites = @ \cap inputs[at]] = draft
    <3>1. draft.cites \cap inputs[at] = draft.cites
      BY <2>1
    <3>2. QED
      BY <2>3, <3>1
  <2>6. accepted' = IF phase = "collect"
                    THEN [i \in DOMAIN accepted \cup {at} |->
                            IF i = at THEN draft ELSE accepted[i]]
                    ELSE accepted
    BY <1>3, <1>5, <2>5
  <2>7. AcceptedAt(w, draft)
    BY <1>3, <1>5, <2>1, <2>2, <2>4, <2>6 DEF AcceptedAt, Store
  <2>8. QED
    BY <1>1, <1>2, <2>7
<1>6. QED
  BY <1>4, <1>5

LEMMA TakesInv ==
  ASSUME EngineTypes, Filling, NEW w \in Workers, Takes(w)
  PROVE  EngineTypes' /\ Filling'
<1>1. /\ workers[w].pc = "idle" /\ w \in {1, 2}
      /\ UNCHANGED <<mode, phase, said, inputs, drafts, chapters, aborted, accepted>>
      /\ Len(inputs) \in Nat /\ next \in 1..(Len(inputs) + 1)
      /\ phase \in Rounds \cup {"none", "drafted", "done", "failed"}
  BY DEF Takes, Workers, EngineTypes
<1>2. phase \in Rounds \cup {"failed"}
  BY <1>1 DEF Filling, Stopped
<1>3. CASE next <= Len(inputs)
  <2>1. workers' = [workers EXCEPT ![w] = [pc |-> "first", at |-> next]] /\ next' = next + 1
    BY <1>3 DEF Takes
  <2>2. /\ workers'[w] = [pc |-> "first", at |-> next]
        /\ \A v \in Workers : v # w => workers'[v] = workers[v]
    BY <2>1 DEF EngineTypes
  <2>3. EngineTypes'
    <3>1. next' \in 1..(Len(inputs') + 1)
      BY <1>1, <1>3, <2>1
    <3>2. workers' \in [Workers -> [pc : {"idle", "first", "repair", "stopped"},
                                    at : 0..Len(inputs')]]
      BY <1>1, <1>3, <2>1 DEF EngineTypes
    <3>3. \A v \in Workers : Active(v)' => workers'[v].at \in 1..(next' - 1)
      BY <1>1, <2>1, <2>2 DEF EngineTypes, Active
    <3>4. QED
      BY <1>1, <3>1, <3>2, <3>3 DEF EngineTypes
  <2>4. Filling'
    <3>1. ASSUME phase \in Rounds, NEW i \in 1..(next' - 1)
          PROVE  drafts'[i] # NoDraft \/ \E v \in Workers : Active(v)' /\ workers'[v].at = i
      <4>1. CASE i = next
        BY <2>2, <4>1 DEF Active
      <4>2. CASE i # next
        <5>1. i \in 1..(next - 1)
          BY <1>1, <2>1, <4>2
        <5>2. drafts[i] # NoDraft \/ \E v \in Workers : Active(v) /\ workers[v].at = i
          BY <3>1, <5>1 DEF Filling
        <5>3. \A v \in Workers : Active(v) => v # w
          BY <1>1 DEF Active
        <5>4. \A v \in Workers : Active(v) => Active(v)' /\ workers'[v].at = workers[v].at
          BY <2>2, <5>3 DEF Active
        <5>5. QED
          BY <1>1, <5>2, <5>4
      <4>3. QED
        BY <4>1, <4>2
    <3>2. workers'[1].pc = "stopped" /\ phase \in Rounds => next' = Len(inputs) + 1
      <4>1. SUFFICES ASSUME workers'[1].pc = "stopped", phase \in Rounds PROVE FALSE
        OBVIOUS
      <4>2. 1 # w /\ 1 \in Workers
        BY <2>2, <4>1 DEF Workers
      <4>3. workers[1].pc = "stopped"
        BY <2>2, <4>1, <4>2
      <4>4. next = Len(inputs) + 1
        BY <4>1, <4>3 DEF Filling
      <4>5. QED
        BY <1>1, <1>3, <4>4
    <3>3. QED
      BY <1>1, <1>2, <3>1, <3>2 DEF Filling, Rounds
  <2>5. QED
    BY <2>3, <2>4
<1>4. CASE ~(next <= Len(inputs))
  <2>1. workers' = [workers EXCEPT ![w].pc = "stopped"] /\ next' = next
    BY <1>4 DEF Takes
  <2>2. /\ workers'[w].pc = "stopped"
        /\ \A v \in Workers : v # w => workers'[v] = workers[v]
    BY <2>1 DEF EngineTypes
  <2>3. EngineTypes'
    <3>1. workers' \in [Workers -> [pc : {"idle", "first", "repair", "stopped"},
                                    at : 0..Len(inputs')]]
      BY <1>1, <2>1 DEF EngineTypes
    <3>2. \A v \in Workers : Active(v)' => Active(v) /\ workers'[v] = workers[v]
      BY <2>2 DEF Active
    <3>3. QED
      BY <1>1, <2>1, <3>1, <3>2 DEF EngineTypes
  <2>4. Filling'
    <3>1. \A v \in Workers : Active(v) => Active(v)' /\ workers'[v] = workers[v]
      BY <1>1, <2>2 DEF Active
    <3>2. next = Len(inputs) + 1
      BY <1>1, <1>4
    <3>3. ASSUME phase \in Rounds, NEW i \in 1..(next - 1)
          PROVE  drafts'[i] # NoDraft \/ \E v \in Workers : Active(v)' /\ workers'[v].at = i
      BY <1>1, <3>1, <3>3 DEF Filling
    <3>4. QED
      BY <1>1, <1>2, <2>1, <3>2, <3>3 DEF Filling, Rounds
  <2>5. QED
    BY <2>3, <2>4
<1>5. QED
  BY <1>3, <1>4

\* A worker whose request did not end well.
LEMMA LeavesInv ==
  ASSUME EngineTypes, Filling, NEW w \in Workers, Active(w),
         UNCHANGED <<mode, inputs, drafts, next, accepted>>,
         \/ workers' = [workers EXCEPT ![w].pc = "repair"] /\ UNCHANGED phase
         \/ workers' = [workers EXCEPT ![w].pc = "stopped"] /\ phase' = "failed"
  PROVE  EngineTypes' /\ Filling'
<1>1. PICK pc \in {"repair", "stopped"} : workers' = [workers EXCEPT ![w].pc = pc]
  OBVIOUS
<1>2. /\ workers'[w] = [workers[w] EXCEPT !.pc = pc]
      /\ \A v \in Workers : v # w => workers'[v] = workers[v]
  BY <1>1 DEF EngineTypes
<1>3. \A v \in Workers : /\ workers'[v].at = workers[v].at
                         /\ Active(v)' => Active(v)
  BY <1>2 DEF Active, EngineTypes
<1>4. EngineTypes'
  <2>1. workers' \in [Workers -> [pc : {"idle", "first", "repair", "stopped"},
                                  at : 0..Len(inputs')]]
    BY <1>1 DEF EngineTypes
  <2>2. phase' \in Rounds \cup {"none", "drafted", "done", "failed"}
    BY DEF EngineTypes
  <2>3. QED
    BY <1>3, <2>1, <2>2 DEF EngineTypes
<1>5. Filling'
  <2>1. CASE workers' = [workers EXCEPT ![w].pc = "stopped"] /\ phase' = "failed"
    BY <2>1 DEF Filling, Rounds
  <2>2. CASE workers' = [workers EXCEPT ![w].pc = "repair"] /\ UNCHANGED phase
    <3>1. workers'[w].pc = "repair"
      BY <2>2 DEF EngineTypes
    <3>2. \A v \in Workers : Active(v) => Active(v)'
      BY <1>2, <3>1 DEF Active
    <3>3. phase \notin {"none", "drafted", "done"}
      BY DEF Filling, Stopped, Active
    <3>4. workers'[1].pc = "stopped" => workers[1].pc = "stopped"
      <4>1. 1 \in Workers
        BY DEF Workers
      <4>2. QED
        BY <1>2, <3>1, <4>1
    <3>5. ASSUME phase \in Rounds, NEW i \in 1..(next - 1)
          PROVE  drafts'[i] # NoDraft \/ \E v \in Workers : Active(v)' /\ workers'[v].at = i
      BY <1>3, <3>2, <3>5 DEF Filling
    <3>6. QED
      BY <2>2, <3>3, <3>4, <3>5 DEF Filling
  <2>3. QED
    BY <2>1, <2>2
<1>6. QED
  BY <1>4, <1>5

LEMMA AcceptedInv ==
  ASSUME EngineTypes, Filling, NEW w \in Workers, Active(w), NEW draft,
         workers[w].at \in 1..Len(inputs),
         UNCHANGED <<mode, inputs, next>>, AcceptedAt(w, draft)
  PROVE  EngineTypes' /\ Filling'
<1> DEFINE at == workers[w].at
<1>1. /\ at \in 1..Len(drafts) /\ drafts \in Seq(Draft) /\ Len(drafts) = Len(inputs)
      /\ Len(inputs) \in Nat
  BY DEF EngineTypes
<1>2. /\ drafts' = [drafts EXCEPT ![at] = draft] /\ draft \in Draft /\ draft # NoDraft
      /\ draft.cites \subseteq Nat /\ phase' = phase
  BY DEF AcceptedAt
<1>3. /\ drafts' \in Seq(Draft) /\ Len(drafts') = Len(drafts) /\ drafts'[at] = draft
      /\ \A i \in 1..Len(drafts) : i # at => drafts'[i] = drafts[i]
  <2> HIDE DEF at
  <2>1. QED
    BY <1>1, <1>2
<1>4. workers' = [workers EXCEPT ![w] = Idle] /\ w \in {1, 2}
  BY DEF AcceptedAt, Workers
<1>5. /\ workers'[w] = [pc |-> "idle", at |-> 0]
      /\ \A v \in Workers : v # w => workers'[v] = workers[v]
  BY <1>4 DEF EngineTypes, Idle
<1>6. EngineTypes'
  <2>1. workers' \in [Workers -> [pc : {"idle", "first", "repair", "stopped"},
                                  at : 0..Len(inputs')]]
    BY <1>1, <1>4 DEF EngineTypes, Idle
  <2>2. \A v \in Workers : Active(v)' => Active(v) /\ workers'[v] = workers[v]
    BY <1>5 DEF Active
  <2>3. \A i \in 1..Len(drafts') : drafts'[i] # NoDraft => drafts'[i].cites \subseteq Nat
    BY <1>2, <1>3 DEF EngineTypes
  <2>4. \A i \in DOMAIN accepted' : accepted'[i] \in Draft /\ accepted'[i].cites \subseteq Nat
    <3>1. CASE phase = "collect"
      <4>1. accepted' = [i \in DOMAIN accepted \cup {at} |->
                           IF i = at THEN draft ELSE accepted[i]]
        BY <3>1 DEF AcceptedAt
      <4> HIDE DEF at
      <4>2. /\ DOMAIN accepted' = DOMAIN accepted \cup {at}
            /\ \A i \in DOMAIN accepted' :
                 accepted'[i] = IF i = at THEN draft ELSE accepted[i]
        BY <4>1
      <4>3. \A i \in DOMAIN accepted : accepted[i] \in Draft /\ accepted[i].cites \subseteq Nat
        BY DEF EngineTypes
      <4>4. QED
        BY <1>2, <4>2, <4>3
    <3>2. CASE phase # "collect"
      BY <3>2 DEF AcceptedAt, EngineTypes
    <3>3. QED
      BY <3>1, <3>2
  <2>5. QED
    BY <1>2, <1>3, <2>1, <2>2, <2>3, <2>4 DEF EngineTypes
<1>7. Filling'
  <2>1. phase \notin {"none", "drafted", "done"}
    BY DEF Filling, Stopped, Active
  <2>2. workers'[1].pc = "stopped" => workers[1].pc = "stopped"
    BY <1>5 DEF Workers
  <2>3. ASSUME phase \in Rounds, NEW i \in 1..(next - 1)
        PROVE  drafts'[i] # NoDraft \/ \E v \in Workers : Active(v)' /\ workers'[v].at = i
    <3>1. i \in 1..Len(drafts)
      BY <1>1 DEF EngineTypes
    <3>2. CASE i = at
      BY <1>2, <1>3, <3>2
    <3>3. CASE i # at
      <4>1. drafts[i] # NoDraft \/ \E v \in Workers : Active(v) /\ workers[v].at = i
        BY <2>3 DEF Filling
      <4>2. CASE drafts[i] # NoDraft
        BY <1>3, <3>1, <3>3, <4>2
      <4>3. ASSUME NEW v \in Workers, Active(v), workers[v].at = i
            PROVE  Active(v)' /\ workers'[v].at = i
        BY <1>5, <3>3, <4>3 DEF Active
      <4>4. QED
        BY <4>1, <4>2, <4>3
    <3>4. QED
      BY <3>2, <3>3
  <2>4. QED
    BY <1>2, <2>1, <2>2, <2>3 DEF Filling
<1>8. QED
  BY <1>6, <1>7

LEMMA BeginInv ==
  ASSUME EngineConstants, EngineTypes, Filling, Begin
  PROVE  EngineTypes' /\ Filling'
<1>1. phase = "none" /\ UNCHANGED <<mode, chapters, aborted, accepted>>
  BY DEF Begin
<1>2. PICK lengths \in Lines :
        \/ Round("collect", [i \in 1..Len(Chunks(lengths)) |-> Chunks(lengths)[i].ids])
        \/ /\ phase' \in {"failed", "drafted"}
           /\ UNCHANGED <<inputs, drafts, next, workers>>
  BY DEF Begin
<1> DEFINE chunks == Chunks(lengths)
           ids == [i \in 1..Len(chunks) |-> chunks[i].ids]
<1>3. chunks \in Seq(Chunk)
  BY ChunksType DEF EngineConstants
<1>4. ids \in Seq(SUBSET Nat)
  <2> HIDE DEF chunks
  <2>1. Len(chunks) \in Nat /\ \A i \in 1..Len(chunks) : chunks[i] \in Chunk
    BY <1>3
  <2>2. \A c \in Chunk : c.ids \in SUBSET Nat
    BY DEF Chunk
  <2>3. \A i \in 1..Len(chunks) : chunks[i].ids \in SUBSET Nat
    BY <2>1, <2>2
  <2>4. QED
    BY <2>1, <2>3
<1>5. CASE Round("collect", ids)
  <2> HIDE DEF ids
  <2>1. "collect" \in Rounds
    BY DEF Rounds
  <2>2. QED
    BY <1>1, <1>4, <1>5, <2>1, RoundInv
<1>6. CASE /\ phase' \in {"failed", "drafted"}
           /\ UNCHANGED <<inputs, drafts, next, workers>>
  <2>1. EngineTypes'
    BY <1>1, <1>6 DEF EngineTypes, Active
  <2>2. Filling'
    BY <1>1, <1>6 DEF Filling, Stopped, Rounds
  <2>3. QED
    BY <2>1, <2>2
<1>7. QED
  BY <1>2, <1>5, <1>6, Zenon

LEMMA ReducedGroups ==
  ASSUME EngineTypes, Filling, phase \in Rounds, Stopped, NEW lasts \in Groupings(Len(drafts))
  PROVE  CitedBy(lasts) \in Seq(SUBSET Nat)
<1>1. \A i \in 1..Len(drafts) : drafts[i].cites \subseteq Nat
  BY AllDrafted DEF EngineTypes
<1>2. QED
  BY <1>1, CitedByType

LEMMA EngineStep ==
  ASSUME EngineConstants, EngineTypes, Filling, [Next]_vars
  PROVE  EngineTypes' /\ Filling'
<1>1. CASE Begin
  BY <1>1, BeginInv
<1>2. ASSUME NEW w \in Workers, Takes(w) PROVE EngineTypes' /\ Filling'
  BY <1>2, TakesInv
<1>3. ASSUME NEW w \in Workers, Answered(w) PROVE EngineTypes' /\ Filling'
  <2>1. /\ Active(w) /\ UNCHANGED <<mode, said, inputs, next, chapters, aborted>>
        /\ workers[w].at \in 1..Len(inputs)
        /\ RefusedAt(w) \/ \E draft : AcceptedAt(w, draft)
    BY <1>3, AnswerEnds
  <2>2. CASE RefusedAt(w)
    <3>1. /\ UNCHANGED <<mode, inputs, drafts, next, accepted>>
          /\ \/ workers' = [workers EXCEPT ![w].pc = "repair"] /\ UNCHANGED phase
             \/ workers' = [workers EXCEPT ![w].pc = "stopped"] /\ phase' = "failed"
      BY <2>1, <2>2 DEF RefusedAt
    <3>2. QED
      BY <2>1, <3>1, LeavesInv
  <2>3. ASSUME NEW draft, AcceptedAt(w, draft) PROVE EngineTypes' /\ Filling'
    BY <2>1, <2>3, AcceptedInv
  <2>4. QED
    BY <2>1, <2>2, <2>3
<1>4. ASSUME NEW w \in Workers, Rejected(w) PROVE EngineTypes' /\ Filling'
  <2>1. /\ Active(w) /\ UNCHANGED <<mode, inputs, drafts, next, accepted>>
        /\ workers' = [workers EXCEPT ![w].pc = "stopped"] /\ phase' = "failed"
    BY <1>4 DEF Rejected, Active
  <2>2. QED
    BY <2>1, LeavesInv
<1>5. CASE LectureCollected
  <2>1. UNCHANGED <<mode, accepted>> /\ RoundIs("collect")
    BY <1>5 DEF LectureCollected
  <2>2. CASE Round("overview", <<{}>>)
    <3>1. "overview" \in Rounds /\ <<{}>> \in Seq(SUBSET Nat)
      BY DEF Rounds
    <3>2. QED
      BY <2>1, <2>2, <3>1, RoundInv
  <2>3. CASE phase' = "drafted" /\ UNCHANGED <<inputs, drafts, next, workers>>
    <3>1. EngineTypes'
      BY <2>1, <2>3 DEF EngineTypes, Active
    <3>2. Filling'
      BY <2>1, <2>3 DEF Filling, Stopped, Rounds, RoundIs
    <3>3. QED
      BY <3>1, <3>2
  <2>4. QED
    BY <1>5, <2>2, <2>3 DEF LectureCollected
<1>6. CASE OverviewWritten
  <2>1. /\ UNCHANGED <<mode, accepted, inputs, drafts, next, workers>>
        /\ RoundIs("overview") /\ phase' = "drafted"
    BY <1>6 DEF OverviewWritten
  <2>2. EngineTypes'
    BY <2>1 DEF EngineTypes, Active
  <2>3. Filling'
    BY <2>1 DEF Filling, Stopped, Rounds, RoundIs
  <2>4. QED
    BY <2>2, <2>3
<1>7. CASE MeetingReduced
  <2>1. UNCHANGED <<mode, accepted>> /\ phase \in Rounds /\ Stopped
    BY <1>7 DEF MeetingReduced, RoundIs, Rounds, Stopped
  <2>2. CASE phase' = "drafted" /\ UNCHANGED <<inputs, drafts, next, workers>>
    <3>1. EngineTypes'
      BY <2>1, <2>2 DEF EngineTypes, Active
    <3>2. Filling'
      BY <2>1, <2>2 DEF Filling, Stopped, Rounds
    <3>3. QED
      BY <3>1, <3>2
  <2>3. ASSUME NEW lasts \in Groupings(Len(drafts)), Round("reduce", CitedBy(lasts))
        PROVE  EngineTypes' /\ Filling'
    <3>1. "reduce" \in Rounds
      BY DEF Rounds
    <3>2. CitedBy(lasts) \in Seq(SUBSET Nat)
      BY <2>1, ReducedGroups
    <3>3. QED
      BY <2>1, <2>3, <3>1, <3>2, RoundInv
  <2>4. QED
    BY <1>7, <2>2, <2>3 DEF MeetingReduced
<1>8. CASE Materialized
  <2>1. /\ UNCHANGED <<mode, accepted, inputs, drafts, next, workers>>
        /\ phase = "drafted" /\ phase' \in {"done", "failed"}
    BY <1>8 DEF Materialized
  <2>2. EngineTypes'
    BY <2>1 DEF EngineTypes, Active
  <2>3. Filling'
    BY <2>1 DEF Filling, Stopped, Rounds
  <2>4. QED
    BY <2>2, <2>3
<1>9. CASE Abort \/ UNCHANGED vars
  <2>1. UNCHANGED <<mode, phase, accepted, inputs, drafts, next, workers>>
    BY <1>9 DEF Abort, vars
  <2>2. EngineTypes'
    BY <2>1 DEF EngineTypes, Active
  <2>3. Filling'
    BY <2>1 DEF Filling, Stopped, Active
  <2>4. QED
    BY <2>2, <2>3
<1>10. QED
  BY <1>1, <1>2, <1>3, <1>4, <1>5, <1>6, <1>7, <1>8, <1>9 DEF Next, Step

----------------------------------------------------------------------------
(* The evidence of a meeting.                                              *)

\* What was cited in the drafts of the chunks.
Ground == UNION {accepted[j].cites : j \in DOMAIN accepted}

\* While the chunks are drafted, each draft is the accepted one; then the reductions may
\* only cite what was accepted, and do.
Grounded ==
  mode = "meeting" =>
    /\ phase # "overview"
    /\ phase = "collect" =>
         \A i \in 1..Len(drafts) :
           drafts[i] # NoDraft => i \in DOMAIN accepted /\ drafts[i] = accepted[i]
    /\ phase = "reduce" => \A i \in 1..Len(inputs) : inputs[i] \subseteq Ground
    /\ phase \in {"reduce", "drafted", "done"} =>
         \A i \in 1..Len(drafts) : drafts[i] # NoDraft => drafts[i].cites \subseteq Ground

LEMMA GroundedCites ==
  ASSUME EngineTypes, Filling, Grounded, mode = "meeting", phase # "failed"
  PROVE  \A i \in 1..Len(drafts) : drafts[i] # NoDraft => drafts[i].cites \subseteq Ground
<1>1. CASE phase = "none"
  BY <1>1 DEF Filling
<1>2. CASE phase = "collect"
  BY <1>2 DEF Grounded, Ground
<1>3. CASE phase \in {"reduce", "drafted", "done"}
  BY <1>3 DEF Grounded
<1>4. phase # "overview" /\ phase \in Rounds \cup {"none", "drafted", "done", "failed"}
  BY DEF Grounded, EngineTypes
<1>5. QED
  BY <1>1, <1>2, <1>3, <1>4 DEF Rounds

LEMMA GroundedAccepted ==
  ASSUME EngineTypes, Filling, Grounded, NEW w \in Workers, Active(w), NEW draft,
         workers[w].at \in 1..Len(inputs),
         UNCHANGED <<mode, inputs, next>>, AcceptedAt(w, draft)
  PROVE  Grounded'
<1> DEFINE at == workers[w].at
<1>1. SUFFICES ASSUME mode = "meeting" PROVE Grounded'
  BY DEF Grounded
<1>2. /\ drafts' = [drafts EXCEPT ![at] = draft] /\ phase' = phase
      /\ draft.cites \subseteq inputs[at]
  BY DEF AcceptedAt
<1>3. at \in 1..Len(drafts) /\ drafts \in Seq(Draft)
  BY DEF EngineTypes
<1>4. Len(drafts') = Len(drafts)
      /\ \A i \in 1..Len(drafts) : drafts'[i] = IF i = at THEN draft ELSE drafts[i]
  <2> HIDE DEF at
  <2>1. QED
    BY <1>2, <1>3
<1>5. phase \notin {"none", "drafted", "done", "overview"}
  BY <1>1 DEF Filling, Stopped, Active, Grounded
<1>6. CASE phase = "collect"
  <2>1. accepted' = [i \in DOMAIN accepted \cup {at} |->
                       IF i = at THEN draft ELSE accepted[i]]
    BY <1>6 DEF AcceptedAt
  <2> HIDE DEF at
  <2>2. /\ DOMAIN accepted' = DOMAIN accepted \cup {at} /\ accepted'[at] = draft
        /\ \A i \in DOMAIN accepted : i # at => accepted'[i] = accepted[i]
    BY <2>1
  <2>3. \A i \in 1..Len(drafts') :
          drafts'[i] # NoDraft => i \in DOMAIN accepted' /\ drafts'[i] = accepted'[i]
    BY <1>1, <1>4, <1>6, <2>2 DEF Grounded
  <2>4. QED
    BY <1>2, <1>6, <2>3 DEF Grounded
<1>7. CASE phase = "reduce"
  <2>1. accepted' = accepted
    BY <1>7 DEF AcceptedAt
  <2>2. draft.cites \subseteq Ground
    BY <1>1, <1>2, <1>7 DEF Grounded
  <2> HIDE DEF at
  <2>3. Ground' = Ground
    BY <2>1 DEF Ground
  <2>4. \A i \in 1..Len(drafts') : drafts'[i] # NoDraft => drafts'[i].cites \subseteq Ground
    BY <1>1, <1>4, <1>7, <2>2 DEF Grounded
  <2>5. QED
    BY <1>1, <1>2, <1>7, <2>3, <2>4 DEF Grounded
<1>8. CASE phase = "failed"
  BY <1>2, <1>8 DEF Grounded
<1>9. QED
  BY <1>5, <1>6, <1>7, <1>8 DEF EngineTypes, Rounds

LEMMA GroundedStep ==
  ASSUME EngineConstants, EngineTypes, Filling, Grounded, [Next]_vars
  PROVE  Grounded'
<1>1. CASE Begin
  <2>1. /\ phase = "none" /\ drafts = <<>> /\ UNCHANGED mode
        /\ \/ \E allowed : Round("collect", allowed)
           \/ phase' \in {"failed", "drafted"} /\ UNCHANGED drafts
    BY <1>1 DEF Begin, Filling
  <2>2. CASE phase' \in {"failed", "drafted"} /\ UNCHANGED drafts
    BY <2>1, <2>2 DEF Grounded
  <2>3. ASSUME NEW allowed, Round("collect", allowed) PROVE Grounded'
    <3>1. phase' = "collect" /\ drafts' = [i \in 1..Len(allowed) |-> NoDraft]
      BY <2>3 DEF Round
    <3>2. ASSUME NEW i \in 1..Len(drafts') PROVE drafts'[i] = NoDraft
      <4>1. EngineTypes'
        BY <1>1, BeginInv
      <4>2. DOMAIN drafts' = 1..Len(drafts')
        BY <4>1 DEF EngineTypes
      <4>3. QED
        BY <3>1, <4>2
    <3>3. QED
      BY <3>1, <3>2 DEF Grounded
  <2>4. QED
    BY <2>1, <2>2, <2>3
<1>2. ASSUME NEW w \in Workers, Takes(w) \/ Rejected(w) PROVE Grounded'
  <2>1. UNCHANGED <<mode, inputs, drafts, accepted>> /\ phase' \in {phase, "failed"}
    BY <1>2 DEF Takes, Rejected
  <2>2. Ground' = Ground
    BY <2>1 DEF Ground
  <2>3. QED
    BY <2>1, <2>2 DEF Grounded
<1>3. ASSUME NEW w \in Workers, Answered(w) PROVE Grounded'
  <2>1. /\ Active(w) /\ UNCHANGED <<mode, said, inputs, next, chapters, aborted>>
        /\ workers[w].at \in 1..Len(inputs)
        /\ RefusedAt(w) \/ \E draft : AcceptedAt(w, draft)
    BY <1>3, AnswerEnds
  <2>2. CASE RefusedAt(w)
    <3>1. UNCHANGED <<mode, inputs, drafts, accepted>> /\ phase' \in {phase, "failed"}
      BY <2>1, <2>2 DEF RefusedAt
    <3>2. Ground' = Ground
      BY <3>1 DEF Ground
    <3>3. QED
      BY <3>1, <3>2 DEF Grounded
  <2>3. ASSUME NEW draft, AcceptedAt(w, draft) PROVE Grounded'
    BY <2>1, <2>3, GroundedAccepted
  <2>4. QED
    BY <2>1, <2>2, <2>3
<1>4. CASE LectureCollected
  BY <1>4 DEF LectureCollected, Grounded
<1>5. CASE OverviewWritten
  BY <1>5 DEF OverviewWritten, RoundIs, Grounded
<1>6. CASE MeetingReduced
  <2>1. /\ UNCHANGED <<mode, accepted>> /\ mode = "meeting" /\ phase \in Rounds /\ Stopped
        /\ phase # "failed"
    BY <1>6 DEF MeetingReduced, RoundIs, Rounds, Stopped
  <2>2. \A i \in 1..Len(drafts) : drafts[i].cites \subseteq Ground
    BY <2>1, AllDrafted, GroundedCites
  <2>3. Ground' = Ground
    BY <2>1 DEF Ground
  <2>4. CASE phase' = "drafted" /\ UNCHANGED <<inputs, drafts, next, workers>>
    BY <2>2, <2>3, <2>4 DEF Grounded
  <2>5. ASSUME NEW lasts \in Groupings(Len(drafts)), Round("reduce", CitedBy(lasts))
        PROVE  Grounded'
    <3>1. CitedBy(lasts) \in Seq(SUBSET Ground)
      BY <2>2, CitedByType
    <3>2. CitedBy(lasts) \in Seq(SUBSET Nat)
      BY <2>1, ReducedGroups
    <3>3. /\ phase' = "reduce" /\ inputs' = CitedBy(lasts)
          /\ \A i \in 1..Len(inputs') : drafts'[i] = NoDraft
          /\ Len(drafts') = Len(inputs')
      <4>1. "reduce" \in Rounds
        BY DEF Rounds
      <4>2. QED
        BY <2>5, <3>2, <4>1, RoundStarts
    <3>4. \A i \in 1..Len(inputs') : inputs'[i] \subseteq Ground
      BY <3>1, <3>3
    <3>5. QED
      BY <2>3, <3>3, <3>4 DEF Grounded
  <2>6. QED
    BY <1>6, <2>4, <2>5 DEF MeetingReduced
<1>7. CASE Materialized
  <2>1. /\ UNCHANGED <<mode, inputs, drafts, accepted>>
        /\ phase = "drafted" /\ phase' \in {"done", "failed"}
    BY <1>7 DEF Materialized
  <2>2. Ground' = Ground
    BY <2>1 DEF Ground
  <2>3. QED
    BY <2>1, <2>2 DEF Grounded
<1>8. CASE Abort \/ UNCHANGED vars
  <2>1. UNCHANGED <<mode, phase, inputs, drafts, accepted>>
    BY <1>8 DEF Abort, vars
  <2>2. Ground' = Ground
    BY <2>1 DEF Ground
  <2>3. QED
    BY <2>1, <2>2 DEF Grounded
<1>9. QED
  BY <1>1, <1>2, <1>3, <1>4, <1>5, <1>6, <1>7, <1>8 DEF Next, Step

\* Through every reduction and repair, a draft of a meeting cites only what was cited in a
\* draft that was made from the chunk with the utterance.
THEOREM EvidenceStaysGrounded == ASSUME EngineConstants PROVE Spec => []EvidenceIsGrounded
<1> DEFINE IInv == EngineTypes /\ Filling /\ Grounded
<1>1. Init => IInv
  <2>1. Init => Grounded
    BY DEF Init, Grounded
  <2>2. QED
    BY <2>1, EngineInit
<1>2. IInv /\ [Next]_vars => IInv'
  BY EngineStep, GroundedStep
<1>3. IInv => EvidenceIsGrounded
  BY GroundedCites DEF EvidenceIsGrounded, Ground
<1>4. QED
  BY <1>1, <1>2, <1>3, PTL DEF Spec

----------------------------------------------------------------------------
(* The chapters of a lecture.                                              *)

Chapter == [title : Titles, from : Seq(Nat)]
Heard == [title : Titles, from : Nat]
NeighboursDiffer(list) == \A i \in 1..(Len(list) - 1) : list[i].title # list[i + 1].title

LEMMA TellType ==
  ASSUME NEW c \in Chapter
  PROVE  Tell(c) \in Seq(Heard) /\ Len(Tell(c)) = Len(c.from)
<1>1. c.title \in Titles /\ c.from \in Seq(Nat)
  BY DEF Chapter
<1>2. Len(c.from) \in Nat /\ \A j \in 1..Len(c.from) : c.from[j] \in Nat
  BY <1>1
<1>3. \A j \in 1..Len(c.from) : [title |-> c.title, from |-> c.from[j]] \in Heard
  BY <1>1, <1>2 DEF Heard
<1>4. QED
  BY <1>2, <1>3 DEF Tell

LEMMA TellMaps ==
  ASSUME NEW c \in Chapter, NEW M, M = [x \in Nat |-> [title |-> c.title, from |-> x]]
  PROVE  Tell(c) = MapOf(M, c.from)
<1>1. c.from \in Seq(Nat)
  BY DEF Chapter
<1>2. \A j \in 1..Len(c.from) : c.from[j] \in Nat
  BY <1>1
<1>3. \A j \in 1..Len(c.from) : M[c.from[j]] = [title |-> c.title, from |-> c.from[j]]
  BY <1>2
<1>4. QED
  BY <1>3 DEF Tell, MapOf

\* A chapter with more segments tells more.
LEMMA TellJoin ==
  ASSUME NEW c \in Chapter, NEW d \in Chapter, c.title = d.title
  PROVE  /\ [c EXCEPT !.from = c.from \o d.from] \in Chapter
         /\ Tell([c EXCEPT !.from = c.from \o d.from]) = Tell(c) \o Tell(d)
<1> DEFINE f == c.from \o d.from
           e == [c EXCEPT !.from = f]
           M == [x \in Nat |-> [title |-> c.title, from |-> x]]
<1>1. c.from \in Seq(Nat) /\ d.from \in Seq(Nat) /\ c.title \in Titles
  BY DEF Chapter
<1>2. f \in Seq(Nat)
  BY <1>1, JoinType
<1>3. Joined(f, c.from, d.from)
  BY DEF Joined
<1> HIDE DEF f
<1>4. e \in Chapter /\ e.title = c.title /\ e.from = f
  BY <1>1, <1>2 DEF Chapter
<1> HIDE DEF e
<1>5. /\ Tell(e) = MapOf(M, f) /\ Tell(c) = MapOf(M, c.from)
      /\ Tell(d) = MapOf(M, d.from)
  BY <1>4, TellMaps
<1> HIDE DEF M
<1>6. Joined(Tell(c) \o Tell(d), MapOf(M, c.from), MapOf(M, d.from))
  BY <1>5 DEF Joined
<1>7. Tell(c) \o Tell(d) = MapOf(M, f)
  <2>1. \A v : Joined(v, MapOf(M, c.from), MapOf(M, d.from)) => v = MapOf(M, f)
    BY <1>1, <1>3, MapJoin
  <2>2. QED
    BY <1>6, <2>1
<1>8. Tell(e) = Tell(c) \o Tell(d)
  BY <1>5, <1>7
<1>9. QED
  BY <1>4, <1>8 DEF e, f

LEMMA TellingType ==
  ASSUME NEW list \in Seq(Chapter)
  PROVE  [i \in 1..Len(list) |-> Tell(list[i])] \in Seq(Seq(Heard))
<1>1. Len(list) \in Nat /\ \A i \in 1..Len(list) : list[i] \in Chapter
  OBVIOUS
<1>2. \A i \in 1..Len(list) : Tell(list[i]) \in Seq(Heard)
  BY <1>1, TellType
<1>3. QED
  BY <1>1, <1>2

LEMMA ToldType ==
  ASSUME NEW list \in Seq(Chapter) PROVE Told(list) \in Seq(Heard)
<1> DEFINE ss == [i \in 1..Len(list) |-> Tell(list[i])]
<1>1. ss \in Seq(Seq(Heard))
  BY TellingType
<1>2. FlattenSeq(ss) \in Seq(Heard)
  <2> HIDE DEF ss
  <2>1. QED
    BY <1>1, FlattenType
<1>3. QED
  BY <1>2 DEF Told

LEMMA ToldAppend ==
  ASSUME NEW list \in Seq(Chapter), NEW c \in Chapter
  PROVE  Told(Append(list, c)) = Told(list) \o Tell(c)
<1> DEFINE longer == Append(list, c)
           ss == [i \in 1..Len(list) |-> Tell(list[i])]
           ts == [i \in 1..Len(longer) |-> Tell(longer[i])]
<1>1. /\ longer \in Seq(Chapter) /\ Len(longer) = Len(list) + 1 /\ Len(list) \in Nat
      /\ longer[Len(list) + 1] = c /\ \A i \in 1..Len(list) : longer[i] = list[i]
  OBVIOUS
<1>2. ss \in Seq(Seq(Heard)) /\ Tell(c) \in Seq(Heard) /\ Len(ss) = Len(list)
  BY <1>1, TellingType, TellType
<1> HIDE DEF longer
<1>3. ts \in Seq(Seq(Heard)) /\ Len(ts) = Len(list) + 1
  BY <1>1, TellingType
<1>4. ts = Append(ss, Tell(c))
  <2>1. \A i \in 1..Len(list) : ts[i] = ss[i]
    BY <1>1
  <2>2. ts[Len(list) + 1] = Tell(c)
    BY <1>1
  <2> HIDE DEF ts, ss
  <2> DEFINE us == Append(ss, Tell(c))
  <2>3. us \in Seq(Seq(Heard)) /\ Len(us) = Len(list) + 1
        /\ us[Len(list) + 1] = Tell(c) /\ \A i \in 1..Len(list) : us[i] = ss[i]
    BY <1>2
  <2> HIDE DEF us
  <2>4. \A i \in 1..Len(ts) : ts[i] = us[i]
    <3>1. \A i \in 1..(Len(list) + 1) : i \in 1..Len(list) \/ i = Len(list) + 1
      BY <1>1
    <3>2. QED
      BY <1>3, <2>1, <2>2, <2>3, <3>1
  <2>5. ts = us
    BY <1>3, <2>3, <2>4, EqualSeqs
  <2>6. QED
    BY <2>5 DEF us
<1>5. FlattenSeq(ts) = FlattenSeq(ss) \o Tell(c)
  <2> HIDE DEF ts, ss
  <2>1. QED
    BY <1>2, <1>4, FlattenAppend
<1>6. QED
  BY <1>5 DEF Told, longer

\* A chapter that is added is told after the others, whether it continues one or not.
LEMMA AddChapterTells ==
  ASSUME NEW m \in Seq(Chapter), NEW c \in Chapter, NeighboursDiffer(m)
  PROVE  /\ AddChapter(m, c) \in Seq(Chapter)
         /\ Told(AddChapter(m, c)) = Told(m) \o Tell(c)
         /\ NeighboursDiffer(AddChapter(m, c))
<1> DEFINE n == Len(m)
           l == m[n]
<1>1. n \in Nat /\ \A i \in 1..n : m[i] \in Chapter
  OBVIOUS
<1>2. CASE m # <<>> /\ l.title = c.title
  <2> DEFINE front == [i \in 1..(n - 1) |-> m[i]]
             more == [l EXCEPT !.from = l.from \o c.from]
  <2>1. n \in 1..n /\ l \in Chapter
    BY <1>2
  <2>2. front \in Seq(Chapter) /\ Len(front) = n - 1 /\ \A i \in 1..(n - 1) : front[i] = m[i]
    BY <1>1, <2>1
  <2>3. AddChapter(m, c) = [m EXCEPT ![n] = more]
    BY <1>2 DEF AddChapter, Last
  <2> HIDE DEF front, l
  <2>4. more \in Chapter /\ Tell(more) = Tell(l) \o Tell(c) /\ more.title = l.title
    <3>1. more.title = l.title
      BY <2>1 DEF Chapter
    <3>2. QED
      BY <1>2, <2>1, <3>1, TellJoin
  <2> HIDE DEF more
  <2>5. m = Append(front, l)
    <3> DEFINE a == Append(front, l)
    <3>1. a \in Seq(Chapter) /\ Len(a) = n /\ a[n] = l /\ \A i \in 1..(n - 1) : a[i] = m[i]
      BY <2>1, <2>2
    <3> HIDE DEF a
    <3>2. \A i \in 1..n : m[i] = a[i]
      <4>1. \A i \in 1..n : i = n \/ i \in 1..(n - 1)
        BY <1>1
      <4>2. QED
        BY <3>1, <4>1 DEF l
    <3>3. m = a
      BY <3>1, <3>2, EqualSeqs
    <3>4. QED
      BY <3>3 DEF a
  <2> DEFINE merged == [m EXCEPT ![n] = more]
  <2>6. /\ merged \in Seq(Chapter) /\ Len(merged) = n /\ merged[n] = more
        /\ \A i \in 1..(n - 1) : merged[i] = m[i]
    BY <2>1, <2>4
  <2>7. merged = Append(front, more)
    <3> DEFINE a == Append(front, more)
    <3>1. a \in Seq(Chapter) /\ Len(a) = n /\ a[n] = more /\ \A i \in 1..(n - 1) : a[i] = m[i]
      BY <2>1, <2>2, <2>4
    <3> HIDE DEF a, merged
    <3>2. \A i \in 1..n : merged[i] = a[i]
      <4>1. \A i \in 1..n : i = n \/ i \in 1..(n - 1)
        BY <1>1
      <4>2. QED
        BY <2>6, <3>1, <4>1
    <3>3. merged = a
      BY <2>6, <3>1, <3>2, EqualSeqs
    <3>4. QED
      BY <3>3 DEF a
  <2> HIDE DEF merged
  <2>8. Told(merged) = Told(front) \o Tell(more) /\ Told(m) = Told(front) \o Tell(l)
    <3>1. Told(Append(front, more)) = Told(front) \o Tell(more)
      BY <2>2, <2>4, ToldAppend
    <3>2. Told(Append(front, l)) = Told(front) \o Tell(l)
      BY <2>1, <2>2, ToldAppend
    <3>3. QED
      BY <2>5, <2>7, <3>1, <3>2, Zenon
  <2>9. Told(merged) = Told(m) \o Tell(c)
    <3>1. /\ Told(front) \in Seq(Heard) /\ Tell(l) \in Seq(Heard)
          /\ Tell(c) \in Seq(Heard)
      BY <2>1, <2>2, ToldType, TellType
    <3>2. Told(front) \o (Tell(l) \o Tell(c)) = (Told(front) \o Tell(l)) \o Tell(c)
      BY <3>1, JoinAssociates
    <3>3. QED
      BY <2>4, <2>8, <3>2, Zenon
  <2>10. NeighboursDiffer(merged)
    <3>1. \A i \in 1..n : merged[i].title = m[i].title
      <4>1. \A i \in 1..n : i = n \/ i \in 1..(n - 1)
        BY <1>1
      <4>2. QED
        BY <2>4, <2>6, <4>1 DEF l
    <3>2. \A i \in 1..(n - 1) : i \in 1..n /\ i + 1 \in 1..n
      BY <1>1
    <3>3. QED
      BY <2>6, <3>1, <3>2 DEF NeighboursDiffer
  <2>11. QED
    BY <2>3, <2>6, <2>9, <2>10 DEF merged
<1>3. CASE ~(m # <<>> /\ l.title = c.title)
  <2> DEFINE longer == Append(m, c)
  <2>1. AddChapter(m, c) = longer
    BY <1>3 DEF AddChapter, Last
  <2>2. /\ longer \in Seq(Chapter) /\ Len(longer) = n + 1 /\ longer[n + 1] = c
        /\ \A i \in 1..n : longer[i] = m[i]
    OBVIOUS
  <2>3. Told(longer) = Told(m) \o Tell(c)
    BY ToldAppend
  <2> HIDE DEF longer
  <2>4. NeighboursDiffer(longer)
    <3>1. ASSUME NEW i \in 1..n PROVE longer[i].title # longer[i + 1].title
      <4>1. CASE i = n
        <5>1. m # <<>>
          BY <4>1
        <5>2. longer[i] = l /\ longer[i + 1] = c
          BY <2>2, <4>1
        <5>3. QED
          BY <1>3, <5>1, <5>2
      <4>2. CASE i # n
        <5>1. i \in 1..(n - 1) /\ i + 1 \in 1..n
          BY <1>1, <4>2
        <5>2. QED
          BY <2>2, <5>1 DEF NeighboursDiffer
      <4>3. QED
        BY <4>1, <4>2
    <3>2. Len(longer) - 1 = n
      BY <1>1, <2>2
    <3>3. QED
      BY <3>1, <3>2 DEF NeighboursDiffer
  <2>5. QED
    BY <2>1, <2>2, <2>3, <2>4
<1>4. QED
  BY <1>2, <1>3

LEMMA ToldNone == Told(<<>>) = <<>>
<1>1. [i \in 1..Len(<<>>) |-> Tell(<<>>[i])] = <<>>
  OBVIOUS
<1>2. QED
  BY <1>1, FlattenEmpty DEF Told

LEMMA AddChapterType ==
  ASSUME NEW m \in Seq(Chapter), NEW c \in Chapter
  PROVE  AddChapter(m, c) \in Seq(Chapter)
<1>1. CASE m # <<>> /\ m[Len(m)].title = c.title
  <2> DEFINE n == Len(m)
             l == m[n]
             more == [l EXCEPT !.from = l.from \o c.from]
  <2>1. n \in 1..n /\ l \in Chapter
    BY <1>1
  <2>2. AddChapter(m, c) = [m EXCEPT ![n] = more]
    BY <1>1 DEF AddChapter, Last
  <2> HIDE DEF l
  <2>3. more \in Chapter
    BY <1>1, <2>1, TellJoin DEF l
  <2> HIDE DEF more
  <2>4. QED
    BY <2>1, <2>2, <2>3
<1>2. CASE ~(m # <<>> /\ m[Len(m)].title = c.title)
  <2>1. AddChapter(m, c) = Append(m, c)
    BY <1>2 DEF AddChapter, Last
  <2>2. QED
    BY <2>1
<1>3. QED
  BY <1>1, <1>2

LEMMA MergedTells ==
  ASSUME NEW list \in Seq(Chapter)
  PROVE  /\ Merged(list) \in Seq(Chapter) /\ Told(Merged(list)) = Told(list)
         /\ NeighboursDiffer(Merged(list))
<1> DEFINE N == Len(list)
           X == Seq(Chapter)
           ss == [i \in 1..N |-> Tell(list[i])]
           Body(u) == [n \in 0..N |-> IF n = 0 THEN <<>> ELSE AddChapter(u[n - 1], list[n])]
           upTo == CHOOSE u : u = Body(u)
           step == [p \in (1..N) \X X |-> AddChapter(p[2], list[p[1]])]
<1>1. N \in Nat /\ \A i \in 1..N : list[i] \in Chapter
  OBVIOUS
<1>2. <<>> \in X /\ step \in [(1..N) \X X -> X]
  <2>1. ASSUME NEW p \in (1..N) \X X PROVE AddChapter(p[2], list[p[1]]) \in X
    <3>1. p[1] \in 1..N /\ p[2] \in X
      OBVIOUS
    <3>2. list[p[1]] \in Chapter
      BY <1>1, <3>1
    <3>3. QED
      BY <3>1, <3>2, AddChapterType
  <2> HIDE DEF N
  <2>2. QED
    BY <2>1
<1>3. ss \in Seq(Seq(Heard)) /\ Len(ss) = N /\ \A i \in 1..N : ss[i] = Tell(list[i])
  BY <1>1, TellingType
<1> HIDE DEF N, ss
<1>4. PICK g \in [0..N -> Seq(Heard)] : Joins(g, ss, N) /\ FlattenSeq(ss) = g[N]
  BY <1>3, FlattenJoins
<1>5. Told(list) = g[N]
  BY <1>4 DEF Told, ss, N
<1>6. PICK f : Runs(f, N, X, <<>>, step)
  <2> HIDE DEF X, step
  <2>1. QED
    BY <1>1, <1>2, Recursion
<1>7. f = Body(f)
  <2>1. f \in [0..N -> X] /\ f[0] = <<>> /\ \A n \in 1..N : f[n] = step[<<n, f[n - 1]>>]
    BY <1>6 DEF Runs
  <2>2. ASSUME NEW n \in 1..N PROVE step[<<n, f[n - 1]>>] = AddChapter(f[n - 1], list[n])
    <3>1. n - 1 \in 0..N
      BY <1>1
    <3>2. f[n - 1] \in X
      BY <2>1, <3>1
    <3>3. QED
      BY <3>2
  <2>3. \A n \in 0..N : f[n] = IF n = 0 THEN <<>> ELSE AddChapter(f[n - 1], list[n])
    <3>1. \A n \in 0..N : n = 0 \/ n \in 1..N
      BY <1>1
    <3> HIDE DEF step, X
    <3>2. QED
      BY <2>1, <2>2, <3>1
  <2>4. QED
    BY <2>1, <2>3
<1>8. upTo = Body(upTo)
  BY <1>7
<1>9. upTo[0] = <<>> /\ \A n \in 1..N : upTo[n] = AddChapter(upTo[n - 1], list[n])
  <2> HIDE DEF upTo
  <2>1. 0 \in 0..N /\ \A n \in 1..N : n \in 0..N /\ n # 0
    BY <1>1
  <2>2. QED
    BY <1>8, <2>1
<1> HIDE DEF upTo
<1> DEFINE Right(u, t) == u \in X /\ Told(u) = t /\ NeighboursDiffer(u)
           Good == {n \in 0..N : Right(upTo[n], g[n])}
<1>10. 0 \in Good
  <2>1. <<>> \in X /\ Told(<<>>) = <<>> /\ NeighboursDiffer(<<>>)
    <3>1. NeighboursDiffer(<<>>)
      BY DEF NeighboursDiffer
    <3>2. QED
      BY <3>1, ToldNone
  <2>2. g[0] = <<>>
    BY <1>4 DEF Joins
  <2>3. Right(upTo[0], g[0])
    BY <1>9, <2>1, <2>2, Zenon
  <2>4. 0 \in 0..N
    BY <1>1
  <2> HIDE DEF Right
  <2>5. QED
    BY <2>3, <2>4
<1>11. ASSUME NEW n \in 1..N, n - 1 \in Good PROVE n \in Good
  <2>1. Right(upTo[n - 1], g[n - 1])
    <3> HIDE DEF Right
    <3>1. QED
      BY <1>11
  <2>2. list[n] \in Chapter /\ upTo[n] = AddChapter(upTo[n - 1], list[n]) /\ n \in 0..N
    BY <1>1, <1>9
  <2>3. g[n] = g[n - 1] \o Tell(list[n])
    BY <1>3, <1>4 DEF Joins
  <2>4. /\ upTo[n] \in X /\ NeighboursDiffer(upTo[n])
        /\ Told(upTo[n]) = Told(upTo[n - 1]) \o Tell(list[n])
    BY <2>1, <2>2, AddChapterTells
  <2>5. Right(upTo[n], g[n])
    BY <2>1, <2>3, <2>4, Zenon
  <2> HIDE DEF Right
  <2>6. QED
    BY <2>2, <2>5
<1>12. Right(upTo[N], g[N])
  <2> HIDE DEF Right
  <2>1. N \in Good
    <3> HIDE DEF Good
    <3>1. \A n \in 0..N : n \in Good
      BY <1>1, <1>10, <1>11, Induction
    <3>2. QED
      BY <1>1, <3>1
  <2>2. QED
    BY <2>1
<1>13. Merged(list) = upTo[N]
  BY DEF Merged, N, upTo
<1>14. QED
  BY <1>5, <1>12, <1>13, Zenon

\* A chapter of one segment.
Single == {c \in Chapter : \E x \in Nat : c.from = <<x>>}
Heading == [c \in Single |-> [title |-> c.title, from |-> c.from[1]]]

LEMMA SingleTells ==
  ASSUME NEW list \in Seq(Single)
  PROVE  list \in Seq(Chapter) /\ Told(list) = MapOf(Heading, list)
<1>1. Len(list) \in Nat /\ \A i \in 1..Len(list) : list[i] \in Single
  OBVIOUS
<1>2. list \in Seq(Chapter)
  BY <1>1 DEF Single
<1>3. \A c \in Single : Heading[c] \in Heard /\ Tell(c) = <<Heading[c]>>
  <2>1. SUFFICES ASSUME NEW c \in Single PROVE Heading[c] \in Heard /\ Tell(c) = <<Heading[c]>>
    OBVIOUS
  <2>2. PICK x \in Nat : c.from = <<x>>
    BY DEF Single
  <2>3. c.title \in Titles
    BY DEF Single, Chapter
  <2>4. Heading[c] = [title |-> c.title, from |-> x]
    BY <2>2 DEF Heading
  <2>5. Len(c.from) = 1 /\ c.from[1] = x
    BY <2>2
  <2>6. Tell(c) = [j \in 1..1 |-> [title |-> c.title, from |-> c.from[j]]]
    BY <2>5 DEF Tell
  <2>7. Tell(c) = <<Heading[c]>>
    <3>1. \A j \in 1..1 : [title |-> c.title, from |-> c.from[j]] = Heading[c]
      BY <2>4, <2>5
    <3>2. QED
      BY <2>6, <3>1
  <2>8. QED
    BY <2>3, <2>4, <2>7 DEF Heard
<1> DEFINE s == MapOf(Heading, list)
<1>4. s \in Seq(Heard) /\ Len(s) = Len(list) /\ \A i \in 1..Len(list) : s[i] = Heading[list[i]]
  <2>0. \A i \in 1..Len(list) : Heading[list[i]] \in Heard
    BY <1>1, <1>3
  <2>1. s \in Seq(Heard) /\ Len(s) = Len(list)
    BY <1>1, <2>0 DEF MapOf
  <2>2. \A i \in 1..Len(list) : s[i] = Heading[list[i]]
    BY <1>1 DEF MapOf
  <2>3. QED
    BY <2>1, <2>2
<1> HIDE DEF s
<1>5. [i \in 1..Len(list) |-> Tell(list[i])] = [i \in 1..Len(s) |-> <<s[i]>>]
  <2>1. \A i \in 1..Len(list) : Tell(list[i]) = <<s[i]>>
    BY <1>1, <1>3, <1>4
  <2>2. QED
    BY <1>4, <2>1
<1>6. FlattenSeq([i \in 1..Len(s) |-> <<s[i]>>]) = s
  BY <1>4, FlattenOnes
<1>7. Told(list) = s
  BY <1>5, <1>6, Zenon DEF Told
<1>8. QED
  BY <1>2, <1>7 DEF s

\* The collected chapters tell the titles of the drafts, segment by segment.
LEMMA CollectedTells ==
  ASSUME drafts \in Seq(Draft)
  PROVE  /\ Collected \in Seq(Chapter)
         /\ Told(Collected) = FlattenSeq([i \in 1..Len(drafts) |-> Titled(drafts[i], i)])
<1> DEFINE N == Len(drafts)
           of(i) == [j \in 1..Len(drafts[i].titles) |->
                       [title |-> drafts[i].titles[j], from |-> <<i>>]]
           ss == [i \in 1..N |-> of(i)]
<1>1. N \in Nat /\ \A i \in 1..N : drafts[i] \in Draft
  OBVIOUS
<1>2. ASSUME NEW i \in 1..N
      PROVE  of(i) \in Seq(Single) /\ MapOf(Heading, of(i)) = Titled(drafts[i], i)
  <2> DEFINE titles == drafts[i].titles
  <2>1. titles \in Seq(Titles) /\ i \in Nat
    BY <1>1 DEF Draft
  <2> HIDE DEF titles
  <2>2. Len(titles) \in Nat /\ \A j \in 1..Len(titles) : titles[j] \in Titles
    BY <2>1
  <2>3. ASSUME NEW t \in Titles
        PROVE  /\ [title |-> t, from |-> <<i>>] \in Single
               /\ Heading[[title |-> t, from |-> <<i>>]] = [title |-> t, from |-> i]
    <3> DEFINE c == [title |-> t, from |-> <<i>>]
    <3>1. <<i>> \in Seq(Nat)
      BY <2>1
    <3>2. c.from = <<i>> /\ c.title = t /\ c.from[1] = i
      OBVIOUS
    <3>3. c \in Chapter
      BY <3>1 DEF Chapter
    <3>4. c \in Single
      <4> HIDE DEF c
      <4>1. QED
        BY <2>1, <3>2, <3>3 DEF Single
    <3> HIDE DEF c
    <3>5. Heading[c] = [title |-> t, from |-> i]
      BY <3>2, <3>4 DEF Heading
    <3>6. QED
      BY <3>4, <3>5 DEF c
  <2> DEFINE single(t) == [title |-> t, from |-> <<i>>]
             d == [j \in 1..Len(titles) |-> single(titles[j])]
  <2>4. of(i) = d
    BY DEF titles
  <2>5. \A t \in Titles : single(t) \in Single /\ Heading[single(t)] = [title |-> t, from |-> i]
    BY <2>3
  <2> HIDE DEF single
  <2>6. /\ d \in Seq(Single) /\ Len(d) = Len(titles)
        /\ \A j \in 1..Len(titles) : Heading[d[j]] = [title |-> titles[j], from |-> i]
    <3>1. \A j \in 1..Len(titles) :
            single(titles[j]) \in Single
            /\ Heading[single(titles[j])] = [title |-> titles[j], from |-> i]
      BY <2>2, <2>5
    <3>2. \A j \in 1..Len(titles) : d[j] = single(titles[j])
      OBVIOUS
    <3>3. d \in Seq(Single) /\ Len(d) = Len(titles)
      <4>1. \A m \in Nat :
              (\A j \in 1..m : single(titles[j]) \in Single) =>
                /\ [j \in 1..m |-> single(titles[j])] \in Seq(Single)
                /\ Len([j \in 1..m |-> single(titles[j])]) = m
        OBVIOUS
      <4>2. QED
        BY <2>2, <3>1, <4>1
    <3> HIDE DEF d
    <3>4. QED
      BY <3>1, <3>2, <3>3
  <2> HIDE DEF d
  <2>7. MapOf(Heading, d) = Titled(drafts[i], i)
    BY <2>6 DEF MapOf, Titled, titles
  <2> HIDE DEF of
  <2>8. QED
    BY <2>4, <2>6, <2>7
<1> HIDE DEF of
<1>3. ss \in Seq(Seq(Single)) /\ Len(ss) = N /\ \A i \in 1..N : ss[i] = of(i)
  <2> HIDE DEF N
  <2>1. QED
    BY <1>1, <1>2
<1>4. Collected = FlattenSeq(ss)
  BY DEF Collected, of
<1> HIDE DEF ss
<1>5. Collected \in Seq(Single)
  BY <1>3, <1>4, FlattenType
<1>6. Collected \in Seq(Chapter) /\ Told(Collected) = MapOf(Heading, Collected)
  BY <1>5, SingleTells
<1> DEFINE ts == [i \in 1..Len(ss) |-> MapOf(Heading, ss[i])]
<1>7. FlattenSeq(ts) = MapOf(Heading, FlattenSeq(ss))
  BY <1>3, FlattenMaps
<1>8. ts = [i \in 1..N |-> Titled(drafts[i], i)]
  <2>1. \A i \in 1..N : MapOf(Heading, ss[i]) = Titled(drafts[i], i)
    BY <1>2, <1>3
  <2> HIDE DEF N
  <2>2. QED
    BY <1>3, <2>1
<1>9. QED
  BY <1>4, <1>6, <1>7, <1>8, Zenon

\* The chapters tell the titles of the drafts, segment by segment.
Ordered ==
  /\ Told(chapters) = FlattenSeq([i \in 1..Len(accepted) |-> Titled(accepted[i], i)])
  /\ NeighboursDiffer(chapters)

\* While the segments are drafted, the drafts that are there are the accepted ones.
LectureOrdered ==
  mode = "lecture" =>
    /\ phase # "reduce"
    /\ phase = "none" => accepted = <<>> /\ chapters = <<>>
    /\ phase = "collect" =>
         accepted = [i \in {i \in 1..Len(drafts) : drafts[i] # NoDraft} |-> drafts[i]]
    /\ phase \in {"overview", "drafted", "done"} => Ordered

LEMMA NothingSaid ==
  ASSUME accepted = <<>>, chapters = <<>> PROVE Ordered
<1>1. [i \in 1..Len(accepted) |-> Titled(accepted[i], i)] = <<>>
  OBVIOUS
<1>2. NeighboursDiffer(chapters)
  BY DEF NeighboursDiffer
<1>3. Told(chapters) = <<>>
  BY ToldNone, Zenon
<1>4. QED
  BY <1>1, <1>2, <1>3, FlattenEmpty DEF Ordered

LEMMA LectureAccepted ==
  ASSUME EngineTypes, Filling, LectureOrdered, NEW w \in Workers, Active(w), NEW draft,
         workers[w].at \in 1..Len(inputs),
         UNCHANGED <<mode, inputs, next, chapters>>, AcceptedAt(w, draft)
  PROVE  LectureOrdered'
<1> DEFINE at == workers[w].at
<1>1. SUFFICES ASSUME mode = "lecture" PROVE LectureOrdered'
  BY DEF LectureOrdered
<1>2. drafts' = [drafts EXCEPT ![at] = draft] /\ phase' = phase /\ draft # NoDraft
  BY DEF AcceptedAt
<1>3. at \in 1..Len(drafts) /\ drafts \in Seq(Draft)
  BY DEF EngineTypes
<1>4. Len(drafts') = Len(drafts)
      /\ \A i \in 1..Len(drafts) : drafts'[i] = IF i = at THEN draft ELSE drafts[i]
  <2> HIDE DEF at
  <2>1. QED
    BY <1>2, <1>3
<1>5. phase \notin {"none", "drafted", "done", "reduce"}
  BY <1>1 DEF Filling, Stopped, Active, LectureOrdered
<1>6. CASE phase = "collect"
  <2>1. accepted' = [i \in DOMAIN accepted \cup {at} |->
                       IF i = at THEN draft ELSE accepted[i]]
    BY <1>6 DEF AcceptedAt
  <2>2. /\ DOMAIN accepted = {i \in 1..Len(drafts) : drafts[i] # NoDraft}
        /\ \A i \in DOMAIN accepted : accepted[i] = drafts[i]
    BY <1>1, <1>6 DEF LectureOrdered
  <2> HIDE DEF at
  <2> DEFINE there == {i \in 1..Len(drafts') : drafts'[i] # NoDraft}
  <2>3. DOMAIN accepted \cup {at} = there
    BY <1>2, <1>3, <1>4, <2>2
  <2>4. \A i \in there : (IF i = at THEN draft ELSE accepted[i]) = drafts'[i]
    BY <1>4, <2>2, <2>3
  <2>5. accepted' = [i \in there |-> drafts'[i]]
    <3> HIDE DEF there
    <3>1. QED
      BY <2>1, <2>3, <2>4
  <2>6. QED
    BY <1>2, <1>6, <2>5 DEF LectureOrdered
<1>7. CASE phase = "overview"
  <2>1. accepted' = accepted
    BY <1>7 DEF AcceptedAt
  <2>2. Ordered
    BY <1>1, <1>7 DEF LectureOrdered
  <2>3. Ordered'
    BY <2>1, <2>2 DEF Ordered
  <2>4. QED
    BY <1>2, <1>7, <2>3 DEF LectureOrdered
<1>8. CASE phase = "failed"
  BY <1>2, <1>8 DEF LectureOrdered
<1>9. QED
  BY <1>5, <1>6, <1>7, <1>8 DEF EngineTypes, Rounds

LEMMA LectureStep ==
  ASSUME EngineConstants, EngineTypes, Filling, LectureOrdered, [Next]_vars
  PROVE  LectureOrdered'
<1>1. CASE Begin
  <2>1. /\ phase = "none" /\ drafts = <<>> /\ UNCHANGED <<mode, chapters, accepted>>
        /\ \/ \E allowed : Round("collect", allowed)
           \/ phase' \in {"failed", "drafted"}
    BY <1>1 DEF Begin, Filling
  <2>2. SUFFICES ASSUME mode = "lecture" PROVE LectureOrdered'
    BY <2>1 DEF LectureOrdered
  <2>3. accepted = <<>> /\ chapters = <<>>
    BY <2>1, <2>2 DEF LectureOrdered
  <2>4. CASE phase' \in {"failed", "drafted"}
    <3>1. Ordered
      BY <2>3, NothingSaid
    <3>2. Ordered'
      BY <2>1, <3>1 DEF Ordered
    <3>3. QED
      BY <2>4, <3>2 DEF LectureOrdered
  <2>5. ASSUME NEW allowed, Round("collect", allowed) PROVE LectureOrdered'
    <3>1. phase' = "collect" /\ drafts' = [i \in 1..Len(allowed) |-> NoDraft]
      BY <2>5 DEF Round
    <3>2. {i \in 1..Len(drafts') : drafts'[i] # NoDraft} = {}
      <4>1. EngineTypes'
        BY <1>1, BeginInv
      <4>2. DOMAIN drafts' = 1..Len(drafts')
        BY <4>1 DEF EngineTypes
      <4>3. QED
        BY <3>1, <4>2
    <3>3. accepted' = [i \in {i \in 1..Len(drafts') : drafts'[i] # NoDraft} |-> drafts'[i]]
      BY <2>1, <2>3, <3>2
    <3>4. QED
      BY <3>1, <3>3 DEF LectureOrdered
  <2>6. QED
    BY <2>1, <2>4, <2>5
<1>2. ASSUME UNCHANGED <<mode, drafts, accepted, chapters>>, phase' \in {phase, "failed"}
      PROVE  LectureOrdered'
  <2>1. Ordered' <=> Ordered
    BY <1>2 DEF Ordered
  <2>2. QED
    BY <1>2, <2>1 DEF LectureOrdered
<1>3. ASSUME NEW w \in Workers, Takes(w) \/ Rejected(w) PROVE LectureOrdered'
  <2>1. UNCHANGED <<mode, drafts, accepted, chapters>> /\ phase' \in {phase, "failed"}
    BY <1>3 DEF Takes, Rejected
  <2>2. QED
    BY <1>2, <2>1
<1>4. ASSUME NEW w \in Workers, Answered(w) PROVE LectureOrdered'
  <2>1. /\ Active(w) /\ UNCHANGED <<mode, said, inputs, next, chapters, aborted>>
        /\ workers[w].at \in 1..Len(inputs)
        /\ RefusedAt(w) \/ \E draft : AcceptedAt(w, draft)
    BY <1>4, AnswerEnds
  <2>2. CASE RefusedAt(w)
    <3>1. UNCHANGED <<mode, drafts, accepted, chapters>> /\ phase' \in {phase, "failed"}
      BY <2>1, <2>2 DEF RefusedAt
    <3>2. QED
      BY <1>2, <3>1
  <2>3. ASSUME NEW draft, AcceptedAt(w, draft) PROVE LectureOrdered'
    BY <2>1, <2>3, LectureAccepted
  <2>4. QED
    BY <2>1, <2>2, <2>3
<1>5. CASE LectureCollected
  <2>1. /\ mode = "lecture" /\ UNCHANGED <<mode, accepted>> /\ chapters' = Merged(Collected)
        /\ phase = "collect" /\ Stopped /\ phase \in Rounds
        /\ phase' \in {"drafted", "overview"}
    BY <1>5 DEF LectureCollected, RoundIs, Stopped, Rounds, Round
  <2>2. drafts \in Seq(Draft)
    BY DEF EngineTypes
  <2>3. accepted = drafts
    <3>1. \A i \in 1..Len(drafts) : drafts[i] # NoDraft
      BY <2>1, AllDrafted
    <3>2. accepted = [i \in 1..Len(drafts) |-> drafts[i]]
      <4>1. {i \in 1..Len(drafts) : drafts[i] # NoDraft} = 1..Len(drafts)
        BY <3>1
      <4>2. accepted = [i \in {i \in 1..Len(drafts) : drafts[i] # NoDraft} |-> drafts[i]]
        BY <2>1 DEF LectureOrdered
      <4>3. QED
        BY <4>1, <4>2
    <3>3. QED
      BY <2>2, <3>2
  <2>4. /\ Collected \in Seq(Chapter)
        /\ Told(Collected) = FlattenSeq([i \in 1..Len(drafts) |-> Titled(drafts[i], i)])
    BY <2>2, CollectedTells
  <2>5. Told(Merged(Collected)) = Told(Collected) /\ NeighboursDiffer(Merged(Collected))
    BY <2>4, MergedTells
  <2>6. Ordered'
    <3>1. accepted' = drafts
      BY <2>1, <2>3
    <3>2. Told(chapters') = FlattenSeq([i \in 1..Len(accepted') |-> Titled(accepted'[i], i)])
      BY <2>1, <2>4, <2>5, <3>1, Zenon
    <3>3. NeighboursDiffer(chapters')
      BY <2>1, <2>5, Zenon
    <3>4. QED
      BY <3>2, <3>3 DEF Ordered
  <2>7. QED
    BY <2>1, <2>6 DEF LectureOrdered
<1>6. CASE OverviewWritten
  <2>1. /\ UNCHANGED <<mode, accepted, chapters>> /\ phase = "overview" /\ phase' = "drafted"
    BY <1>6 DEF OverviewWritten, RoundIs
  <2>2. Ordered' <=> Ordered
    BY <2>1 DEF Ordered
  <2>3. QED
    BY <2>1, <2>2 DEF LectureOrdered
<1>7. CASE MeetingReduced
  BY <1>7 DEF MeetingReduced, LectureOrdered
<1>8. CASE Materialized
  <2>1. /\ UNCHANGED <<mode, accepted, chapters>>
        /\ phase = "drafted" /\ phase' \in {"done", "failed"}
    BY <1>8 DEF Materialized
  <2>2. Ordered' <=> Ordered
    BY <2>1 DEF Ordered
  <2>3. QED
    BY <2>1, <2>2 DEF LectureOrdered
<1>9. CASE Abort \/ UNCHANGED vars
  <2>1. UNCHANGED <<mode, drafts, accepted, chapters>> /\ phase' = phase
    BY <1>9 DEF Abort, vars
  <2>2. QED
    BY <1>2, <2>1
<1>10. QED
  BY <1>1, <1>3, <1>4, <1>5, <1>6, <1>7, <1>8, <1>9 DEF Next, Step

\* Whichever worker answers first, every chapter of every segment is in the summary of a
\* lecture, in order, and neighbours have different titles.
THEOREM SpokenOrderHolds == ASSUME EngineConstants PROVE Spec => []SpokenOrder
<1> DEFINE IInv == EngineTypes /\ Filling /\ LectureOrdered
<1>1. Init => IInv
  <2>1. Init => LectureOrdered
    BY DEF Init, LectureOrdered
  <2>2. QED
    BY <2>1, EngineInit
<1>2. IInv /\ [Next]_vars => IInv'
  BY EngineStep, LectureStep
<1>3. IInv => SpokenOrder
  BY DEF LectureOrdered, SpokenOrder, Ordered, NeighboursDiffer
<1>4. QED
  BY <1>1, <1>2, <1>3, PTL DEF Spec

\* The state keeps its types.
THEOREM EngineTypesHold == ASSUME EngineConstants PROVE Spec => []TypeOK
<1>1. EngineTypes => TypeOK
  <2>1. SUFFICES ASSUME EngineTypes PROVE TypeOK
    OBVIOUS
  <2>2. DOMAIN drafts = DOMAIN inputs
    BY <2>1 DEF EngineTypes
  <2>3. QED
    BY <2>1, <2>2 DEF EngineTypes, TypeOK
<1>2. EngineTypes /\ Filling /\ [Next]_vars => (EngineTypes /\ Filling)'
  BY EngineStep
<1>3. QED
  BY <1>1, <1>2, EngineInit, PTL DEF Spec
=============================================================================
