----------------------------- MODULE LoopLemmas -----------------------------
(***************************************************************************)
(* What a loop computes, for the proofs of the other modules.  The loops of *)
(* the models are recursive functions; here they are made available to the  *)
(* provers: induction over Nat and over sequences, for sets instead of      *)
(* predicates, that a recursive function over the prefixes of a sequence is *)
(* the fold of its turn, and that FlattenSeq is such a fold.                *)
(***************************************************************************)
EXTENDS Integers, FiniteSets, SequencesExt, FiniteSetTheorems, SequenceTheorems,
        WellFoundedInduction, TLAPS

\* A set of natural numbers has a least one.
LEMMA Smallest == ASSUME NEW S \in SUBSET Nat, S # {} PROVE \E n \in S : \A m \in S : n <= m
<1> DEFINE R == {ss \in Nat \X Nat : ss[1] < ss[2]}
<1>1. IsWellFoundedOn(R, Nat)
  BY NatLessThanWellFounded DEF OpToRel
<1>2. \E x \in S : \A y \in S : <<y, x>> \notin R
  BY <1>1, WFMin, Zenon
<1>3. PICK x \in S : \A y \in S : <<y, x>> \notin R
  BY <1>2
<1>4. \A y \in S : ~(y < x)
  BY <1>3
<1>5. \A y \in S : x \in Nat /\ y \in Nat /\ ~(y < x)
  BY <1>4
<1>6. \A y \in S : x <= y
  BY <1>5
<1> QED BY <1>6

\* Induction, for a set instead of a predicate.
LEMMA Induct ==
   ASSUME NEW S \in SUBSET Nat, 0 \in S, \A n \in S : n + 1 \in S
   PROVE  S = Nat
<1> DEFINE bad == Nat \ S
<1> SUFFICES ASSUME bad # {} PROVE FALSE
  OBVIOUS
<1>1. PICK n \in bad : \A m \in bad : n <= m
  BY Smallest
<1>2. n - 1 \in Nat /\ n - 1 \notin bad
  BY <1>1
<1>3. (n - 1) + 1 \in S
  BY <1>2
<1> QED BY <1>1, <1>3

\* What FS_Interval says of 1..n.
LEMMA CountUpTo == ASSUME NEW n \in Nat PROVE IsFiniteSet(1..n) /\ Cardinality(1..n) = n
<1>1. IsFiniteSet(1..n)
  BY FS_Interval, 1 \in Int
<1>2. Cardinality(1..n) = IF 1 > n THEN 0 ELSE n - 1 + 1
  BY FS_Interval, 1 \in Int
<1> QED BY <1>1, <1>2

\* g[k] is what a loop has made of base after k turns, each of them a function on T.
LoopOf(g, n, T, base, turn) ==
    /\ g \in [0..n -> T] /\ g[0] = base
    /\ \A k \in 1..n : g[k] = turn[k][g[k - 1]]

\* Every loop has its values.
LEMMA LoopExists ==
    ASSUME NEW n \in Nat, NEW T, NEW base \in T, NEW turn \in [1..n -> [T -> T]]
    PROVE  \E g : LoopOf(g, n, T, base, turn)
<1> DEFINE Upto(m) == \E g : LoopOf(g, m, T, base, turn)
           S == {m \in Nat : m <= n => Upto(m)}
<1>1. Upto(0)
  <2> DEFINE g == [k \in 0..0 |-> base]
  <2>1. g \in [0..0 -> T] /\ g[0] = base
    OBVIOUS
  <2> HIDE DEF g
  <2>2. LoopOf(g, 0, T, base, turn)
    BY <2>1 DEF LoopOf
  <2> QED BY <2>2
<1>2. ASSUME NEW m \in Nat, Upto(m), m + 1 <= n PROVE Upto(m + 1)
  <2>1. PICK g : LoopOf(g, m, T, base, turn)
    BY <1>2
  <2> DEFINE h == [k \in 0..(m + 1) |-> IF k = m + 1 THEN turn[m + 1][g[m]] ELSE g[k]]
  <2>2. turn[m + 1][g[m]] \in T
    BY <1>2, <2>1 DEF LoopOf
  <2>3. h \in [0..(m + 1) -> T] /\ h[0] = base
    BY <2>1, <2>2 DEF LoopOf
  <2>4. ASSUME NEW k \in 1..(m + 1) PROVE h[k] = turn[k][h[k - 1]]
    <3>1. CASE k = m + 1
      BY <3>1
    <3>2. CASE k # m + 1
      <4>1. k \in 1..m /\ k \in 0..m /\ k - 1 \in 0..m /\ k - 1 # m + 1
        BY <3>2
      <4>2. h[k] = g[k] /\ h[k - 1] = g[k - 1]
        BY <3>2, <4>1
      <4> QED BY <2>1, <4>1, <4>2 DEF LoopOf
    <3> QED BY <3>1, <3>2
  <2> HIDE DEF h
  <2>5. LoopOf(h, m + 1, T, base, turn)
    BY <2>3, <2>4 DEF LoopOf
  <2> QED BY <2>5
<1> HIDE DEF Upto
<1>3. 0 \in S /\ \A m \in S : m + 1 \in S
  BY <1>1, <1>2
<1> HIDE DEF S
<1>4. S = Nat
  <2>1. S \in SUBSET Nat
    BY DEF S
  <2> QED BY <1>3, <2>1, Induct
<1>5. n \in S
  BY <1>4
<1>6. Upto(n)
  BY <1>5 DEF S
<1> QED BY <1>6 DEF Upto

-----------------------------------------------------------------------------
(*****************************************************************************)
(* Loops over a sequence.  A recursive function over the prefixes of a       *)
(* sequence is the fold of its turn, and a fold is what FoldEmpty,           *)
(* FoldAppend and FoldConcat say.                                            *)
(*****************************************************************************)
\* Induction over sequences: what holds of the empty one and stays when an
\* element is appended holds of all.
LEMMA InductSeq ==
    ASSUME NEW A, NEW S \in SUBSET Seq(A), <<>> \in S,
           \A s \in S, a \in A : Append(s, a) \in S
    PROVE  S = Seq(A)
<1> DEFINE N == {n \in Nat : \A s \in Seq(A) : Len(s) = n => s \in S}
<1>1. 0 \in N
  BY SMT
<1>2. ASSUME NEW n \in N PROVE n + 1 \in N
  <2> SUFFICES ASSUME NEW s \in Seq(A), Len(s) = n + 1 PROVE s \in S
    OBVIOUS
  <2>1. PICK t \in Seq(A), a \in A : s = Append(t, a)
    <3>1. s # <<>>
      OBVIOUS
    <3> QED BY <3>1, SequenceEmptyOrAppend
  <2>2. Len(t) = n
    BY <2>1, AppendProperties, LenProperties
  <2> QED BY <2>1, <2>2
<1>3. N = Nat
  BY <1>1, <1>2, Induct
<1>4. \A s \in Seq(A) : Len(s) \in N
  BY <1>3
<1> QED BY <1>4

\* What a loop over s makes of base; step[a][t] is its turn on the element a.
Folded(step, base, s) ==
    LET f[k \in 0..Len(s)] == IF k = 0 THEN base ELSE step[s[k]][f[k - 1]] IN f[Len(s)]

\* f has the equations of that loop as long as its values are of T.
Iterates(f, step, base, s, T) ==
    /\ f[0] = base
    /\ \A k \in 1..Len(s) : f[k - 1] \in T => f[k] = step[s[k]][f[k - 1]]

\* f is that loop, and its last value is what the loop makes of base.
FoldsTo(f, step, base, s, T) ==
    /\ f \in [0..Len(s) -> T] /\ f[0] = base
    /\ \A k \in 1..Len(s) : f[k] = step[s[k]][f[k - 1]]
    /\ Folded(step, base, s) = f[Len(s)]

\* Only one function is that loop.
LEMMA FoldUnique ==
    ASSUME NEW T, NEW A, NEW step \in [A -> [T -> T]], NEW base \in T, NEW s \in Seq(A)
    PROVE  \A f : Iterates(f, step, base, s, T) => Folded(step, base, s) = f[Len(s)]
<1> SUFFICES ASSUME NEW f, Iterates(f, step, base, s, T) PROVE Folded(step, base, s) = f[Len(s)]
  OBVIOUS
<1> DEFINE n == Len(s)
           turn == [k \in 1..n |-> [t \in T |-> step[s[k]][t]]]
           Solves(g) == g = [k \in 0..n |-> IF k = 0 THEN base ELSE step[s[k]][g[k - 1]]]
           loop == CHOOSE g : Solves(g)
<1>1. n \in Nat /\ \A k \in 1..n : s[k] \in A
  OBVIOUS
<1>2. turn \in [1..n -> [T -> T]]
  BY <1>1
<1>3. PICK g : LoopOf(g, n, T, base, turn)
  <2> HIDE DEF turn, n
  <2> QED BY <1>1, <1>2, LoopExists
<1>4. \A k \in 0..n : g[k] \in T
  BY <1>1, <1>3 DEF LoopOf
<1>5. \A k \in 1..n : k - 1 \in 0..n
  BY <1>1
<1>6. \A k \in 1..n : g[k] = step[s[k]][g[k - 1]]
  BY <1>3, <1>4, <1>5 DEF LoopOf
<1>7. Solves(g)
  <2>1. g = [k \in 0..n |-> g[k]] /\ g[0] = base
    BY <1>1, <1>3 DEF LoopOf
  <2>2. \A k \in 0..n : k # 0 => k \in 1..n
    BY <1>1
  <2> QED BY <2>1, <2>2, <1>6
<1>8. Solves(loop)
  <2> HIDE DEF Solves
  <2> QED BY <1>7, Zenon
<1>9. loop[0] = base /\ \A k \in 1..n : loop[k] = step[s[k]][loop[k - 1]]
  <2> HIDE DEF loop
  <2>1. loop = [k \in 0..n |-> IF k = 0 THEN base ELSE step[s[k]][loop[k - 1]]]
    BY <1>8
  <2>2. 0 \in 0..n /\ \A k \in 1..n : k \in 0..n /\ k # 0
    BY <1>1
  <2> HIDE DEF n
  <2> QED BY <2>1, <2>2
<1>10. \A k \in 0..n : f[k] = g[k] /\ loop[k] = g[k]
  <2> DEFINE S == {k \in Nat : k <= n => f[k] = g[k] /\ loop[k] = g[k]}
  <2>1. 0 \in S
    BY <1>3, <1>9 DEF LoopOf, Iterates
  <2>2. ASSUME NEW k \in S PROVE k + 1 \in S
    <3> SUFFICES ASSUME k + 1 <= n PROVE f[k + 1] = g[k + 1] /\ loop[k + 1] = g[k + 1]
      OBVIOUS
    <3>1. k + 1 \in 1..n /\ k \in 0..n /\ (k + 1) - 1 = k
      BY <1>1
    <3> HIDE DEF n, loop
    <3>2. f[k] = g[k] /\ loop[k] = g[k]
      BY <3>1
    <3> QED BY <3>1, <3>2, <1>4, <1>6, <1>9 DEF n, Iterates
  <2>3. S = Nat
    <3> HIDE DEF S
    <3>1. S \in SUBSET Nat
      BY DEF S
    <3> QED BY <2>1, <2>2, <3>1, Induct
  <2> HIDE DEF n, loop
  <2>4. \A k \in 0..n : k \in S /\ k <= n
    BY <2>3, <1>1
  <2> QED BY <2>4
<1>11. Folded(step, base, s) = loop[n]
  BY Zenon DEF Folded
<1> HIDE DEF n, loop
<1> QED BY <1>1, <1>4, <1>10, <1>11 DEF n

\* A loop has its values.
LEMMA FoldExists ==
    ASSUME NEW T, NEW A, NEW step \in [A -> [T -> T]], NEW base \in T, NEW s \in Seq(A)
    PROVE  \E f : FoldsTo(f, step, base, s, T)
<1> DEFINE n == Len(s)
           turn == [k \in 1..n |-> [t \in T |-> step[s[k]][t]]]
<1>1. n \in Nat /\ \A k \in 1..n : s[k] \in A
  OBVIOUS
<1>2. turn \in [1..n -> [T -> T]]
  BY <1>1
<1>3. PICK g : LoopOf(g, n, T, base, turn)
  <2> HIDE DEF turn, n
  <2> QED BY <1>1, <1>2, LoopExists
<1>4. \A k \in 1..n : k - 1 \in 0..n
  BY <1>1
<1>5. g \in [0..n -> T] /\ g[0] = base /\ \A k \in 1..n : g[k] = step[s[k]][g[k - 1]]
  BY <1>3, <1>4 DEF LoopOf
<1> HIDE DEF turn
<1>6. Folded(step, base, s) = g[n]
  <2>1. Iterates(g, step, base, s, T)
    BY <1>5 DEF Iterates
  <2>2. \A f : Iterates(f, step, base, s, T) => Folded(step, base, s) = f[Len(s)]
    BY FoldUnique
  <2> QED BY <2>1, <2>2
<1> QED BY <1>5, <1>6 DEF FoldsTo

\* A loop whose turns stay in T ends in T.
LEMMA FoldType ==
    ASSUME NEW T, NEW A, NEW step \in [A -> [T -> T]], NEW base \in T, NEW s \in Seq(A)
    PROVE  Folded(step, base, s) \in T
<1>1. PICK f : FoldsTo(f, step, base, s, T)
  BY FoldExists
<1> QED BY <1>1 DEF FoldsTo

\* No turn, no change.
LEMMA FoldEmpty ==
    ASSUME NEW T, NEW A, NEW step \in [A -> [T -> T]], NEW base \in T
    PROVE  Folded(step, base, <<>>) = base
<1>1. <<>> \in Seq(A) /\ Len(<<>>) = 0
  OBVIOUS
<1>2. PICK f : FoldsTo(f, step, base, <<>>, T)
  BY <1>1, FoldExists
<1> QED BY <1>1, <1>2 DEF FoldsTo

\* One element more is one turn more.
LEMMA FoldAppend ==
    ASSUME NEW T, NEW A, NEW step \in [A -> [T -> T]], NEW base \in T, NEW s \in Seq(A), NEW a \in A
    PROVE  Folded(step, base, Append(s, a)) = step[a][Folded(step, base, s)]
<1> DEFINE n == Len(s)
           more == Append(s, a)
<1>0. PICK f : FoldsTo(f, step, base, s, T)
  BY FoldExists
<1>1. /\ f \in [0..n -> T] /\ f[0] = base
      /\ \A k \in 1..n : f[k] = step[s[k]][f[k - 1]]
      /\ Folded(step, base, s) = f[n]
  BY <1>0 DEF FoldsTo
<1>2. n \in Nat /\ more \in Seq(A) /\ Len(more) = n + 1 /\ more[n + 1] = a
      /\ \A k \in 1..n : more[k] = s[k]
  OBVIOUS
<1> DEFINE g == [k \in 0..(n + 1) |-> IF k = n + 1 THEN step[a][f[n]] ELSE f[k]]
<1>3. g[0] = base /\ g[n + 1] = step[a][f[n]]
  BY <1>1, <1>2
<1>4. \A k \in 1..(n + 1) : g[k] = step[more[k]][g[k - 1]]
  BY <1>1, <1>2
<1> HIDE DEF g, n, more
<1>5. Folded(step, base, more) = g[n + 1]
  <2>1. Iterates(g, step, base, more, T)
    BY <1>2, <1>3, <1>4 DEF Iterates
  <2>2. \A f1 : Iterates(f1, step, base, more, T) => Folded(step, base, more) = f1[Len(more)]
    BY <1>2, FoldUnique
  <2> QED BY <1>2, <2>1, <2>2
<1> QED BY <1>1, <1>3, <1>5 DEF n, more

\* A loop over two sequences goes on over the second where it left the first.
LEMMA FoldConcat ==
    ASSUME NEW T, NEW A, NEW step \in [A -> [T -> T]], NEW base \in T,
           NEW s \in Seq(A), NEW t \in Seq(A)
    PROVE  Folded(step, base, s \o t) = Folded(step, Folded(step, base, s), t)
<1> DEFINE S == {v \in Seq(A) : Folded(step, base, s \o v) = Folded(step, Folded(step, base, s), v)}
<1>1. Folded(step, base, s) \in T
  BY FoldType
<1>2. <<>> \in S
  <2>1. s \o <<>> = s
    OBVIOUS
  <2> QED BY <1>1, <2>1, FoldEmpty
<1>3. ASSUME NEW v \in S, NEW a \in A PROVE Append(v, a) \in S
  <2>1. s \o Append(v, a) = Append(s \o v, a)
    OBVIOUS
  <2>2. s \o v \in Seq(A) /\ v \in Seq(A) /\ Append(v, a) \in Seq(A)
    OBVIOUS
  <2> DEFINE sv == s \o v
  <2>3. Folded(step, base, Append(sv, a)) = step[a][Folded(step, base, sv)]
    <3> HIDE DEF sv
    <3>1. sv \in Seq(A)
      BY <2>2 DEF sv
    <3> QED BY <3>1, FoldAppend
  <2>4. Folded(step, Folded(step, base, s), Append(v, a)) = step[a][Folded(step, Folded(step, base, s), v)]
    BY <1>1, <2>2, FoldAppend
  <2> QED BY <2>1, <2>2, <2>3, <2>4
<1> HIDE DEF S
<1>4. S = Seq(A)
  <2>1. S \in SUBSET Seq(A)
    BY DEF S
  <2> QED BY <1>2, <1>3, <2>1, InductSeq
<1> QED BY <1>4 DEF S

-----------------------------------------------------------------------------
\* The loop of FlattenSeq.
Joins(A) == [s \in Seq(A) |-> [t \in Seq(A) |-> t \o s]]

\* Joining is a turn on sequences.
LEMMA JoinsType == ASSUME NEW A PROVE Joins(A) \in [Seq(A) -> [Seq(A) -> Seq(A)]] /\ <<>> \in Seq(A)
BY ConcatProperties DEF Joins

\* FlattenSeq is the fold of joining.
LEMMA FlattenIs ==
    ASSUME NEW A, NEW seqs \in Seq(Seq(A))
    PROVE  FlattenSeq(seqs) = Folded(Joins(A), <<>>, seqs)
<1> DEFINE n == Len(seqs)
           T == Seq(A)
           step == Joins(A)
           nil == <<>>
           Solves(g) == g = [i \in 1..n |-> IF i = 1 THEN seqs[i] ELSE g[i - 1] \o seqs[i]]
           flatten == CHOOSE g : Solves(g)
<1>1. n \in Nat /\ \A k \in 1..n : seqs[k] \in T
  OBVIOUS
<1>2. step \in [T -> [T -> T]] /\ nil \in T
  BY JoinsType
<1>3. CASE n = 0
  <2>1. FlattenSeq(seqs) = seqs /\ seqs = <<>>
    BY <1>3 DEF FlattenSeq
  <2>2. Folded(step, nil, <<>>) = nil
    <3> HIDE DEF step, nil, T
    <3> QED BY <1>2, FoldEmpty
  <2> QED BY <2>1, <2>2
<1>4. CASE n # 0
  <2>1. FlattenSeq(seqs) = flatten[n]
    BY <1>4, Zenon DEF FlattenSeq
  <2>2. PICK f : FoldsTo(f, step, nil, seqs, T)
    <3> HIDE DEF step, nil, T
    <3>1. seqs \in Seq(T)
      BY DEF T
    <3> QED BY <1>2, <3>1, FoldExists
  <2>3. f \in [0..n -> T] /\ f[0] = nil /\ \A k \in 1..n : f[k] = f[k - 1] \o seqs[k]
    <3>1. f \in [0..n -> T] /\ f[0] = nil /\ \A k \in 1..n : f[k] = step[seqs[k]][f[k - 1]]
      BY <2>2 DEF FoldsTo
    <3>2. \A k \in 1..n : k - 1 \in 0..n
      BY <1>1
    <3>3. \A s, t \in T : step[s][t] = t \o s
      BY DEF Joins
    <3>4. \A k \in 1..n : f[k - 1] \in T
      <4> HIDE DEF T, n
      <4> QED BY <3>1, <3>2
    <3> HIDE DEF T, step, n, nil
    <3> QED BY <1>1, <3>1, <3>3, <3>4
  <2>4. \A s \in T : nil \o s = s
    BY ConcatEmptySeq
  <2> DEFINE g == [k \in 1..n |-> f[k]]
  <2>5. Solves(g)
    <3>1. 1 \in 1..n => f[1] = seqs[1]
      <4> SUFFICES ASSUME 1 \in 1..n PROVE f[1] = seqs[1]
        OBVIOUS
      <4>1. f[1] = f[1 - 1] \o seqs[1] /\ seqs[1] \in T
        <5> HIDE DEF nil, T, n
        <5> QED BY <1>1, <2>3
      <4>2. f[1 - 1] = nil
        <5> HIDE DEF nil, T, n
        <5> QED BY <2>3
      <4> HIDE DEF nil, T, n
      <4> QED BY <2>4, <4>1, <4>2
    <3>2. \A k \in 1..n : k # 1 => k - 1 \in 1..n
      BY <1>1
    <3> HIDE DEF n, nil, T
    <3> QED BY <2>3, <3>1, <3>2
  <2>6. Solves(flatten)
    <3> HIDE DEF Solves
    <3> QED BY <2>5, Zenon
  <2> HIDE DEF flatten
  <2> DEFINE h == [k \in 0..n |-> IF k = 0 THEN nil ELSE flatten[k]]
  <2>7. Iterates(h, step, nil, seqs, T)
    <3>1. 0 \in 0..n /\ \A k \in 1..n : k \in 0..n /\ k # 0 /\ k - 1 \in 0..n /\ (k - 1 = 0 <=> k = 1)
      BY <1>1
    <3>2. \A k \in 1..n : flatten[k] = IF k = 1 THEN seqs[k] ELSE flatten[k - 1] \o seqs[k]
      <4> HIDE DEF n
      <4> QED BY <2>6
    <3>3. \A k \in 1..n : h[k] = h[k - 1] \o seqs[k]
      <4> SUFFICES ASSUME NEW k \in 1..n PROVE h[k] = h[k - 1] \o seqs[k]
        OBVIOUS
      <4>1. CASE k = 1
        <5>1. h[k] = seqs[k] /\ h[k - 1] = nil /\ seqs[k] \in T
          <6> HIDE DEF n, nil, T
          <6> QED BY <1>1, <3>1, <3>2, <4>1
        <5> HIDE DEF h, nil, n, T
        <5> QED BY <2>4, <5>1
      <4>2. CASE k # 1
        <5>1. h[k] = flatten[k] /\ h[k - 1] = flatten[k - 1]
          <6> HIDE DEF n
          <6> QED BY <3>1, <4>2
        <5> HIDE DEF h, n
        <5> QED BY <3>2, <4>2, <5>1
      <4> QED BY <4>1, <4>2
    <3>4. \A s, t \in T : step[s][t] = t \o s
      BY DEF Joins
    <3>5. h[0] = nil
      <4> HIDE DEF n
      <4> QED BY <3>1
    <3> HIDE DEF T, step, nil, h
    <3> QED BY <1>1, <3>3, <3>4, <3>5 DEF Iterates
  <2>8. Folded(step, nil, seqs) = h[n]
    <3> HIDE DEF step, nil, h
    <3>1. \A f1 : Iterates(f1, step, nil, seqs, T) => Folded(step, nil, seqs) = f1[Len(seqs)]
      BY <1>2, FoldUnique
    <3> QED BY <2>7, <3>1
  <2>9. h[n] = flatten[n]
    BY <1>1, <1>4
  <2> QED BY <2>1, <2>8, <2>9
<1> QED BY <1>3, <1>4

\* "".join([]) is empty.
LEMMA FlattenEmpty == FlattenSeq(<<>>) = <<>>
BY DEF FlattenSeq

\* "".join of one string more ends with that string.
LEMMA FlattenAppend ==
    ASSUME NEW A, NEW seqs \in Seq(Seq(A)), NEW s \in Seq(A)
    PROVE  FlattenSeq(seqs) \in Seq(A) /\ FlattenSeq(Append(seqs, s)) = FlattenSeq(seqs) \o s
<1> DEFINE T == Seq(A)
           step == Joins(A)
           nil == <<>>
           more == Append(seqs, s)
<1>1. more \in Seq(T) /\ seqs \in Seq(T)
  OBVIOUS
<1>2. step \in [T -> [T -> T]] /\ nil \in T /\ \A a, t \in T : step[a][t] = t \o a
  BY JoinsType DEF Joins
<1>3. FlattenSeq(seqs) = Folded(step, nil, seqs) /\ FlattenSeq(more) = Folded(step, nil, more)
  BY <1>1, FlattenIs
<1> HIDE DEF step, nil
<1>4. Folded(step, nil, seqs) \in T
  BY <1>1, <1>2, FoldType
<1>5. Folded(step, nil, more) = step[s][Folded(step, nil, seqs)]
  <2> HIDE DEF T, more
  <2>1. \A v \in Seq(T), a \in T : Folded(step, nil, Append(v, a)) = step[a][Folded(step, nil, v)]
    <3>0. step \in [T -> [T -> T]]
      BY <1>2
    <3>1. \A b \in T, v \in Seq(T), a \in T : Folded(step, b, Append(v, a)) = step[a][Folded(step, b, v)]
      <4> TAKE b \in T, v \in Seq(T), a \in T
      <4> HIDE <1>1, <1>2, <1>3, <1>4
      <4> QED BY <3>0, FoldAppend
    <3> QED BY <1>2, <3>1
  <2> QED BY <1>1, <2>1 DEF T, more
<1> QED BY <1>2, <1>3, <1>4, <1>5

-----------------------------------------------------------------------------
\* m applied to each element.
Mapped(m, s) == [i \in 1..Len(s) |-> m[s[i]]]

\* A map keeps the length and has its values in the range of m.
LEMMA MapType ==
    ASSUME NEW A, NEW B, NEW m \in [A -> B], NEW s \in Seq(A)
    PROVE  Mapped(m, s) \in Seq(B) /\ Len(Mapped(m, s)) = Len(s)
BY DEF Mapped

\* One element more is one value more.
LEMMA MapAppend ==
    ASSUME NEW A, NEW B, NEW m \in [A -> B], NEW s \in Seq(A), NEW a \in A
    PROVE  Mapped(m, Append(s, a)) = Append(Mapped(m, s), m[a])
<1> DEFINE l == Append(s, a)
           r == Append(Mapped(m, s), m[a])
<1>1. l \in Seq(A) /\ Len(l) = Len(s) + 1 /\ l[Len(s) + 1] = a /\ \A i \in 1..Len(s) : l[i] = s[i]
  BY AppendProperties
<1>2. Mapped(m, s) \in Seq(B) /\ Len(Mapped(m, s)) = Len(s)
  BY DEF Mapped
<1>3. r \in Seq(B) /\ Len(r) = Len(s) + 1 /\ r[Len(s) + 1] = m[a]
      /\ \A i \in 1..Len(s) : r[i] = Mapped(m, s)[i]
  <2>1. m[a] \in B
    OBVIOUS
  <2> QED BY <1>2, <2>1, AppendProperties
<1> HIDE DEF l, r
<1>4. Mapped(m, l) \in Seq(B) /\ Len(Mapped(m, l)) = Len(s) + 1
  <2>1. Mapped(m, l) \in Seq(B) /\ Len(Mapped(m, l)) = Len(l)
    BY <1>1 DEF Mapped
  <2> QED BY <1>1, <2>1
<1>5. \A i \in 1..(Len(s) + 1) : Mapped(m, l)[i] = r[i]
  <2>1. \A i \in 1..(Len(s) + 1) : i \in 1..Len(s) \/ i = Len(s) + 1
    OBVIOUS
  <2>2. \A i \in 1..(Len(s) + 1) : Mapped(m, l)[i] = m[l[i]]
    BY <1>1 DEF Mapped
  <2>3. \A i \in 1..Len(s) : Mapped(m, s)[i] = m[s[i]]
    BY DEF Mapped
  <2> QED BY <1>1, <1>3, <2>1, <2>2, <2>3
<1>6. Mapped(m, l) = r
  BY <1>3, <1>4, <1>5, SeqEqual
<1> QED BY <1>6 DEF l, r

\* What m makes of the elements of s, one after the other.
Joined(m, s) == FlattenSeq(Mapped(m, s))

\* A loop that appends what it makes of each element.
LEMMA JoinedThrough ==
    ASSUME NEW A, NEW B, NEW m \in [A -> Seq(B)]
    PROVE  /\ Joined(m, <<>>) = <<>>
           /\ \A s \in Seq(A) : Joined(m, s) \in Seq(B)
           /\ \A s \in Seq(A), a \in A : Joined(m, Append(s, a)) = Joined(m, s) \o m[a]
<1>1. Joined(m, <<>>) = <<>>
  <2>1. Mapped(m, <<>>) = <<>>
    BY DEF Mapped
  <2> QED BY <2>1, FlattenEmpty DEF Joined
<1>2. ASSUME NEW s \in Seq(A), NEW a \in A
      PROVE  Joined(m, s) \in Seq(B) /\ Joined(m, Append(s, a)) = Joined(m, s) \o m[a]
  <2> DEFINE parts == Mapped(m, s)
             T == Seq(B)
  <2>1. parts \in Seq(T) /\ m \in [A -> T]
    BY MapType
  <2>2. Mapped(m, Append(s, a)) = Append(parts, m[a])
    <3> HIDE DEF T
    <3> QED BY <2>1, MapAppend, ZenonT(60)
  <2>3. m[a] \in Seq(B)
    OBVIOUS
  <2>4. FlattenSeq(parts) \in Seq(B) /\ FlattenSeq(Append(parts, m[a])) = FlattenSeq(parts) \o m[a]
    <3> HIDE DEF parts
    <3> QED BY <2>1, <2>3, FlattenAppend DEF T
  <2> QED BY <2>2, <2>4 DEF Joined
<1>3. \A s \in Seq(A) : Joined(m, s) \in Seq(B)
  <2> SUFFICES ASSUME NEW s \in Seq(A) PROVE Joined(m, s) \in Seq(B)
    OBVIOUS
  <2>1. CASE s = <<>>
    <3>1. <<>> \in Seq(B)
      OBVIOUS
    <3> QED BY <1>1, <2>1, <3>1, Zenon
  <2>2. CASE s # <<>>
    <3>1. PICK a \in A : TRUE
      BY <2>2, SequenceEmptyOrAppend
    <3> QED BY <1>2, <3>1
  <2> QED BY <2>1, <2>2
<1> QED BY <1>1, <1>2, <1>3

\* And that goes on over a second sequence.
LEMMA JoinedConcat ==
    ASSUME NEW A, NEW B, NEW m \in [A -> Seq(B)], NEW s \in Seq(A), NEW t \in Seq(A)
    PROVE  Joined(m, s \o t) = Joined(m, s) \o Joined(m, t)
<1> DEFINE S == {v \in Seq(A) : Joined(m, s \o v) = Joined(m, s) \o Joined(m, v)}
<1>1. /\ Joined(m, <<>>) = <<>> /\ \A v \in Seq(A) : Joined(m, v) \in Seq(B)
      /\ \A v \in Seq(A), a \in A : Joined(m, Append(v, a)) = Joined(m, v) \o m[a]
  BY JoinedThrough
<1>2. <<>> \in S
  BY <1>1
<1>3. ASSUME NEW v \in S, NEW a \in A PROVE Append(v, a) \in S
  <2>1. s \o Append(v, a) = Append(s \o v, a) /\ s \o v \in Seq(A) /\ m[a] \in Seq(B)
    OBVIOUS
  <2>2. Joined(m, s \o Append(v, a)) = (Joined(m, s) \o Joined(m, v)) \o m[a]
    BY <1>1, <2>1
  <2>3. Joined(m, Append(v, a)) = Joined(m, v) \o m[a] /\ Append(v, a) \in Seq(A)
    BY <1>1
  <2> DEFINE x == Joined(m, s)
             y == Joined(m, v)
  <2>4. x \in Seq(B) /\ y \in Seq(B)
    BY <1>1
  <2>5. (x \o y) \o m[a] = x \o (y \o m[a])
    <3> DEFINE z == m[a]
    <3> HIDE DEF x, y, z
    <3> SUFFICES (x \o y) \o z = x \o (y \o z)
      BY DEF z
    <3>1. z \in Seq(B)
      BY <2>1 DEF z
    <3> QED BY <2>4, <3>1, ConcatAssociative, SMTT(30)
  <2> QED BY <2>2, <2>3, <2>5
<1> HIDE DEF S
<1>4. S = Seq(A)
  <2>1. S \in SUBSET Seq(A)
    BY DEF S
  <2> QED BY <1>2, <1>3, <2>1, InductSeq
<1> QED BY <1>4 DEF S
=============================================================================
