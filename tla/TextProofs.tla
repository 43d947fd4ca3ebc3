------------------------------- MODULE TextProofs -------------------------------
(* Proofs about what is made of a template, whatever the lengths of its texts  *)
(* and of the values.                                                          *)
EXTENDS TemplateText, SequenceTheorems, FiniteSetTheorems, WellFoundedInduction, TLAPS

-------------------------------------------------------------------------------
(* Induction, with a set in the place of a predicate.                          *)

(* A set of numbers that is not empty has a least one.                         *)
LEMMA LeastNumber ==
    ASSUME NEW T, T \subseteq Nat, T # {}
    PROVE  \E n \in T : \A m \in T : ~(m < n)
<1>1. PICK n \in T : \A m \in T : <<m, n>> \notin OpToRel(<, Nat)
  BY NatLessThanWellFounded, WFMin
<1> QED BY <1>1 DEF OpToRel

(* A set that has 0 and, with a number, the next one has them all.             *)
LEMMA NumbersInduction ==
    ASSUME NEW S, 0 \in S, \A n \in Nat : n \in S => n + 1 \in S
    PROVE  Nat \subseteq S
<1> SUFFICES ASSUME Nat \ S # {} PROVE FALSE
  OBVIOUS
<1>1. PICK n \in Nat \ S : \A m \in Nat \ S : ~(m < n)
  BY LeastNumber
<1>2. n # 0 /\ n - 1 \in Nat
  BY <1>1
<1>3. n - 1 \in S
  BY <1>1, <1>2
<1> QED BY <1>1, <1>2, <1>3

(* A set that has the empty text and, with a text, every longer one by a       *)
(* part has all texts over D.                                                  *)
LEMMA SequencesInduction ==
    ASSUME NEW D, NEW S, << >> \in S, \A s \in Seq(D), e \in D : s \in S => Append(s, e) \in S
    PROVE  Seq(D) \subseteq S
<1> DEFINE N == {n \in Nat : \A s \in Seq(D) : Len(s) = n => s \in S}
<1>1. 0 \in N
  <2>1. \A s \in Seq(D) : Len(s) = 0 => s = << >>
    BY EmptySeq
  <2> QED BY <2>1
<1>2. ASSUME NEW n \in Nat, n \in N PROVE n + 1 \in N
  <2> SUFFICES ASSUME NEW s \in Seq(D), Len(s) = n + 1 PROVE s \in S
    BY <1>2
  <2>1. s # << >>
    BY EmptySeq, <1>2
  <2>2. PICK t \in Seq(D), e \in D : s = Append(t, e)
    BY <2>1, SequenceEmptyOrAppend
  <2>3. Len(t) = n
    BY <2>2, AppendProperties, LenProperties, <1>2
  <2> QED BY <1>2, <2>2, <2>3
<1> HIDE DEF N
<1>3. Nat \subseteq N
  BY <1>1, <1>2, NumbersInduction
<1> QED BY <1>3, LenProperties DEF N

(* What a loop computes: g[i] is its result after i turns.                     *)
Runs(g, first, step, n) == g[0] = first /\ \A i \in 1 .. n : g[i] = step[<<i, g[i - 1]>>]

(* A loop whose turns are defined has a result after each of them.             *)
LEMMA LoopRuns ==
    ASSUME NEW n \in Nat, NEW V, NEW first \in V, NEW step \in [(1 .. n) \X V -> V]
    PROVE  \E g \in [0 .. n -> V] : Runs(g, first, step, n)
<1> DEFINE N == {m \in Nat : m <= n => \E g \in [0 .. m -> V] : Runs(g, first, step, m)}
<1>1. 0 \in N
  <2>1. [i \in 0 .. 0 |-> first] \in [0 .. 0 -> V] /\ Runs([i \in 0 .. 0 |-> first], first, step, 0)
    BY DEF Runs
  <2> QED BY <2>1
<1>2. ASSUME NEW m \in Nat, m \in N PROVE m + 1 \in N
  <2> SUFFICES ASSUME m + 1 <= n PROVE \E g \in [0 .. m + 1 -> V] : Runs(g, first, step, m + 1)
    OBVIOUS
  <2>1. PICK g \in [0 .. m -> V] : Runs(g, first, step, m)
    BY <1>2
  <2> DEFINE h == [i \in 0 .. m + 1 |-> IF i = m + 1 THEN step[<<m + 1, g[m]>>] ELSE g[i]]
  <2>2. <<m + 1, g[m]>> \in (1 .. n) \X V
    BY <2>1
  <2>3. h \in [0 .. m + 1 -> V]
    BY <2>1, <2>2
  <2>4. h[0] = first
    BY <2>1 DEF Runs
  <2>5. ASSUME NEW i \in 1 .. m + 1 PROVE h[i] = step[<<i, h[i - 1]>>]
    <3>1. CASE i = m + 1
      <4>1. h[i] = step[<<i, g[m]>>] /\ h[i - 1] = g[m]
        BY <3>1
      <4> QED BY <4>1
    <3>2. CASE i # m + 1
      <4>1. i \in 1 .. m /\ i - 1 \in 0 .. m
        BY <3>2
      <4>2. h[i] = g[i] /\ h[i - 1] = g[i - 1]
        BY <4>1
      <4> QED BY <2>1, <4>1, <4>2 DEF Runs
    <3> QED BY <3>1, <3>2
  <2> HIDE DEF h
  <2> QED BY <2>3, <2>4, <2>5 DEF Runs
<1> HIDE DEF N
<1>3. Nat \subseteq N
  BY <1>1, <1>2, NumbersInduction
<1> QED BY <1>3 DEF N

(* And only one.                                                               *)
LEMMA LoopIsUnique ==
    ASSUME NEW n \in Nat, NEW first, NEW step, NEW g, NEW h,
           Runs(g, first, step, n), Runs(h, first, step, n)
    PROVE  g[n] = h[n]
<1> DEFINE N == {m \in Nat : m <= n => g[m] = h[m]}
<1>1. 0 \in N
  BY DEF Runs
<1>2. ASSUME NEW m \in Nat, m \in N PROVE m + 1 \in N
  <2> SUFFICES ASSUME m + 1 \in 1 .. n PROVE g[m + 1] = h[m + 1]
    OBVIOUS
  <2>1. g[m] = h[m] /\ (m + 1) - 1 = m
    BY <1>2
  <2> QED BY <2>1 DEF Runs
<1> HIDE DEF N
<1>3. Nat \subseteq N
  BY <1>1, <1>2, NumbersInduction
<1> QED BY <1>3 DEF N

-------------------------------------------------------------------------------
(* FlattenSeq, which the library defines by a recursive function.              *)
Steps(D, seqs, n) == [p \in (1 .. n) \X Seq(D) |-> p[2] \o seqs[p[1]]]

(* A turn of the loop that appends the parts makes a text again.               *)
LEMMA StepsType ==
    ASSUME NEW D, NEW n \in Nat, NEW seqs \in [1 .. n -> Seq(D)]
    PROVE  /\ Steps(D, seqs, n) \in [(1 .. n) \X Seq(D) -> Seq(D)]
           /\ \A i \in 1 .. n, t \in Seq(D) : Steps(D, seqs, n)[<<i, t>>] = t \o seqs[i]
<1>1. ASSUME NEW p \in (1 .. n) \X Seq(D) PROVE p[2] \o seqs[p[1]] \in Seq(D)
  <2>1. p[2] \in Seq(D) /\ seqs[p[1]] \in Seq(D)
    OBVIOUS
  <2> QED BY <2>1, ConcatProperties
<1>2. ASSUME NEW i \in 1 .. n, NEW t \in Seq(D) PROVE Steps(D, seqs, n)[<<i, t>>] = t \o seqs[i]
  BY Zenon DEF Steps
<1>3. Steps(D, seqs, n) \in [(1 .. n) \X Seq(D) -> Seq(D)]
  BY <1>1, Zenon DEF Steps
<1> QED BY <1>2, <1>3

Joins(g, seqs, n) == g[0] = << >> /\ \A i \in 1 .. n : g[i] = g[i - 1] \o seqs[i]

(* A loop that appends the parts, in the terms of its turns.                   *)
LEMMA StepsRun ==
    ASSUME NEW D, NEW n \in Nat, NEW seqs \in [1 .. n -> Seq(D)], NEW g \in [0 .. n -> Seq(D)]
    PROVE  Runs(g, << >>, Steps(D, seqs, n), n) <=> Joins(g, seqs, n)
<1>1. ASSUME NEW i \in 1 .. n PROVE Steps(D, seqs, n)[<<i, g[i - 1]>>] = g[i - 1] \o seqs[i]
  <2>1. PICK t \in Seq(D) : t = g[i - 1]
    OBVIOUS
  <2>2. Steps(D, seqs, n)[<<i, t>>] = t \o seqs[i]
    BY Zenon DEF Steps
  <2> QED BY <2>1, <2>2
<1> QED BY <1>1, Zenon DEF Runs, Joins

(* A list of n texts.                                                          *)
SeqOfSeqs(D, seqs, n) == n \in Nat /\ seqs \in [1 .. n -> Seq(D)] /\ Len(seqs) = n /\ (n = 0 => seqs = << >>)

(* FlattenSeq is what that loop ends with.                                     *)
LEMMA FlattenRuns ==
    ASSUME NEW D, NEW n, NEW seqs, SeqOfSeqs(D, seqs, n)
    PROVE  \E g \in [0 .. n -> Seq(D)] : Runs(g, << >>, Steps(D, seqs, n), n) /\ FlattenSeq(seqs) = g[n]
<1>0. n \in Nat /\ seqs \in [1 .. n -> Seq(D)] /\ Len(seqs) = n /\ (n = 0 => seqs = << >>)
  BY DEF SeqOfSeqs
<1>1. << >> \in Seq(D) /\ Steps(D, seqs, n) \in [(1 .. n) \X Seq(D) -> Seq(D)]
  BY <1>0, EmptySeq, StepsType
<1>2. PICK g \in [0 .. n -> Seq(D)] : Runs(g, << >>, Steps(D, seqs, n), n)
  BY <1>0, <1>1, LoopRuns
<1>3. g[0] = << >> /\ \A i \in 1 .. n : g[i] = g[i - 1] \o seqs[i]
  <2>1. Joins(g, seqs, n)
    BY <1>0, <1>2, StepsRun, Zenon
  <2> QED BY <2>1 DEF Joins
<1>4. CASE n = 0
  BY <1>0, <1>2, <1>3, <1>4 DEF FlattenSeq
<1>5. CASE n # 0
  <2> DEFINE Flattens(h) == h = [i \in 1 .. n |-> IF i = 1 THEN seqs[i] ELSE h[i - 1] \o seqs[i]]
  <2>1. FlattenSeq(seqs) = (CHOOSE h : Flattens(h))[n]
    BY <1>0, <1>5 DEF FlattenSeq
  <2>2. g[1] = seqs[1]
    <3>1. 1 \in 1 .. n /\ 1 - 1 = 0 /\ seqs[1] \in Seq(D)
      BY <1>0, <1>5
    <3>2. g[1] = g[1 - 1] \o seqs[1]
      BY <1>3, <3>1, Zenon
    <3>3. << >> \o seqs[1] = seqs[1]
      BY <3>1, ConcatEmptySeq, Zenon
    <3> QED BY <1>3, <3>1, <3>2, <3>3
  <2>3. Flattens([i \in 1 .. n |-> g[i]])
    <3>1. ASSUME NEW i \in 1 .. n, i # 1 PROVE [j \in 1 .. n |-> g[j]][i - 1] = g[i - 1]
      BY <1>0, <3>1
    <3>2. ASSUME NEW i \in 1 .. n
          PROVE  g[i] = IF i = 1 THEN seqs[i] ELSE [j \in 1 .. n |-> g[j]][i - 1] \o seqs[i]
      BY <1>3, <2>2, <3>1, Zenon
    <3> QED BY <3>2, Zenon
  <2> HIDE DEF Flattens
  <2>4. PICK h : h = (CHOOSE k : Flattens(k)) /\ Flattens(h)
    BY <2>3, Zenon
  <2>5. ASSUME NEW i \in 1 .. n PROVE h[i] = IF i = 1 THEN seqs[i] ELSE h[i - 1] \o seqs[i]
    BY <2>4, Zenon DEF Flattens
  <2> DEFINE N == {m \in Nat : m + 1 <= n => h[m + 1] = g[m + 1]}
  <2>6. 0 \in N
    <3>1. 1 \in 1 .. n
      BY <1>0, <1>5
    <3> QED BY <2>2, <2>5, <3>1
  <2>7. ASSUME NEW m \in Nat, m \in N PROVE m + 1 \in N
    <3> SUFFICES ASSUME NEW k, k = m + 1, k + 1 <= n PROVE h[k + 1] = g[k + 1]
      OBVIOUS
    <3>1. h[k] = g[k] /\ k + 1 \in 1 .. n /\ k + 1 # 1 /\ (k + 1) - 1 = k
      BY <1>0, <2>7
    <3>2. PICK j : j = k + 1
      OBVIOUS
    <3>3. h[j] = h[j - 1] \o seqs[j]
      BY <2>5, <3>1, <3>2, Zenon
    <3>4. g[j] = g[j - 1] \o seqs[j]
      BY <1>3, <3>1, <3>2, Zenon
    <3> QED BY <3>1, <3>2, <3>3, <3>4
  <2> HIDE DEF N
  <2>8. Nat \subseteq N
    BY <2>6, <2>7, NumbersInduction
  <2>9. h[n] = g[n]
    <3>1. n - 1 \in N /\ (n - 1) + 1 = n
      BY <1>0, <1>5, <2>8
    <3> QED BY <3>1 DEF N
  <2> QED BY <1>2, <2>1, <2>4, <2>9
<1> QED BY <1>4, <1>5

(* One more part comes last in the flattened text.                             *)
LEMMA FlattenAppend ==
    ASSUME NEW D, NEW seqs \in Seq(Seq(D)), NEW s \in Seq(D)
    PROVE  /\ FlattenSeq(seqs) \in Seq(D)
           /\ FlattenSeq(Append(seqs, s)) = FlattenSeq(seqs) \o s
<1>1. PICK all, n, m : all = Append(seqs, s) /\ n = Len(seqs) /\ m = n + 1
  OBVIOUS
<1>2. /\ n \in Nat /\ m \in Nat \ {0} /\ Len(all) = m /\ all[m] = s /\ \A i \in 1 .. n : all[i] = seqs[i]
      /\ SeqOfSeqs(D, seqs, n)
  BY <1>1, AppendProperties, LenProperties, EmptySeq DEF SeqOfSeqs
<1>3. SeqOfSeqs(D, all, m)
  BY <1>1, <1>2, AppendProperties, LenProperties DEF SeqOfSeqs
<1>4. PICK g \in [0 .. n -> Seq(D)] : Runs(g, << >>, Steps(D, seqs, n), n) /\ FlattenSeq(seqs) = g[n]
  BY <1>2, FlattenRuns, Zenon
<1>5. PICK h \in [0 .. m -> Seq(D)] : Runs(h, << >>, Steps(D, all, m), m) /\ FlattenSeq(all) = h[m]
  BY <1>3, FlattenRuns, Zenon
<1>6. PICK k : k = [i \in 0 .. n |-> h[i]]
  OBVIOUS
<1>7. k \in [0 .. n -> Seq(D)] /\ \A i \in 0 .. n : k[i] = h[i]
  BY <1>1, <1>2, <1>6
<1>8. h[0] = << >> /\ \A i \in 1 .. m : h[i] = h[i - 1] \o all[i]
  <2>1. m \in Nat /\ all \in [1 .. m -> Seq(D)]
    BY <1>3 DEF SeqOfSeqs
  <2>2. Joins(h, all, m)
    BY <1>5, <2>1, StepsRun, Zenon
  <2> QED BY <2>2 DEF Joins
<1>9. k[0] = << >> /\ \A i \in 1 .. n : k[i] = k[i - 1] \o seqs[i]
  <2>0. 0 \in 0 .. n
    BY <1>2
  <2>1. k[0] = << >>
    BY <1>7, <1>8, <2>0, Zenon
  <2>2. ASSUME NEW i \in 1 .. n PROVE k[i] = k[i - 1] \o seqs[i]
    <3>1. i \in 1 .. m /\ i \in 0 .. n /\ i - 1 \in 0 .. n
      BY <1>1, <1>2
    <3> QED BY <1>2, <1>7, <1>8, <3>1, Zenon
  <2> QED BY <2>1, <2>2
<1>10. Runs(k, << >>, Steps(D, seqs, n), n)
  <2>1. Joins(k, seqs, n)
    BY <1>9 DEF Joins
  <2>2. n \in Nat /\ seqs \in [1 .. n -> Seq(D)]
    BY <1>2 DEF SeqOfSeqs
  <2> QED BY <1>7, <2>1, <2>2, StepsRun, Zenon
<1>11. g[n] = k[n]
  BY <1>2, <1>4, <1>10, LoopIsUnique
<1>12. h[m] = h[n] \o s /\ k[n] = h[n] /\ g[n] \in Seq(D)
  <2>1. m \in 1 .. m /\ m - 1 = n /\ n \in 0 .. n
    BY <1>1, <1>2
  <2>2. h[m] = h[m - 1] \o all[m]
    BY <1>8, <2>1, Zenon
  <2> QED BY <1>2, <1>7, <2>1, <2>2, Zenon
<1> QED BY <1>1, <1>4, <1>5, <1>11, <1>12, Zenon

-------------------------------------------------------------------------------
(* Each part of a text put in the place of what f says.                        *)
FlatMap(text, f) == FlattenSeq([i \in DOMAIN text |-> f[text[i]]])
Gives(f, D, E) == \A x \in D : f[x] \in Seq(E)
Grows(f, s, e) == FlatMap(Append(s, e), f) = FlatMap(s, f) \o f[e]
Distributes(f, s, t) == FlatMap(s \o t, f) = FlatMap(s, f) \o FlatMap(t, f)
Associative(r, s, t) == (r \o s) \o t = r \o (s \o t)

(* The library's theorem, in the terms used here.                              *)
LEMMA ConcatIsAssociative ==
    ASSUME NEW D, NEW r \in Seq(D), NEW s \in Seq(D), NEW t \in Seq(D)
    PROVE  Associative(r, s, t)
BY ConcatAssociative DEF Associative

(* Nothing comes of nothing.                                                   *)
LEMMA FlatMapEmpty ==
    ASSUME NEW f
    PROVE  FlatMap(<< >>, f) = << >>
<1>1. [i \in DOMAIN << >> |-> f[<< >>[i]]] = << >>
  OBVIOUS
<1> QED BY <1>1 DEF FlatMap, FlattenSeq

(* What one more part gives comes last.                                        *)
LEMMA FlatMapAppend ==
    ASSUME NEW D, NEW E, NEW s \in Seq(D), NEW e \in D, NEW f, Gives(f, D, E)
    PROVE  FlatMap(s, f) \in Seq(E) /\ Grows(f, s, e)
<1> DEFINE parts == [i \in 1 .. Len(s) |-> f[s[i]]]
<1>0. \A x \in D : f[x] \in Seq(E)
  BY DEF Gives
<1>1. DOMAIN s = 1 .. Len(s) /\ Len(s) \in Nat /\ \A i \in 1 .. Len(s) : s[i] \in D
  BY LenProperties, ElementOfSeq
<1>2. parts \in Seq(Seq(E)) /\ Len(parts) = Len(s)
  <2>1. parts \in [1 .. Len(s) -> Seq(E)]
    BY <1>0, <1>1
  <2> QED BY <1>1, <2>1
<1>3. PICK t : t = Append(s, e)
  OBVIOUS
<1>4. /\ Len(t) = Len(s) + 1 /\ DOMAIN t = 1 .. Len(s) + 1 /\ t[Len(s) + 1] = e
      /\ \A i \in 1 .. Len(s) : t[i] = s[i]
  BY <1>3, AppendProperties, LenProperties
<1>5. [i \in DOMAIN t |-> f[t[i]]] = Append(parts, f[e])
  <2>1. PICK all : all = [i \in 1 .. Len(s) + 1 |-> f[t[i]]]
    OBVIOUS
  <2>2. all \in Seq(Seq(E)) /\ Len(all) = Len(s) + 1
    <3>1. \A i \in 1 .. Len(s) + 1 : t[i] \in D
      BY <1>1, <1>4
    <3>2. all \in [1 .. Len(s) + 1 -> Seq(E)]
      BY <1>0, <2>1, <3>1
    <3> QED BY <1>1, <3>2
  <2>3. /\ Append(parts, f[e]) \in Seq(Seq(E)) /\ Len(Append(parts, f[e])) = Len(s) + 1
        /\ \A i \in 1 .. Len(s) : Append(parts, f[e])[i] = parts[i]
        /\ Append(parts, f[e])[Len(s) + 1] = f[e]
    BY <1>0, <1>2, AppendProperties
  <2>4. ASSUME NEW i \in 1 .. Len(s) + 1 PROVE all[i] = Append(parts, f[e])[i]
    <3>1. CASE i \in 1 .. Len(s)
      BY <1>4, <2>1, <2>3, <3>1
    <3>2. CASE i = Len(s) + 1
      BY <1>4, <2>1, <2>3, <3>2
    <3> QED BY <1>1, <3>1, <3>2
  <2> HIDE DEF parts
  <2>5. all = Append(parts, f[e])
    BY <2>2, <2>3, <2>4, SeqEqual
  <2> QED BY <1>4, <2>1, <2>5
<1> QED BY <1>0, <1>1, <1>2, <1>3, <1>5, FlattenAppend DEF FlatMap, Grows

(* The result is made of what f gives.                                         *)
LEMMA FlatMapType ==
    ASSUME NEW D, NEW E, NEW s \in Seq(D), NEW f, Gives(f, D, E)
    PROVE  FlatMap(s, f) \in Seq(E)
<1> DEFINE S == {t \in Seq(D) : FlatMap(t, f) \in Seq(E)}
<1>1. << >> \in S
  BY FlatMapEmpty, EmptySeq
<1>2. ASSUME NEW t \in Seq(D), NEW e \in D, t \in S PROVE Append(t, e) \in S
  <2>0. Append(t, e) \in Seq(D)
    OBVIOUS
  <2>1. PICK u \in Seq(D) : u = Append(t, e)
    BY <2>0
  <2>2. FlatMap(u, f) \in Seq(E)
    BY FlatMapAppend
  <2> QED BY <2>1, <2>2
<1> HIDE DEF S
<1>3. Seq(D) \subseteq S
  BY <1>1, <1>2, SequencesInduction
<1> QED BY <1>3 DEF S

(* A text of one part becomes what f gives for it.                             *)
LEMMA FlatMapSingle ==
    ASSUME NEW D, NEW E, NEW e \in D, NEW f, Gives(f, D, E)
    PROVE  FlatMap(<<e>>, f) = f[e]
<1>1. << >> \in Seq(D) /\ Append(<< >>, e) = <<e>> /\ f[e] \in Seq(E)
  BY DEF Gives
<1>2. Grows(f, << >>, e)
  BY <1>1, FlatMapAppend
<1> QED BY <1>1, <1>2, FlatMapEmpty, ConcatEmptySeq DEF Grows

(* Two texts in a row are replaced one by one.                                 *)
LEMMA FlatMapConcat ==
    ASSUME NEW D, NEW E, NEW s \in Seq(D), NEW t \in Seq(D), NEW f, Gives(f, D, E)
    PROVE  Distributes(f, s, t)
<1> DEFINE S == {u \in Seq(D) : Distributes(f, s, u)}
<1>0. FlatMap(s, f) \in Seq(E)
  BY FlatMapType
<1>1. << >> \in S
  BY <1>0, FlatMapEmpty, EmptySeq, ConcatEmptySeq DEF Distributes
<1>2. ASSUME NEW u \in Seq(D), NEW e \in D, u \in S PROVE Append(u, e) \in S
  <2>1. s \o u \in Seq(D) /\ s \o Append(u, e) = Append(s \o u, e) /\ Append(u, e) \in Seq(D)
    OBVIOUS
  <2>2. FlatMap(u, f) \in Seq(E) /\ f[e] \in Seq(E)
    BY FlatMapType DEF Gives
  <2>3. FlatMap(s \o Append(u, e), f) = (FlatMap(s, f) \o FlatMap(u, f)) \o f[e]
    <3>1. Grows(f, s \o u, e)
      BY <2>1, FlatMapAppend
    <3> QED BY <1>2, <2>1, <3>1 DEF Grows, Distributes
  <2>4. Grows(f, u, e)
    BY FlatMapAppend
  <2>5. Associative(FlatMap(s, f), FlatMap(u, f), f[e])
    BY <1>0, <2>2, ConcatIsAssociative
  <2> QED BY <2>1, <2>3, <2>4, <2>5 DEF Grows, Distributes, Associative
<1> HIDE DEF S
<1>3. Seq(D) \subseteq S
  BY <1>1, <1>2, SequencesInduction
<1> QED BY <1>3 DEF S

(* Two replacements in a row are one.                                          *)
LEMMA FlatMapTwice ==
    ASSUME NEW D, NEW E, NEW F, NEW s \in Seq(D), NEW f, NEW g, NEW h,
           Gives(f, D, E), Gives(g, E, F),
           \A x \in D : h[x] = FlatMap(f[x], g)
    PROVE  FlatMap(FlatMap(s, f), g) = FlatMap(s, h)
<1> DEFINE S == {t \in Seq(D) : FlatMap(FlatMap(t, f), g) = FlatMap(t, h)}
<1>0. Gives(h, D, F)
  <2>1. ASSUME NEW x \in D PROVE FlatMap(f[x], g) \in Seq(F)
    <3>1. f[x] \in Seq(E)
      BY DEF Gives
    <3> QED BY <3>1, FlatMapType
  <2> QED BY <2>1 DEF Gives
<1>1. << >> \in S
  BY FlatMapEmpty, EmptySeq
<1>2. ASSUME NEW t \in Seq(D), NEW e \in D, t \in S PROVE Append(t, e) \in S
  <2>1. Grows(f, t, e)
    BY FlatMapAppend
  <2>2. Grows(h, t, e)
    BY <1>0, FlatMapAppend
  <2>3. FlatMap(t, f) \in Seq(E) /\ f[e] \in Seq(E)
    BY FlatMapType DEF Gives
  <2>4. Distributes(g, FlatMap(t, f), f[e])
    BY <2>3, FlatMapConcat
  <2> QED BY <1>2, <2>1, <2>2, <2>4, AppendProperties DEF Grows, Distributes
<1> HIDE DEF S
<1>3. Seq(D) \subseteq S
  BY <1>1, <1>2, SequencesInduction
<1> QED BY <1>3 DEF S

(* Parts that are put in their own place.                                      *)
LEMMA FlatMapIdentity ==
    ASSUME NEW D, NEW s \in Seq(D), NEW f, \A x \in D : f[x] = <<x>>
    PROVE  FlatMap(s, f) = s
<1> DEFINE S == {t \in Seq(D) : FlatMap(t, f) = t}
<1>0. Gives(f, D, D)
  <2>1. \A x \in D : <<x>> \in Seq(D)
    OBVIOUS
  <2> QED BY <2>1, Zenon DEF Gives
<1>1. << >> \in S
  BY FlatMapEmpty, EmptySeq
<1>2. ASSUME NEW t \in Seq(D), NEW e \in D, t \in S PROVE Append(t, e) \in S
  <2>1. Grows(f, t, e)
    BY <1>0, FlatMapAppend
  <2>2. f[e] = <<e>> /\ Append(t, e) = t \o <<e>>
    BY AppendIsConcat
  <2> QED BY <1>2, <2>1, <2>2, AppendProperties DEF Grows
<1> HIDE DEF S
<1>3. Seq(D) \subseteq S
  BY <1>1, <1>2, SequencesInduction
<1> QED BY <1>3 DEF S

-------------------------------------------------------------------------------
(* What is made of a template.                                                 *)

(* No piece and no break is a placeholder, and no piece is replaced in a       *)
(* value.                                                                      *)
LEMMA PieceIsNoKey ==
    /\ Piece \notin Keys /\ Break \notin Keys /\ IsFiniteSet(Keys)
    /\ Piece \notin {TheMatch, TheTextBefore, TheTextAfter, TheDollar}
BY TextAssumption DEF Piece, Break, TheMatch, TheTextBefore, TheTextAfter, TheDollar

(* The entries are the keys, each once, in some order.                         *)
LEMMA EntriesAreAll ==
    ASSUME NEW S, IsFiniteSet(S), NEW entries \in SetToSeqs(S)
    PROVE  \E n \in Nat : /\ entries \in [1 .. n -> S] /\ Len(entries) = n
                          /\ {entries[i] : i \in 1 .. n} = S
<1>1. PICK n \in Nat : n = Cardinality(S)
  BY FS_CardinalityType
<1>2. entries \in [1 .. n -> S] /\ \A i, j \in 1 .. n : i # j => entries[i] # entries[j]
  BY <1>1 DEF SetToSeqs
<1>3. entries \in Injection(1 .. n, S)
  BY <1>2 DEF Injection, IsInjective
<1>4. Cardinality(1 .. n) = n
  BY FS_Interval
<1>5. entries \in Surjection(1 .. n, S)
  BY <1>1, <1>3, <1>4, FS_Injection
<1>6. {entries[i] : i \in 1 .. n} = S
  BY <1>2, <1>5 DEF Surjection
<1>7. Len(entries) = n
  BY <1>2
<1> QED BY <1>2, <1>6, <1>7

(* Plain values of some of the keys.                                           *)
Plain(variables) == DOMAIN variables \subseteq Keys /\ PlainVariables(variables)

Put(key, value, D) == [x \in D |-> IF x = key THEN value ELSE <<x>>]

(* The text with the values of the keys seen so far.                           *)
Filling(seen, variables) == [x \in Part |-> IF x \in seen THEN variables[x] ELSE <<x>>]

(* A plain value is put in as it is.                                           *)
LEMMA PlainIsExpanded ==
    ASSUME NEW value \in Seq({Piece}), NEW text, NEW i
    PROVE  Expanded(value, text, i) = value
<1> DEFINE whole == [x \in {Piece} |-> <<x>>]
<1>1. DOMAIN value = 1 .. Len(value) /\ \A j \in 1 .. Len(value) : value[j] = Piece
  BY LenProperties, ElementOfSeq
<1>2. whole[Piece] = <<Piece>>
  OBVIOUS
<1>3. Expanded(value, text, i) = FlattenSeq([j \in DOMAIN value |-> <<Piece>>])
  <2>1. \A j \in DOMAIN value : value[j] = Piece /\ value[j] # TheMatch /\ value[j] # TheTextBefore
                                 /\ value[j] # TheTextAfter /\ value[j] # TheDollar
    BY <1>1, PieceIsNoKey
  <2> QED BY <2>1 DEF Expanded
<1>4. FlatMap(value, whole) = FlattenSeq([j \in DOMAIN value |-> <<Piece>>])
  <2>1. \A j \in DOMAIN value : whole[value[j]] = <<Piece>>
    BY <1>1, <1>2
  <2> HIDE DEF whole
  <2> QED BY <2>1 DEF FlatMap
<1>5. FlatMap(value, whole) = value
  <2>1. \A x \in {Piece} : whole[x] = <<x>>
    OBVIOUS
  <2> HIDE DEF whole
  <2> QED BY <2>1, FlatMapIdentity
<1> QED BY <1>3, <1>4, <1>5

(* A global replacement by a plain value is one of part by part.               *)
LEMMA ReplaceIsFlatMap ==
    ASSUME NEW D, NEW text \in Seq(D), NEW key, Matches[key] = {key}, NEW value \in Seq({Piece})
    PROVE  Replace(text, key, value) = FlatMap(text, Put(key, value, D))
<1>1. DOMAIN text = 1 .. Len(text) /\ \A i \in 1 .. Len(text) : text[i] \in D
  BY LenProperties, ElementOfSeq
<1>2. \A x \in D : Put(key, value, D)[x] = IF x = key THEN value ELSE <<x>>
  BY DEF Put
<1>3. \A i \in DOMAIN text : Expanded(value, text, i) = value
  BY PlainIsExpanded
<1>4. [i \in DOMAIN text |-> IF text[i] \in Matches[key] THEN Expanded(value, text, i) ELSE <<text[i]>>]
        = [i \in DOMAIN text |-> Put(key, value, D)[text[i]]]
  BY <1>1, <1>2, <1>3
<1> QED BY <1>4 DEF Replace, FlatMap

(* Keys that were filled in are gone: the values mention none.                 *)
LEMMA FillingGives ==
    ASSUME NEW variables, Plain(variables), NEW seen, seen \subseteq DOMAIN variables
    PROVE  Gives(Filling(seen, variables), Part, Part \ seen)
<1> SUFFICES ASSUME NEW x \in Part PROVE Filling(seen, variables)[x] \in Seq(Part \ seen)
  BY DEF Gives
<1>1. {Piece} \subseteq Part \ seen
  BY PieceIsNoKey DEF Part, Plain, PlainVariables
<1>2. CASE x \in seen
  <2>1. variables[x] \in Seq({Piece}) /\ Filling(seen, variables)[x] = variables[x]
    BY <1>2 DEF Plain, PlainVariables, Filling
  <2> QED BY <1>1, <2>1, SeqMonotonic
<1>3. CASE x \notin seen
  <2>1. Filling(seen, variables)[x] = <<x>>
    BY <1>3 DEF Filling
  <2> QED BY <1>3, <2>1
<1> QED BY <1>2, <1>3

(* One more key: what is already filled in stays as it is.                     *)
LEMMA FillOneMore ==
    ASSUME NEW variables, Plain(variables), NEW seen, seen \subseteq DOMAIN variables,
           NEW key \in DOMAIN variables, NEW text \in Seq(Part)
    PROVE  Replace(FlatMap(text, Filling(seen, variables)), key, variables[key])
             = FlatMap(text, Filling(seen \cup {key}, variables))
<1> DEFINE f == Filling(seen, variables)
           g == Put(key, variables[key], Part)
           h == Filling(seen \cup {key}, variables)
<1>1. Gives(f, Part, Part)
  <2>1. Part \ seen \subseteq Part
    OBVIOUS
  <2> QED BY <2>1, FillingGives, SeqMonotonic DEF Gives
<1>2. Gives(g, Part, Part)
  <2> SUFFICES ASSUME NEW x \in Part PROVE g[x] \in Seq(Part)
    BY DEF Gives
  <2>1. CASE x = key
    <3>1. g[x] = variables[key] /\ variables[key] \in Seq({Piece}) /\ {Piece} \subseteq Part
      BY <2>1 DEF Put, Part, Plain, PlainVariables
    <3> QED BY <3>1, SeqMonotonic
  <2>2. CASE x # key
    <3>1. g[x] = <<x>>
      BY <2>2 DEF Put
    <3> QED BY <3>1
  <2> QED BY <2>1, <2>2
<1>3. ASSUME NEW x \in Part PROVE h[x] = FlatMap(f[x], g)
  <2>1. CASE x \in seen
    <3>1. f[x] = variables[x] /\ h[x] = variables[x] /\ variables[x] \in Seq({Piece})
      BY <2>1 DEF Filling, Plain, PlainVariables
    <3>2. \A y \in {Piece} : g[y] = <<y>>
      BY PieceIsNoKey DEF Put, Part, Plain, PlainVariables
    <3> HIDE DEF f, g, h
    <3>3. FlatMap(variables[x], g) = variables[x]
      BY <3>1, <3>2, FlatMapIdentity
    <3> QED BY <3>1, <3>3
  <2>2. CASE x \notin seen
    <3>1. f[x] = <<x>> /\ h[x] = g[x]
      BY <2>2 DEF Filling, Put
    <3> HIDE DEF f, g, h
    <3>2. FlatMap(<<x>>, g) = g[x]
      BY <1>2, FlatMapSingle
    <3> QED BY <3>1, <3>2
  <2> QED BY <2>1, <2>2
<1>4. FlatMap(FlatMap(text, f), g) = FlatMap(text, h)
  <2> HIDE DEF f, g, h
  <2> QED BY <1>1, <1>2, <1>3, FlatMapTwice
<1>5. FlatMap(text, f) \in Seq(Part)
  <2> HIDE DEF f
  <2> QED BY <1>1, FlatMapType
<1>6. Replace(FlatMap(text, f), key, variables[key]) = FlatMap(FlatMap(text, f), g)
  <2>1. Matches[key] = {key} /\ variables[key] \in Seq({Piece})
    BY DEF Plain, PlainVariables
  <2> QED BY <1>5, <2>1, ReplaceIsFlatMap
<1> QED BY <1>4, <1>6

(* All keys, one after the other, are the same as all keys at once, whatever   *)
(* their order.                                                                *)
LEMMA ReplaceEachIsFlatMap ==
    ASSUME NEW variables, Plain(variables), NEW entries \in Entries(variables), NEW text \in Seq(Part)
    PROVE  ReplaceEach(text, variables, entries) = FlatMap(text, Filling(DOMAIN variables, variables))
<1>0. IsFiniteSet(DOMAIN variables)
  BY PieceIsNoKey, FS_Subset DEF Plain
<1>1. PICK n \in Nat : /\ entries \in [1 .. n -> DOMAIN variables] /\ Len(entries) = n
                       /\ {entries[i] : i \in 1 .. n} = DOMAIN variables
  BY <1>0, EntriesAreAll DEF Entries
<1> DEFINE Seen(i) == {entries[j] : j \in 1 .. i}
           Fills(filled) ==
               filled = [i \in 0 .. n |-> IF i = 0 THEN text
                                          ELSE Replace(filled[i - 1], entries[i], variables[entries[i]])]
           turns == [i \in 0 .. n |-> FlatMap(text, Filling(Seen(i), variables))]
<1>2. ReplaceEach(text, variables, entries) = (CHOOSE filled : Fills(filled))[n]
  BY <1>1 DEF ReplaceEach
<1>3. turns[0] = text
  <2>1. Seen(0) = {} /\ 0 \in 0 .. n
    OBVIOUS
  <2>2. \A x \in Part : Filling({}, variables)[x] = <<x>>
    BY DEF Filling
  <2>3. FlatMap(text, Filling({}, variables)) = text
    BY <2>2, FlatMapIdentity
  <2> QED BY <2>1, <2>3
<1>4. ASSUME NEW i \in 1 .. n PROVE turns[i] = Replace(turns[i - 1], entries[i], variables[entries[i]])
  <2>1. Seen(i) = Seen(i - 1) \cup {entries[i]}
    OBVIOUS
  <2>2. Seen(i - 1) \subseteq DOMAIN variables /\ entries[i] \in DOMAIN variables
    BY <1>1
  <2>3. turns[i] = FlatMap(text, Filling(Seen(i), variables))
        /\ turns[i - 1] = FlatMap(text, Filling(Seen(i - 1), variables))
    OBVIOUS
  <2> HIDE DEF Seen, turns
  <2>4. Replace(FlatMap(text, Filling(Seen(i - 1), variables)), entries[i], variables[entries[i]])
          = FlatMap(text, Filling(Seen(i - 1) \cup {entries[i]}, variables))
    BY <2>2, FillOneMore
  <2> QED BY <2>1, <2>3, <2>4
<1>5. Fills(turns)
  <2>1. ASSUME NEW i \in 0 .. n
        PROVE  turns[i] = IF i = 0 THEN text ELSE Replace(turns[i - 1], entries[i], variables[entries[i]])
    <3>1. i = 0 \/ i \in 1 .. n
      OBVIOUS
    <3> HIDE DEF turns
    <3> QED BY <1>3, <1>4, <3>1
  <2>2. turns = [i \in 0 .. n |-> turns[i]]
    OBVIOUS
  <2> HIDE DEF turns
  <2> QED BY <2>1, <2>2, Zenon
<1> HIDE DEF Fills
<1>6. PICK filled : filled = (CHOOSE k : Fills(k)) /\ Fills(filled)
  BY <1>5, Zenon
<1>7. ASSUME NEW i \in 0 .. n
      PROVE  filled[i] = IF i = 0 THEN text ELSE Replace(filled[i - 1], entries[i], variables[entries[i]])
  BY <1>6, Zenon DEF Fills
<1> HIDE DEF turns
<1> DEFINE N == {m \in Nat : m <= n => filled[m] = turns[m]}
<1>8. 0 \in N
  BY <1>3, <1>7
<1>9. ASSUME NEW m \in Nat, m \in N PROVE m + 1 \in N
  <2> SUFFICES ASSUME NEW i, i = m + 1, i <= n PROVE filled[i] = turns[i]
    OBVIOUS
  <2>1. filled[i - 1] = turns[i - 1] /\ i \in 1 .. n /\ i \in 0 .. n /\ i # 0
    BY <1>9
  <2>2. filled[i] = Replace(filled[i - 1], entries[i], variables[entries[i]])
    BY <1>7, <2>1, Zenon
  <2>3. turns[i] = Replace(turns[i - 1], entries[i], variables[entries[i]])
    BY <1>4, <2>1, Zenon
  <2> QED BY <2>1, <2>2, <2>3
<1> HIDE DEF N
<1>10. filled[n] = turns[n]
  <2>1. Nat \subseteq N
    BY <1>8, <1>9, NumbersInduction
  <2> QED BY <2>1 DEF N
<1>11. turns[n] = FlatMap(text, Filling(DOMAIN variables, variables))
  BY <1>1 DEF turns
<1> QED BY <1>2, <1>6, <1>10, <1>11

(* A list of texts, flattened, is a text.                                      *)
LEMMA FlattenType ==
    ASSUME NEW D, NEW seqs \in Seq(Seq(D))
    PROVE  FlattenSeq(seqs) \in Seq(D)
<1>1. << >> \in Seq(D)
  OBVIOUS
<1> QED BY <1>1, FlattenAppend

(* What FillTemplate comes to when the keys are replaced all at once.          *)
FilledAtOnce(content, f, options) ==
    LET structure == content.structure
        tags == [i \in DOMAIN structure.hashtags |-> FlatMap(structure.hashtags[i], f)]
    IN
    FlatMap(structure.caption, f)
      \o (IF options.includeHashtags /\ tags # << >> THEN <<Break>> \o FlattenSeq(tags) ELSE << >>)
      \o (IF options.includeCTA /\ structure.cta # << >> THEN <<Break>> \o FlatMap(structure.cta, f) ELSE << >>)

(* A filled text shows no key that was filled in.                              *)
LEMMA FilledAtOnceType ==
    ASSUME NEW content \in TemplateContent, NEW seen, seen \subseteq Keys, NEW f, Gives(f, Part, Part \ seen), NEW options
    PROVE  FilledAtOnce(content, f, options) \in Seq((Part \cup {Break}) \ seen)
<1> DEFINE Left == (Part \cup {Break}) \ seen
           structure == content.structure
           tags == [i \in DOMAIN structure.hashtags |-> FlatMap(structure.hashtags[i], f)]
<1>1. /\ structure.caption \in Seq(Part) /\ structure.cta \in Seq(Part)
      /\ structure.hashtags \in Seq(Seq(Part))
  BY DEF TemplateContent, TemplateStructure
<1>2. Gives(f, Part, Left)
  <2>1. Part \ seen \subseteq Left
    OBVIOUS
  <2> HIDE DEF Left
  <2> QED BY <2>1, SeqMonotonic DEF Gives
<1>3. <<Break>> \in Seq(Left) /\ << >> \in Seq(Left)
  <2>1. Break \in Left
    BY PieceIsNoKey
  <2> HIDE DEF Left
  <2> QED BY <2>1
<1> HIDE DEF Left
<1>4. FlatMap(structure.caption, f) \in Seq(Left) /\ FlatMap(structure.cta, f) \in Seq(Left)
  <2> HIDE DEF structure
  <2> QED BY <1>1, <1>2, FlatMapType
<1>5. FlattenSeq(tags) \in Seq(Left)
  <2>1. PICK lists \in Seq(Seq(Part)) : lists = structure.hashtags
    BY <1>1
  <2>2. DOMAIN lists = 1 .. Len(lists) /\ Len(lists) \in Nat /\ \A i \in 1 .. Len(lists) : lists[i] \in Seq(Part)
    BY LenProperties, ElementOfSeq
  <2>3. \A t \in Seq(Part) : FlatMap(t, f) \in Seq(Left)
    BY <1>2, FlatMapType
  <2>4. tags = [i \in 1 .. Len(lists) |-> FlatMap(lists[i], f)]
    BY <2>1, <2>2
  <2>5. tags \in [1 .. Len(lists) -> Seq(Left)]
    BY <2>2, <2>3, <2>4
  <2> HIDE DEF tags
  <2>6. PICK n \in Nat : tags \in [1 .. n -> Seq(Left)]
    BY <2>2, <2>5
  <2>7. tags \in Seq(Seq(Left))
    BY <2>6
  <2> QED BY <2>7, FlattenType
<1> DEFINE a == FlatMap(structure.caption, f)
           b == IF options.includeHashtags /\ tags # << >> THEN <<Break>> \o FlattenSeq(tags) ELSE << >>
           c == IF options.includeCTA /\ structure.cta # << >>
                THEN <<Break>> \o FlatMap(structure.cta, f) ELSE << >>
<1>6. b \in Seq(Left) /\ c \in Seq(Left)
  <2> HIDE DEF tags, structure
  <2>1. <<Break>> \o FlattenSeq(tags) \in Seq(Left) /\ <<Break>> \o FlatMap(structure.cta, f) \in Seq(Left)
    BY <1>3, <1>4, <1>5, ConcatProperties
  <2> QED BY <1>3, <2>1
<1>7. FilledAtOnce(content, f, options) = a \o b \o c
  BY DEF FilledAtOnce
<1> HIDE DEF b, c
<1>8. a \o b \o c \in Seq(Left)
  BY <1>4, <1>6, ConcatProperties
<1> QED BY <1>7, <1>8 DEF Left

(* FillTemplate does no more than that: the order of the entries is lost.      *)
LEMMA FillsAtOnce ==
    ASSUME NEW content \in TemplateContent, NEW variables, Plain(variables),
           NEW entries \in Entries(variables), NEW options
    PROVE  FillTemplate(content, variables, entries, options)
             = FilledAtOnce(content, Filling(DOMAIN variables, variables), options)
<1> DEFINE f == Filling(DOMAIN variables, variables)
           structure == content.structure
<1>1. /\ structure.caption \in Seq(Part) /\ structure.cta \in Seq(Part)
      /\ structure.hashtags \in Seq(Seq(Part))
  BY DEF TemplateContent, TemplateStructure
<1>2. \A text \in Seq(Part) : ReplaceEach(text, variables, entries) = FlatMap(text, f)
  BY ReplaceEachIsFlatMap
<1> HIDE DEF f
<1>3. [i \in DOMAIN structure.hashtags |-> ReplaceEach(structure.hashtags[i], variables, entries)]
        = [i \in DOMAIN structure.hashtags |-> FlatMap(structure.hashtags[i], f)]
  <2>1. PICK lists \in Seq(Seq(Part)) : lists = structure.hashtags
    BY <1>1
  <2>2. DOMAIN lists = 1 .. Len(lists) /\ \A i \in 1 .. Len(lists) : lists[i] \in Seq(Part)
    BY LenProperties, ElementOfSeq
  <2> HIDE DEF structure
  <2> QED BY <1>2, <2>1, <2>2
<1>4. /\ ReplaceEach(structure.caption, variables, entries) = FlatMap(structure.caption, f)
      /\ ReplaceEach(structure.cta, variables, entries) = FlatMap(structure.cta, f)
  BY <1>1, <1>2
<1>5. FillTemplate(content, variables, entries, options) = FilledAtOnce(content, f, options)
  BY <1>3, <1>4, Zenon DEF FillTemplate, FilledAtOnce
<1> QED BY <1>5 DEF f

(* So no placeholder that has a value is left.                                 *)
LEMMA NoneLeft ==
    ASSUME NEW content \in TemplateContent, NEW variables, Plain(variables),
           NEW entries \in Entries(variables), NEW options
    PROVE  ToSet(FillTemplate(content, variables, entries, options)) \cap DOMAIN variables = {}
<1>1. PICK text : text = FillTemplate(content, variables, entries, options)
  OBVIOUS
<1>2. PICK seen : seen = DOMAIN variables /\ seen \subseteq Keys
  BY DEF Plain
<1>3. text \in Seq((Part \cup {Break}) \ seen)
  <2>1. Gives(Filling(seen, variables), Part, Part \ seen)
    BY <1>2, FillingGives
  <2>2. PICK f : f = Filling(seen, variables)
    OBVIOUS
  <2>3. text = FilledAtOnce(content, f, options)
    BY <1>1, <1>2, <2>2, FillsAtOnce
  <2>4. FilledAtOnce(content, f, options) \in Seq((Part \cup {Break}) \ seen)
    BY <1>2, <2>1, <2>2, FilledAtOnceType
  <2> QED BY <2>3, <2>4
<1>4. ToSet(text) \subseteq (Part \cup {Break}) \ seen
  BY <1>3, LenProperties, ElementOfSeq DEF ToSet
<1> QED BY <1>1, <1>2, <1>4

(* An example shows no placeholder of any variable, whatever the texts of the  *)
(* template and their lengths, if its defaults and keys are plain              *)
(* (generateExample).                                                          *)
THEOREM ExamplesAreFilled ==
    ASSUME NEW content \in TemplateContent,
           PlainVariables(ExampleVariables(content.structure.variables))
    PROVE  ExampleIsFilled(content)
<1> DEFINE defined == content.structure.variables
           variables == ExampleVariables(defined)
           options == [includeHashtags |-> TRUE, includeCTA |-> TRUE]
<1>1. PICK K \in SUBSET Keys : defined \in [K -> TemplateVariable]
  BY DEF TemplateContent, TemplateStructure
<1>2. DOMAIN variables = K /\ DOMAIN defined = K
  BY <1>1 DEF ExampleVariables
<1>3. PlainVariables(variables)
  OBVIOUS
<1> HIDE DEF variables, defined
<1>4. Plain(variables)
  BY <1>1, <1>2, <1>3 DEF Plain
<1>5. ASSUME NEW entries \in Entries(defined)
      PROVE  ToSet(FillTemplate(content, variables, entries, options)) \cap K = {}
  <2>1. entries \in Entries(variables)
    BY <1>2 DEF Entries
  <2> HIDE DEF options
  <2> QED BY <1>2, <1>4, <2>1, NoneLeft
<1> QED BY <1>2, <1>5 DEF ExampleIsFilled, GenerateExample, defined, variables

(* A text that validated values give shows none of their placeholders and none *)
(* of a required variable, and the order of the values does not matter, if     *)
(* values and keys are plain (generateFromTemplate).                           *)
THEOREM TextsAreFilled ==
    ASSUME NEW content \in TemplateContent, NEW variables \in Variables,
           ValidateTemplateVariables(content, variables), PlainVariables(variables)
    PROVE  TextIsFilled(content, variables)
<1> DEFINE defined == content.structure.variables
           required == {key \in DOMAIN defined : defined[key].required}
<1>1. PICK K \in SUBSET Keys : variables \in [K -> Values]
  BY DEF Variables
<1>2. Plain(variables) /\ DOMAIN variables = K
  BY <1>1 DEF Plain
<1>3. required \subseteq K
  BY <1>2 DEF ValidateTemplateVariables, Given
<1> HIDE DEF required
<1>4. ASSUME NEW options, NEW entries \in Entries(variables)
      PROVE  /\ ToSet(FillTemplate(content, variables, entries, options)) \cap (required \cup DOMAIN variables) = {}
             /\ FillTemplate(content, variables, entries, options)
                  = FilledAtOnce(content, Filling(DOMAIN variables, variables), options)
  <2>1. ToSet(FillTemplate(content, variables, entries, options)) \cap DOMAIN variables = {}
    BY <1>2, NoneLeft
  <2> QED BY <1>2, <1>3, <2>1, FillsAtOnce
<1> QED BY <1>4 DEF TextIsFilled, required

===============================================================================
