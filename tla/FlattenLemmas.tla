--------------------------- MODULE FlattenLemmas ----------------------------
(***************************************************************************)
(* What FlattenSeq does with a queue of buffers: a buffer appended to the  *)
(* queue comes last, and the first buffer comes first.  The modules that   *)
(* pass data on in buffers are proved correct from these facts.            *)
(*                                                                         *)
(* FlattenSeq is a recursive function over the length of the queue, and    *)
(* the facts need induction.  The induction theorems of the library have   *)
(* an operator as a parameter; here induction is the search of a least     *)
(* counterexample, which exists because < is well-founded on Nat.          *)
(* In the same way a loop, modelled as a recursive function from the       *)
(* number of steps done, is known to end with the result of its last step. *)
(***************************************************************************)
EXTENDS Integers, Sequences, SequencesExt, SequenceTheorems,
        WellFoundedInduction, TLAPS

-----------------------------------------------------------------------------
\* A set of natural numbers that has an element has a least one.
LEMMA SmallestNat ==
  ASSUME NEW T, T \subseteq Nat, T # {}
  PROVE  \E n \in T : \A m \in T : n <= m
<1>1. IsWellFoundedOn(OpToRel(<, Nat), Nat)
  BY NatLessThanWellFounded
<1>2. PICK n \in T : \A m \in T : <<m, n>> \notin OpToRel(<, Nat)
  BY <1>1, WFMin
<1>3. ASSUME NEW m \in T PROVE n <= m
  <2>1. <<m, n>> \notin {ss \in Nat \X Nat : ss[1] < ss[2]}
    BY <1>2 DEF OpToRel
  <2> QED BY <2>1
<1> QED BY <1>3

\* Induction over the natural numbers, for a set instead of a predicate.
LEMMA SetInduction ==
  ASSUME NEW T, 0 \in T, \A n \in Nat : n \in T => n + 1 \in T
  PROVE  Nat \subseteq T
<1> DEFINE Bad == Nat \ T
<1> SUFFICES ASSUME Bad # {} PROVE FALSE OBVIOUS
<1>1. PICK n \in Bad : \A m \in Bad : n <= m
  <2>1. Bad \subseteq Nat OBVIOUS
  <2> HIDE DEF Bad
  <2> QED BY <2>1, SmallestNat
<1>2. n # 0 /\ n \in Nat BY <1>1
<1>3. n - 1 \in Nat /\ n - 1 \notin Bad /\ (n - 1) + 1 = n BY <1>1, <1>2
<1>4. n \in T BY <1>3
<1> QED BY <1>1, <1>4

\* What a step does when it is done n times, from a start.
Runs(D, start, step, n) ==
  {g \in [0..n -> D] : g[0] = start /\ \A i \in 1..n : g[i] = step[<<i, g[i - 1]>>]}

\* It can be done any number of times.
LEMMA IterationExists ==
  ASSUME NEW D, NEW start \in D, NEW step \in [Nat \X D -> D], NEW n \in Nat
  PROVE  Runs(D, start, step, n) # {}
<1> DEFINE Is(m, g) == g[0] = start /\ \A i \in 1..m : g[i] = step[<<i, g[i - 1]>>]
           T == {m \in Nat : \E g \in [0..m -> D] : Is(m, g)}
<1>1. 0 \in T
  <2> DEFINE g == [i \in 0..0 |-> start]
  <2>1. g \in [0..0 -> D] /\ Is(0, g) OBVIOUS
  <2> QED BY <2>1
<1>2. ASSUME NEW m \in Nat, m \in T PROVE m + 1 \in T
  <2>1. PICK g \in [0..m -> D] : Is(m, g) BY <1>2
  <2> DEFINE x == step[<<m + 1, g[m]>>]
             h == [i \in 0..(m + 1) |-> IF i = m + 1 THEN x ELSE g[i]]
  <2>2. g[m] \in D /\ m + 1 \in Nat BY <2>1
  <2>3. x \in D BY <2>2
  <2> HIDE DEF x
  <2>4. h \in [0..(m + 1) -> D] BY <2>1, <2>3
  <2>5. h[0] = start BY <2>1
  <2>6. ASSUME NEW i \in 1..(m + 1) PROVE h[i] = step[<<i, h[i - 1]>>]
    <3>1. i \in 0..(m + 1) /\ i - 1 \in 0..(m + 1) /\ i - 1 # m + 1 OBVIOUS
    <3>2. h[i - 1] = g[i - 1] BY <3>1
    <3>3. CASE i = m + 1
      <4>1. i - 1 = m /\ h[i] = x BY <3>1, <3>3
      <4> QED BY <3>2, <3>3, <4>1 DEF x
    <3>4. CASE i # m + 1
      <4>1. i \in 1..m /\ h[i] = g[i] BY <3>1, <3>4
      <4> QED BY <2>1, <3>2, <4>1
    <3> QED BY <3>3, <3>4
  <2> HIDE DEF h
  <2>7. Is(m + 1, h) BY <2>5, <2>6
  <2> QED BY <2>4, <2>7
<1> HIDE DEF T
<1>3. Nat \subseteq T BY <1>1, <1>2, SetInduction
<1> QED BY <1>3 DEF T, Runs

\* A loop whose values are in sets of one element, and whose step is a known one on
\* the values it meets.
IsLoop(loop, D, start, step, n) ==
  /\ loop[0] = {start}
  /\ \A i \in 1..n : \A y \in D : loop[i - 1] = {y} => loop[i] = {step[<<i, y>>]}

\* It ends with the set of the last value.
LEMMA LoopResult ==
  ASSUME NEW D, NEW start \in D, NEW step \in [Nat \X D -> D], NEW n \in Nat,
         NEW g \in Runs(D, start, step, n),
         NEW loop, IsLoop(loop, D, start, step, n)
  PROVE  loop[n] = {g[n]} /\ g[n] \in D
<1> DEFINE T == {i \in Nat : i <= n => loop[i] = {g[i]}}
<1>1. g \in [0..n -> D] /\ g[0] = start /\ \A i \in 1..n : g[i] = step[<<i, g[i - 1]>>]
  BY DEF Runs
<1>2. 0 \in T BY <1>1 DEF IsLoop
<1>3. ASSUME NEW i \in Nat, i \in T PROVE i + 1 \in T
  <2> SUFFICES ASSUME i + 1 <= n PROVE loop[i + 1] = {g[i + 1]} OBVIOUS
  <2>1. i + 1 \in 1..n /\ (i + 1) - 1 = i /\ i \in 0..n OBVIOUS
  <2>2. loop[i] = {g[i]} /\ g[i] \in D BY <1>1, <1>3, <2>1
  <2>3. loop[i + 1] = {step[<<i + 1, g[i]>>]} BY <2>1, <2>2 DEF IsLoop
  <2>4. g[i + 1] = step[<<i + 1, g[i]>>] BY <1>1, <2>1
  <2> QED BY <2>3, <2>4
<1> HIDE DEF T
<1>4. n \in T BY <1>2, <1>3, SetInduction
<1>5. n \in 0..n OBVIOUS
<1> QED BY <1>1, <1>4, <1>5 DEF T

\* A sequence that is not empty has a last element.
LEMMA FrontLast ==
  ASSUME NEW S, NEW seq \in Seq(S), NEW n \in Nat, Len(seq) = n + 1
  PROVE  \E front \in Seq(S) :
           /\ Len(front) = n /\ \A i \in 1..n : front[i] = seq[i]
           /\ seq[n + 1] \in S /\ seq = Append(front, seq[n + 1])
<1> DEFINE front == [i \in 1..n |-> seq[i]]
<1>1. \A i \in 1..(n + 1) : seq[i] \in S BY ElementOfSeq
<1>2. front \in [1..n -> S] BY <1>1
<1>3. front \in Seq(S) /\ Len(front) = n BY <1>2, SeqDef, LenProperties
<1>4. \A i \in 1..n : front[i] = seq[i] OBVIOUS
<1> HIDE DEF front
<1> DEFINE all == Append(front, seq[n + 1])
<1>5. /\ all \in Seq(S) /\ Len(all) = n + 1 /\ all[n + 1] = seq[n + 1]
      /\ \A i \in 1..n : all[i] = front[i]
  BY <1>1, <1>3, AppendProperties
<1>6. \A i \in 1..(n + 1) : all[i] = seq[i]
  <2> TAKE i \in 1..(n + 1)
  <2>1. i = n + 1 \/ i \in 1..n OBVIOUS
  <2> QED BY <1>4, <1>5, <2>1
<1>7. seq = all
  <2> HIDE DEF all
  <2> QED BY <1>5, <1>6, SeqEqual
<1> QED BY <1>1, <1>3, <1>4, <1>7

\* Queues of buffers.
Queues(S) == Seq(Seq(S))

\* The functions that join the first i of n sequences, for every i.
Joins(S, seqs, n) ==
  {g \in [1..n -> Seq(S)] :
     g[1] = seqs[1] /\ \A i \in 2..n : g[i] = g[i - 1] \o seqs[i]}

\* Such a function ends with all of them.
LEMMA FlattenBy ==
  ASSUME NEW S, NEW seqs, Len(seqs) \in Nat \ {0},
         NEW g \in Joins(S, seqs, Len(seqs))
  PROVE  FlattenSeq(seqs) = g[Len(seqs)]
<1> DEFINE n == Len(seqs)
           F(f) == [i \in 1..n |-> IF i = 1 THEN seqs[i] ELSE f[i - 1] \o seqs[i]]
           P(f) == f = F(f)
           h == CHOOSE f : P(f)
<1>1. FlattenSeq(seqs) = h[n]
  BY DEF FlattenSeq
<1>2. P(g)
  <2> DEFINE G == F(g)
  <2>1. \A i \in 1..n : g[i] = G[i]
    <3> TAKE i \in 1..n
    <3>1. CASE i = 1 BY <3>1 DEF Joins
    <3>2. CASE i # 1
      <4>1. i \in 2..n BY <3>2
      <4> QED BY <3>2, <4>1 DEF Joins
    <3> QED BY <3>1, <3>2
  <2>2. G = [i \in 1..n |-> G[i]] /\ g = [i \in 1..n |-> g[i]] BY DEF Joins
  <2> HIDE DEF G
  <2>3. g = G BY <2>1, <2>2
  <2> QED BY <2>3 DEF G
<1>3. P(h)
  BY <1>2
<1> HIDE DEF h
<1>4. \A i \in 1..n : h[i] = g[i]
  <2> SUFFICES ASSUME NEW j \in 1..n, h[j] # g[j] PROVE FALSE
    OBVIOUS
  <2> DEFINE T == {i \in 1..n : h[i] # g[i]}
  <2>1. PICK i \in T : \A k \in T : i <= k
    <3>1. T \subseteq Nat /\ T # {} OBVIOUS
    <3> HIDE DEF T
    <3> QED BY <3>1, SmallestNat
  <2>2. i # 1 BY <1>3, <2>1 DEF Joins
  <2>3. i - 1 \in 1..n /\ i \in 2..n BY <2>1, <2>2
  <2>4. h[i - 1] = g[i - 1] BY <2>1, <2>3
  <2>5. h[i] = h[i - 1] \o seqs[i]
    <3>1. h[i] = F(h)[i] BY <1>3
    <3> QED BY <2>2, <2>3, <3>1
  <2> QED BY <2>1, <2>3, <2>4, <2>5 DEF Joins
<1> QED BY <1>1, <1>4

\* There is such a function.
LEMMA JoinsExist ==
  ASSUME NEW S, NEW seqs \in Queues(S), seqs # <<>>
  PROVE  Joins(S, seqs, Len(seqs)) # {}
<1> DEFINE T == {k \in 1..Len(seqs) : Joins(S, seqs, k) = {}}
<1>0. Len(seqs) \in Nat \ {0} /\ \A i \in 1..Len(seqs) : seqs[i] \in Seq(S)
  BY DEF Queues
<1>1. SUFFICES ASSUME T # {} PROVE FALSE
  BY <1>0
<1>2. PICK k \in T : \A m \in T : k <= m
  <2>1. T \subseteq Nat OBVIOUS
  <2> HIDE DEF T
  <2> QED BY <1>1, <2>1, SmallestNat
<1>3. k # 1
  <2>1. [i \in 1..1 |-> seqs[1]] \in Joins(S, seqs, 1) BY <1>0 DEF Joins
  <2> QED BY <2>1, <1>2
<1>4. k \in Nat /\ k - 1 \in 1..Len(seqs) /\ k \in 2..Len(seqs) /\ k - 1 \notin T
  BY <1>0, <1>2, <1>3
<1>5. PICK g \in Joins(S, seqs, k - 1) : TRUE
  BY <1>4
<1> DEFINE h == [i \in 1..k |-> IF i < k THEN g[i] ELSE g[k - 1] \o seqs[k]]
<1>6. /\ g \in [1..(k - 1) -> Seq(S)] /\ g[1] = seqs[1]
      /\ \A i \in 2..(k - 1) : g[i] = g[i - 1] \o seqs[i]
  BY <1>5 DEF Joins
<1>7. g[k - 1] \o seqs[k] \in Seq(S)
  <2>1. g[k - 1] \in Seq(S) /\ seqs[k] \in Seq(S) BY <1>0, <1>4, <1>6
  <2> QED BY <2>1, ConcatProperties
<1>8. h \in [1..k -> Seq(S)]
  BY <1>4, <1>6, <1>7
<1>9. h[1] = seqs[1]
  BY <1>4, <1>6
<1>10. ASSUME NEW i \in 2..k PROVE h[i] = h[i - 1] \o seqs[i]
  <2>1. CASE i = k
    <3>1. k - 1 \in 1..k /\ k - 1 < k /\ ~(k < k) /\ k \in 1..k BY <1>4
    <3>2. h[k] = g[k - 1] \o seqs[k] /\ h[k - 1] = g[k - 1]
      BY <3>1
    <3> QED BY <2>1, <3>2
  <2>2. CASE i # k
    <3>1. i \in 2..(k - 1) /\ i - 1 \in 1..k /\ i \in 1..k BY <1>4, <2>2
    <3>2. h[i] = g[i] /\ h[i - 1] = g[i - 1] BY <1>4, <3>1
    <3> QED BY <1>6, <3>1, <3>2
  <2> QED BY <2>1, <2>2
<1>11. h \in Joins(S, seqs, k)
  BY <1>8, <1>9, <1>10 DEF Joins
<1> QED BY <1>11, <1>2

-----------------------------------------------------------------------------
\* Nothing flattened is nothing.
LEMMA FlattenEmpty == FlattenSeq(<<>>) = <<>>
BY DEF FlattenSeq

\* What is flattened is a sequence over the same set.
LEMMA FlattenType ==
  ASSUME NEW S, NEW seqs \in Queues(S)
  PROVE  FlattenSeq(seqs) \in Seq(S)
<1>1. CASE seqs = <<>>
  BY <1>1, FlattenEmpty, EmptySeq
<1>2. CASE seqs # <<>>
  <2>0. Len(seqs) \in Nat \ {0} BY <1>2 DEF Queues
  <2>1. PICK g \in Joins(S, seqs, Len(seqs)) : TRUE
    BY <1>2, JoinsExist
  <2>2. FlattenSeq(seqs) = g[Len(seqs)]
    BY <2>0, <2>1, FlattenBy
  <2> QED BY <2>0, <2>1, <2>2 DEF Joins
<1> QED BY <1>1, <1>2

\* One sequence flattened is itself.
LEMMA FlattenOne ==
  ASSUME NEW S, NEW s \in Seq(S)
  PROVE  FlattenSeq(<<s>>) = s
<1> DEFINE one == <<s>>
           g == [i \in 1..1 |-> s]
<1>1. Len(one) = 1 /\ g[1] = s /\ g \in [1..1 -> Seq(S)] /\ one[1] = s
  OBVIOUS
<1>2. \A i \in 2..1 : g[i] = g[i - 1] \o one[i]
  OBVIOUS
<1> HIDE DEF g, one
<1>3. g \in Joins(S, one, Len(one))
  BY <1>1, <1>2 DEF Joins
<1>4. Len(one) \in Nat \ {0}
  BY <1>1
<1>5. FlattenSeq(one) = g[Len(one)]
  BY <1>3, <1>4, FlattenBy
<1> QED BY <1>1, <1>5 DEF one

\* What is queued last comes out last.
LEMMA FlattenAppend ==
  ASSUME NEW S, NEW seqs \in Queues(S), NEW s \in Seq(S)
  PROVE  FlattenSeq(Append(seqs, s)) = FlattenSeq(seqs) \o s
<1> DEFINE all == Append(seqs, s)
<1>0. /\ all \in Queues(S) /\ Len(all) = Len(seqs) + 1 /\ Len(seqs) \in Nat
      /\ \A i \in 1..Len(seqs) : all[i] = seqs[i]
      /\ all[Len(seqs) + 1] = s
  BY AppendProperties DEF Queues
<1>1. CASE seqs = <<>>
  BY <1>1, FlattenEmpty, FlattenOne
<1>2. CASE seqs # <<>>
  <2> HIDE DEF all
  <2>0. Len(seqs) \in Nat \ {0} BY <1>2 DEF Queues
  <2>1. PICK g \in Joins(S, seqs, Len(seqs)) : TRUE
    BY <1>2, JoinsExist
  <2>2. FlattenSeq(seqs) = g[Len(seqs)]
    BY <2>0, <2>1, FlattenBy
  <2>3. g \in [1..Len(seqs) -> Seq(S)] /\ g[1] = seqs[1]
    BY <2>1 DEF Joins
  <2>3a. \A i \in 2..Len(seqs) : g[i] = g[i - 1] \o seqs[i]
    BY <2>1 DEF Joins
  <2>3b. g[Len(seqs)] \in Seq(S)
    BY <2>0, <2>3
  <2> DEFINE n == Len(seqs) + 1
             h == [i \in 1..n |-> IF i < n THEN g[i] ELSE g[Len(seqs)] \o s]
  <2>4. h[1] = all[1] BY <1>0, <2>0, <2>3
  <2>5. ASSUME NEW i \in 2..n PROVE h[i] = h[i - 1] \o all[i]
    <3>1. CASE i = n
      <4>1. i - 1 = Len(seqs) /\ i - 1 \in 1..n /\ i - 1 < n /\ i \in 1..n
        BY <2>0, <3>1
      <4>2. h[i] = g[Len(seqs)] \o s /\ h[i - 1] = g[Len(seqs)]
        BY <3>1, <4>1
      <4> QED BY <1>0, <3>1, <4>2
    <3>2. CASE i # n
      <4>1. i \in 2..Len(seqs) /\ i - 1 \in 1..Len(seqs) /\ i \in 1..Len(seqs)
        BY <2>0, <3>2
      <4>2. h[i] = g[i] /\ h[i - 1] = g[i - 1] BY <2>0, <4>1
      <4>3. g[i] = g[i - 1] \o seqs[i] BY <2>3a, <4>1
      <4>4. all[i] = seqs[i] BY <1>0, <4>1
      <4> QED BY <4>2, <4>3, <4>4
    <3> QED BY <3>1, <3>2
  <2>6. h[n] = g[Len(seqs)] \o s BY <2>0
  <2>7. g[Len(seqs)] \o s \in Seq(S)
    BY <2>3b, ConcatProperties
  <2>8. h \in [1..n -> Seq(S)]
    BY <2>0, <2>3, <2>7
  <2>9. n \in Nat \ {0} /\ Len(all) = n BY <1>0
  <2> HIDE DEF h, n
  <2>10. h \in Joins(S, all, Len(all)) BY <2>4, <2>5, <2>8, <2>9 DEF Joins
  <2>11. FlattenSeq(all) = h[n] BY <2>9, <2>10, FlattenBy
  <2> QED BY <2>2, <2>6, <2>11 DEF all
<1> QED BY <1>1, <1>2

\* What is queued first comes out first.
LEMMA FlattenHead ==
  ASSUME NEW S, NEW seqs \in Queues(S), seqs # <<>>
  PROVE  FlattenSeq(seqs) = Head(seqs) \o FlattenSeq(Tail(seqs))
<1> DEFINE rest == Tail(seqs)
           n == Len(seqs)
<1>0. /\ rest \in Queues(S) /\ n \in Nat \ {0} /\ Len(rest) = n - 1
      /\ \A i \in 1..(n - 1) : rest[i] = seqs[i + 1]
      /\ Head(seqs) = seqs[1]
      /\ \A i \in 1..n : seqs[i] \in Seq(S)
  BY HeadTailProperties DEF Queues
<1> HIDE DEF rest
<1>1. CASE n = 1
  <2>1. rest = <<>> /\ seqs = <<seqs[1]>> /\ seqs[1] \in Seq(S)
    BY <1>0, <1>1 DEF Queues
  <2>2. FlattenSeq(rest) = <<>> BY <2>1, FlattenEmpty
  <2>3. seqs[1] \o <<>> = seqs[1] BY <2>1, ConcatEmptySeq
  <2>4. FlattenSeq(seqs) = seqs[1] BY <2>1, FlattenOne
  <2> QED BY <2>2, <2>3, <2>4, <1>0 DEF rest
<1>2. CASE n # 1
  <2>0. Len(rest) \in Nat \ {0} /\ rest # <<>> BY <1>0, <1>2
  <2>1. PICK g \in Joins(S, rest, Len(rest)) : TRUE
    BY <2>0, <1>0, JoinsExist
  <2>2. FlattenSeq(rest) = g[Len(rest)]
    BY <2>0, <2>1, FlattenBy
  <2>3. g \in [1..(n - 1) -> Seq(S)] /\ g[1] = seqs[2]
    <3>1. g \in [1..Len(rest) -> Seq(S)] /\ g[1] = rest[1] BY <2>1 DEF Joins
    <3>2. 1 \in 1..(n - 1) /\ 1 + 1 = 2 BY <1>0, <1>2
    <3> QED BY <1>0, <3>1, <3>2
  <2>3a. ASSUME NEW i \in 2..(n - 1) PROVE g[i] = g[i - 1] \o seqs[i + 1]
    <3>1. g[i] = g[i - 1] \o rest[i] BY <1>0, <2>1 DEF Joins
    <3>2. i \in 1..(n - 1) BY <1>0
    <3>3. rest[i] = seqs[i + 1] BY <1>0, <3>2
    <3> QED BY <3>1, <3>3
  <2> HIDE DEF n
  <2> DEFINE h == [i \in 1..n |-> IF i = 1 THEN seqs[1] ELSE seqs[1] \o g[i - 1]]
  <2>4. h[1] = seqs[1] BY <1>0
  <2>5. ASSUME NEW i \in 2..n PROVE h[i] = h[i - 1] \o seqs[i]
    <3>0. i \in 1..n /\ i - 1 \in 1..(n - 1) /\ i - 1 \in 1..n BY <1>0
    <3>1. CASE i = 2
      <4>0. 2 \in 1..n /\ 2 # 1 /\ 2 - 1 = 1 BY <3>0, <3>1
      <4>1. h[2] = seqs[1] \o g[1] BY <4>0
      <4>2. i - 1 = 1 BY <3>1
      <4> QED BY <2>3, <2>4, <3>1, <4>1, <4>2
    <3>2. CASE i # 2
      <4>1. i - 2 \in 1..(n - 1) /\ i - 1 \in 2..(n - 1) BY <1>0, <3>2
      <4>2. g[i - 1] = g[i - 2] \o seqs[i]
        <5>1. g[i - 1] = g[(i - 1) - 1] \o seqs[(i - 1) + 1] BY <2>3a, <4>1
        <5>2. (i - 1) - 1 = i - 2 /\ (i - 1) + 1 = i OBVIOUS
        <5> QED BY <5>1, <5>2
      <4>3. g[i - 2] \in Seq(S) /\ seqs[i] \in Seq(S) /\ seqs[1] \in Seq(S)
        BY <1>0, <2>3, <3>0, <4>1
      <4>4. seqs[1] \o (g[i - 2] \o seqs[i]) = (seqs[1] \o g[i - 2]) \o seqs[i]
        <5> DEFINE a == seqs[1]  b == g[i - 2]  c == seqs[i]
        <5>1. a \in Seq(S) /\ b \in Seq(S) /\ c \in Seq(S) BY <4>3
        <5> HIDE DEF a, b, c
        <5>2. a \o (b \o c) = (a \o b) \o c BY <5>1
        <5> QED BY <5>2 DEF a, b, c
      <4>5. h[i] = seqs[1] \o g[i - 1] /\ h[i - 1] = seqs[1] \o g[i - 2]
        <5>1. i # 1 /\ i - 1 # 1 /\ (i - 1) - 1 = i - 2 BY <3>0, <3>2
        <5> QED BY <3>0, <5>1
      <4> QED BY <4>2, <4>4, <4>5
    <3> QED BY <3>1, <3>2
  <2>6. h[n] = seqs[1] \o g[Len(rest)]
    <3>1. n \in 1..n /\ n - 1 = Len(rest) BY <1>0
    <3> QED BY <1>2, <3>1
  <2>7. h \in [1..n -> Seq(S)]
    <3>1. ASSUME NEW i \in 1..n, i # 1 PROVE seqs[1] \o g[i - 1] \in Seq(S)
      <4>1. i - 1 \in 1..(n - 1) BY <3>1, <1>0
      <4>2. g[i - 1] \in Seq(S) /\ seqs[1] \in Seq(S) BY <1>0, <2>3, <4>1
      <4> QED BY <4>2, ConcatProperties
    <3> QED BY <1>0, <3>1
  <2> HIDE DEF h
  <2>8. h \in Joins(S, seqs, n) BY <2>4, <2>5, <2>7 DEF Joins
  <2>9. FlattenSeq(seqs) = h[n] BY <1>0, <2>8, FlattenBy DEF n
  <2> QED BY <2>2, <2>6, <2>9, <1>0 DEF rest
<1> QED BY <1>1, <1>2

\* The members of a concatenation.
LEMMA ConcatMembers ==
  ASSUME NEW S, NEW a \in Seq(S), NEW b \in Seq(S)
  PROVE  a \o b \in Seq(S) /\ ToSet(a \o b) = ToSet(a) \cup ToSet(b)
<1>1. /\ Len(a) \in Nat /\ Len(b) \in Nat /\ DOMAIN a = 1..Len(a) /\ DOMAIN b = 1..Len(b)
      /\ DOMAIN (a \o b) = 1..(Len(a) + Len(b))
      /\ \A i \in 1..(Len(a) + Len(b)) : (a \o b)[i] = IF i <= Len(a) THEN a[i] ELSE b[i - Len(a)]
  BY ConcatProperties, LenProperties
<1>2. ASSUME NEW x \in ToSet(a \o b) PROVE x \in ToSet(a) \cup ToSet(b)
  <2>1. PICK i \in 1..(Len(a) + Len(b)) : x = (a \o b)[i] BY <1>1 DEF ToSet
  <2>2. CASE i <= Len(a)
    <3>1. i \in 1..Len(a) /\ x = a[i] BY <1>1, <2>1, <2>2
    <3> QED BY <1>1, <3>1 DEF ToSet
  <2>3. CASE ~(i <= Len(a))
    <3>1. i - Len(a) \in 1..Len(b) /\ x = b[i - Len(a)] BY <1>1, <2>1, <2>3
    <3> QED BY <1>1, <3>1 DEF ToSet
  <2> QED BY <2>2, <2>3
<1>3. ASSUME NEW x \in ToSet(a) PROVE x \in ToSet(a \o b)
  <2>1. PICK i \in 1..Len(a) : x = a[i] BY <1>1, <1>3 DEF ToSet
  <2>2. i \in 1..(Len(a) + Len(b)) /\ i <= Len(a) BY <1>1
  <2>3. x = (a \o b)[i] BY <1>1, <2>1, <2>2
  <2> QED BY <1>1, <2>2, <2>3 DEF ToSet
<1>4. ASSUME NEW x \in ToSet(b) PROVE x \in ToSet(a \o b)
  <2>1. PICK i \in 1..Len(b) : x = b[i] BY <1>1, <1>4 DEF ToSet
  <2>2. Len(a) + i \in 1..(Len(a) + Len(b)) /\ ~(Len(a) + i <= Len(a)) /\ (Len(a) + i) - Len(a) = i
    BY <1>1
  <2>3. x = (a \o b)[Len(a) + i] BY <1>1, <2>1, <2>2
  <2> QED BY <1>1, <2>2, <2>3 DEF ToSet
<1>5. a \o b \in Seq(S) BY ConcatProperties
<1> QED BY <1>2, <1>3, <1>4, <1>5

\* The members of what is flattened are the members of its parts.
LEMMA FlattenMembers ==
  ASSUME NEW S, NEW all \in Queues(S)
  PROVE  ToSet(FlattenSeq(all)) = {x \in S : \E k \in 1..Len(all) : x \in ToSet(all[k])}
<1> DEFINE M(seqs) == {x \in S : \E k \in 1..Len(seqs) : x \in ToSet(seqs[k])}
           T == {n \in Nat : \A seqs \in Queues(S) : Len(seqs) = n => ToSet(FlattenSeq(seqs)) = M(seqs)}
<1>1. 0 \in T
  <2> SUFFICES ASSUME NEW seqs \in Queues(S), Len(seqs) = 0 PROVE ToSet(FlattenSeq(seqs)) = M(seqs)
    OBVIOUS
  <2>1. seqs = <<>> BY EmptySeq DEF Queues
  <2> QED BY <2>1, FlattenEmpty DEF ToSet
<1>2. ASSUME NEW n \in Nat, n \in T PROVE n + 1 \in T
  <2> SUFFICES ASSUME NEW seqs \in Queues(S), Len(seqs) = n + 1 PROVE ToSet(FlattenSeq(seqs)) = M(seqs)
    OBVIOUS
  <2>1. PICK front \in Queues(S) :
          /\ Len(front) = n /\ \A i \in 1..n : front[i] = seqs[i]
          /\ seqs[n + 1] \in Seq(S) /\ seqs = Append(front, seqs[n + 1])
    BY FrontLast DEF Queues
  <2> DEFINE a == FlattenSeq(front)
             b == seqs[n + 1]
  <2>2. FlattenSeq(seqs) = a \o b BY <2>1, FlattenAppend
  <2>3. a \in Seq(S) /\ b \in Seq(S) BY <2>1, FlattenType
  <2>4. ToSet(a) = M(front) BY <1>2, <2>1
  <2> HIDE DEF a
  <2>5. ToSet(a \o b) = ToSet(a) \cup ToSet(b) BY <2>3, ConcatMembers
  <2>6. M(seqs) = M(front) \cup ToSet(b)
    <3>1. ToSet(b) \subseteq S BY <2>3, ElementOfSeq, LenProperties DEF ToSet
    <3>2. 1..(n + 1) = 1..n \cup {n + 1} OBVIOUS
    <3> QED BY <2>1, <3>1, <3>2
  <2> QED BY <2>2, <2>4, <2>5, <2>6
<1> HIDE DEF T
<1>3. Len(all) \in Nat BY LenProperties DEF Queues
<1>4. Len(all) \in T BY <1>1, <1>2, <1>3, SetInduction
<1> QED BY <1>4 DEF T

-----------------------------------------------------------------------------
\* Concatenation by a name of its own: the provers know too much about \o to take
\* a long concatenation apart.
Cat(s, t) == s \o t

\* Concatenation is associative and keeps the type.
LEMMA CatAssociative ==
  ASSUME NEW S, NEW a \in Seq(S), NEW b \in Seq(S), NEW c \in Seq(S)
  PROVE  Cat(Cat(a, b), c) = Cat(a, Cat(b, c)) /\ Cat(a, b) \in Seq(S)
BY DEF Cat

=============================================================================
