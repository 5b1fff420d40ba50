------------------------ MODULE CircularBufferProofs ------------------------
(***************************************************************************)
(* Facts about the operations of the circular buffer, for every number of  *)
(* slots that its uint8_t indices can address and every set E of entries.  *)
(***************************************************************************)
EXTENDS CircularBuffer, SequencesExt, SequenceTheorems, WellFoundedInduction,
        TLAPS

(***************************************************************************)
(* The running sums that the loops over the ring compute.  The library's   *)
(* induction principles take the property as an operator; here it is a set *)
(* of numbers, those that lack it, which is empty because it would have a  *)
(* least element.                                                          *)
(***************************************************************************)
LEMMA LeastNatural ==
    ASSUME NEW T \in SUBSET Nat, T # {}
    PROVE  \E x \in T : \A y \in T : x <= y
<1> DEFINE R == OpToRel(<, Nat)
<1>1. IsWellFoundedOn(R, Nat)
  BY NatLessThanWellFounded
<1>2. PICK x \in T : \A y \in T : <<y, x>> \notin R
  <2> HIDE DEF R
  <2> QED  BY <1>1, WFMin
<1>3. \A y \in T : ~(y < x)
  BY <1>2 DEF OpToRel
<1>4. QED  BY <1>3

\* Induction up to N over the numbers outside T.
LEMMA NoDescent ==
    ASSUME NEW N \in Nat, NEW T \in SUBSET (0..N),
           \A n \in T : n # 0 /\ n - 1 \in T
    PROVE  T = {}
<1> SUFFICES ASSUME T # {} PROVE FALSE
  OBVIOUS
<1>1. PICK n \in T : \A m \in T : n <= m
  <2>1. T \in SUBSET Nat
    OBVIOUS
  <2>2. QED  BY <2>1, LeastNatural
<1>2. QED  BY <1>1

\* g is the function of the running sums of v.
RunsOver(g, v, n) ==
    g = [i \in 0..n |-> IF i = 0 THEN 0 ELSE g[i - 1] + v[i - 1]]

LEMMA RunExtends ==
    ASSUME NEW N \in Nat, NEW v \in [0 .. N - 1 -> Nat],
           NEW n \in 1..N, NEW g \in [0 .. n - 1 -> Nat],
           RunsOver(g, v, n - 1)
    PROVE  \E h \in [0..n -> Nat] : RunsOver(h, v, n)
<1> DEFINE h == [i \in 0..n |-> IF i = n THEN g[n - 1] + v[n - 1] ELSE g[i]]
<1>1. h \in [0..n -> Nat]
  OBVIOUS
<1>2. ASSUME NEW i \in 0..n
      PROVE  h[i] = IF i = 0 THEN 0 ELSE h[i - 1] + v[i - 1]
  <2>1. CASE i = n
    BY <2>1
  <2>2. CASE i # n
    <3>1. i \in 0 .. n - 1
      BY <2>2
    <3>2. g[i] = IF i = 0 THEN 0 ELSE g[i - 1] + v[i - 1]
      BY <3>1 DEF RunsOver
    <3>3. i # 0 => i - 1 \in 0..n /\ i - 1 # n
      BY <3>1
    <3>4. QED  BY <2>2, <3>1, <3>2, <3>3
  <2>3. QED  BY <2>1, <2>2
<1>3. RunsOver(h, v, n)
  <2> HIDE DEF h
  <2> QED  BY <1>1, <1>2 DEF RunsOver
<1>4. QED  BY <1>1, <1>3

LEMMA RunExists ==
    ASSUME NEW N \in Nat, NEW v \in [0 .. N - 1 -> Nat]
    PROVE  \E g \in [0..N -> Nat] : RunsOver(g, v, N)
<1> DEFINE Runs(n) == \E g \in [0..n -> Nat] : RunsOver(g, v, n)
           Without == {n \in 0..N : ~Runs(n)}
<1>1. Runs(0)
  <2>1. RunsOver([i \in 0..0 |-> 0], v, 0)
    BY DEF RunsOver
  <2>2. QED  BY <2>1
<1>2. ASSUME NEW n \in 1..N, Runs(n - 1) PROVE Runs(n)
  <2>1. PICK g \in [0 .. n - 1 -> Nat] : RunsOver(g, v, n - 1)
    BY <1>2
  <2>2. QED  BY <2>1, RunExtends
<1>3. Runs(N)
  <2> HIDE DEF Runs
  <2>1. \A n \in Without : n # 0 /\ n - 1 \in Without
    BY <1>1, <1>2
  <2>2. Without \in SUBSET (0..N)
    OBVIOUS
  <2>3. Without = {}
    <3> HIDE DEF Without
    <3> QED  BY <2>1, <2>2, NoDescent
  <2>4. QED  BY <2>3
<1>4. QED  BY <1>3

\* A loop that starts at 0 and adds v[i] in iteration i has natural numbers
\* as its intermediate results.
LEMMA RunAdds ==
    ASSUME NEW N \in Nat, NEW v \in [0 .. N - 1 -> Nat],
           NEW g, RunsOver(g, v, N)
    PROVE  /\ g \in [0..N -> Nat]
           /\ g[0] = 0
           /\ \A i \in 0 .. N - 1 : g[i + 1] = g[i] + v[i]
<1>1. g[0] = 0
  BY DEF RunsOver
<1>2. \A i \in 0 .. N - 1 : g[i + 1] = g[i] + v[i]
  BY DEF RunsOver
<1>3. \A i \in 0..N : g[i] \in Nat
  <2> DEFINE Bad == {i \in 0..N : g[i] \notin Nat}
  <2>1. ASSUME NEW n \in Bad PROVE n # 0 /\ n - 1 \in Bad
    <3>1. n \in 0..N /\ g[n] \notin Nat
      OBVIOUS
    <3>2. n # 0
      BY <1>1, <3>1
    <3>3. n - 1 \in 0 .. N - 1 /\ n - 1 \in 0..N /\ (n - 1) + 1 = n
      BY <3>1, <3>2
    <3>4. g[n] = g[n - 1] + v[n - 1]
      BY <1>2, <3>3
    <3>5. g[n - 1] \notin Nat
      BY <3>1, <3>3, <3>4
    <3>6. QED  BY <3>2, <3>3, <3>5
  <2>2. Bad \in SUBSET (0..N)
    OBVIOUS
  <2>3. Bad = {}
    <3> HIDE DEF Bad
    <3> QED  BY <2>1, <2>2, NoDescent
  <2>4. QED  BY <2>3
<1>4. g = [i \in 0..N |-> g[i]]
  BY DEF RunsOver
<1>5. g \in [0..N -> Nat]
  BY <1>3, <1>4
<1>6. QED  BY <1>1, <1>2, <1>5

\* Its intermediate results never decrease.
LEMMA RunIncreases ==
    ASSUME NEW N \in Nat, NEW g \in [0..N -> Nat],
           \A i \in 0 .. N - 1 : g[i] <= g[i + 1],
           NEW j \in 0..N, NEW k \in 0..N, j <= k
    PROVE  g[j] <= g[k]
<1> DEFINE Bad == {i \in 0..N : j <= i /\ g[i] < g[j]}
<1>1. ASSUME NEW n \in Bad PROVE n # 0 /\ n - 1 \in Bad
  <2>1. n \in 0..N /\ j <= n /\ g[n] < g[j]
    OBVIOUS
  <2>2. n # j
    BY <2>1
  <2>3. n - 1 \in 0 .. N - 1 /\ n - 1 \in 0..N /\ j <= n - 1 /\ (n - 1) + 1 = n
    BY <2>1, <2>2
  <2>4. g[n - 1] <= g[n] /\ g[n - 1] \in Nat /\ g[n] \in Nat /\ g[j] \in Nat
    BY <2>1, <2>3
  <2>5. QED  BY <2>1, <2>3, <2>4
<1>2. Bad \in SUBSET (0..N)
  OBVIOUS
<1>3. Bad = {}
  <2> HIDE DEF Bad
  <2> QED  BY <1>1, <1>2, NoDescent
<1>4. ~(g[k] < g[j])
  BY <1>3
<1>5. g[j] \in Nat /\ g[k] \in Nat
  OBVIOUS
<1>6. QED  BY <1>4, <1>5

-----------------------------------------------------------------------------
(***************************************************************************)
(* FlattenSeq, by the same induction: g is the function of the             *)
(* concatenations of the first n sequences of s.                           *)
(***************************************************************************)
FlatOver(g, s, n) ==
    g = [i \in 1..n |-> IF i = 1 THEN s[i] ELSE g[i - 1] \o s[i]]

LEMMA FlatExtends ==
    ASSUME NEW S, NEW s \in Seq(Seq(S)), NEW n \in 2..Len(s),
           NEW g \in [1 .. n - 1 -> Seq(S)], FlatOver(g, s, n - 1)
    PROVE  \E h \in [1..n -> Seq(S)] : FlatOver(h, s, n)
<1> DEFINE h == [i \in 1..n |-> IF i = n THEN g[n - 1] \o s[n] ELSE g[i]]
<1>1. s[n] \in Seq(S) /\ g[n - 1] \in Seq(S)
  BY ElementOfSeq
<1>2. h \in [1..n -> Seq(S)]
  BY <1>1
<1>3. ASSUME NEW i \in 1..n
      PROVE  h[i] = IF i = 1 THEN s[i] ELSE h[i - 1] \o s[i]
  <2>1. CASE i = n
    <3>1. n # 1 /\ n \in 1..n /\ n - 1 \in 1..n /\ n - 1 # n
      OBVIOUS
    <3>2. h[n] = g[n - 1] \o s[n]
      BY <3>1, Zenon
    <3>3. h[n - 1] = g[n - 1]
      BY <3>1, Zenon
    <3> HIDE DEF h
    <3> QED  BY <2>1, <3>1, <3>2, <3>3, Zenon
  <2>2. CASE i # n
    <3>1. i \in 1 .. n - 1
      BY <2>2
    <3>2. g[i] = IF i = 1 THEN s[i] ELSE g[i - 1] \o s[i]
      BY <3>1 DEF FlatOver
    <3>3. i # 1 => i - 1 \in 1..n /\ i - 1 # n
      BY <3>1
    <3>4. QED  BY <2>2, <3>1, <3>2, <3>3
  <2>3. QED  BY <2>1, <2>2
<1>4. FlatOver(h, s, n)
  <2> HIDE DEF h
  <2> QED  BY <1>2, <1>3 DEF FlatOver
<1>5. QED  BY <1>2, <1>4

LEMMA FlatExists ==
    ASSUME NEW S, NEW s \in Seq(Seq(S)), s # << >>
    PROVE  \E g \in [1..Len(s) -> Seq(S)] : FlatOver(g, s, Len(s))
<1> DEFINE N == Len(s)
           Runs(n) == \E g \in [1..n -> Seq(S)] : FlatOver(g, s, n)
           Without == {n \in 0..N : n > 0 /\ ~Runs(n)}
<1>1. N \in Nat \ {0}
  BY EmptySeq, LenProperties
<1>2. Runs(1)
  <2>1. s[1] \in Seq(S)
    BY <1>1, ElementOfSeq
  <2>2. [i \in 1..1 |-> s[i]] \in [1..1 -> Seq(S)]
    BY <2>1
  <2>3. FlatOver([i \in 1..1 |-> s[i]], s, 1)
    BY DEF FlatOver
  <2>4. QED  BY <2>2, <2>3
<1>3. ASSUME NEW n \in 2..N, Runs(n - 1) PROVE Runs(n)
  <2>1. PICK g \in [1 .. n - 1 -> Seq(S)] : FlatOver(g, s, n - 1)
    BY <1>3
  <2>2. QED  BY <2>1, FlatExtends
<1>4. Runs(N)
  <2> HIDE DEF Runs, N
  <2>1. \A n \in Without : n # 0 /\ n - 1 \in Without
    BY <1>1, <1>2, <1>3
  <2>2. Without \in SUBSET (0..N)
    OBVIOUS
  <2>3. Without = {}
    <3> HIDE DEF Without
    <3> QED  BY <1>1, <2>1, <2>2, NoDescent
  <2>4. QED  BY <1>1, <2>3
<1>5. QED  BY <1>4

LEMMA FlattenSteps ==
    ASSUME NEW S, NEW s \in Seq(Seq(S)), s # << >>
    PROVE  \E g \in [1..Len(s) -> Seq(S)] :
                /\ FlattenSeq(s) = g[Len(s)]
                /\ g[1] = s[1]
                /\ \A i \in 2..Len(s) : g[i] = g[i - 1] \o s[i]
<1> DEFINE Over(f) == [i \in 1..Len(s) |-> IF i = 1 THEN s[i]
                                          ELSE f[i - 1] \o s[i]]
           flatten == CHOOSE f : f = Over(f)
<1>1. Len(s) \in Nat /\ Len(s) # 0
  BY EmptySeq, LenProperties
<1>2. FlattenSeq(s) = flatten[Len(s)]
  BY <1>1, Zenon DEF FlattenSeq
<1>3. PICK h \in [1..Len(s) -> Seq(S)] : h = Over(h)
  BY FlatExists, Zenon DEF FlatOver
<1>4. flatten = Over(flatten)
  <2> HIDE DEF Over
  <2> QED  BY <1>3, Zenon
<1> HIDE DEF flatten
<1>5. flatten[1] = s[1]
  BY <1>1, <1>4
<1>6. \A i \in 2..Len(s) : flatten[i] = flatten[i - 1] \o s[i]
  <2>1. \A i \in 2..Len(s) : i \in 1..Len(s) /\ i # 1
    BY <1>1
  <2>2. QED  BY <1>4, <2>1, Zenon
<1>7. \A i \in 1..Len(s) : flatten[i] \in Seq(S)
  <2> DEFINE Bad == {i \in 0..Len(s) : i > 0 /\ flatten[i] \notin Seq(S)}
  <2>1. ASSUME NEW n \in Bad PROVE n # 0 /\ n - 1 \in Bad
    <3>1. n \in 1..Len(s) /\ flatten[n] \notin Seq(S) /\ s[n] \in Seq(S)
      BY <1>1, ElementOfSeq
    <3>2. n # 1
      BY <1>5, <3>1
    <3>3. n \in 2..Len(s) /\ n - 1 \in 1..Len(s)
      BY <3>1, <3>2
    <3>4. flatten[n] = flatten[n - 1] \o s[n]
      BY <1>6, <3>3
    <3>5. flatten[n - 1] \notin Seq(S)
      BY <3>1, <3>4
    <3>6. QED  BY <1>1, <3>3, <3>5
  <2>2. Bad = {}
    <3>1. Bad \in SUBSET (0..Len(s))
      OBVIOUS
    <3> HIDE DEF Bad
    <3> QED  BY <1>1, <2>1, <3>1, NoDescent
  <2>3. \A i \in 1..Len(s) : i \in 0..Len(s) /\ i > 0
    BY <1>1
  <2>4. QED  BY <2>2, <2>3, Zenon
<1>8. flatten \in [1..Len(s) -> Seq(S)]
  <2>1. flatten = [i \in 1..Len(s) |-> flatten[i]]
    BY <1>4
  <2>2. QED  BY <1>7, <2>1
<1>9. QED  BY <1>2, <1>5, <1>6, <1>8

LEMMA FlattenType ==
    ASSUME NEW S, NEW s \in Seq(Seq(S))
    PROVE  FlattenSeq(s) \in Seq(S)
<1>1. CASE s = << >>
  BY <1>1 DEF FlattenSeq
<1>2. CASE s # << >>
  <2>1. PICK g \in [1..Len(s) -> Seq(S)] : FlattenSeq(s) = g[Len(s)]
    BY <1>2, FlattenSteps
  <2>2. Len(s) \in 1..Len(s)
    BY <1>2, EmptySeq, LenProperties
  <2>3. QED  BY <2>1, <2>2
<1>3. QED  BY <1>1, <1>2

LEMMA ConcatElements ==
    ASSUME NEW S, NEW h \in Seq(S), NEW t \in Seq(S)
    PROVE  /\ Len(h) \in Nat /\ Len(t) \in Nat
           /\ Len(h \o t) = Len(h) + Len(t)
           /\ \A i \in 1..Len(h) :
                i \in 1..Len(h \o t) /\ (h \o t)[i] = h[i]
<1>1. Len(h) \in Nat /\ Len(t) \in Nat
  BY LenProperties
<1>2. Len(h \o t) = Len(h) + Len(t)
  BY ConcatProperties
<1>3. \A i \in 1 .. Len(h) + Len(t) :
        (h \o t)[i] = IF i <= Len(h) THEN h[i] ELSE t[i - Len(h)]
  BY ConcatProperties
<1>4. QED  BY <1>1, <1>2, <1>3

LEMMA ConcatSecond ==
    ASSUME NEW S, NEW h \in Seq(S), NEW t \in Seq(S), NEW j \in 1..Len(t)
    PROVE  /\ Len(h) + j \in 1..Len(h \o t)
           /\ (h \o t)[Len(h) + j] = t[j]
<1>1. Len(h) \in Nat /\ Len(t) \in Nat
  BY LenProperties
<1>2. Len(h \o t) = Len(h) + Len(t)
  BY ConcatProperties
<1>3. \A i \in 1 .. Len(h) + Len(t) :
        (h \o t)[i] = IF i <= Len(h) THEN h[i] ELSE t[i - Len(h)]
  BY ConcatProperties
<1>4. QED  BY <1>1, <1>2, <1>3

\* If len[k] counts the elements of the first k sequences of s, the elements
\* of the k-th one follow position len[k - 1] of the concatenation.
LEMMA FlattenElement ==
    ASSUME NEW S, NEW s \in Seq(Seq(S)), s # << >>,
           NEW len \in [0..Len(s) -> Nat], len[0] = 0,
           \A k \in 1..Len(s) : len[k] = len[k - 1] + Len(s[k])
    PROVE  /\ Len(FlattenSeq(s)) = len[Len(s)]
           /\ \A k \in 1..Len(s) : \A j \in 1..Len(s[k]) :
                FlattenSeq(s)[len[k - 1] + j] = s[k][j]
<1> DEFINE N == Len(s)
<1>1. N \in Nat \ {0}
  BY EmptySeq, LenProperties
<1>2. PICK g \in [1..N -> Seq(S)] :
          /\ FlattenSeq(s) = g[N]
          /\ g[1] = s[1]
          /\ \A i \in 2..N : g[i] = g[i - 1] \o s[i]
  BY FlattenSteps
<1>3. \A i \in 1..N : /\ s[i] \in Seq(S) /\ Len(s[i]) \in Nat
                      /\ g[i] \in Seq(S) /\ Len(g[i]) \in Nat
                      /\ len[i] \in Nat /\ len[i - 1] \in Nat
                      /\ len[i] = len[i - 1] + Len(s[i])
  <2> SUFFICES ASSUME NEW i \in 1..N
               PROVE  /\ s[i] \in Seq(S) /\ g[i] \in Seq(S)
                      /\ len[i] \in Nat /\ len[i - 1] \in Nat
    BY LenProperties
  <2>1. i \in 0..N /\ i - 1 \in 0..N
    BY <1>1
  <2>2. QED  BY <2>1, ElementOfSeq
<1> HIDE DEF N
<1>4. \A n \in 1..N : Len(g[n]) = len[n]
  <2> DEFINE Bad == {n \in 0..N : n # 0 /\ Len(g[n]) # len[n]}
  <2>1. ASSUME NEW n \in Bad PROVE n # 0 /\ n - 1 \in Bad
    <3>1. n \in 1..N /\ Len(g[n]) # len[n] /\ len[n] = len[n - 1] + Len(s[n])
      BY <1>3
    <3>2. n # 1
      <4>1. n = 1 => len[n - 1] = 0
        OBVIOUS
      <4>2. QED  BY <1>2, <1>3, <3>1, <4>1
    <3>3. n \in 2..N /\ n - 1 \in 1..N
      BY <1>1, <3>1, <3>2
    <3>4. Len(g[n]) = Len(g[n - 1]) + Len(s[n])
      <4>1. g[n - 1] \in Seq(S) /\ s[n] \in Seq(S)
        BY <1>3, <3>1, <3>3
      <4>2. g[n] = g[n - 1] \o s[n]
        BY <1>2, <3>3, Zenon
      <4>3. QED  BY <4>1, <4>2, ConcatElements
    <3>5. Len(g[n - 1]) # len[n - 1]
      BY <3>1, <3>4
    <3>6. QED  BY <1>1, <3>3, <3>5
  <2>2. Bad \in SUBSET (0..N)
    OBVIOUS
  <2>3. Bad = {}
    <3> HIDE DEF Bad
    <3> QED  BY <1>1, <2>1, <2>2, NoDescent
  <2>4. \A n \in 1..N : n \in 0..N /\ n # 0
    BY <1>1
  <2>5. QED  BY <2>3, <2>4, Zenon
<1>5. ASSUME NEW k \in 1..N, NEW j \in 1..Len(s[k])
      PROVE  FlattenSeq(s)[len[k - 1] + j] = s[k][j]
  <2> DEFINE at == len[k - 1] + j
             Has(n) == at \in 1..Len(g[n]) /\ g[n][at] = s[k][j]
             Bad == {n \in 0..N : k <= n /\ ~Has(n)}
  <2>1. /\ k \in Nat /\ N \in Nat /\ s[k] \in Seq(S) /\ Len(s[k]) \in Nat
        /\ j \in Nat /\ len[k - 1] \in Nat /\ len[k] \in Nat
        /\ len[k] = len[k - 1] + Len(s[k])
    BY <1>1, <1>3
  <2>2. Has(k)
    <3>1. CASE k = 1
      BY <1>2, <2>1, <3>1
    <3>2. CASE k # 1
      <4>1. k \in 2..N /\ k - 1 \in 1..N
        BY <2>1, <3>2
      <4>2. g[k - 1] \in Seq(S) /\ Len(g[k - 1]) = len[k - 1]
        BY <1>3, <1>4, <4>1
      <4>3. g[k] = g[k - 1] \o s[k]
        BY <1>2, <4>1, Zenon
      <4> DEFINE u == g[k - 1]
                 w == s[k]
      <4>4. u \in Seq(S) /\ w \in Seq(S) /\ j \in 1..Len(w)
        BY <2>1, <4>2
      <4>5. Len(u) + j \in 1..Len(u \o w) /\ (u \o w)[Len(u) + j] = w[j]
        <5> HIDE DEF u, w
        <5> QED  BY <4>4, ConcatSecond
      <4>6. QED  BY <4>2, <4>3, <4>5, Zenon
    <3>3. QED  BY <3>1, <3>2
  <2>3. ASSUME NEW n \in Bad PROVE n # 0 /\ n - 1 \in Bad
    <3>1. n \in 0..N /\ k <= n /\ ~Has(n)
      OBVIOUS
    <3>2. n # k
      BY <2>2, <3>1
    <3>3. n \in 2..N /\ n - 1 \in 1..N /\ k <= n - 1
      BY <2>1, <3>1, <3>2
    <3> DEFINE h == g[n - 1]
               t == s[n]
    <3>4. h \in Seq(S) /\ t \in Seq(S) /\ g[n] = h \o t
      <4>1. h \in Seq(S) /\ t \in Seq(S)
        BY <1>3, <3>1, <3>3
      <4>2. QED  BY <1>2, <3>3, <4>1, Zenon
    <3>5. at \in 1..Len(h) => at \in 1..Len(h \o t) /\ (h \o t)[at] = h[at]
      <4> HIDE DEF h, t, at
      <4> QED  BY <3>4, ConcatElements
    <3>6. ~Has(n - 1)
      BY <3>1, <3>4, <3>5
    <3>7. QED
      <4> HIDE DEF Has
      <4> QED  BY <2>1, <3>3, <3>6
  <2>4. Bad \in SUBSET (0..N)
    OBVIOUS
  <2>5. Bad = {}
    <3> HIDE DEF Bad
    <3> QED  BY <2>1, <2>3, <2>4, NoDescent
  <2>6. N \in 0..N /\ k <= N
    BY <2>1
  <2>7. Has(N)
    <3> HIDE DEF Has
    <3> QED  BY <2>5, <2>6
  <2>8. QED  BY <1>2, <2>7
<1>6. QED  BY <1>1, <1>2, <1>4, <1>5 DEF N

-----------------------------------------------------------------------------
(***************************************************************************)
(* The slots, and what one addition does to them.                          *)
(***************************************************************************)
\* Advancing an index by one wraps at the last slot.
LEMMA NextSlot ==
    ASSUME NEW i \in Slots
    PROVE  /\ (i + 1) % MaxWriteOps =
                IF i = MaxWriteOps - 1 THEN 0 ELSE i + 1
           /\ (i + 1) % MaxWriteOps \in Slots
<1>1. CASE i = MaxWriteOps - 1
  BY <1>1, MaxWriteOpsAssumption DEF Slots
<1>2. CASE i # MaxWriteOps - 1
  BY <1>2, MaxWriteOpsAssumption DEF Slots
<1>3. QED  BY <1>1, <1>2

\* The sum of two slot indices exceeds the ring at most once.
LEMMA SlotSum ==
    ASSUME NEW i \in Slots, NEW k \in Slots
    PROVE  (i + k) % MaxWriteOps =
                IF i + k < MaxWriteOps THEN i + k ELSE i + k - MaxWriteOps
<1>1. CASE i + k < MaxWriteOps
  BY <1>1, MaxWriteOpsAssumption DEF Slots
<1>2. CASE i + k >= MaxWriteOps
  BY <1>2, MaxWriteOpsAssumption DEF Slots
<1>3. QED  BY <1>1, <1>2, MaxWriteOpsAssumption DEF Slots

\* The k-th slot from out_offs, without the remainder.
LEMMA SlotValue ==
    ASSUME NEW b, b.out_offs \in Slots, NEW k \in Slots
    PROVE  /\ Slot(b, k) = IF b.out_offs + k < MaxWriteOps
                           THEN b.out_offs + k
                           ELSE b.out_offs + k - MaxWriteOps
           /\ Slot(b, k) \in Slots
<1>1. Slot(b, k) = IF b.out_offs + k < MaxWriteOps
                   THEN b.out_offs + k
                   ELSE b.out_offs + k - MaxWriteOps
  BY SlotSum DEF Slot
<1>2. Slot(b, k) \in Slots
  BY <1>1, MaxWriteOpsAssumption DEF Slots
<1>3. QED  BY <1>1, <1>2

\* A sequence that continues another by one element.
LEMMA AppendEqual ==
    ASSUME NEW S, NEW s \in Seq(S), NEW t \in Seq(S), NEW e \in S,
           Len(t) = Len(s) + 1,
           t[Len(s) + 1] = e,
           \A k \in 1..Len(s) : t[k] = s[k]
    PROVE  t = Append(s, e)
<1>1. /\ Append(s, e) \in Seq(S)
      /\ Len(Append(s, e)) = Len(t)
      /\ \A k \in 1..Len(t) :
            Append(s, e)[k] = IF k = Len(s) + 1 THEN e ELSE s[k]
  OBVIOUS
<1>2. ASSUME NEW k \in 1..Len(t) PROVE t[k] = Append(s, e)[k]
  <2>1. k = Len(s) + 1 \/ k \in 1..Len(s)
    OBVIOUS
  <2>2. QED  BY <1>1, <2>1
<1>3. QED  BY <1>1, <1>2, SeqEqual

(***************************************************************************)
(* Where add_entry leaves the indices, field by field.                     *)
(***************************************************************************)
LEMMA AddEntryFields ==
    ASSUME NEW b, NEW e
    PROVE  /\ AddEntry(b, e).entry = [b.entry EXCEPT ![b.in_offs] = e]
           /\ AddEntry(b, e).in_offs = (b.in_offs + 1) % MaxWriteOps
           /\ AddEntry(b, e).out_offs =
                IF b.full THEN (b.out_offs + 1) % MaxWriteOps ELSE b.out_offs
           /\ AddEntry(b, e).full =
                (b.full \/ (b.in_offs + 1) % MaxWriteOps = b.out_offs)
  BY DEF AddEntry

LEMMA EmptyBufferIsConsistent ==
    ASSUME NEW E
    PROVE  EmptyBuffer \in RingOf(E) /\ Consistent(EmptyBuffer, E)
  BY MaxWriteOpsAssumption DEF RingOf, Consistent, EmptyBuffer, Slots

LEMMA AddEntryType ==
    ASSUME NEW E, NEW b \in RingOf(E), NEW e \in E
    PROVE  AddEntry(b, e) \in RingOf(E)
<1>1. /\ b.entry \in [Slots -> E \cup {NoEntry}]
      /\ b.in_offs \in Slots
      /\ b.out_offs \in Slots
      /\ b.full \in BOOLEAN
  BY DEF RingOf
<1>2. [b.entry EXCEPT ![b.in_offs] = e] \in [Slots -> E \cup {NoEntry}]
  BY <1>1
<1>3. /\ (b.in_offs + 1) % MaxWriteOps \in Slots
      /\ (b.out_offs + 1) % MaxWriteOps \in Slots
  BY <1>1, NextSlot
<1>4. QED  BY <1>1, <1>2, <1>3 DEF AddEntry, RingOf

\* The relation of the indices, the full flag and the slots is preserved.
LEMMA AddEntryConsistent ==
    ASSUME NEW E, NEW b \in RingOf(E), Consistent(b, E), NEW e \in E
    PROVE  Consistent(AddEntry(b, e), E)
<1> DEFINE c == AddEntry(b, e)
           next == (b.in_offs + 1) % MaxWriteOps
<1>1. /\ b.entry \in [Slots -> E \cup {NoEntry}]
      /\ b.in_offs \in Slots
      /\ b.out_offs \in Slots
      /\ b.full \in BOOLEAN
  BY DEF RingOf
<1>2. /\ c.entry = [b.entry EXCEPT ![b.in_offs] = e]
      /\ c.in_offs = next
      /\ c.out_offs = IF b.full THEN (b.out_offs + 1) % MaxWriteOps
                                ELSE b.out_offs
      /\ c.full = (b.full \/ next = b.out_offs)
  BY AddEntryFields
<1>3. next = IF b.in_offs = MaxWriteOps - 1 THEN 0 ELSE b.in_offs + 1
  BY <1>1, NextSlot
<1> HIDE DEF c, next
<1>4. CASE b.full
  <2>1. /\ b.in_offs = b.out_offs
        /\ \A i \in Slots : b.entry[i] \in E
    BY <1>4 DEF Consistent
  <2>2. c.full /\ c.in_offs = c.out_offs
    BY <1>2, <1>4, <2>1 DEF next
  <2>3. \A i \in Slots : c.entry[i] \in E
    BY <1>1, <1>2, <2>1
  <2>4. QED  BY <2>2, <2>3 DEF Consistent, c
<1>5. CASE ~b.full
  <2>1. /\ b.out_offs = 0
        /\ \A i \in Slots : IF i < b.in_offs
                            THEN b.entry[i] \in E
                            ELSE b.entry[i] = NoEntry
    BY <1>5 DEF Consistent
  <2>2. CASE b.in_offs = MaxWriteOps - 1
    <3>1. next = 0 /\ c.full
      BY <1>2, <1>3, <2>1, <2>2
    <3>2. c.in_offs = c.out_offs
      BY <1>2, <1>5, <2>1, <3>1
    <3>3. \A i \in Slots : c.entry[i] \in E
      BY <1>1, <1>2, <2>1, <2>2 DEF Slots
    <3>4. QED  BY <3>1, <3>2, <3>3 DEF Consistent, c
  <2>3. CASE b.in_offs # MaxWriteOps - 1
    <3>1. next = b.in_offs + 1 /\ next # 0
      BY <1>1, <1>3, <2>3 DEF Slots
    <3>2. ~c.full /\ c.out_offs = 0 /\ c.in_offs = b.in_offs + 1
      BY <1>2, <1>5, <2>1, <3>1
    <3>3. ASSUME NEW i \in Slots
          PROVE  IF i < c.in_offs THEN c.entry[i] \in E
                                  ELSE c.entry[i] = NoEntry
      <4>1. CASE i = b.in_offs
        <5>1. c.entry[i] = e /\ i < c.in_offs
          <6>1. c.entry[i] = e
            BY <1>1, <1>2, <4>1
          <6>2. i < c.in_offs
            BY <1>1, <3>2, <4>1 DEF Slots
          <6>3. QED  BY <6>1, <6>2
        <5>2. QED  BY <5>1
      <4>2. CASE i # b.in_offs
        <5>1. c.entry[i] = b.entry[i]
          BY <1>1, <1>2, <4>2
        <5>2. i < c.in_offs <=> i < b.in_offs
          BY <1>1, <3>2, <4>2 DEF Slots
        <5>3. QED  BY <2>1, <5>1, <5>2
      <4>3. QED  BY <4>1, <4>2
    <3>4. QED  BY <3>2, <3>3 DEF Consistent, c
  <2>4. QED  BY <2>2, <2>3
<1>6. QED  BY <1>1, <1>4, <1>5

(***************************************************************************)
(* The entries of the ring as a sequence.                                  *)
(***************************************************************************)
LEMMA CountType ==
    ASSUME NEW E, NEW b \in RingOf(E), Consistent(b, E)
    PROVE  /\ Count(b) \in 0..MaxWriteOps
           /\ Count(b) < MaxWriteOps <=> ~b.full
           /\ ~b.full => Count(b) = b.in_offs
<1>1. b.in_offs \in Slots /\ b.out_offs \in Slots /\ b.full \in BOOLEAN
  BY DEF RingOf
<1>2. CASE b.full
  BY <1>2, MaxWriteOpsAssumption DEF Count
<1>3. CASE ~b.full
  <2>1. b.out_offs = 0
    BY <1>3 DEF Consistent
  <2>2. Count(b) = b.in_offs
    BY <1>1, <1>3, <2>1 DEF Count, Slots
  <2>3. QED  BY <1>1, <1>3, <2>2, MaxWriteOpsAssumption DEF Slots
<1>4. QED  BY <1>1, <1>2, <1>3

LEMMA ContentsType ==
    ASSUME NEW E, NEW b \in RingOf(E), Consistent(b, E)
    PROVE  /\ Contents(b) \in Seq(E)
           /\ Len(Contents(b)) = Count(b)
           /\ \A k \in 1..Count(b) : /\ Slot(b, k - 1) \in Slots
                                     /\ Contents(b)[k] = b.entry[Slot(b, k - 1)]
<1>1. b.in_offs \in Slots /\ b.out_offs \in Slots /\ b.full \in BOOLEAN
  BY DEF RingOf
<1>2. Count(b) \in 0..MaxWriteOps
  BY CountType
<1>3. ASSUME NEW k \in 1..Count(b)
      PROVE  Slot(b, k - 1) \in Slots /\ b.entry[Slot(b, k - 1)] \in E
  <2>1. k - 1 \in Slots
    BY <1>2, MaxWriteOpsAssumption DEF Slots
  <2>2. Slot(b, k - 1) \in Slots
    BY <1>1, <2>1, SlotValue
  <2>3. CASE b.full
    BY <2>2, <2>3 DEF Consistent
  <2>4. CASE ~b.full
    <3>1. b.out_offs = 0 /\ Count(b) = b.in_offs
      BY <2>4, CountType DEF Consistent
    <3>2. Slot(b, k - 1) = k - 1
      BY <1>1, <2>1, <3>1, SlotValue, MaxWriteOpsAssumption DEF Slots
    <3>3. k - 1 < b.in_offs
      BY <1>1, <3>1 DEF Slots
    <3>4. QED  BY <2>2, <2>4, <3>2, <3>3 DEF Consistent
  <2>5. QED  BY <2>2, <2>3, <2>4
<1>4. Contents(b) \in [1..Count(b) -> E]
  BY <1>3 DEF Contents
<1>5. Count(b) \in Nat
  BY <1>2, MaxWriteOpsAssumption
<1>6. Contents(b) \in Seq(E) /\ Len(Contents(b)) = Count(b)
  BY <1>4, <1>5
<1>7. QED  BY <1>3, <1>6 DEF Contents

\* A full ring drops its oldest entry and moves the others up by one.
LEMMA AddToFull ==
    ASSUME NEW E, NEW b \in RingOf(E), Consistent(b, E), NEW e \in E, b.full
    PROVE  Contents(AddEntry(b, e)) = Append(Tail(Contents(b)), e)
<1> DEFINE c == AddEntry(b, e)
           N == MaxWriteOps
           rest == Tail(Contents(b))
<1>1. /\ b.entry \in [Slots -> E \cup {NoEntry}]
      /\ b.in_offs \in Slots
      /\ b.out_offs = b.in_offs
  BY DEF RingOf, Consistent
<1>2. /\ c.entry = [b.entry EXCEPT ![b.in_offs] = e]
      /\ c.out_offs = (b.out_offs + 1) % N
      /\ c.full
  BY AddEntryFields
<1>3. c.out_offs \in Slots
      /\ c.out_offs = IF b.out_offs = N - 1 THEN 0 ELSE b.out_offs + 1
  BY <1>1, <1>2, NextSlot
<1>4. /\ Contents(b) \in Seq(E)
      /\ Len(Contents(b)) = N
      /\ \A k \in 1..N : Contents(b)[k] = b.entry[Slot(b, k - 1)]
  BY ContentsType DEF Count
<1>5. Contents(c) = [k \in 1..N |-> c.entry[Slot(c, k - 1)]]
  BY <1>2 DEF Contents, Count
<1>6. N \in Nat /\ N >= 1
  BY MaxWriteOpsAssumption
<1>7. /\ rest \in Seq(E)
      /\ Len(rest) = N - 1
      /\ \A k \in 1..N - 1 : rest[k] = Contents(b)[k + 1]
  <2>1. Contents(b) # << >>
    BY <1>4, <1>6
  <2>2. QED  BY <1>4, <1>6, <2>1, HeadTailProperties
<1> HIDE DEF c, N, rest
<1>8. ASSUME NEW k \in 1..N - 1
      PROVE  c.entry[Slot(c, k - 1)] = rest[k]
  <2>1. k - 1 \in Slots /\ k \in Slots
    BY <1>6 DEF Slots, N
  <2>2. /\ Slot(c, k - 1) = IF c.out_offs + (k - 1) < N
                            THEN c.out_offs + (k - 1)
                            ELSE c.out_offs + (k - 1) - N
        /\ Slot(b, k) = IF b.out_offs + k < N
                        THEN b.out_offs + k ELSE b.out_offs + k - N
        /\ Slot(b, k) \in Slots
    BY <1>1, <1>3, <2>1, SlotValue DEF N
  <2>3. Slot(c, k - 1) = Slot(b, k)
    BY <1>1, <1>3, <1>6, <2>2 DEF Slots, N
  <2>4. Slot(b, k) # b.in_offs
    BY <1>1, <1>6, <2>2 DEF Slots, N
  <2>5. c.entry[Slot(b, k)] = b.entry[Slot(b, k)]
    BY <1>1, <1>2, <2>2, <2>4
  <2>6. rest[k] = b.entry[Slot(b, k)]
    <3>1. k + 1 \in 1..N /\ (k + 1) - 1 = k
      BY <1>6
    <3>2. QED  BY <1>4, <1>7, <3>1
  <2>7. QED  BY <2>3, <2>5, <2>6
<1>9. c.entry[Slot(c, N - 1)] = e
  <2>1. N - 1 \in Slots
    BY <1>6 DEF Slots, N
  <2>2. Slot(c, N - 1) = IF c.out_offs + (N - 1) < N
                         THEN c.out_offs + (N - 1)
                         ELSE c.out_offs + (N - 1) - N
    BY <1>3, <2>1, SlotValue DEF N
  <2>3. Slot(c, N - 1) = b.in_offs
    BY <1>1, <1>3, <1>6, <2>2 DEF Slots, N
  <2>4. QED  BY <1>1, <1>2, <2>3
<1>10. Contents(c) = Append(rest, e)
  <2> DEFINE n == N - 1
  <2>1. n \in Nat /\ n + 1 = N
    BY <1>6
  <2>2. Contents(c) \in Seq(E) /\ Len(Contents(c)) = n + 1
    BY <1>2, <2>1, AddEntryType, AddEntryConsistent, ContentsType DEF c, Count, N
  <2>3. Contents(c)[n + 1] = e
    BY <1>5, <1>6, <1>9, <2>1
  <2>4. \A k \in 1..n : Contents(c)[k] = rest[k]
    BY <1>5, <1>6, <1>8
  <2> HIDE DEF n
  <2>5. QED  BY <1>7, <2>1, <2>2, <2>3, <2>4, AppendEqual DEF n
<1>11. QED  BY <1>10 DEF c, rest

\* A ring with a free slot keeps every entry.
LEMMA AddToFree ==
    ASSUME NEW E, NEW b \in RingOf(E), Consistent(b, E), NEW e \in E, ~b.full
    PROVE  Contents(AddEntry(b, e)) = Append(Contents(b), e)
<1> DEFINE c == AddEntry(b, e)
           n == b.in_offs
<1>1. /\ b.entry \in [Slots -> E \cup {NoEntry}]
      /\ n \in Slots
      /\ b.out_offs = 0
  BY DEF RingOf, Consistent
<1>2. n \in Nat /\ n + 1 <= MaxWriteOps
  <2>1. n \in 0..MaxWriteOps - 1
    BY <1>1 DEF Slots
  <2> HIDE DEF n
  <2>2. QED  BY <2>1, MaxWriteOpsAssumption
<1>3. /\ c.entry = [b.entry EXCEPT ![n] = e]
      /\ c.in_offs = (n + 1) % MaxWriteOps
      /\ c.out_offs = 0
      /\ c.full = ((n + 1) % MaxWriteOps = 0)
  BY <1>1, AddEntryFields
<1>4. /\ Contents(b) \in Seq(E)
      /\ Len(Contents(b)) = n
      /\ \A k \in 1..n : Contents(b)[k] = b.entry[Slot(b, k - 1)]
  BY ContentsType, CountType
<1> HIDE DEF c
<1>5. Count(c) = n + 1
  <2>1. (n + 1) % MaxWriteOps = IF n = MaxWriteOps - 1 THEN 0 ELSE n + 1
    BY <1>1, NextSlot
  <2>2. CASE n = MaxWriteOps - 1
    <3>1. (n + 1) % MaxWriteOps = 0 /\ n + 1 = MaxWriteOps
      BY <1>2, <2>1, <2>2, MaxWriteOpsAssumption
    <3>2. c.full
      BY <1>3, <3>1
    <3>3. QED  BY <3>1, <3>2 DEF Count
  <2>3. CASE n # MaxWriteOps - 1
    <3>1. (n + 1) % MaxWriteOps = n + 1 /\ n + 1 # 0
      BY <1>2, <2>1, <2>3
    <3>2. ~c.full /\ c.in_offs = n + 1
      BY <1>3, <3>1
    <3>3. QED  BY <1>2, <1>3, <3>2 DEF Count
  <2>4. QED  BY <2>2, <2>3
<1>6. ASSUME NEW d, d.out_offs = 0, NEW k \in 1..n + 1
      PROVE  Slot(d, k - 1) = k - 1 /\ k - 1 \in Slots
  <2>1. k - 1 \in Slots /\ d.out_offs \in Slots
    BY <1>2, <1>6, MaxWriteOpsAssumption DEF Slots
  <2>2. QED  BY <1>6, <2>1, SlotValue, MaxWriteOpsAssumption DEF Slots
<1>7. Contents(c) = [k \in 1..n + 1 |-> c.entry[Slot(c, k - 1)]]
  BY <1>5 DEF Contents
<1>8. Contents(c)[n + 1] = e
  <2>1. Slot(c, (n + 1) - 1) = (n + 1) - 1
    BY <1>2, <1>3, <1>6
  <2>2. (n + 1) - 1 = n
    BY <1>2
  <2>3. Contents(c)[n + 1] = c.entry[Slot(c, (n + 1) - 1)]
    BY <1>2, <1>7
  <2>4. QED  BY <1>1, <1>3, <2>1, <2>2, <2>3
<1>9. ASSUME NEW k \in 1..n
      PROVE  Contents(c)[k] = Contents(b)[k]
  <2>1. k \in 1..n + 1 /\ k - 1 # n
    BY <1>2
  <2>2. Contents(c)[k] = c.entry[k - 1]
    BY <1>3, <1>6, <1>7, <2>1
  <2>3. Contents(b)[k] = b.entry[k - 1]
    BY <1>1, <1>4, <1>6, <2>1
  <2>4. QED  BY <1>1, <1>3, <1>6, <2>1, <2>2, <2>3
<1>10. Contents(c) = Append(Contents(b), e)
  <2>1. Contents(c) \in Seq(E) /\ Len(Contents(c)) = n + 1
    BY <1>5, AddEntryType, AddEntryConsistent, ContentsType DEF c
  <2> HIDE DEF n
  <2>2. QED  BY <1>2, <1>4, <1>8, <1>9, <2>1, AppendEqual
<1>11. QED  BY <1>10 DEF c

(***************************************************************************)
(* The ring as a bounded log: what it holds after an addition is what the  *)
(* log holds after Push, and the pointer handed back is the oldest one's.  *)
(***************************************************************************)
LEMMA AddEntryIsPush ==
    ASSUME NEW E, NEW b \in RingOf(E), Consistent(b, E), NEW e \in E
    PROVE  Contents(AddEntry(b, e)) = Push(Contents(b), e)
<1>1. Len(Contents(b)) < MaxWriteOps <=> ~b.full
  BY ContentsType, CountType
<1>2. QED  BY <1>1, AddToFull, AddToFree DEF Push

LEMMA ReplacedIsOldest ==
    ASSUME NEW E, NEW b \in RingOf(E), Consistent(b, E)
    PROVE  Replaced(b) = IF Len(Contents(b)) < MaxWriteOps
                         THEN NULL ELSE Head(Contents(b)).buffptr
<1>1. Len(Contents(b)) < MaxWriteOps <=> ~b.full
  BY ContentsType, CountType
<1>2. b.in_offs \in Slots /\ b.out_offs \in Slots
  BY DEF RingOf
<1>3. CASE b.full
  <2>1. b.in_offs = b.out_offs /\ Count(b) = MaxWriteOps
    BY <1>3 DEF Consistent, Count
  <2>2. 1 \in 1..Count(b) /\ 1 - 1 = 0 /\ 0 \in Slots
    BY <2>1, MaxWriteOpsAssumption DEF Slots
  <2>3. Contents(b)[1] = b.entry[Slot(b, 0)]
    BY <2>2, ContentsType
  <2>4. Slot(b, 0) = b.out_offs
    BY <1>2, <2>2, SlotValue, MaxWriteOpsAssumption DEF Slots
  <2>5. Head(Contents(b)) = Contents(b)[1]
    BY <2>2, ContentsType
  <2>6. QED  BY <1>1, <1>3, <2>1, <2>3, <2>4, <2>5 DEF Replaced
<1>4. CASE ~b.full
  <2>1. b.entry[b.in_offs] = NoEntry
    BY <1>2, <1>4 DEF Consistent, Slots
  <2>2. QED  BY <1>1, <1>4, <2>1 DEF Replaced, NoEntry
<1>5. QED  BY <1>3, <1>4

-----------------------------------------------------------------------------
(***************************************************************************)
(* Where a position is found.                                              *)
(***************************************************************************)
\* Every slot, used or not, has a size.
Sized(b) == \A i \in Slots : b.entry[i].size \in Nat

LEMMA RingIsSized ==
    ASSUME NEW E, \A e \in E : e.size \in Nat, NEW b \in RingOf(E)
    PROVE  Sized(b) /\ b.out_offs \in Slots
<1>1. b.entry \in [Slots -> E \cup {NoEntry}] /\ b.out_offs \in Slots
  BY DEF RingOf
<1>2. NoEntry.size \in Nat
  BY DEF NoEntry
<1>3. QED  BY <1>1, <1>2 DEF Sized

LEMMA SizeBeforeAdds ==
    ASSUME NEW b, Sized(b), b.out_offs \in Slots
    PROVE  /\ SizeBefore(b) \in [0..MaxWriteOps -> Nat]
           /\ SizeBefore(b)[0] = 0
           /\ \A k \in Slots :
                SizeBefore(b)[k + 1] =
                    SizeBefore(b)[k] + b.entry[Slot(b, k)].size
<1> DEFINE N == MaxWriteOps
           v == [k \in 0 .. N - 1 |-> b.entry[Slot(b, k)].size]
           g == SizeBefore(b)
           Sum(f) == [k \in 0..N |-> IF k = 0 THEN 0
                          ELSE f[k - 1] + b.entry[Slot(b, k - 1)].size]
<1>1. N \in Nat
  BY MaxWriteOpsAssumption
<1>2. v \in [0 .. N - 1 -> Nat]
  <2>1. \A k \in 0 .. N - 1 : Slot(b, k) \in Slots
    BY SlotValue DEF Slots
  <2>2. QED  BY <2>1 DEF Sized
<1>3. \A f : RunsOver(f, v, N) <=> f = Sum(f)
  <2>1. \A k \in 1..N : v[k - 1] = b.entry[Slot(b, k - 1)].size
    BY <1>1
  <2>2. \A f : Sum(f) = [k \in 0..N |-> IF k = 0 THEN 0
                                        ELSE f[k - 1] + v[k - 1]]
    <3> HIDE DEF v
    <3> QED  BY <1>1, <2>1
  <2>3. QED
    <3> HIDE DEF v, Sum
    <3> QED  BY <2>2, Zenon DEF RunsOver
<1>4. \E f : f = Sum(f)
  <2> HIDE DEF N, v, Sum
  <2> QED  BY <1>1, <1>2, <1>3, RunExists
<1>5. g = Sum(g)
  BY <1>4, Zenon DEF SizeBefore
<1>6. RunsOver(g, v, N)
  <2> HIDE DEF g, v, N, Sum
  <2> QED  BY <1>3, <1>5
<1>7. /\ g \in [0..N -> Nat]
      /\ g[0] = 0
      /\ \A k \in 0 .. N - 1 : g[k + 1] = g[k] + v[k]
  <2> HIDE DEF g, v, N
  <2> QED  BY <1>1, <1>2, <1>6, RunAdds
<1>8. QED  BY <1>7 DEF Slots

\* The sizes of the first k commands never decrease with k.
LEMMA SizeBeforeIncreases ==
    ASSUME NEW b, Sized(b), b.out_offs \in Slots,
           NEW j \in 0..MaxWriteOps, NEW k \in 0..MaxWriteOps, j <= k
    PROVE  SizeBefore(b)[j] <= SizeBefore(b)[k]
<1> DEFINE g == SizeBefore(b)
<1>1. MaxWriteOps \in Nat
  BY MaxWriteOpsAssumption
<1>2. g \in [0..MaxWriteOps -> Nat]
  BY SizeBeforeAdds
<1>3. ASSUME NEW i \in 0 .. MaxWriteOps - 1 PROVE g[i] <= g[i + 1]
  <2>1. i \in Slots
    BY DEF Slots
  <2>2. Slot(b, i) \in Slots
    BY <2>1, SlotValue
  <2>3. b.entry[Slot(b, i)].size \in Nat
    BY <2>2 DEF Sized
  <2>4. g[i + 1] = g[i] + b.entry[Slot(b, i)].size
    BY <2>1, SizeBeforeAdds
  <2>5. g[i] \in Nat
    BY <1>1, <1>2
  <2>6. QED
    <3> HIDE DEF g
    <3> QED  BY <2>3, <2>4, <2>5
<1>4. QED
  <2> HIDE DEF g
  <2>1. g[j] <= g[k]
    BY <1>1, <1>2, <1>3, RunIncreases
  <2>2. QED  BY <2>1 DEF g

\* aesd-circular-buffer.c:38-53: a position inside the stored commands is
\* found in the one command whose bytes include it, with the offset that is
\* left; a position at or beyond their end is not found.
THEOREM FindEntryBrackets ==
    ASSUME NEW b, Sized(b), b.out_offs \in Slots, NEW char_offset \in Nat
    PROVE  IF char_offset < SizeBefore(b)[MaxWriteOps]
           THEN \E k \in Slots :
                    /\ SizeBefore(b)[k] <= char_offset
                    /\ char_offset < SizeBefore(b)[k + 1]
                    /\ FindEntry(b, char_offset) =
                         [slot   |-> Slot(b, k),
                          offset |-> char_offset - SizeBefore(b)[k]]
           ELSE FindEntry(b, char_offset) = NotFound
<1> DEFINE N == MaxWriteOps
           g == SizeBefore(b)
           hits == {k \in Slots : char_offset < g[k + 1]}
           Least(k) == \A j \in hits : k <= j
           first == CHOOSE k \in hits : Least(k)
<1>1. /\ N \in 1..255
      /\ g \in [0..N -> Nat]
      /\ g[0] = 0
  BY MaxWriteOpsAssumption, SizeBeforeAdds
<1>2. FindEntry(b, char_offset) =
        IF hits = {} THEN NotFound
        ELSE [slot |-> Slot(b, first), offset |-> char_offset - g[first]]
  BY DEF FindEntry
<1> HIDE DEF g
<1>3. CASE char_offset < g[N]
  <2>1. N - 1 \in hits
    BY <1>1, <1>3 DEF Slots
  <2>2. hits \in SUBSET Nat /\ hits \in SUBSET Slots
    BY <1>1 DEF Slots
  <2>3. \E k \in hits : Least(k)
    <3> HIDE DEF hits
    <3> QED  BY <2>1, <2>2, LeastNatural
  <2>4. first \in hits /\ Least(first)
    <3> HIDE DEF hits, Least
    <3> QED  BY <2>3, Zenon
  <2>5. first \in Slots /\ char_offset < g[first + 1]
    <3> HIDE DEF first
    <3> QED  BY <2>4
  <2> HIDE DEF first
  <2>6. g[first] <= char_offset
    <3>1. CASE first = 0
      BY <1>1, <3>1
    <3>2. CASE first # 0
      <4>1. first - 1 \in Slots /\ (first - 1) + 1 = first /\ ~(first <= first - 1)
        BY <1>1, <2>5, <3>2 DEF Slots
      <4>2. first - 1 \notin hits
        <5> HIDE DEF hits
        <5> QED  BY <2>4, <4>1
      <4>3. ~(char_offset < g[first])
        BY <4>1, <4>2
      <4>4. g[first] \in Nat
        BY <1>1, <2>5 DEF Slots
      <4>5. QED  BY <4>3, <4>4
    <3>3. QED  BY <3>1, <3>2
  <2>7. hits # {}
    BY <2>1
  <2>8. QED
    <3> HIDE DEF hits
    <3> QED  BY <1>2, <1>3, <2>5, <2>6, <2>7 DEF g
<1>4. CASE ~(char_offset < g[N])
  <2>1. \A k \in Slots : g[k + 1] <= g[N] /\ g[k + 1] \in Nat
    <3> SUFFICES ASSUME NEW k \in Slots
                 PROVE  g[k + 1] <= g[N] /\ g[k + 1] \in Nat
      OBVIOUS
    <3>1. k + 1 \in 0..N /\ N \in 0..N /\ k + 1 <= N
      BY <1>1 DEF Slots
    <3>2. QED  BY <1>1, <3>1, SizeBeforeIncreases DEF g
  <2>2. g[N] \in Nat
    BY <1>1
  <2>3. hits = {}
    BY <1>4, <2>1, <2>2
  <2>4. QED
    <3> HIDE DEF hits
    <3> QED  BY <1>2, <1>4, <2>3 DEF g
<1>5. QED  BY <1>3, <1>4 DEF g

\* The slots beyond the stored commands take nothing off a position.
LEMMA SizeBeyondContents ==
    ASSUME NEW E, NEW b \in RingOf(E), Consistent(b, E), Sized(b),
           NEW k \in Count(b)..MaxWriteOps
    PROVE  SizeBefore(b)[k] = SizeBefore(b)[Count(b)]
<1> DEFINE N == MaxWriteOps
           g == SizeBefore(b)
           Bad == {i \in 0..N : Count(b) <= i /\ g[i] # g[Count(b)]}
<1>1. N \in 1..255 /\ b.in_offs \in Slots /\ Count(b) \in 0..N
  BY MaxWriteOpsAssumption, CountType DEF RingOf
<1>2. CASE b.full
  BY <1>1, <1>2 DEF Count
<1>3. CASE ~b.full
  <2>1. b.out_offs = 0 /\ Count(b) = b.in_offs /\ b.out_offs \in Slots
    BY <1>1, <1>3, CountType DEF Consistent, Slots
  <2>2. ASSUME NEW i \in Slots, Count(b) <= i PROVE g[i + 1] = g[i]
    <3>1. Slot(b, i) = i
      BY <1>1, <2>1, SlotValue DEF Slots
    <3>2. b.entry[i] = NoEntry
      BY <1>1, <1>3, <2>1, <2>2 DEF Consistent, Slots
    <3>3. g[i] \in Nat
      BY <1>1, <2>1, SizeBeforeAdds DEF Slots
    <3>4. g[i + 1] = g[i] + 0
      BY <2>1, <3>1, <3>2, SizeBeforeAdds DEF NoEntry
    <3>5. QED  BY <3>3, <3>4
  <2> HIDE DEF g
  <2>3. ASSUME NEW n \in Bad PROVE n # 0 /\ n - 1 \in Bad
    <3>1. n \in 0..N /\ Count(b) <= n /\ n # Count(b) /\ g[n] # g[Count(b)]
      OBVIOUS
    <3>2. /\ n - 1 \in Slots /\ n - 1 \in 0..N /\ Count(b) <= n - 1
          /\ (n - 1) + 1 = n
      BY <1>1, <3>1 DEF Slots
    <3>3. g[n] = g[n - 1]
      BY <2>2, <3>2
    <3>4. QED  BY <1>1, <3>1, <3>2, <3>3
  <2>4. Bad \in SUBSET (0..N)
    OBVIOUS
  <2>5. Bad = {}
    <3> HIDE DEF Bad
    <3> QED  BY <1>1, <2>3, <2>4, NoDescent
  <2>6. k \in 0..N /\ Count(b) <= k
    BY <1>1
  <2>7. QED  BY <2>5, <2>6 DEF g
<1>4. QED  BY <1>2, <1>3

\* A position is found where it lies in the stored commands written end to
\* end: s holds a sequence as long as its size for each of them.
LEMMA FindInConcatenation ==
    ASSUME NEW E, NEW b \in RingOf(E), Consistent(b, E), Sized(b),
           NEW S, NEW s \in Seq(Seq(S)), Len(s) = Count(b),
           \A k \in 1..Count(b) : Len(s[k]) = Contents(b)[k].size,
           NEW char_offset \in Nat
    PROVE  LET all == FlattenSeq(s)
               found == FindEntry(b, char_offset)
           IN  IF char_offset < Len(all)
               THEN \E k \in 1..Count(b) : \E j \in Nat :
                    /\ found = [slot |-> Slot(b, k - 1), offset |-> j]
                    /\ j < Len(s[k])
                    /\ char_offset + (Len(s[k]) - j) <= Len(all)
                    /\ \A i \in 1 .. Len(s[k]) - j :
                            all[char_offset + i] = s[k][j + i]
               ELSE found = NotFound
<1> DEFINE N == MaxWriteOps
           C == Count(b)
           g == SizeBefore(b)
           all == FlattenSeq(s)
           found == FindEntry(b, char_offset)
<1>1. /\ N \in 1..255 /\ C \in 0..N /\ b.out_offs \in Slots
      /\ g \in [0..N -> Nat] /\ g[0] = 0
  BY MaxWriteOpsAssumption, CountType, SizeBeforeAdds DEF RingOf
<1>2. ASSUME NEW k \in 1..C
      PROVE  /\ s[k] \in Seq(S) /\ Len(s[k]) \in Nat
             /\ k \in 0..N /\ k - 1 \in 0..N /\ k - 1 \in Slots
             /\ g[k] = g[k - 1] + Len(s[k])
  <2>1. k - 1 \in Slots /\ (k - 1) + 1 = k /\ k \in 0..N /\ k - 1 \in 0..N
    BY <1>1 DEF Slots
  <2>2. Contents(b)[k] = b.entry[Slot(b, k - 1)]
    BY ContentsType
  <2>3. g[k] = g[k - 1] + b.entry[Slot(b, k - 1)].size
    BY <1>1, <2>1, SizeBeforeAdds
  <2>4. s[k] \in Seq(S)
    BY ElementOfSeq
  <2>5. QED  BY <2>1, <2>2, <2>3, <2>4, LenProperties
<1>3. ASSUME NEW k \in C..N PROVE g[k] = g[C]
  BY SizeBeyondContents
<1>4. /\ Len(all) = g[N]
      /\ \A k \in 1..C : \A j \in 1..Len(s[k]) : all[g[k - 1] + j] = s[k][j]
  <2>1. CASE s = << >>
    <3>1. C = 0 /\ Len(all) = 0
      BY <2>1 DEF FlattenSeq
    <3>2. g[N] = g[0]
      BY <1>1, <1>3, <3>1
    <3>3. QED  BY <1>1, <3>1, <3>2
  <2>2. CASE s # << >>
    <3> DEFINE len == [k \in 0..C |-> g[k]]
    <3>1. /\ len \in [0..Len(s) -> Nat] /\ len[0] = 0
          /\ \A k \in 1..Len(s) : len[k] = len[k - 1] + Len(s[k])
      <4>1. \A k \in 0..C : k \in 0..N
        BY <1>1
      <4>2. \A k \in 1..C : k \in 0..C /\ k - 1 \in 0..C
        BY <1>1
      <4>3. Len(s) = C /\ 0 \in 0..C
        BY <1>1
      <4> HIDE DEF g, C
      <4>4. len \in [0..C -> Nat] /\ len[0] = 0
        BY <1>1, <4>1, <4>3
      <4>5. ASSUME NEW k \in 1..C PROVE len[k] = len[k - 1] + Len(s[k])
        BY <1>2, <4>2
      <4> HIDE DEF len
      <4>6. QED  BY <4>3, <4>4, <4>5
    <3>2. \A k \in 1..C : len[k - 1] = g[k - 1]
      BY <1>1
    <3>3. len[Len(s)] = g[C]
      BY <1>1
    <3> HIDE DEF len
    <3>4. /\ Len(all) = len[Len(s)]
          /\ \A k \in 1..Len(s) : \A j \in 1..Len(s[k]) :
                all[len[k - 1] + j] = s[k][j]
      BY <2>2, <3>1, FlattenElement
    <3>5. g[N] = g[C]
      BY <1>1, <1>3
    <3> HIDE DEF g, all
    <3>6. QED  BY <3>2, <3>3, <3>4, <3>5
  <2>3. QED  BY <2>1, <2>2
<1> HIDE DEF all, found
<1>5. CASE char_offset < Len(all)
  <2>1. PICK i \in Slots : /\ g[i] <= char_offset
                           /\ char_offset < g[i + 1]
                           /\ found = [slot   |-> Slot(b, i),
                                       offset |-> char_offset - g[i]]
    BY <1>1, <1>4, <1>5, FindEntryBrackets DEF found
  <2> HIDE DEF g
  <2>2. i < C
    <3> SUFFICES ASSUME i >= C PROVE FALSE
      BY <1>1 DEF Slots
    <3>1. i \in C..N /\ i + 1 \in C..N
      BY <1>1 DEF Slots
    <3>2. g[i] = g[i + 1]
      BY <1>3, <3>1
    <3>3. QED  BY <1>1, <2>1, <3>1, <3>2
  <2> DEFINE k == i + 1
             j == char_offset - g[i]
  <2>3. k \in 1..C /\ k - 1 = i /\ k \in 0..N /\ i \in 0..N
    BY <1>1, <2>2 DEF Slots
  <2>4. /\ g[k - 1] = g[i] /\ g[i] \in Nat /\ Len(s[k]) \in Nat
        /\ g[k] = g[i] + Len(s[k]) /\ g[k] \in Nat
    BY <1>1, <1>2, <2>3
  <2>5. j \in Nat /\ j < Len(s[k])
    BY <2>1, <2>4
  <2>6. g[k] <= Len(all)
    <3>1. k <= N /\ N \in 0..N
      BY <1>1, <2>3
    <3>2. SizeBefore(b)[k] <= SizeBefore(b)[N]
      BY <1>1, <2>3, <3>1, SizeBeforeIncreases
    <3>3. QED  BY <1>4, <3>2 DEF g
  <2>7. char_offset + (Len(s[k]) - j) <= Len(all)
    <3>1. char_offset + (Len(s[k]) - j) = g[k]
      BY <2>4
    <3>2. QED  BY <2>6, <3>1
  <2>8. ASSUME NEW n \in 1 .. Len(s[k]) - j
        PROVE  all[char_offset + n] = s[k][j + n]
    <3>1. j + n \in 1..Len(s[k])
      BY <2>4, <2>5
    <3>2. g[k - 1] + (j + n) = char_offset + n
      BY <2>4, <2>5
    <3>3. all[g[k - 1] + (j + n)] = s[k][j + n]
      BY <1>4, <2>3, <3>1
    <3>4. QED  BY <3>2, <3>3
  <2>9. found = [slot |-> Slot(b, k - 1), offset |-> j]
    BY <2>1, <2>3
  <2> HIDE DEF k, j
  <2>10. QED  BY <1>5, <2>3, <2>5, <2>7, <2>8, <2>9 DEF all, found
<1>6. CASE ~(char_offset < Len(all))
  BY <1>1, <1>4, <1>6, FindEntryBrackets DEF found, all
<1>7. QED  BY <1>5, <1>6 DEF all, found

\* What is read from one sequence continues the one it is a part of.
LEMMA ChunkIsPrefix ==
    ASSUME NEW S, NEW all \in Seq(S), NEW cmd \in Seq(S),
           NEW p \in Nat, NEW j \in Nat, NEW n \in Nat,
           j + n <= Len(cmd), p + n <= Len(all),
           \A i \in 1..n : all[p + i] = cmd[j + i]
    PROVE  /\ Len(SubSeq(cmd, j + 1, j + n)) = n
           /\ IsPrefix(SubSeq(cmd, j + 1, j + n), SubSeq(all, p + 1, Len(all)))
<1> DEFINE chunk == SubSeq(cmd, j + 1, j + n)
           rest == SubSeq(all, p + 1, Len(all))
<1>1. Len(all) \in Nat /\ Len(cmd) \in Nat
  BY LenProperties
<1>2. chunk \in Seq(S) /\ Len(chunk) = n /\ \A i \in 1..n : chunk[i] = cmd[j + i]
  <2>1. \A i \in j + 1 .. j + n : cmd[i] \in S
    BY <1>1, ElementOfSeq
  <2>2. /\ chunk \in Seq(S)
        /\ Len(chunk) = IF j + 1 <= j + n THEN (j + n) - (j + 1) + 1 ELSE 0
        /\ \A i \in 1 .. (j + n) - (j + 1) + 1 : chunk[i] = cmd[(j + 1) + i - 1]
    BY <2>1, SubSeqProperties
  <2> HIDE DEF chunk
  <2>3. (j + n) - (j + 1) + 1 = n /\ \A i \in 1..n : (j + 1) + i - 1 = j + i
    OBVIOUS
  <2>4. QED  BY <2>2, <2>3
<1>3. /\ rest \in Seq(S) /\ Len(rest) = Len(all) - p
      /\ \A i \in 1 .. Len(all) - p : rest[i] = all[p + i]
  <2>1. \A i \in p + 1 .. Len(all) : all[i] \in S
    BY <1>1, ElementOfSeq
  <2>2. /\ rest \in Seq(S)
        /\ Len(rest) = IF p + 1 <= Len(all) THEN Len(all) - (p + 1) + 1 ELSE 0
        /\ \A i \in 1 .. Len(all) - (p + 1) + 1 : rest[i] = all[(p + 1) + i - 1]
    BY <1>1, <2>1, SubSeqProperties
  <2> HIDE DEF rest
  <2>3. Len(all) - (p + 1) + 1 = Len(all) - p
        /\ \A i \in 1 .. Len(all) - p : (p + 1) + i - 1 = p + i
    BY <1>1
  <2>4. Len(rest) = Len(all) - p
    BY <1>1, <2>2
  <2>5. ASSUME NEW i \in 1 .. Len(all) - p PROVE rest[i] = all[p + i]
    BY <2>2, <2>3
  <2>6. QED  BY <2>2, <2>4, <2>5
<1> HIDE DEF chunk, rest
<1>4. SubSeq(chunk, 1, n) = SubSeq(rest, 1, n)
  <2> DEFINE u == SubSeq(chunk, 1, n)
             v == SubSeq(rest, 1, n)
  <2>1. \A i \in 1..n : /\ chunk[i] \in S /\ rest[i] \in S
                        /\ chunk[i] = rest[i]
    <3>1. \A i \in 1..n : i \in 1 .. Len(all) - p /\ chunk[i] = rest[i]
      BY <1>1, <1>2, <1>3
    <3>2. QED  BY <1>2, <3>1, ElementOfSeq
  <2>2. /\ u \in Seq(S) /\ Len(u) = IF 1 <= n THEN n - 1 + 1 ELSE 0
        /\ \A i \in 1 .. n - 1 + 1 : u[i] = chunk[1 + i - 1]
    BY <2>1, SubSeqProperties
  <2>3. /\ v \in Seq(S) /\ Len(v) = IF 1 <= n THEN n - 1 + 1 ELSE 0
        /\ \A i \in 1 .. n - 1 + 1 : v[i] = rest[1 + i - 1]
    BY <2>1, SubSeqProperties
  <2> HIDE DEF u, v
  <2>4. n - 1 + 1 = n /\ \A i \in 1..n : 1 + i - 1 = i
    OBVIOUS
  <2>5. Len(u) = n /\ Len(v) = n /\ \A i \in 1..n : u[i] = v[i]
    BY <2>1, <2>2, <2>3, <2>4
  <2>6. u = v
    BY <2>2, <2>3, <2>5, SeqEqual
  <2>7. QED  BY <2>6 DEF u, v
<1>5. Len(chunk) <= Len(rest)
  BY <1>1, <1>2, <1>3
<1>6. QED  BY <1>2, <1>4, <1>5 DEF IsPrefix, chunk, rest

=============================================================================
