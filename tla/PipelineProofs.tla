---------------------------- MODULE PipelineProofs ----------------------------
(***************************************************************************)
(* For every setup - any suites, packages, plugins, manifests and any      *)
(* outcome of the processes - the pipeline keeps its types, and no failure *)
(* of a process, and no minimum of the coverage that a module misses, goes *)
(* unseen in the report and in the stored run; replays of that run, however *)
(* many, keep its facts.                                                   *)
(*                                                                         *)
(* The lemmas go the way of a report: lists, adapters, results of suites,  *)
(* policy and enrichment, packages and tests, counts, thresholds, run; at  *)
(* last the way of an upload and of its replay to the rows of the run.     *)
(***************************************************************************)
EXTENDS Pipeline, SequenceTheorems, FiniteSetTheorems, WellFoundedInduction, TLAPS

-----------------------------------------------------------------------------
(* Lists.                                                                   *)

(* Induction for sets of numbers. *)
LEMMA SetInduction ==
    ASSUME NEW S, 0 \in S, \A n \in Nat : n \in S => n + 1 \in S
    PROVE  Nat \subseteq S
<1> SUFFICES ASSUME Nat \ S # {} PROVE FALSE OBVIOUS
<1>1. PICK m \in Nat \ S : \A n \in Nat \ S : ~(<<n, m>> \in OpToRel(<, Nat))
  BY NatLessThanWellFounded, WFMin
<1>2. m \in Nat /\ m # 0 BY <1>1
<1>3. m - 1 \in Nat /\ m - 1 < m /\ m = (m - 1) + 1 BY <1>2
<1>4. m - 1 \in S BY <1>1, <1>3 DEF OpToRel
<1> QED BY <1>1, <1>3, <1>4

LEMMA ListIs ==
    ASSUME NEW s, IsList(s)
    PROVE  /\ Len(s) \in Nat /\ DOMAIN s = 1..Len(s) /\ s = [i \in 1..Len(s) |-> s[i]]
           /\ ToSet(s) = {s[i] : i \in 1..Len(s)}
  BY DEF IsList, ToSet

LEMMA ListIf ==
    ASSUME NEW n \in Nat, NEW s, s = [i \in 1..n |-> s[i]]
    PROVE  IsList(s) /\ Len(s) = n /\ DOMAIN s = 1..n
<1>1. DOMAIN s = 1..n OBVIOUS
<1>2. \A i \in 1..n : s[i] \in ToSet(s) BY <1>1 DEF ToSet
<1>3. s \in [1..n -> ToSet(s)] BY <1>1, <1>2
<1>4. s \in Seq(ToSet(s)) BY <1>3
<1> QED BY <1>1, <1>3, <1>4 DEF IsList

LEMMA EmptyList == IsList(<<>>) /\ DOMAIN <<>> = {}
  BY DEF IsList, ToSet

LEMMA Appended ==
    ASSUME NEW s, IsList(s), NEW x
    PROVE  /\ IsList(Append(s, x)) /\ Len(Append(s, x)) = Len(s) + 1
           /\ ToSet(Append(s, x)) = ToSet(s) \union {x}
           /\ \A i \in 1..Len(s) : Append(s, x)[i] = s[i]
           /\ Append(s, x)[Len(s) + 1] = x
<1> PICK V : V = ToSet(s) \union {x} OBVIOUS
<1>1. s \in Seq(V)
  <2>1. /\ Len(s) \in Nat /\ s = [i \in 1..Len(s) |-> s[i]]
        /\ ToSet(s) = {s[i] : i \in 1..Len(s)} BY ListIs
  <2>2. \A i \in 1..Len(s) : s[i] \in V BY <2>1
  <2> QED BY <2>1, <2>2
<1>2. PICK a : a = Append(s, x) OBVIOUS
<1>3. /\ a \in Seq(V) /\ Len(a) = Len(s) + 1 /\ \A i \in 1..Len(s) : a[i] = s[i]
      /\ a[Len(s) + 1] = x /\ Len(s) \in Nat
  BY <1>1, <1>2
<1>4. a = [i \in 1..(Len(s) + 1) |-> a[i]] /\ DOMAIN a = 1..(Len(s) + 1) BY <1>3
<1>5. IsList(a) BY <1>3, <1>4, ListIf
<1>6. ToSet(s) = {s[i] : i \in 1..Len(s)} BY ListIs
<1>7. ToSet(a) = {a[i] : i \in 1..(Len(s) + 1)} BY <1>4 DEF ToSet
<1>8. 1..(Len(s) + 1) = (1..Len(s)) \union {Len(s) + 1} BY <1>3
<1>9. ToSet(a) = ToSet(s) \union {x} BY <1>3, <1>6, <1>7, <1>8
<1> QED BY <1>2, <1>3, <1>5, <1>9

LEMMA Joined ==
    ASSUME NEW s, IsList(s), NEW t, IsList(t)
    PROVE  IsList(s \o t) /\ ToSet(s \o t) = ToSet(s) \union ToSet(t)
<1> PICK V : V = ToSet(s) \union ToSet(t) OBVIOUS
<1>1. /\ Len(s) \in Nat /\ s = [i \in 1..Len(s) |-> s[i]] /\ ToSet(s) = {s[i] : i \in 1..Len(s)}
      /\ Len(t) \in Nat /\ t = [i \in 1..Len(t) |-> t[i]] /\ ToSet(t) = {t[i] : i \in 1..Len(t)} BY ListIs
<1>2. s \in Seq(V) /\ t \in Seq(V)
  <2>1. \A i \in 1..Len(s) : s[i] \in V BY <1>1
  <2>2. \A i \in 1..Len(t) : t[i] \in V BY <1>1
  <2> QED BY <1>1, <2>1, <2>2
<1>3. PICK a : a = s \o t OBVIOUS
<1>4. /\ a \in Seq(V) /\ Len(a) = Len(s) + Len(t)
      /\ \A i \in 1..Len(a) : a[i] = IF i <= Len(s) THEN s[i] ELSE t[i - Len(s)]
  BY <1>2, <1>3, ConcatProperties
<1>5. a = [i \in 1..(Len(s) + Len(t)) |-> a[i]] BY <1>1, <1>4
<1>6. IsList(a) BY <1>1, <1>4, <1>5, ListIf
<1>7. ToSet(a) = {a[i] : i \in 1..Len(a)} BY <1>6, ListIs
<1>8. \A i \in 1..Len(s) : i \in 1..Len(a) /\ a[i] = s[i] BY <1>1, <1>4
<1>9. \A i \in 1..Len(t) : Len(s) + i \in 1..Len(a) /\ a[Len(s) + i] = t[i] BY <1>1, <1>4
<1>10. \A i \in 1..Len(a) : a[i] \in ToSet(s) \union ToSet(t) BY <1>1, <1>4
<1>11. ToSet(s) \subseteq ToSet(a) BY <1>1, <1>7, <1>8
<1>12. ToSet(t) \subseteq ToSet(a) BY <1>1, <1>7, <1>9
<1>13. ToSet(a) \subseteq ToSet(s) \union ToSet(t) BY <1>7, <1>10
<1> QED BY <1>3, <1>6, <1>11, <1>12, <1>13

(* EntriesAt and FlattenSeq are recursive functions: KeptStep and FlatStep   *)
(* name the right sides of their definitions.                               *)
KeptStep(f, s, indices, n) ==
    IF n = 0 THEN <<>> ELSE IF n \in indices THEN Append(f[n - 1], s[n]) ELSE f[n - 1]

LEMMA KeptExists ==
    ASSUME NEW s, NEW indices, NEW N \in Nat
    PROVE  \E f : f = [n \in 0..N |-> KeptStep(f, s, indices, n)]
<1> DEFINE S == {n \in Nat : \E f : f = [k \in 0..n |-> KeptStep(f, s, indices, k)]}
<1>1. 0 \in S
  <2> DEFINE f == [n \in 0..0 |-> <<>>]
  <2>1. \A n \in 0..0 : n = 0 OBVIOUS
  <2>2. f = [n \in 0..0 |-> KeptStep(f, s, indices, n)] BY <2>1 DEF KeptStep
  <2> QED BY <2>2
<1>2. ASSUME NEW n \in Nat, n \in S PROVE n + 1 \in S
  <2>1. PICK f : f = [k \in 0..n |-> KeptStep(f, s, indices, k)] BY <1>2
  <2>2. PICK g : g = [k \in 0..(n + 1) |-> IF k <= n THEN f[k] ELSE KeptStep(f, s, indices, k)] OBVIOUS
  <2>3. \A k \in 0..n : g[k] = f[k] BY <2>2
  <2>4. ASSUME NEW k \in 0..(n + 1) PROVE g[k] = KeptStep(g, s, indices, k)
    <3>1. KeptStep(g, s, indices, k) = KeptStep(f, s, indices, k)
      <4>1. CASE k = 0 BY <4>1 DEF KeptStep
      <4>2. CASE k # 0
        <5>1. k - 1 \in 0..n BY <4>2
        <5>2. g[k - 1] = f[k - 1] BY <5>1, <2>3
        <5> QED BY <4>2, <5>2 DEF KeptStep
      <4> QED BY <4>1, <4>2
    <3>2. CASE k <= n
      <4>1. k \in 0..n BY <3>2
      <4> QED BY <2>1, <2>3, <3>1, <4>1
    <3>3. CASE ~(k <= n) BY <2>2, <3>1, <3>3
    <3> QED BY <3>2, <3>3
  <2>5. g = [k \in 0..(n + 1) |-> g[k]] BY <2>2
  <2>6. g = [k \in 0..(n + 1) |-> KeptStep(g, s, indices, k)] BY <2>4, <2>5, Zenon
  <2> QED BY <2>6
<1> HIDE DEF S
<1>3. Nat \subseteq S BY <1>1, <1>2, SetInduction
<1> QED BY <1>3 DEF S

LEMMA EntriesAtStep ==
    ASSUME NEW s, IsList(s), NEW indices
    PROVE  \E f : /\ f = [n \in 0..Len(s) |-> KeptStep(f, s, indices, n)]
                  /\ EntriesAt(s, indices) = f[Len(s)]
<1> DEFINE N == Len(s)
           c == CHOOSE f : f = [n \in 0..N |-> KeptStep(f, s, indices, n)]
<1>1. N \in Nat BY ListIs
<1>2. \E f : f = [n \in 0..N |-> KeptStep(f, s, indices, n)] BY <1>1, KeptExists
<1>3. c = [n \in 0..N |-> KeptStep(c, s, indices, n)] BY <1>2, Zenon
<1>4. EntriesAt(s, indices) = c[N] BY Zenon DEF EntriesAt, KeptStep
<1> HIDE DEF c
<1> QED BY <1>3, <1>4

LEMMA EntriesAtIs ==
    ASSUME NEW s, IsList(s), NEW indices
    PROVE  /\ IsList(EntriesAt(s, indices))
           /\ ToSet(EntriesAt(s, indices)) = {s[i] : i \in (1..Len(s)) \intersect indices}
<1> DEFINE N == Len(s)
<1>1. N \in Nat BY ListIs
<1>5. PICK f : /\ f = [n \in 0..N |-> KeptStep(f, s, indices, n)]
               /\ EntriesAt(s, indices) = f[N]
  BY EntriesAtStep
<1>6. f = [n \in 0..N |-> KeptStep(f, s, indices, n)] BY <1>5
<1> DEFINE S == {n \in Nat : n <= N => /\ IsList(f[n])
                                       /\ ToSet(f[n]) = {s[i] : i \in (1..n) \intersect indices}}
<1>7. 0 \in S
  <2>1. f[0] = <<>> BY <1>1, <1>6 DEF KeptStep
  <2>2. IsList(<<>>) /\ ToSet(<<>>) = {} BY DEF IsList, ToSet
  <2>3. {s[i] : i \in (1..0) \intersect indices} = {} OBVIOUS
  <2> QED BY <2>1, <2>2, <2>3
<1>8. ASSUME NEW n \in Nat, n \in S PROVE n + 1 \in S
  <2> SUFFICES ASSUME n + 1 <= N PROVE /\ IsList(f[n + 1])
                                       /\ ToSet(f[n + 1]) = {s[i] : i \in (1..(n + 1)) \intersect indices}
    OBVIOUS
  <2>1. IsList(f[n]) /\ ToSet(f[n]) = {s[i] : i \in (1..n) \intersect indices} BY <1>1, <1>8
  <2>2. f[n + 1] = IF n + 1 \in indices THEN Append(f[n], s[n + 1]) ELSE f[n]
    <3>1. n + 1 \in 0..N /\ n + 1 # 0 /\ (n + 1) - 1 = n BY <1>1
    <3> QED BY <1>6, <3>1 DEF KeptStep
  <2>3. CASE n + 1 \in indices
    <3>1. (1..(n + 1)) \intersect indices = ((1..n) \intersect indices) \union {n + 1} BY <2>3
    <3>2. {s[i] : i \in (1..(n + 1)) \intersect indices} = ToSet(f[n]) \union {s[n + 1]} BY <2>1, <3>1
    <3> QED BY <2>1, <2>2, <2>3, <3>2, Appended
  <2>4. CASE n + 1 \notin indices
    <3>1. (1..(n + 1)) \intersect indices = (1..n) \intersect indices BY <2>4
    <3> QED BY <2>1, <2>2, <2>4, <3>1
  <2> QED BY <2>3, <2>4
<1>9. N \in S
  <2> HIDE DEF S, N
  <2> QED BY <1>1, <1>7, <1>8, SetInduction
<1>10. IsList(f[N]) /\ ToSet(f[N]) = {s[i] : i \in (1..N) \intersect indices} BY <1>1, <1>9
<1> QED BY <1>5, <1>10

FlatStep(f, seqs, i) == IF i = 1 THEN seqs[i] ELSE f[i - 1] \o seqs[i]

LEMMA FlatExists ==
    ASSUME NEW seqs, NEW N \in Nat
    PROVE  \E f : f = [n \in 1..N |-> FlatStep(f, seqs, n)]
<1> DEFINE S == {n \in Nat : \E f : f = [k \in 1..n |-> FlatStep(f, seqs, k)]}
<1>1. 0 \in S
  <2> DEFINE f == [n \in 1..0 |-> <<>>]
  <2>1. f = [n \in 1..0 |-> FlatStep(f, seqs, n)] OBVIOUS
  <2> QED BY <2>1
<1>2. ASSUME NEW n \in Nat, n \in S PROVE n + 1 \in S
  <2>1. PICK f : f = [k \in 1..n |-> FlatStep(f, seqs, k)] BY <1>2
  <2>2. PICK g : g = [k \in 1..(n + 1) |-> IF k <= n THEN f[k] ELSE FlatStep(f, seqs, k)] OBVIOUS
  <2>3. \A k \in 1..n : g[k] = f[k] BY <2>2
  <2>4. ASSUME NEW k \in 1..(n + 1) PROVE g[k] = FlatStep(g, seqs, k)
    <3>1. FlatStep(g, seqs, k) = FlatStep(f, seqs, k)
      <4>1. CASE k = 1 BY <4>1 DEF FlatStep
      <4>2. CASE k # 1
        <5>1. k - 1 \in 1..n BY <4>2
        <5>2. g[k - 1] = f[k - 1] BY <5>1, <2>3
        <5> QED BY <4>2, <5>2 DEF FlatStep
      <4> QED BY <4>1, <4>2
    <3>2. CASE k <= n
      <4>1. k \in 1..n BY <3>2
      <4> QED BY <2>1, <2>3, <3>1, <4>1
    <3>3. CASE ~(k <= n) BY <2>2, <3>1, <3>3
    <3> QED BY <3>2, <3>3
  <2>5. g = [k \in 1..(n + 1) |-> g[k]] BY <2>2
  <2>6. g = [k \in 1..(n + 1) |-> FlatStep(g, seqs, k)] BY <2>4, <2>5, Zenon
  <2> QED BY <2>6
<1> HIDE DEF S
<1>3. Nat \subseteq S BY <1>1, <1>2, SetInduction
<1> QED BY <1>3 DEF S

LEMMA FlattenIs ==
    ASSUME NEW seqs, IsList(seqs), \A i \in 1..Len(seqs) : IsList(seqs[i])
    PROVE  /\ IsList(FlattenSeq(seqs))
           /\ ToSet(FlattenSeq(seqs)) = UNION {ToSet(seqs[i]) : i \in 1..Len(seqs)}
<1> DEFINE N == Len(seqs)
           c == CHOOSE f : f = [n \in 1..N |-> FlatStep(f, seqs, n)]
<1>1. N \in Nat /\ ToSet(seqs) = {seqs[i] : i \in 1..N} BY ListIs
<1>0. CASE N = 0
  <2>1. FlattenSeq(seqs) = seqs BY <1>0 DEF FlattenSeq
  <2>2. ToSet(seqs) = {} BY <1>0, <1>1
  <2>3. UNION {ToSet(seqs[i]) : i \in 1..N} = {} BY <1>0
  <2> QED BY <2>1, <2>2, <2>3
<1>10. CASE N # 0
  <2>2. \E f : f = [n \in 1..N |-> FlatStep(f, seqs, n)] BY <1>1, FlatExists
  <2>3. c = [n \in 1..N |-> FlatStep(c, seqs, n)] BY <2>2, Zenon
  <2>4. FlattenSeq(seqs) = c[N] BY <1>10, Zenon DEF FlattenSeq, FlatStep
  <2>5. PICK f : f = c OBVIOUS
  <2>6. f = [n \in 1..N |-> FlatStep(f, seqs, n)] BY <2>3, <2>5, Zenon
  <2> DEFINE All(n) == UNION {ToSet(seqs[i]) : i \in 1..n}
             S == {n \in Nat : n + 1 <= N => IsList(f[n + 1]) /\ ToSet(f[n + 1]) = All(n + 1)}
  <2>7. 0 \in S
    <3>1. f[1] = seqs[1] BY <1>1, <1>10, <2>6 DEF FlatStep
    <3>2. 1 \in 1..N BY <1>1, <1>10
    <3>3. All(1) = ToSet(seqs[1])
      <4>1. 1..1 = {1} OBVIOUS
      <4> QED BY <4>1
    <3> QED BY <3>1, <3>2, <3>3
  <2>8. ASSUME NEW n \in Nat, n \in S PROVE n + 1 \in S
    <3> DEFINE m == n + 1
    <3> SUFFICES ASSUME m + 1 <= N PROVE IsList(f[m + 1]) /\ ToSet(f[m + 1]) = All(m + 1)
      OBVIOUS
    <3>1. IsList(f[m]) /\ ToSet(f[m]) = All(m) BY <1>1, <2>8
    <3>2. f[m + 1] = f[m] \o seqs[m + 1]
      <4>1. m + 1 \in 1..N /\ m + 1 # 1 /\ (m + 1) - 1 = m BY <1>1
      <4> QED BY <2>6, <4>1 DEF FlatStep
    <3>3. IsList(seqs[m + 1]) BY <1>1
    <3>4. 1..(m + 1) = (1..m) \union {m + 1} OBVIOUS
    <3>5. All(m + 1) = All(m) \union ToSet(seqs[m + 1]) BY <3>4
    <3> QED BY <3>1, <3>2, <3>3, <3>5, Joined
  <2>9. N - 1 \in S
    <3>1. N - 1 \in Nat BY <1>1, <1>10
    <3> HIDE DEF S, N
    <3> QED BY <3>1, <2>7, <2>8, SetInduction
  <2>10. N - 1 \in Nat /\ (N - 1) + 1 = N BY <1>1, <1>10
  <2>11. IsList(f[N]) /\ ToSet(f[N]) = All(N) BY <2>9, <2>10
  <2> HIDE DEF c
  <2> QED BY <2>4, <2>5, <2>11
<1> QED BY <1>0, <1>10

LEMMA LeastNumber ==
    ASSUME NEW S, S \subseteq Nat, S # {}
    PROVE  \E m \in S : \A n \in S : m <= n
<1> DEFINE Below == {n \in Nat : \A k \in S : n <= k}
<1>1. CASE \A n \in Nat : n \in Below => n + 1 \in Below
  <2>1. 0 \in Below OBVIOUS
  <2> HIDE DEF Below
  <2>2. Nat \subseteq Below BY <1>1, <2>1, SetInduction
  <2>3. PICK k \in S : TRUE OBVIOUS
  <2>4. k + 1 \in Below BY <2>2
  <2>5. k + 1 <= k BY <2>4 DEF Below
  <2> QED BY <2>5
<1>2. CASE \E n \in Nat : n \in Below /\ n + 1 \notin Below
  <2>1. PICK n \in Nat : n \in Below /\ n + 1 \notin Below BY <1>2
  <2>2. PICK k \in S : ~(n + 1 <= k) BY <2>1
  <2>3. n <= k /\ k \in Nat BY <2>1
  <2>4. n = k BY <2>2, <2>3
  <2> QED BY <2>1, <2>4
<1> QED BY <1>1, <1>2

LEMMA Mapped ==
    ASSUME NEW s, IsList(s), NEW t, t = [i \in DOMAIN s |-> t[i]]
    PROVE  IsList(t) /\ Len(t) = Len(s) /\ DOMAIN t = 1..Len(s) /\ ToSet(t) = {t[i] : i \in 1..Len(s)}
<1>1. Len(s) \in Nat /\ DOMAIN s = 1..Len(s) BY ListIs
<1>2. IsList(t) /\ Len(t) = Len(s) /\ DOMAIN t = 1..Len(s) BY <1>1, ListIf
<1> QED BY <1>2 DEF ToSet

LEMMA DedupeIs ==
    ASSUME NEW s, IsList(s)
    PROVE  IsList(Dedupe(s)) /\ ToSet(Dedupe(s)) = ToSet(s) \ {None}
<1> DEFINE firsts == {j \in DOMAIN s : s[j] # None /\ \A i \in 1..(j - 1) : s[i] # s[j]}
<1>1. Len(s) \in Nat /\ DOMAIN s = 1..Len(s) /\ ToSet(s) = {s[i] : i \in 1..Len(s)} BY ListIs
<1>2. /\ IsList(Dedupe(s))
      /\ ToSet(Dedupe(s)) = {s[i] : i \in (1..Len(s)) \intersect firsts}
  BY EntriesAtIs DEF Dedupe
<1>3. ASSUME NEW i \in 1..Len(s), s[i] # None PROVE s[i] \in {s[j] : j \in (1..Len(s)) \intersect firsts}
  <2> DEFINE same == {j \in 1..Len(s) : s[j] = s[i]}
  <2>1. same \subseteq Nat /\ i \in same BY <1>1
  <2>2. PICK m \in same : \A n \in same : m <= n BY <2>1, LeastNumber
  <2>3. m \in 1..Len(s) /\ s[m] = s[i] OBVIOUS
  <2>4. \A k \in 1..(m - 1) : s[k] # s[m]
    <3> SUFFICES ASSUME NEW k \in 1..(m - 1), s[k] = s[m] PROVE FALSE OBVIOUS
    <3>1. k \in same BY <1>1, <2>3
    <3> QED BY <1>1, <2>2, <2>3, <3>1
  <2>5. m \in firsts BY <1>1, <1>3, <2>3, <2>4
  <2> QED BY <2>3, <2>5
<1>4. \A x \in ToSet(Dedupe(s)) : x \in ToSet(s) /\ x # None BY <1>1, <1>2
<1> QED BY <1>1, <1>2, <1>3, <1>4

-----------------------------------------------------------------------------
(* The adapters.                                                            *)

\* What the core expects of the result of an adapter.
RawOK(raw) ==
    /\ IsList(raw.tests) /\ IsList(raw.performanceStats) /\ IsList(raw.rawArtifacts)
    /\ \A i \in DOMAIN raw.tests : TestFields \subseteq DOMAIN raw.tests[i]

LEMMA OneEntry == ASSUME NEW x PROVE IsList(<<x>>) /\ DOMAIN <<x>> = {1} /\ <<x>>[1] = x
  BY DEF IsList, ToSet

LEMMA TwoEntries == ASSUME NEW x, NEW y PROVE IsList(<<x, y>>)
  BY DEF IsList, ToSet

(* The files of a suite: one always, others as it went.                     *)
LEMMA FirstThen == ASSUME NEW x, NEW rest, IsList(rest) PROVE IsList(<<x>> \o rest)
  BY OneEntry, Joined

LEMMA RawTestFields ==
    ASSUME NEW name, NEW path, NEW status, NEW messages, NEW fullName, NEW line
    PROVE  /\ TestFields \subseteq DOMAIN RawTest(name, path, status, messages)
           /\ TestFields \subseteq DOMAIN LocatedTest(RawTest(name, path, status, messages), fullName, line)
  BY DEF TestFields, RawTest, LocatedTest

LEMMA NodeTestsOK ==
    ASSUME NEW events, IsList(events), NEW root
    PROVE  LET tests == parseNodeEvents(events, root).tests
           IN  IsList(tests) /\ \A i \in DOMAIN tests : TestFields \subseteq DOMAIN tests[i]
<1> DEFINE ends == Where(events, LAMBDA e : /\ e.type \in {"test:pass", "test:fail", "test:skip"}
                                            /\ ~isNodeFileHarnessEvent(e))
           Key(e) == <<e.file, e.line, e.name>>
           located == [i \in DOMAIN ends |-> Key(ends[i])]
           keys == Dedupe(located)
           LastOf(key) == ends[Max({i \in DOMAIN ends : Key(ends[i]) = key})]
           Status(e) == IF e.skip \/ e.type = "test:skip" THEN "skipped"
                        ELSE IF e.type = "test:pass" THEN "passed" ELSE "failed"
           tests == [i \in DOMAIN keys |->
                       LET e == LastOf(keys[i])
                       IN LocatedTest(RawTest(e.name, e.file, Status(e), e.messages), <<e.name>>, e.line)]
<1>1. parseNodeEvents(events, root).tests = tests BY DEF parseNodeEvents
<1>2. IsList(ends) BY EntriesAtIs DEF Where
<1>3. IsList(located)
  <2> HIDE DEF ends, Key
  <2> QED BY <1>2, Mapped
<1>4. IsList(keys) BY <1>3, DedupeIs
<1>5. IsList(tests)
  <2> HIDE DEF keys, LastOf, Status
  <2> QED BY <1>4, Mapped
<1>6. ASSUME NEW i \in DOMAIN tests PROVE TestFields \subseteq DOMAIN tests[i]
  <2> HIDE DEF keys, LastOf, Status
  <2> QED BY RawTestFields
<1> QED BY <1>1, <1>5, <1>6

-----------------------------------------------------------------------------
(* The adapters.                                                            *)

LEMMA RawResultIs ==
    ASSUME NEW status, NEW summary, NEW tests, NEW coverage, NEW warnings, NEW rawArtifacts,
           NEW raw, raw = RawResult(status, summary, tests, coverage, warnings, rawArtifacts)
    PROVE  raw.status = status /\ raw.tests = tests /\ raw.performanceStats = <<>>
  BY DEF RawResult

LEMMA NodeRunOK ==
    ASSUME NEW suite, NEW execution, NEW outcome, IsList(outcome.events),
           NEW raw, raw = NodeTestRun(suite, execution, outcome)
    PROVE  raw = Thrown \/ (RawOK(raw) /\ (exitCode(outcome.code) # 0 => raw.status = "failed"))
<1> SUFFICES ASSUME raw # Thrown PROVE RawOK(raw) /\ (exitCode(outcome.code) # 0 => raw.status = "failed")
  OBVIOUS
<1>1. PICK tests : tests = parseNodeEvents(outcome.events, suite.cwd).tests OBVIOUS
<1>2. IsList(tests) /\ \A i \in DOMAIN tests : TestFields \subseteq DOMAIN tests[i] BY <1>1, NodeTestsOK
<1>3. raw.tests = tests /\ raw.performanceStats = <<>> BY <1>1 DEF NodeTestRun, NodeRuns, RawResult
<1>4. exitCode(outcome.code) # 0 => raw.status = "failed"
  BY DEF NodeTestRun, NodeRuns, RawResult, deriveSuiteStatus
<1>5. PICK file, others :
         raw.rawArtifacts = <<file>> \o others /\ (others = <<>> \/ \E other : others = <<other>>)
  BY DEF NodeTestRun, NodeRuns, RawResult, NodeCoveragePass
<1>6. IsList(raw.rawArtifacts) BY <1>5, FirstThen, EmptyList, OneEntry
<1> QED BY <1>2, <1>3, <1>4, <1>6, EmptyList DEF RawOK

LEMMA JestTestsOK ==
    ASSUME NEW given, IsList(given.assertions)
    PROVE  /\ IsList(parseJestReport(given).tests)
           /\ \A i \in DOMAIN parseJestReport(given).tests : TestFields \subseteq DOMAIN parseJestReport(given).tests[i]
<1> DEFINE entries == given.assertions
           tests == [i \in DOMAIN entries |->
                     LET a == entries[i]
                     IN LocatedTest(RawTest(a.name, a.file, normalizeJestStatus(a.status), a.messages),
                                    a.fullName, a.line)]
<1>1. parseJestReport(given).tests = tests BY DEF parseJestReport
<1>2. IsList(tests)
  <2> HIDE DEF entries
  <2>1. IsList(entries) BY DEF entries
  <2> QED BY <2>1, Mapped
<1>3. ASSUME NEW i \in DOMAIN tests PROVE TestFields \subseteq DOMAIN tests[i] BY RawTestFields
<1> QED BY <1>1, <1>2, <1>3

LEMMA JestRunOK ==
    ASSUME NEW suite, NEW execution, NEW outcome,
           \A left \in {outcome.file, outcome.stdout, outcome.stderr} \ {None} : IsList(left.assertions),
           NEW raw, raw = JestRun(suite, execution, outcome)
    PROVE  raw = Thrown \/ (RawOK(raw) /\ (exitCode(outcome.code) # 0 => raw.status = "failed"))
<1> SUFFICES ASSUME raw # Thrown PROVE RawOK(raw) /\ (exitCode(outcome.code) # 0 => raw.status = "failed")
  OBVIOUS
<1>1. PICK given : given = readPrimaryReport(outcome) OBVIOUS
<1>2. given # Thrown BY <1>1 DEF JestRun
<1>3. IsList(given.assertions) BY <1>1, <1>2 DEF readPrimaryReport, OrElse
<1>4. raw.tests = parseJestReport(given).tests /\ raw.performanceStats = <<>>
  BY <1>1, <1>2 DEF JestRun, RawResult
<1>5. exitCode(outcome.code) # 0 => raw.status = "failed" BY <1>1, <1>2 DEF JestRun, RawResult, deriveSuiteStatus
<1>6. PICK file, others :
         raw.rawArtifacts = <<file>> \o others /\ (others = <<>> \/ \E other : others = <<other>>)
  BY <1>1, <1>2 DEF JestRun, RawResult
<1>7. IsList(raw.rawArtifacts) BY <1>6, FirstThen, EmptyList, OneEntry
<1> QED BY <1>3, <1>4, <1>5, <1>7, JestTestsOK, EmptyList DEF RawOK

LEMMA VitestRunOK ==
    ASSUME NEW suite, NEW execution, NEW outcome,
           \A left \in {outcome.file, outcome.stdout, outcome.stderr} \ {None} : IsList(left.assertions),
           NEW raw, raw = VitestRun(suite, execution, outcome)
    PROVE  raw = Thrown \/ (RawOK(raw) /\ (exitCode(outcome.code) # 0 => raw.status = "failed"))
<1> SUFFICES ASSUME raw # Thrown PROVE RawOK(raw) /\ (exitCode(outcome.code) # 0 => raw.status = "failed")
  OBVIOUS
<1>1. PICK given : given = IF outcome.fileExists THEN OrElse(outcome.file, Thrown) ELSE Thrown OBVIOUS
<1>2. given # Thrown BY <1>1 DEF VitestRun
<1>3. IsList(given.assertions) BY <1>1, <1>2 DEF OrElse
<1>4. raw.tests = parseVitestReport(given).tests /\ raw.performanceStats = <<>>
  BY <1>1, <1>2 DEF VitestRun, RawResult
<1>5. exitCode(outcome.code) # 0 => raw.status = "failed" BY <1>1, <1>2 DEF VitestRun, RawResult, deriveSuiteStatus
<1>6. PICK tests : tests = parseJestReport(given).tests OBVIOUS
<1>7. IsList(tests) /\ \A i \in DOMAIN tests : TestFields \subseteq DOMAIN tests[i] BY <1>3, <1>6, JestTestsOK
<1>8. raw.tests = [i \in DOMAIN tests |-> [tests[i] EXCEPT !.line = None]]
  BY <1>4, <1>6 DEF parseVitestReport, parseJestReport
<1>9. IsList(raw.tests) BY <1>7, <1>8, Mapped
<1>10. \A i \in DOMAIN raw.tests : TestFields \subseteq DOMAIN raw.tests[i] BY <1>7, <1>8
<1>11. PICK file, others :
          raw.rawArtifacts = <<file>> \o others /\ (others = <<>> \/ \E other : others = <<other>>)
  BY <1>1, <1>2 DEF VitestRun, RawResult
<1>12. IsList(raw.rawArtifacts) BY <1>11, FirstThen, EmptyList, OneEntry
<1> QED BY <1>4, <1>5, <1>9, <1>10, <1>12, EmptyList DEF RawOK

LEMMA PlaywrightRunOK ==
    ASSUME NEW suite, NEW execution, NEW outcome, outcome.payload # None => IsList(outcome.payload.specs),
           NEW raw, raw = PlaywrightRun(suite, execution, outcome)
    PROVE  raw = Thrown \/ (RawOK(raw) /\ (exitCode(outcome.code) # 0 => raw.status = "failed"))
<1> SUFFICES ASSUME raw # Thrown PROVE RawOK(raw) /\ (exitCode(outcome.code) # 0 => raw.status = "failed")
  OBVIOUS
<1>1. PICK payload : payload = extractJsonPayload(outcome) OBVIOUS
<1>2. payload # Thrown BY <1>1 DEF PlaywrightRun
<1>3. IsList(payload.specs) BY <1>1, <1>2 DEF extractJsonPayload, OrElse
<1>4. PICK specs : specs = payload.specs OBVIOUS
<1>5. PICK tests : tests = collectPlaywrightTests(specs) OBVIOUS
<1>6. raw.tests = tests /\ raw.performanceStats = <<>>
  BY <1>1, <1>2, <1>4, <1>5 DEF PlaywrightRun, RawResult, parsePlaywrightReport
<1>7. exitCode(outcome.code) # 0 => raw.status = "failed"
  BY <1>1, <1>2 DEF PlaywrightRun, RawResult, deriveSuiteStatus
<1>8. tests = [i \in DOMAIN specs |-> tests[i]] BY <1>5 DEF collectPlaywrightTests
<1>9. IsList(tests) BY <1>3, <1>4, <1>8, Mapped
<1>10. \A i \in DOMAIN tests : TestFields \subseteq DOMAIN tests[i]
  BY <1>5, RawTestFields DEF collectPlaywrightTests
<1>11. PICK file, copied, merged :
          /\ raw.rawArtifacts = <<file>> \o copied \o merged
          /\ copied = <<>> \/ \E directory : copied = <<directory>>
          /\ merged = <<>> \/ \E summary, whole : merged = <<summary, whole>>
  BY <1>1, <1>2 DEF PlaywrightRun, RawResult
<1>12. IsList(copied) /\ IsList(merged) BY <1>11, EmptyList, OneEntry, TwoEntries
<1>13. IsList(raw.rawArtifacts) BY <1>11, <1>12, FirstThen, Joined
<1> QED BY <1>6, <1>7, <1>9, <1>10, <1>13, EmptyList DEF RawOK

LEMMA ShellRunOK ==
    ASSUME NEW suite, NEW outcome, NEW raw, raw = ShellRun(suite, outcome)
    PROVE  RawOK(raw) /\ (exitCode(outcome.code) # 0 => raw.status = "failed")
<1>1. exitCode(outcome.code) # 0 => raw.status = "failed" BY DEF ShellRun, RawResult, RawTest
<1>2. PICK test : raw.tests = <<test>> /\ TestFields \subseteq DOMAIN test
  BY DEF ShellRun, RawResult, RawTest, TestFields
<1>3. raw.performanceStats = <<>> /\ \E file : raw.rawArtifacts = <<file>> BY DEF ShellRun, RawResult
<1> QED BY <1>1, <1>2, <1>3, EmptyList, OneEntry DEF RawOK

LEMMA CheckRunOK ==
    ASSUME NEW suite, NEW outcome, NEW raw, raw = buildSingleCheckJsonResult(suite, outcome)
    PROVE  RawOK(raw)
<1> DEFINE status == deriveJsonCheckStatus(suite, outcome)
           test == [RawTest(suite.id, suite.file, status, IF status = "failed" THEN <<"message">> ELSE <<>>)
                    EXCEPT !.module = suite.module, !.source = "adapter", !.line = suite.line,
                           !.assertions = suite.assertions]
<1>1. raw.tests = <<test>> BY DEF buildSingleCheckJsonResult, RawResult
<1>2. TestFields \subseteq DOMAIN test BY DEF RawTest, TestFields
<1> HIDE DEF test
<1>3. raw.performanceStats = <<>> /\ \E file : raw.rawArtifacts = <<file>>
  BY DEF buildSingleCheckJsonResult, RawResult
<1> QED BY <1>1, <1>2, <1>3, EmptyList, OneEntry DEF RawOK

LEMMA JsonRunOK ==
    ASSUME NEW suite, NEW outcome,
           outcome.payload # None =>
              /\ IsList(outcome.payload.tests) /\ IsList(outcome.payload.performanceStats)
              /\ IsList(outcome.payload.rawArtifacts)
              /\ \A test \in ToSet(outcome.payload.tests) : TestFields \subseteq DOMAIN test,
           NEW raw, raw = buildSuiteJsonResult(suite, outcome)
    PROVE  RawOK(raw)
<1>1. raw.tests = IF outcome.payload = None THEN <<>> ELSE outcome.payload.tests
  BY DEF buildSuiteJsonResult, RawResult
<1>2. raw.performanceStats = IF outcome.payload = None THEN <<>> ELSE outcome.payload.performanceStats
  BY DEF buildSuiteJsonResult, RawResult
<1>5. IsList(raw.rawArtifacts)
  <2>1. PICK files : files = IF outcome.payload = None THEN <<>> ELSE outcome.payload.rawArtifacts OBVIOUS
  <2>2. IsList(files) BY <2>1, EmptyList
  <2>3. PICK own : own = Where(files, LAMBDA file : file.relativePath # None) OBVIOUS
  <2>4. IsList(own) BY <2>2, <2>3, EntriesAtIs DEF Where
  <2>5. PICK file : raw.rawArtifacts = own \o <<file>> BY <2>1, <2>3 DEF buildSuiteJsonResult, RawResult
  <2> QED BY <2>4, <2>5, OneEntry, Joined
<1>3. CASE outcome.payload = None BY <1>1, <1>2, <1>3, <1>5, EmptyList DEF RawOK
<1>4. CASE outcome.payload # None
  <2>1. \A i \in DOMAIN raw.tests : raw.tests[i] \in ToSet(raw.tests) BY DEF ToSet
  <2> QED BY <1>1, <1>2, <1>4, <1>5, <2>1 DEF RawOK
<1> QED BY <1>3, <1>4

LEMMA AdapterRunOK ==
    ASSUME NEW suite, suite.adapter \in {"node-test", "jest", "vitest", "playwright", "shell"},
           NEW execution, NEW outcome, OutcomeOK(suite, outcome),
           NEW raw, raw = AdapterRun(suite, execution, outcome)
    PROVE  \/ raw = Thrown
           \/ /\ RawOK(raw)
              /\ suite.resultFormat = None /\ exitCode(outcome.code) # 0 => raw.status = "failed"
<1>1. CASE suite.adapter = "node-test"
  <2>1. raw = NodeTestRun(suite, execution, outcome) BY <1>1 DEF AdapterRun
  <2> QED BY <1>1, <2>1, NodeRunOK DEF OutcomeOK
<1>2. CASE suite.adapter = "jest"
  <2>1. raw = JestRun(suite, execution, outcome) BY <1>2 DEF AdapterRun
  <2> QED BY <1>2, <2>1, JestRunOK DEF OutcomeOK
<1>3. CASE suite.adapter = "vitest"
  <2>1. raw = VitestRun(suite, execution, outcome) BY <1>3 DEF AdapterRun
  <2> QED BY <1>3, <2>1, VitestRunOK DEF OutcomeOK
<1>4. CASE suite.adapter = "playwright"
  <2>1. raw = PlaywrightRun(suite, execution, outcome) BY <1>4 DEF AdapterRun
  <2> QED BY <1>4, <2>1, PlaywrightRunOK DEF OutcomeOK
<1>5. CASE suite.adapter = "shell"
  <2>1. CASE suite.resultFormat = "suite-json-v1"
    <3>1. raw = buildSuiteJsonResult(suite, outcome) BY <1>5, <2>1 DEF AdapterRun
    <3>2. suite.resultFormat # None BY <2>1, PipelineAssumption
    <3> QED BY <1>5, <2>1, <3>1, <3>2, JsonRunOK DEF OutcomeOK
  <2>2. CASE suite.resultFormat = "single-check-json-v1"
    <3>1. raw = buildSingleCheckJsonResult(suite, outcome) BY <1>5, <2>2 DEF AdapterRun
    <3>2. suite.resultFormat # None BY <2>2, PipelineAssumption
    <3> QED BY <3>1, <3>2, CheckRunOK
  <2>3. CASE suite.resultFormat \notin {"suite-json-v1", "single-check-json-v1"}
    <3>1. raw = ShellRun(suite, outcome) BY <1>5, <2>3 DEF AdapterRun
    <3> QED BY <3>1, ShellRunOK
  <2> QED BY <2>1, <2>2, <2>3
<1> QED BY <1>1, <1>2, <1>3, <1>4, <1>5

-----------------------------------------------------------------------------
(* The results of the suites.                                               *)

\* A test of a result: its status is one, its module a name.
NormalTest(test) == TestFields \subseteq DOMAIN test /\ test.status \in Statuses /\ test.module # None

\* A result of the suite.
ResultFields == {"id", "package", "status", "tests", "performanceStats", "rawArtifacts"}
ResultOK(result, suite) ==
    /\ ResultFields \subseteq DOMAIN result /\ result = [field \in DOMAIN result |-> result[field]]
    /\ result.id = suite.id /\ result.package = suite.package
    /\ IsList(result.tests) /\ \A i \in DOMAIN result.tests : NormalTest(result.tests[i])
    /\ IsList(result.performanceStats) /\ IsList(result.rawArtifacts)

LEMMA NormalTestIs ==
    ASSUME NEW test, TestFields \subseteq DOMAIN test PROVE NormalTest(normalizeTestResult(test))
<1>1. normalizeTestResult(test).status \in Statuses
  BY DEF normalizeTestResult, normalizeStatus, OrElse, TestFields, Statuses
<1>2. normalizeTestResult(test).module # None
  BY PipelineAssumption DEF normalizeTestResult, OrElse, TestFields
<1>3. DOMAIN normalizeTestResult(test) = DOMAIN test BY DEF normalizeTestResult
<1> QED BY <1>1, <1>2, <1>3 DEF NormalTest

LEMMA StatsAreList ==
    ASSUME NEW stats, IsList(stats) PROVE IsList(normalizePerformanceStats(stats))
<1>1. PICK valid : valid = Where(stats, LAMBDA s : s.group # None /\ s.name # None) OBVIOUS
<1>2. IsList(valid) BY <1>1, EntriesAtIs DEF Where
<1>3. PICK scoped : scoped = normalizePerformanceStats(stats) OBVIOUS
<1>4. scoped = [i \in DOMAIN valid |-> scoped[i]] BY <1>1, <1>3 DEF normalizePerformanceStats
<1> QED BY <1>2, <1>3, <1>4, Mapped

LEMMA FilesAreList ==
    ASSUME NEW artifacts, IsList(artifacts), NEW suite PROVE IsList(normalizeRawArtifacts(artifacts, suite))
<1>1. PICK normalized : normalized = [i \in DOMAIN artifacts |-> normalizeRawArtifact(artifacts[i], suite)]
  OBVIOUS
<1>2. normalized = [i \in DOMAIN artifacts |-> normalized[i]] BY <1>1
<1>3. IsList(normalized) BY <1>2, Mapped
<1>4. normalizeRawArtifacts(artifacts, suite) = Where(normalized, LAMBDA artifact : artifact.relativePath # <<>>)
  BY <1>1 DEF normalizeRawArtifacts
<1> QED BY <1>3, <1>4, EntriesAtIs DEF Where

LEMMA NormalResult ==
    ASSUME NEW raw, RawOK(raw), NEW suite, NEW result, result = normalizeSuiteResult(raw, suite)
    PROVE  ResultOK(result, suite) /\ (raw.status = "failed" => result.status = "failed")
<1>1. raw.status = "failed" => result.status = "failed" BY DEF normalizeSuiteResult, deriveCollectionStatus
<1>2. /\ ResultFields \subseteq DOMAIN result /\ result = [field \in DOMAIN result |-> result[field]]
      /\ result.id = suite.id /\ result.package = suite.package
      /\ result.performanceStats = normalizePerformanceStats(raw.performanceStats)
      /\ result.rawArtifacts = normalizeRawArtifacts(raw.rawArtifacts, suite)
  BY DEF normalizeSuiteResult, ResultFields
<1>3. result.tests = [i \in DOMAIN raw.tests |-> normalizeTestResult(raw.tests[i])] BY DEF normalizeSuiteResult
<1>4. IsList(result.tests)
  <2> PICK tests : tests = raw.tests OBVIOUS
  <2>1. IsList(tests) BY DEF RawOK
  <2>2. result.tests = [i \in DOMAIN tests |-> result.tests[i]] BY <1>3
  <2> QED BY <2>1, <2>2, Mapped
<1>5. \A i \in DOMAIN result.tests : NormalTest(result.tests[i]) BY <1>3, NormalTestIs DEF RawOK
<1> QED BY <1>1, <1>2, <1>4, <1>5, StatsAreList, FilesAreList DEF ResultOK, RawOK

LEMMA FailedSuiteOK ==
    ASSUME NEW suite PROVE RawOK(FailedSuite(suite)) /\ FailedSuite(suite).status = "failed"
<1>1. PICK test : test = RawTest(suite.id \o " failed", None, "failed", <<"error">>) OBVIOUS
<1>2. PICK raw : raw = RawResult("failed", Counts(1, 0, 1, 0), <<test>>, None, {}, <<>>) OBVIOUS
<1>3. FailedSuite(suite) = [raw EXCEPT !.tests = [i \in DOMAIN @ |->
                               [@[i] EXCEPT !.module = "uncategorized", !.theme = "uncategorized", !.source = "default"]]]
  BY <1>1, <1>2 DEF FailedSuite
<1>4. raw.tests = <<test>> /\ raw.status = "failed" /\ raw.performanceStats = <<>> /\ raw.rawArtifacts = <<>>
      /\ DOMAIN raw = {"status", "summary", "tests", "coverage", "warnings", "rawArtifacts", "performanceStats"}
  BY <1>2 DEF RawResult
<1>5. TestFields \subseteq DOMAIN test BY <1>1 DEF RawTest, TestFields
<1>6. PICK failed : failed = FailedSuite(suite) OBVIOUS
<1>7. failed.status = "failed" /\ failed.performanceStats = <<>> /\ failed.rawArtifacts = <<>> BY <1>3, <1>4, <1>6
<1>8. failed.tests = [i \in DOMAIN raw.tests |->
                          [raw.tests[i] EXCEPT !.module = "uncategorized", !.theme = "uncategorized", !.source = "default"]]
  BY <1>3, <1>4, <1>6
<1>11. PICK tests : tests = raw.tests OBVIOUS
<1>12. IsList(tests) /\ DOMAIN tests = {1} /\ tests[1] = test BY <1>4, <1>11, OneEntry
<1>9. IsList(failed.tests)
  <2>1. failed.tests = [i \in DOMAIN tests |-> failed.tests[i]] BY <1>8, <1>11
  <2> QED BY <1>12, <2>1, Mapped
<1>10. \A i \in DOMAIN failed.tests : TestFields \subseteq DOMAIN failed.tests[i] BY <1>5, <1>8, <1>11, <1>12
<1> QED BY <1>6, <1>7, <1>9, <1>10, EmptyList DEF RawOK

LEMMA DiagnosedOK ==
    ASSUME NEW suite, NEW result, ResultOK(result, suite), NEW diagnosis,
           NEW next, next = attachDiagnostics(suite, result, diagnosis)
    PROVE  ResultOK(next, suite) /\ next.status = result.status
<1>1. /\ DOMAIN next = DOMAIN result /\ next = [field \in DOMAIN next |-> next[field]]
      /\ \A field \in {"id", "package", "status", "tests", "performanceStats"} : next[field] = result[field]
  BY DEF attachDiagnostics, ResultOK, ResultFields
<1>2. PICK raw : raw = result.rawArtifacts OBVIOUS
<1>3. next.rawArtifacts = raw \/ \E log : next.rawArtifacts = Append(raw, log)
  BY <1>2 DEF attachDiagnostics, ResultOK, ResultFields
<1>5. IsList(raw) BY <1>2 DEF ResultOK
<1>4. IsList(next.rawArtifacts)
  <2>1. \A log : IsList(Append(raw, log)) BY <1>5, Appended
  <2> QED BY <1>3, <1>5, <2>1
<1> QED BY <1>1, <1>4 DEF ResultOK

\* What RunSuite appends.
LEMMA SuiteResultOK ==
    ASSUME NEW suite, NEW raw, NEW outcome,
           \/ raw = Thrown
           \/ RawOK(raw) /\ (suite.resultFormat = None /\ exitCode(outcome.code) # 0 => raw.status = "failed"),
           NEW result, result = ResultOf(suite, raw, outcome)
    PROVE  /\ ResultOK(result, suite)
           /\ ~setup.execution.dryRun /\ suite.resultFormat = None /\ exitCode(outcome.code) # 0
                  => result.status = "failed"
<1>1. CASE setup.execution.dryRun
  <2>1. PICK skipped : skipped = RawResult("skipped", Counts(0, 0, 0, 0), <<>>, None, {"dry run"}, <<>>) OBVIOUS
  <2>2. RawOK(skipped) BY <2>1, EmptyList DEF RawOK, RawResult
  <2>3. result = normalizeSuiteResult(skipped, suite) BY <1>1, <2>1 DEF ResultOf, createDryRunSuiteResult
  <2> QED BY <1>1, <2>2, <2>3, NormalResult
<1>2. CASE ~setup.execution.dryRun
  <2>1. PICK source : source = IF raw = Thrown THEN FailedSuite(suite) ELSE raw OBVIOUS
  <2>2. PICK plain : plain = normalizeSuiteResult(source, suite) OBVIOUS
  <2>3. result = attachDiagnostics(suite, plain, outcome.diagnosis) BY <1>2, <2>1, <2>2 DEF ResultOf
  <2>4. RawOK(source) /\ (suite.resultFormat = None /\ exitCode(outcome.code) # 0 => source.status = "failed")
    BY <2>1, FailedSuiteOK
  <2>5. ResultOK(plain, suite) /\ (source.status = "failed" => plain.status = "failed")
    BY <2>2, <2>4, NormalResult
  <2>6. ResultOK(result, suite) /\ result.status = plain.status BY <2>3, <2>5, DiagnosedOK
  <2> QED BY <2>4, <2>5, <2>6
<1> QED BY <1>1, <1>2

-----------------------------------------------------------------------------
(* Policy and enrichment.                                                   *)

\* What the execution needs of the policy.
ThresholdRules(p) == OrElse(p.manifests.thresholds, EmptyManifest).thresholds.modules
PolicyOK(p) ==
    /\ IsList(p.plugins)
    /\ \A i \in DOMAIN p.plugins : \A path \in DOMAIN p.plugins[i].enrichTest :
          PatchOK(p.plugins[i].enrichTest[path])
    /\ IsList(ThresholdRules(p))

LEMMA EmptyRules == IsList(EmptyManifest.thresholds.modules)
  BY EmptyList DEF EmptyManifest

LEMMA PreparedPolicy ==
    ASSUME NEW s \in Setups, NEW p,
           p = preparePolicyContext(s.manifests, s.builtIns, s.modules, s.config), p # Rejected
    PROVE  PolicyOK(p)
<1>1. PICK entries : entries = ResolvedEntries(s.builtIns, s.modules, s.config) OBVIOUS
<1>2. IsList(entries)
  <2>1. PICK gathered : gathered = gatherPluginEntries(s.config) OBVIOUS
  <2>2. IsList(gathered) BY <2>1, PipelineAssumption
  <2>3. entries = [i \in DOMAIN gathered |-> entries[i]] BY <1>1, <2>1 DEF ResolvedEntries
  <2> QED BY <2>2, <2>3, Mapped
<1>3. Rejected \notin ToSet(entries) BY <1>1 DEF preparePolicyContext
<1>4. PICK indices : /\ p.plugins = EntriesAt(entries, indices)
                     /\ \A j \in indices : entries[j] # None
  <2> DEFINE SameId(i, j) == entries[i] # None /\ entries[i].id = entries[j].id
             kept == {j \in DOMAIN entries : entries[j] # None /\ \A i \in 1..(j - 1) : ~SameId(i, j)}
  <2>1. p.plugins = EntriesAt(entries, kept) BY <1>1 DEF preparePolicyContext, resolvePolicyPlugins
  <2> QED BY <2>1
<1>5. /\ IsList(p.plugins)
      /\ ToSet(p.plugins) = {entries[i] : i \in (1..Len(entries)) \intersect indices}
  BY <1>2, <1>4, EntriesAtIs
<1>6. ToSet(entries) = {entries[i] : i \in 1..Len(entries)} BY <1>2, ListIs
<1>7. \A plugin \in ToSet(p.plugins) : plugin \in ToSet(entries) \ {None, Rejected} BY <1>3, <1>4, <1>5, <1>6
<1>8. \A plugin \in ToSet(p.plugins) : \A path \in DOMAIN plugin.enrichTest : PatchOK(plugin.enrichTest[path])
  BY <1>1, <1>7, PipelineAssumption
<1>9. \A i \in DOMAIN p.plugins : p.plugins[i] \in ToSet(p.plugins) BY DEF ToSet
<1>10. IsList(ThresholdRules(p))
  <2>1. PICK path : path = resolveManifestPath(s.config, "thresholds") OBVIOUS
  <2>2. PICK manifest : manifest = p.manifests.thresholds OBVIOUS
  <2>3. manifest = loadManifestEntry(s.manifests, path)
    BY <2>1, <2>2 DEF preparePolicyContext, loadPolicyManifests
  <2>4. CASE manifest = None BY <2>2, <2>4, EmptyRules DEF ThresholdRules, OrElse
  <2>5. CASE manifest # None
    <3>1. path \in DOMAIN s.manifests BY <2>3, <2>5 DEF loadManifestEntry
    <3>2. manifest.thresholds = IF "thresholds" \in DOMAIN s.manifests[path] THEN s.manifests[path].thresholds
                                ELSE EmptyManifest.thresholds
      BY <2>3, <3>1 DEF loadManifestEntry, EmptyManifest
    <3>3. "thresholds" \in DOMAIN s.manifests[path] => IsList(s.manifests[path].thresholds.modules)
      BY <3>1, PipelineAssumption
    <3>4. ThresholdRules(p) = manifest.thresholds.modules BY <2>2, <2>5 DEF ThresholdRules, OrElse
    <3> QED BY <3>2, <3>3, <3>4, EmptyRules
  <2> QED BY <2>4, <2>5
<1> QED BY <1>5, <1>8, <1>9, <1>10 DEF PolicyOK

-----------------------------------------------------------------------------
(* Enrichment.                                                              *)

LEMMA NamedModule ==
    ASSUME NEW p, NEW suite, NEW test PROVE resolveTestClassification(p, suite, test).module # None
<1>1. PICK plugin : plugin = runPluginClassification(p, test) OBVIOUS
<1>2. PICK manifest : manifest = matchClassificationManifest(p, suite, test) OBVIOUS
<1>3. plugin # None => plugin.module # None
  BY <1>1 DEF runPluginClassification, normalizeClassification
<1>4. manifest # None => manifest.module # None
  BY <1>2, PipelineAssumption DEF matchClassificationManifest, OrElse
<1>5. resolveTestClassification(p, suite, test) =
        IF plugin # None THEN plugin
        ELSE IF manifest # None THEN manifest
        ELSE IF test.module \notin {None, "uncategorized"}
        THEN [module |-> test.module, theme |-> OrElse(test.theme, "uncategorized"),
              source |-> OrElse(test.source, "adapter")]
        ELSE [module |-> "uncategorized", theme |-> "uncategorized", source |-> "default"]
  BY <1>1, <1>2 DEF resolveTestClassification
<1> QED BY <1>3, <1>4, <1>5, PipelineAssumption

LEMMA AnalysisKeeps ==
    ASSUME NEW sources, NEW test, NEW patch, patch = sourceAnalysisPatch(sources, test)
    PROVE  "status" \notin DOMAIN patch /\ "module" \notin DOMAIN patch
<1>1. PICK analysis : analysis = analyzeTestFile(sources, test.path) OBVIOUS
<1>2. PICK matched : matched = matchAnalyzedTest(analysis, test) OBVIOUS
<1>3. \/ patch = << >>
      \/ DOMAIN patch = {"analysis", "setup", "mocks"}
      \/ DOMAIN patch = {"analysis", "assertions", "snippet", "setup", "mocks"}
  BY <1>1, <1>2 DEF sourceAnalysisPatch
<1> QED BY <1>3, EmptyList

LEMMA MergedTestOK ==
    ASSUME NEW test, NormalTest(test), NEW patch, PatchOK(patch)
    PROVE  NormalTest(mergeTestPatch(test, patch))
<1>1. DOMAIN mergeTestPatch(test, patch) = DOMAIN test BY DEF mergeTestPatch
<1>2. "status" \in DOMAIN test /\ "module" \in DOMAIN test BY DEF NormalTest, TestFields
<1>3. mergeTestPatch(test, patch).status \in Statuses
  BY <1>2 DEF mergeTestPatch, NormalTest, PatchOK, ListFields
<1>4. mergeTestPatch(test, patch).module # None
  BY <1>2 DEF mergeTestPatch, NormalTest, PatchOK, ListFields
<1> QED BY <1>1, <1>3, <1>4 DEF NormalTest

PatchStep(f, classified, plugins, n) ==
    IF n = 0 THEN classified ELSE mergeTestPatch(f[n - 1], PatchOf(plugins[n], f[n - 1]))

LEMMA PatchedExists ==
    ASSUME NEW classified, NEW plugins, NEW N \in Nat
    PROVE  \E f : f = [n \in 0..N |-> PatchStep(f, classified, plugins, n)]
<1> DEFINE S == {n \in Nat : \E f : f = [k \in 0..n |-> PatchStep(f, classified, plugins, k)]}
<1>1. 0 \in S
  <2> DEFINE f == [n \in 0..0 |-> classified]
  <2>1. \A n \in 0..0 : n = 0 OBVIOUS
  <2>2. f = [n \in 0..0 |-> PatchStep(f, classified, plugins, n)] BY <2>1 DEF PatchStep
  <2> QED BY <2>2
<1>2. ASSUME NEW n \in Nat, n \in S PROVE n + 1 \in S
  <2>1. PICK f : f = [k \in 0..n |-> PatchStep(f, classified, plugins, k)] BY <1>2
  <2>2. PICK g : g = [k \in 0..(n + 1) |-> IF k <= n THEN f[k] ELSE PatchStep(f, classified, plugins, k)] OBVIOUS
  <2>3. \A k \in 0..n : g[k] = f[k] BY <2>2
  <2>4. ASSUME NEW k \in 0..(n + 1) PROVE g[k] = PatchStep(g, classified, plugins, k)
    <3>1. PatchStep(g, classified, plugins, k) = PatchStep(f, classified, plugins, k)
      <4>1. CASE k = 0 BY <4>1 DEF PatchStep
      <4>2. CASE k # 0
        <5>1. k - 1 \in 0..n BY <4>2
        <5>2. g[k - 1] = f[k - 1] BY <5>1, <2>3
        <5> QED BY <4>2, <5>2 DEF PatchStep
      <4> QED BY <4>1, <4>2
    <3>2. CASE k <= n
      <4>1. k \in 0..n BY <3>2
      <4> QED BY <2>1, <2>3, <3>1, <4>1
    <3>3. CASE ~(k <= n) BY <2>2, <3>1, <3>3
    <3> QED BY <3>2, <3>3
  <2>5. g = [k \in 0..(n + 1) |-> g[k]] BY <2>2
  <2>6. g = [k \in 0..(n + 1) |-> PatchStep(g, classified, plugins, k)] BY <2>4, <2>5, Zenon
  <2> QED BY <2>6
<1> HIDE DEF S
<1>3. Nat \subseteq S BY <1>1, <1>2, SetInduction
<1> QED BY <1>3 DEF S

LEMMA EnrichedOK ==
    ASSUME NEW p, PolicyOK(p), NEW suite, NEW test, NormalTest(test)
    PROVE  NormalTest(EnrichedTest(p, suite, test))
<1>1. PICK class : class = resolveTestClassification(p, suite, test) OBVIOUS
<1>2. PICK classified : classified = [test EXCEPT !.module = class.module, !.theme = class.theme,
                                                  !.source = class.source] OBVIOUS
<1>3. NormalTest(classified) BY <1>1, <1>2, NamedModule DEF NormalTest, TestFields
<1>4. PICK plugins : plugins = p.plugins OBVIOUS
<1> DEFINE N == Len(plugins)
           c == CHOOSE f : f = [n \in 0..N |-> PatchStep(f, classified, plugins, n)]
<1>5. N \in Nat /\ DOMAIN plugins = 1..N BY <1>4, ListIs DEF PolicyOK
<1>6. \E f : f = [n \in 0..N |-> PatchStep(f, classified, plugins, n)] BY <1>5, PatchedExists
<1>7. c = [n \in 0..N |-> PatchStep(c, classified, plugins, n)] BY <1>6, Zenon
<1>8. EnrichedTest(p, suite, test) = c[N] BY <1>1, <1>2, <1>4, Zenon DEF EnrichedTest, PatchStep
<1>9. PICK f : f = c OBVIOUS
<1>10. f = [n \in 0..N |-> PatchStep(f, classified, plugins, n)] BY <1>7, <1>9, Zenon
<1> DEFINE S == {n \in Nat : n <= N => NormalTest(f[n])}
<1>11. 0 \in S
  <2>1. f[0] = classified BY <1>5, <1>10 DEF PatchStep
  <2> QED BY <1>3, <2>1
<1>12. ASSUME NEW n \in Nat, n \in S PROVE n + 1 \in S
  <2> SUFFICES ASSUME n + 1 <= N PROVE NormalTest(f[n + 1]) OBVIOUS
  <2>1. NormalTest(f[n]) BY <1>5, <1>12
  <2>2. f[n + 1] = mergeTestPatch(f[n], PatchOf(plugins[n + 1], f[n]))
    <3>1. n + 1 \in 0..N /\ n + 1 # 0 /\ (n + 1) - 1 = n BY <1>5
    <3> QED BY <1>10, <3>1 DEF PatchStep
  <2>3. PICK patch : patch = PatchOf(plugins[n + 1], f[n]) OBVIOUS
  <2>4. PatchOK(patch)
    <3>1. n + 1 \in DOMAIN plugins BY <1>5
    <3>2. CASE f[n].path \in DOMAIN plugins[n + 1].enrichTest
      BY <1>4, <2>3, <3>1, <3>2 DEF PatchOf, PolicyOK
    <3>3. CASE f[n].path \notin DOMAIN plugins[n + 1].enrichTest
      <4>1. patch = sourceAnalysisPatch(plugins[n + 1].sources, f[n]) BY <2>3, <3>3 DEF PatchOf
      <4> QED BY <4>1, AnalysisKeeps DEF PatchOK
    <3> QED BY <3>2, <3>3
  <2> QED BY <2>1, <2>2, <2>3, <2>4, MergedTestOK
<1>13. N \in S
  <2> HIDE DEF S, N
  <2> QED BY <1>5, <1>11, <1>12, SetInduction
<1>14. NormalTest(f[N]) BY <1>5, <1>13
<1> HIDE DEF c
<1> QED BY <1>8, <1>9, <1>14

LEMMA EnrichedResult ==
    ASSUME NEW p, PolicyOK(p), NEW suite, NEW result, ResultOK(result, suite),
           NEW next, next = applyPolicyPipeline(p, result)
    PROVE  ResultOK(next, suite) /\ next.status = result.status
<1>1. PICK tests : tests = result.tests OBVIOUS
<1>2. next.tests = [i \in DOMAIN tests |-> EnrichedTest(p, result, tests[i])]
  BY <1>1 DEF applyPolicyPipeline, ResultOK, ResultFields
<1>3. /\ DOMAIN next = DOMAIN result /\ next = [field \in DOMAIN next |-> next[field]]
      /\ \A field \in {"id", "package", "status", "performanceStats", "rawArtifacts"} : next[field] = result[field]
  BY DEF applyPolicyPipeline, ResultOK, ResultFields
<1>4. IsList(tests) /\ \A i \in DOMAIN tests : NormalTest(tests[i]) BY <1>1 DEF ResultOK
<1>5. IsList(next.tests)
  <2>1. next.tests = [i \in DOMAIN tests |-> next.tests[i]] BY <1>2
  <2> QED BY <1>4, <2>1, Mapped
<1>6. \A i \in DOMAIN next.tests : NormalTest(next.tests[i]) BY <1>2, <1>4, EnrichedOK
<1> QED BY <1>3, <1>5, <1>6 DEF ResultOK

-----------------------------------------------------------------------------
(* The report.                                                              *)

PackageName(suite) == OrElse(suite.package, "default")

\* Every suite is in a package of its name, and fails it if it has failed.
PackagesFit(packages, suites) ==
    /\ IsList(packages)
    /\ \A s \in ToSet(suites) : \E p \in DOMAIN packages : packages[p].name = PackageName(s)
    /\ \A p \in DOMAIN packages :
          /\ packages[p].name # None
          /\ "suites" \in DOMAIN packages[p] /\ IsList(packages[p].suites)
          /\ ToSet(packages[p].suites) = {s \in ToSet(suites) : PackageName(s) = packages[p].name}
          /\ (\E s \in ToSet(packages[p].suites) : s.status = "failed") => packages[p].status = "failed"

LEMMA PackagesAre ==
    ASSUME NEW catalog, IsList(catalog), NEW suites, IsList(suites)
    PROVE  PackagesFit(PackagesOf(catalog, suites), suites)
<1>0. PICK packages : packages = PackagesOf(catalog, suites) OBVIOUS
<1>1. PICK named : named = [i \in DOMAIN suites |-> PackageName(suites[i])] OBVIOUS
<1>2. IsList(named) /\ Len(named) = Len(suites) /\ ToSet(named) = {named[i] : i \in 1..Len(suites)}
  <2>1. named = [i \in DOMAIN suites |-> named[i]] BY <1>1
  <2> QED BY <2>1, Mapped
<1>3. PICK names : names = Dedupe(catalog \o named) OBVIOUS
<1>4. IsList(names) /\ ToSet(names) = (ToSet(catalog) \union ToSet(named)) \ {None} BY <1>2, <1>3, Joined, DedupeIs
<1> DEFINE In(name) == Where(suites, LAMBDA s : OrElse(s.package, "default") = name)
<1>5. packages = [i \in DOMAIN names |-> finalizePackageResult(names[i], In(names[i]))]
  BY <1>0, <1>1, <1>3 DEF PackagesOf, PackageName
<1>6. IsList(packages) /\ DOMAIN packages = DOMAIN names
  <2> HIDE DEF In
  <2>1. packages = [i \in DOMAIN names |-> packages[i]] BY <1>5
  <2> QED BY <1>4, <1>5, <2>1, Mapped
<1>7. ToSet(suites) = {suites[i] : i \in 1..Len(suites)} /\ DOMAIN suites = 1..Len(suites) BY ListIs
<1>8. ASSUME NEW name
      PROVE  IsList(In(name)) /\ ToSet(In(name)) = {s \in ToSet(suites) : PackageName(s) = name}
  <2>1. /\ IsList(In(name))
        /\ ToSet(In(name)) = {suites[i] : i \in (1..Len(suites)) \intersect
                                               {i \in DOMAIN suites : OrElse(suites[i].package, "default") = name}}
    BY EntriesAtIs DEF Where
  <2> HIDE DEF In
  <2> QED BY <1>7, <2>1 DEF PackageName
<1>9. \A s \in ToSet(suites) : PackageName(s) # None BY PipelineAssumption DEF PackageName, OrElse
<1>10. \A s \in ToSet(suites) : \E p \in DOMAIN packages : packages[p].name = PackageName(s)
  <2> SUFFICES ASSUME NEW s \in ToSet(suites) PROVE \E p \in DOMAIN packages : packages[p].name = PackageName(s)
    OBVIOUS
  <2>1. PackageName(s) \in ToSet(named) BY <1>1, <1>2, <1>7
  <2>2. PackageName(s) \in ToSet(names) BY <1>4, <1>9, <2>1
  <2>3. PICK p \in DOMAIN names : names[p] = PackageName(s) BY <2>2 DEF ToSet
  <2> HIDE DEF In
  <2>4. packages[p].name = names[p] BY <1>5, <2>3 DEF finalizePackageResult
  <2> QED BY <1>6, <2>3, <2>4
<1>11. ASSUME NEW p \in DOMAIN packages
       PROVE  /\ packages[p].name # None
              /\ "suites" \in DOMAIN packages[p] /\ IsList(packages[p].suites)
              /\ ToSet(packages[p].suites) = {s \in ToSet(suites) : PackageName(s) = packages[p].name}
              /\ (\E s \in ToSet(packages[p].suites) : s.status = "failed") => packages[p].status = "failed"
  <2> HIDE DEF In
  <2>1. PICK own : own = In(names[p]) OBVIOUS
  <2>2. packages[p] = finalizePackageResult(names[p], own) BY <1>5, <1>6, <2>1
  <2>3. /\ packages[p].name = names[p] /\ packages[p].suites = own /\ "suites" \in DOMAIN packages[p]
        /\ packages[p].status = deriveCollectionStatus(summarizeSuites(own), {own[i].status : i \in DOMAIN own})
    BY <2>2 DEF finalizePackageResult
  <2>4. IsList(own) /\ ToSet(own) = {s \in ToSet(suites) : PackageName(s) = names[p]} BY <1>8, <2>1
  <2>5. names[p] \in ToSet(names) BY <1>6 DEF ToSet
  <2>6. (\E s \in ToSet(own) : s.status = "failed") => packages[p].status = "failed"
    BY <2>3 DEF ToSet, deriveCollectionStatus
  <2> QED BY <1>4, <2>3, <2>4, <2>5, <2>6
<1> QED BY <1>0, <1>6, <1>10, <1>11 DEF PackagesFit

LEMMA SuitesOfPackages ==
    ASSUME NEW suites, NEW packages, PackagesFit(packages, suites),
           NEW all, all = FlattenSeq([i \in DOMAIN packages |-> packages[i].suites])
    PROVE  IsList(all) /\ ToSet(all) = ToSet(suites)
<1>1. PICK each : each = [i \in DOMAIN packages |-> packages[i].suites] OBVIOUS
<1>2. IsList(packages) BY DEF PackagesFit
<1>3. IsList(each) /\ Len(each) = Len(packages) /\ DOMAIN packages = 1..Len(packages)
  <2>1. each = [i \in DOMAIN packages |-> each[i]] BY <1>1
  <2> QED BY <1>2, <2>1, Mapped, ListIs
<1>4. ASSUME NEW i \in 1..Len(each) PROVE each[i] = packages[i].suites /\ IsList(each[i])
  BY <1>1, <1>3 DEF PackagesFit
<1>5. IsList(all) /\ ToSet(all) = UNION {ToSet(each[i]) : i \in 1..Len(each)}
  <2>1. all = FlattenSeq(each) BY <1>1
  <2> QED BY <1>3, <1>4, <2>1, FlattenIs
<1>6. ASSUME NEW i \in 1..Len(each) PROVE ToSet(each[i]) = {s \in ToSet(suites) : PackageName(s) = packages[i].name}
  BY <1>3, <1>4 DEF PackagesFit
<1>7. ASSUME NEW s \in ToSet(suites) PROVE \E i \in 1..Len(each) : packages[i].name = PackageName(s)
  BY <1>3 DEF PackagesFit
<1>8. ToSet(all) \subseteq ToSet(suites) BY <1>5, <1>6
<1>9. ToSet(suites) \subseteq ToSet(all)
  <2> SUFFICES ASSUME NEW s \in ToSet(suites) PROVE s \in ToSet(all) OBVIOUS
  <2>1. PICK i \in 1..Len(each) : packages[i].name = PackageName(s) BY <1>7
  <2>2. s \in ToSet(each[i]) BY <1>6, <2>1
  <2> QED BY <1>5, <2>2
<1> QED BY <1>5, <1>8, <1>9

\* The tests in these entries are those of S.
Projects(entries, S) ==
    /\ IsList(entries)
    /\ \A e \in ToSet(entries) : e.test \in S
    /\ \A x \in S : \E e \in ToSet(entries) : e.test = x

LEMMA FlattenProjects ==
    ASSUME NEW each, IsList(each), NEW sets, \A i \in 1..Len(each) : Projects(each[i], sets[i])
    PROVE  Projects(FlattenSeq(each), UNION {sets[i] : i \in 1..Len(each)})
<1>1. PICK all : all = FlattenSeq(each) OBVIOUS
<1>2. IsList(all) /\ ToSet(all) = UNION {ToSet(each[i]) : i \in 1..Len(each)} BY <1>1, FlattenIs DEF Projects
<1>3. ASSUME NEW e \in ToSet(all) PROVE e.test \in UNION {sets[i] : i \in 1..Len(each)}
  <2>1. PICK i \in 1..Len(each) : e \in ToSet(each[i]) BY <1>2
  <2>2. e.test \in sets[i] BY <2>1 DEF Projects
  <2> QED BY <2>2
<1>4. ASSUME NEW x \in UNION {sets[i] : i \in 1..Len(each)} PROVE \E e \in ToSet(all) : e.test = x
  <2>1. PICK i \in 1..Len(each) : x \in sets[i] OBVIOUS
  <2>2. PICK e \in ToSet(each[i]) : e.test = x BY <2>1 DEF Projects
  <2>3. e \in ToSet(all) BY <1>2, <2>2
  <2> QED BY <2>2, <2>3
<1> QED BY <1>1, <1>2, <1>3, <1>4 DEF Projects

SuiteEntries(package, suite) ==
    [k \in DOMAIN suite.tests |-> [package |-> package.name, suite |-> suite, test |-> suite.tests[k]]]
PackageEntries(package) ==
    FlattenSeq([j \in DOMAIN package.suites |-> SuiteEntries(package, package.suites[j])])

LEMMA SuiteProjects ==
    ASSUME NEW package, NEW suite, IsList(suite.tests)
    PROVE  Projects(SuiteEntries(package, suite), ToSet(suite.tests))
<1>1. PICK own : own = suite.tests OBVIOUS
<1>2. IsList(own) /\ DOMAIN own = 1..Len(own) BY <1>1, ListIs
<1>3. PICK es : es = SuiteEntries(package, suite) OBVIOUS
<1>4. es = [k \in DOMAIN own |-> es[k]] /\ \A k \in DOMAIN own : es[k].test = own[k]
  BY <1>1, <1>3 DEF SuiteEntries
<1>5. IsList(es) /\ ToSet(es) = {es[k] : k \in 1..Len(own)} BY <1>2, <1>4, Mapped
<1>6. ToSet(own) = {own[k] : k \in 1..Len(own)} BY <1>2, ListIs
<1>7. \A e \in ToSet(es) : e.test \in ToSet(own) BY <1>2, <1>4, <1>5, <1>6
<1>8. \A x \in ToSet(own) : \E e \in ToSet(es) : e.test = x BY <1>2, <1>4, <1>5, <1>6
<1> QED BY <1>1, <1>3, <1>5, <1>7, <1>8 DEF Projects

LEMMA PackageProjects ==
    ASSUME NEW package, IsList(package.suites), \A s \in ToSet(package.suites) : IsList(s.tests)
    PROVE  Projects(PackageEntries(package), UNION {ToSet(s.tests) : s \in ToSet(package.suites)})
<1>1. PICK own : own = package.suites OBVIOUS
<1>2. IsList(own) /\ DOMAIN own = 1..Len(own) /\ ToSet(own) = {own[j] : j \in 1..Len(own)} BY <1>1, ListIs
<1>3. PICK each : each = [j \in DOMAIN own |-> SuiteEntries(package, own[j])] OBVIOUS
<1>4. IsList(each) /\ Len(each) = Len(own)
  <2>1. each = [j \in DOMAIN own |-> each[j]] BY <1>3
  <2> QED BY <1>2, <2>1, Mapped
<1>5. PICK sets : sets = [j \in DOMAIN own |-> ToSet(own[j].tests)] OBVIOUS
<1>6. ASSUME NEW j \in 1..Len(each) PROVE Projects(each[j], sets[j])
  <2>1. own[j] \in ToSet(own) /\ j \in DOMAIN own BY <1>2, <1>4
  <2>2. IsList(own[j].tests) BY <1>1, <2>1
  <2>3. each[j] = SuiteEntries(package, own[j]) /\ sets[j] = ToSet(own[j].tests) BY <1>3, <1>5, <2>1
  <2> QED BY <2>2, <2>3, SuiteProjects
<1>7. Projects(FlattenSeq(each), UNION {sets[j] : j \in 1..Len(each)}) BY <1>4, <1>6, FlattenProjects
<1>8. UNION {sets[j] : j \in 1..Len(each)} = UNION {ToSet(s.tests) : s \in ToSet(own)} BY <1>2, <1>4, <1>5
<1>9. PackageEntries(package) = FlattenSeq(each) BY <1>1, <1>3 DEF PackageEntries
<1> QED BY <1>1, <1>7, <1>8, <1>9

LEMMA TestsOfPackages ==
    ASSUME NEW suites, \A s \in ToSet(suites) : IsList(s.tests),
           NEW packages, PackagesFit(packages, suites),
           NEW tests, tests = TestsOf(TestEntries(packages))
    PROVE  IsList(tests) /\ ToSet(tests) = UNION {ToSet(s.tests) : s \in ToSet(suites)}
<1>1. /\ IsList(packages) /\ DOMAIN packages = 1..Len(packages)
      /\ \A s \in ToSet(suites) : \E p \in DOMAIN packages : packages[p].name = PackageName(s)
      /\ \A i \in DOMAIN packages :
            /\ IsList(packages[i].suites)
            /\ ToSet(packages[i].suites) = {s \in ToSet(suites) : PackageName(s) = packages[i].name}
  BY ListIs DEF PackagesFit
<1>2. PICK each : each = [i \in DOMAIN packages |-> PackageEntries(packages[i])] OBVIOUS
<1>3. PICK entries : entries = FlattenSeq(each) OBVIOUS
<1>4. TestEntries(packages) = entries BY <1>2, <1>3 DEF TestEntries, PackageEntries, SuiteEntries
<1>5. IsList(each) /\ Len(each) = Len(packages)
  <2>1. each = [i \in DOMAIN packages |-> each[i]] BY <1>2
  <2> QED BY <1>1, <2>1, Mapped
<1>6. PICK sets : sets = [i \in DOMAIN packages |-> UNION {ToSet(s.tests) : s \in ToSet(packages[i].suites)}] OBVIOUS
<1>7. ASSUME NEW i \in 1..Len(each) PROVE Projects(each[i], sets[i])
  <2>1. i \in DOMAIN packages BY <1>1, <1>5
  <2>2. each[i] = PackageEntries(packages[i]) BY <1>2, <2>1
  <2>3. sets[i] = UNION {ToSet(s.tests) : s \in ToSet(packages[i].suites)} BY <1>6, <2>1
  <2>4. \A s \in ToSet(packages[i].suites) : IsList(s.tests) BY <1>1, <2>1
  <2> QED BY <1>1, <2>1, <2>2, <2>3, <2>4, PackageProjects
<1>8. Projects(entries, UNION {sets[i] : i \in 1..Len(each)}) BY <1>3, <1>5, <1>7, FlattenProjects
<1>9. UNION {sets[i] : i \in 1..Len(each)} = UNION {ToSet(s.tests) : s \in ToSet(suites)}
  <2>1. ASSUME NEW x \in UNION {sets[i] : i \in 1..Len(each)} PROVE x \in UNION {ToSet(s.tests) : s \in ToSet(suites)}
    <3>1. PICK i \in 1..Len(each) : x \in sets[i] OBVIOUS
    <3>2. PICK s \in ToSet(packages[i].suites) : x \in ToSet(s.tests) BY <1>1, <1>5, <1>6, <3>1
    <3>3. s \in ToSet(suites) BY <1>1, <1>5, <3>2
    <3> QED BY <3>2, <3>3
  <2>2. ASSUME NEW s \in ToSet(suites), NEW x \in ToSet(s.tests) PROVE x \in UNION {sets[i] : i \in 1..Len(each)}
    <3>1. PICK i \in DOMAIN packages : packages[i].name = PackageName(s) BY <1>1
    <3>2. s \in ToSet(packages[i].suites) BY <1>1, <3>1
    <3>3. x \in sets[i] BY <1>6, <3>2
    <3> QED BY <1>1, <1>5, <3>3
  <2> QED BY <2>1, <2>2
<1>10. tests = [i \in DOMAIN entries |-> entries[i].test] BY <1>4 DEF TestsOf
<1>11. IsList(tests) /\ ToSet(tests) = {tests[i] : i \in 1..Len(entries)}
  <2>1. tests = [i \in DOMAIN entries |-> tests[i]] BY <1>10
  <2>2. IsList(entries) BY <1>8 DEF Projects
  <2> QED BY <2>1, <2>2, Mapped
<1>12. ToSet(entries) = {entries[i] : i \in 1..Len(entries)} /\ DOMAIN entries = 1..Len(entries)
  BY <1>8, ListIs DEF Projects
<1>13. ToSet(tests) = {e.test : e \in ToSet(entries)} BY <1>10, <1>11, <1>12
<1>14. ToSet(tests) = UNION {sets[i] : i \in 1..Len(each)} BY <1>8, <1>13 DEF Projects
<1> QED BY <1>9, <1>11, <1>14

-----------------------------------------------------------------------------
(* Counts and summaries.                                                    *)

With(entries, status) == {i \in DOMAIN entries : entries[i].status = status}

LEMMA Counted ==
    ASSUME NEW entries, IsList(entries), NEW status
    PROVE  /\ Cardinality(With(entries, status)) \in Nat
           /\ Cardinality(With(entries, status)) > 0 <=> \E e \in ToSet(entries) : e.status = status
           /\ (\A e \in ToSet(entries) : e.status = status) => Cardinality(With(entries, status)) = Len(entries)
<1>1. Len(entries) \in Nat /\ DOMAIN entries = 1..Len(entries) /\ ToSet(entries) = {entries[i] : i \in 1..Len(entries)}
  BY ListIs
<1>2. PICK W : W = With(entries, status) OBVIOUS
<1>3. W \subseteq 1..Len(entries) BY <1>1, <1>2 DEF With
<1>4. IsFiniteSet(1..Len(entries)) /\ Cardinality(1..Len(entries)) = Len(entries)
  <2>1. PICK n : n = Len(entries) OBVIOUS
  <2>2. n \in Int /\ 1 \in Int /\ n >= 0 BY <1>1, <2>1
  <2>3. IsFiniteSet(1..n) /\ Cardinality(1..n) = IF 1 > n THEN 0 ELSE n - 1 + 1 BY <2>2, FS_Interval
  <2> QED BY <2>1, <2>2, <2>3
<1>5. IsFiniteSet(W) BY <1>3, <1>4, FS_Subset
<1>6. Cardinality(W) \in Nat BY <1>5, FS_CardinalityType
<1>7. Cardinality(W) = 0 <=> W = {} BY <1>5, FS_EmptySet
<1>8. W # {} <=> \E e \in ToSet(entries) : e.status = status BY <1>1, <1>2 DEF With
<1>9. (\A e \in ToSet(entries) : e.status = status) => W = 1..Len(entries) BY <1>1, <1>2 DEF With
<1> QED BY <1>2, <1>4, <1>6, <1>7, <1>8, <1>9

\* What the server reads of a report.
FailedIn(suites) == \E s \in ToSet(suites) : \/ s.status = "failed"
                                             \/ \E t \in ToSet(s.tests) : t.status = "failed"
SummaryFits(summary, suites) ==
    /\ (summary.failedTests > 0 \/ summary.failedSuites > 0) <=> FailedIn(suites)
    /\ \/ FailedIn(suites) \/ summary.totalTests = 0 \/ summary.skippedTests = summary.totalTests
       \/ summary.passedTests > 0

LEMMA SummaryIs ==
    ASSUME NEW suites, NEW packages, PackagesFit(packages, suites),
           \A s \in ToSet(suites) : IsList(s.tests) /\ \A t \in ToSet(s.tests) : t.status \in Statuses,
           NEW meta, NEW attribution, NEW modules, NEW thresholds,
           NEW report1, report1 = ReportOf(meta, packages, attribution, modules, thresholds, suites)
    PROVE  SummaryFits(report1.summary, suites)
<1>1. PICK all : all = FlattenSeq([i \in DOMAIN packages |-> packages[i].suites]) OBVIOUS
<1>2. PICK tests : tests = TestsOf(TestEntries(packages)) OBVIOUS
<1>3. IsList(all) /\ ToSet(all) = ToSet(suites) BY <1>1, SuitesOfPackages
<1>4. IsList(tests) /\ ToSet(tests) = UNION {ToSet(s.tests) : s \in ToSet(suites)} BY <1>2, TestsOfPackages
<1>5. PICK summary : summary = report1.summary OBVIOUS
<1>6. /\ summary.failedTests = Cardinality(With(tests, "failed"))
      /\ summary.skippedTests = Cardinality(With(tests, "skipped"))
      /\ summary.passedTests = Cardinality(With(tests, "passed"))
      /\ summary.failedSuites = Cardinality(With(all, "failed"))
      /\ summary.totalTests = Len(tests)
  BY <1>1, <1>2, <1>5 DEF ReportOf, CountOf, With
<1>7. summary.failedTests > 0 <=> \E t \in ToSet(tests) : t.status = "failed" BY <1>4, <1>6, Counted
<1>8. summary.failedSuites > 0 <=> \E s \in ToSet(suites) : s.status = "failed" BY <1>3, <1>6, Counted
<1>9. (\E t \in ToSet(tests) : t.status = "failed")
        <=> \E s \in ToSet(suites) : \E t \in ToSet(s.tests) : t.status = "failed" BY <1>4
<1>10. (summary.failedTests > 0 \/ summary.failedSuites > 0) <=> FailedIn(suites) BY <1>7, <1>8, <1>9 DEF FailedIn
<1>11. \/ FailedIn(suites) \/ summary.totalTests = 0 \/ summary.skippedTests = summary.totalTests
       \/ summary.passedTests > 0
  <2>1. ASSUME ~FailedIn(suites) PROVE \A t \in ToSet(tests) : t.status \in {"passed", "skipped"}
    BY <1>4, <2>1 DEF FailedIn, Statuses
  <2>2. CASE \E t \in ToSet(tests) : t.status = "passed" BY <1>4, <1>6, <2>2, Counted
  <2>3. CASE \A t \in ToSet(tests) : t.status = "skipped" BY <1>4, <1>6, <2>3, Counted
  <2> QED BY <2>1, <2>2, <2>3
<1> QED BY <1>5, <1>10, <1>11 DEF SummaryFits

ReportFields == {"schemaVersion", "packages", "modules", "thresholds", "attributed", "performanceStats",
                 "diagnostics", "summary", "generatedAt", "meta"}

LEMMA StatsFlat ==
    ASSUME NEW suites, IsList(suites), \A s \in ToSet(suites) : IsList(s.performanceStats)
    PROVE  IsList(flattenReportPerformanceStats(suites))
<1> DEFINE Of(s) == [j \in DOMAIN s.performanceStats |-> s.performanceStats[j] @@ [suite |-> s.id]]
<1>1. PICK each : each = [i \in DOMAIN suites |-> Of(suites[i])] OBVIOUS
<1>2. flattenReportPerformanceStats(suites) = FlattenSeq(each) BY <1>1 DEF flattenReportPerformanceStats
<1>3. ASSUME NEW s \in ToSet(suites) PROVE IsList(Of(s))
  <2>1. PICK stats : stats = s.performanceStats OBVIOUS
  <2>2. PICK own : own = Of(s) OBVIOUS
  <2>3. own = [j \in DOMAIN stats |-> own[j]] BY <2>1, <2>2
  <2> QED BY <2>1, <2>2, <2>3, Mapped
<1> HIDE DEF Of
<1>4. IsList(each) /\ Len(each) = Len(suites)
  <2>1. each = [i \in DOMAIN suites |-> each[i]] BY <1>1
  <2> QED BY <2>1, Mapped
<1>5. \A i \in 1..Len(each) : IsList(each[i])
  <2>1. DOMAIN suites = 1..Len(suites) BY ListIs
  <2>2. \A i \in DOMAIN suites : suites[i] \in ToSet(suites) BY DEF ToSet
  <2> QED BY <1>1, <1>3, <1>4, <2>1, <2>2
<1> QED BY <1>2, <1>4, <1>5, FlattenIs

\* The report of these suites.
ReportFits(report1, p, suites, measured) ==
    /\ DOMAIN report1 = ReportFields /\ report1 = [field \in ReportFields |-> report1[field]]
    /\ PackagesFit(report1.packages, suites)
    /\ SummaryFits(report1.summary, suites)
    /\ IsList(report1.performanceStats)
    /\ report1.thresholds = evaluateCoverageThresholds(p, report1.modules, measured)
    /\ \A module \in report1.modules : module.module # None

LEMMA ReportIs ==
    ASSUME NEW meta, NEW p, NEW catalog, IsList(catalog), NEW suites, IsList(suites), NEW measured,
           \A s \in ToSet(suites) : /\ IsList(s.tests) /\ IsList(s.performanceStats)
                                    /\ \A i \in DOMAIN s.tests : NormalTest(s.tests[i]),
           NEW report1, report1 = buildReportFromSuiteResults(meta, p, catalog, suites, measured)
    PROVE  ReportFits(report1, p, suites, measured)
<1>1. PICK packages : packages = PackagesOf(catalog, suites) OBVIOUS
<1>2. PICK attribution : attribution = collectCoverageAttribution(p, packages) OBVIOUS
<1>3. PICK modules : modules = buildModulesFromPackages(p, packages, attribution.files) OBVIOUS
<1>4. PICK thresholds : thresholds = evaluateCoverageThresholds(p, modules, measured) OBVIOUS
<1>5. report1 = ReportOf(meta, packages, attribution, modules, thresholds, suites)
  BY <1>1, <1>2, <1>3, <1>4 DEF buildReportFromSuiteResults
<1>6. PackagesFit(packages, suites) BY <1>1, PackagesAre
<1>12. DOMAIN report1 = ReportFields BY <1>5 DEF ReportOf, ReportFields
<1>13. report1 = [field \in ReportFields |-> report1[field]] BY <1>5 DEF ReportOf, ReportFields
<1>14. report1.packages = packages /\ report1.modules = modules BY <1>5 DEF ReportOf
<1>15. report1.thresholds = thresholds BY <1>5 DEF ReportOf
<1>16. report1.performanceStats = flattenReportPerformanceStats(suites) BY <1>5 DEF ReportOf
<1>7. /\ DOMAIN report1 = ReportFields /\ report1 = [field \in ReportFields |-> report1[field]]
      /\ report1.packages = packages /\ report1.modules = modules /\ report1.thresholds = thresholds
      /\ report1.performanceStats = flattenReportPerformanceStats(suites)
  BY <1>12, <1>13, <1>14, <1>15, <1>16
<1>8. \A s \in ToSet(suites) : \A t \in ToSet(s.tests) : NormalTest(t) BY DEF ToSet
<1>9. SummaryFits(report1.summary, suites) BY <1>5, <1>6, <1>8, SummaryIs DEF NormalTest
<1>10. IsList(report1.performanceStats) BY <1>7, StatsFlat
<1>11. \A module \in modules : module.module # None
  <2>1. PICK entries : entries = TestEntries(packages) OBVIOUS
  <2>2. PICK names : names = {entries[i].test.module : i \in DOMAIN entries}
              \union {OrElse(attribution.files[i].module, "uncategorized") : i \in DOMAIN attribution.files} OBVIOUS
  <2>3. modules = {ensureModuleEntry(p, name, entries, attribution.files) : name \in names}
    BY <1>3, <2>1, <2>2 DEF buildModulesFromPackages
  <2>4. \A name : ensureModuleEntry(p, name, entries, attribution.files).module = name
    BY DEF ensureModuleEntry
  <2>5. \A i \in DOMAIN entries : entries[i].test.module # None
    <3>1. PICK tests : tests = TestsOf(entries) OBVIOUS
    <3>2. IsList(tests) /\ ToSet(tests) = UNION {ToSet(s.tests) : s \in ToSet(suites)}
      BY <1>6, <2>1, <3>1, TestsOfPackages
    <3>3. \A i \in DOMAIN entries : entries[i].test \in ToSet(tests) BY <3>1 DEF TestsOf, ToSet
    <3> QED BY <1>8, <3>2, <3>3 DEF NormalTest
  <2>6. \A name \in names : name # None BY <2>2, <2>5, PipelineAssumption DEF OrElse
  <2> QED BY <2>3, <2>4, <2>6
<1> QED BY <1>4, <1>6, <1>7, <1>9, <1>10, <1>11 DEF ReportFits

-----------------------------------------------------------------------------
(* Thresholds.                                                              *)

Minima(rule) == {m \in MetricNames : resolveThresholdMetric(rule.coverage, m) # None}
Measured(module, m) == module.coverage # None /\ module.coverage.metrics[m] # None
Misses(module, rule) ==
    /\ \E m \in Minima(rule) : Measured(module, m)
    /\ \E m \in Minima(rule) :
          Measured(module, m) => module.coverage.metrics[m].pct < resolveThresholdMetric(rule.coverage, m)

LEMMA MetricsOfRule ==
    ASSUME NEW rule
    PROVE  /\ DOMAIN normalizeThresholdMetrics(rule.coverage) = Minima(rule)
           /\ \A m \in Minima(rule) : normalizeThresholdMetrics(rule.coverage)[m] = resolveThresholdMetric(rule.coverage, m)
<1> DEFINE source == rule.coverage
           minimum == [m \in MetricNames |-> resolveThresholdMetric(source, m)]
           given == {m \in MetricNames : minimum[m] # None}
<1>1. normalizeThresholdMetrics(source) = [m \in given |-> minimum[m]] BY DEF normalizeThresholdMetrics
<1>2. given = Minima(rule) BY DEF Minima
<1>3. \A m \in given : minimum[m] = resolveThresholdMetric(source, m) OBVIOUS
<1> QED BY <1>1, <1>2, <1>3

\* A module that misses a minimum of the rule fails it.
LEMMA EvaluatedRule ==
    ASSUME NEW rule, NEW module, Misses(module, rule)
    PROVE  evaluateThresholdRule(module.coverage, normalizeThresholdRule(rule, "module")).status
               = IF rule.enforcement = "warn" THEN "warn" ELSE "failed"
<1>1. PICK metrics : metrics = normalizeThresholdMetrics(rule.coverage) OBVIOUS
<1>2. PICK normal : normal = normalizeThresholdRule(rule, "module") OBVIOUS
<1>3. normal.metrics = metrics /\ normal.enforcement = IF rule.enforcement = "warn" THEN "warn" ELSE "error"
  BY <1>1, <1>2 DEF normalizeThresholdRule
<1>4. DOMAIN metrics = Minima(rule) /\ \A m \in Minima(rule) : metrics[m] = resolveThresholdMetric(rule.coverage, m)
  BY <1>1, MetricsOfRule
<1> DEFINE measured == {m \in DOMAIN normal.metrics : module.coverage # None /\ module.coverage.metrics[m] # None}
           failures == {m \in DOMAIN normal.metrics : m \in measured => module.coverage.metrics[m].pct < normal.metrics[m]}
<1>5. measured # {} BY <1>3, <1>4 DEF Misses, Measured
<1>6. failures # {}
  <2>1. PICK m \in Minima(rule) :
           Measured(module, m) => module.coverage.metrics[m].pct < resolveThresholdMetric(rule.coverage, m)
    BY DEF Misses
  <2>2. m \in DOMAIN normal.metrics /\ normal.metrics[m] = resolveThresholdMetric(rule.coverage, m) BY <1>3, <1>4
  <2>3. m \in measured => Measured(module, m) BY DEF Measured
  <2> QED BY <2>1, <2>2, <2>3
<1>7. evaluateThresholdRule(module.coverage, normal).status =
         IF measured = {} THEN "skipped" ELSE IF failures = {} THEN "passed"
         ELSE IF normal.enforcement = "warn" THEN "warn" ELSE "failed"
  BY DEF evaluateThresholdRule
<1> HIDE DEF measured, failures
<1> QED BY <1>2, <1>3, <1>5, <1>6, <1>7

\* The last rule of a module is the one in force.
LEMMA RuleInForce ==
    ASSUME NEW entries, IsList(entries), NEW i \in DOMAIN entries,
           IsThresholdRule(entries[i], "module"),
           \A j \in DOMAIN entries : j > i => entries[j].module # entries[i].module
    PROVE  LET rules == buildThresholdRuleMap(entries, "module")
           IN  /\ <<entries[i].module>> \in DOMAIN rules
               /\ rules[<<entries[i].module>>] = normalizeThresholdRule(entries[i], "module")
<1> DEFINE rules == [j \in DOMAIN entries |-> normalizeThresholdRule(entries[j], "module")]
           valid == {j \in DOMAIN rules : IsThresholdRule(entries[j], "module")}
           Of(key) == {j \in valid : rules[j].key = key}
<1>1. buildThresholdRuleMap(entries, "module") = [key \in {rules[j].key : j \in valid} |-> rules[Max(Of(key))]]
  BY DEF buildThresholdRuleMap
<1>2. PICK key : key = <<entries[i].module>> OBVIOUS
<1>3. \A j \in DOMAIN entries : rules[j].key = <<entries[j].module>> BY DEF normalizeThresholdRule
<1>4. DOMAIN entries = 1..Len(entries) /\ Len(entries) \in Nat BY ListIs
<1>5. i \in Of(key) BY <1>2, <1>3
<1>6. \A j \in Of(key) : j <= i
  <2> SUFFICES ASSUME NEW j \in Of(key) PROVE j <= i OBVIOUS
  <2>1. j \in DOMAIN entries /\ <<entries[j].module>> = <<entries[i].module>> BY <1>2, <1>3
  <2>2. entries[j].module = entries[i].module BY <2>1
  <2> QED BY <1>4, <2>1, <2>2
<1>7. Of(key) \subseteq Nat BY <1>4
<1>8. Max(Of(key)) = i
  <2> HIDE DEF Of
  <2>1. i \in Nat BY <1>4
  <2>2. \A m \in Of(key) : (\A j \in Of(key) : m >= j) => m = i BY <1>5, <1>6, <1>7, <2>1
  <2>3. \A j \in Of(key) : i >= j BY <1>6, <1>7, <2>1
  <2> QED BY <1>5, <2>2, <2>3 DEF Max
<1>9. key \in {rules[j].key : j \in valid} BY <1>5
<1>10. rules[i] = normalizeThresholdRule(entries[i], "module") OBVIOUS
<1> HIDE DEF rules, valid, Of
<1>11. /\ key \in DOMAIN buildThresholdRuleMap(entries, "module")
       /\ buildThresholdRuleMap(entries, "module")[key] = rules[i]
  BY <1>1, <1>8, <1>9
<1> QED BY <1>2, <1>10, <1>11

\* What ThresholdsEnforced says of a rule and a module.
RuleEnforced(rules, i, module, verdicts) ==
    (/\ rules[i].module = module.module /\ Misses(module, rules[i])
     /\ \A j \in DOMAIN rules : j > i => rules[j].module # module.module)
    => \E verdict \in verdicts :
          /\ verdict.key = <<module.module>>
          /\ verdict.status = IF rules[i].enforcement = "warn" THEN "warn" ELSE "failed"

LEMMA ThresholdIs ==
    ASSUME NEW p, IsList(ThresholdRules(p)), NEW modules, NEW module \in modules, module.module # None,
           NEW i \in DOMAIN ThresholdRules(p), NEW measured, measured
    PROVE  RuleEnforced(ThresholdRules(p), i, module, evaluateCoverageThresholds(p, modules, measured).verdicts)
<1> SUFFICES ASSUME ThresholdRules(p)[i].module = module.module, Misses(module, ThresholdRules(p)[i]),
                    \A j \in DOMAIN ThresholdRules(p) : j > i => ThresholdRules(p)[j].module # module.module
             PROVE  \E verdict \in evaluateCoverageThresholds(p, modules, measured).verdicts :
                       /\ verdict.key = <<module.module>>
                       /\ verdict.status = IF ThresholdRules(p)[i].enforcement = "warn" THEN "warn" ELSE "failed"
  BY DEF RuleEnforced
<1>1. PICK entries : entries = ThresholdRules(p) OBVIOUS
<1>2. PICK manifest : manifest = OrElse(p.manifests.thresholds, EmptyManifest).thresholds OBVIOUS
<1>3. manifest.modules = entries BY <1>1, <1>2 DEF ThresholdRules
<1>4. PICK OfModules : OfModules = buildThresholdRuleMap(manifest.modules, "module") OBVIOUS
<1>5. PICK OfThemes : OfThemes = buildThresholdRuleMap(manifest.themes, "theme") OBVIOUS
<1>6. PICK rules : rules = [key \in DOMAIN OfModules \union DOMAIN OfThemes |->
                              IF key \in DOMAIN OfModules THEN OfModules[key] ELSE OfThemes[key]] OBVIOUS
<1>7. PICK key : key = <<module.module>> OBVIOUS
<1>8. PICK rule : rule = normalizeThresholdRule(entries[i], "module") OBVIOUS
<1>9. IsThresholdRule(entries[i], "module")
  <2>1. DOMAIN normalizeThresholdMetrics(entries[i].coverage) # {} BY <1>1, MetricsOfRule DEF Misses
  <2> QED BY <1>1, <2>1 DEF IsThresholdRule
<1>10. key \in DOMAIN OfModules /\ OfModules[key] = rule
  <2>1. entries[i].module = module.module /\ IsList(entries) /\ i \in DOMAIN entries BY <1>1
  <2>2. \A j \in DOMAIN entries : j > i => entries[j].module # entries[i].module BY <1>1, <2>1
  <2> QED BY <1>3, <1>4, <1>7, <1>8, <1>9, <2>1, <2>2, RuleInForce
<1>11. key \in DOMAIN rules /\ rules[key] = rule BY <1>6, <1>10
<1>12. PICK scope : scope = [key |-> <<module.module>>, coverage |-> module.coverage] OBVIOUS
<1>13. scope \in Scopes(modules) BY <1>12 DEF Scopes
<1>14. scope.key = key /\ scope.coverage = module.coverage BY <1>7, <1>12
<1>15. PICK verdict : verdict = ThresholdVerdict(scope, rules[scope.key], measured) OBVIOUS
<1>16. verdict \in evaluateCoverageThresholds(p, modules, measured).verdicts
  <2>1. evaluateCoverageThresholds(p, modules, measured).verdicts =
           {ThresholdVerdict(s, rules[s.key], measured) : s \in {s \in Scopes(modules) : s.key \in DOMAIN rules}}
    BY <1>2, <1>4, <1>5, <1>6 DEF evaluateCoverageThresholds, ThresholdCounts
  <2> QED BY <1>11, <1>13, <1>14, <1>15, <2>1
<1>17. /\ verdict.key = scope.key
       /\ verdict.status = evaluateThresholdRule(module.coverage, rule).status
  BY <1>11, <1>14, <1>15 DEF ThresholdVerdict
<1>18. evaluateThresholdRule(module.coverage, rule).status
           = IF entries[i].enforcement = "warn" THEN "warn" ELSE "failed"
  BY <1>1, <1>8, EvaluatedRule
<1> QED BY <1>1, <1>7, <1>14, <1>16, <1>17, <1>18

-----------------------------------------------------------------------------
(* The upload and the stored run.                                           *)

LEMMA RunStatusIs ==
    ASSUME NEW suites, NEW report1, "summary" \in DOMAIN report1, SummaryFits(report1.summary, suites)
    PROVE  deriveRunStatus(report1) = "failed" <=> FailedIn(suites)
<1>1. PICK summary : summary = report1.summary OBVIOUS
<1>2. CASE summary.failedTests > 0 \/ summary.failedSuites > 0
  <2>1. deriveRunStatus(report1) = "failed" BY <1>1, <1>2 DEF deriveRunStatus
  <2> QED BY <1>1, <1>2, <2>1 DEF SummaryFits
<1>3. CASE ~(summary.failedTests > 0 \/ summary.failedSuites > 0)
  <2>1. ~FailedIn(suites) BY <1>1, <1>3 DEF SummaryFits
  <2>2. \/ summary.totalTests = 0 \/ summary.skippedTests = summary.totalTests \/ summary.passedTests > 0
    BY <1>1, <2>1 DEF SummaryFits
  <2>3. deriveRunStatus(report1) \in {"skipped", "passed"} BY <1>1, <1>3, <2>2 DEF deriveRunStatus
  <2> QED BY <2>1, <2>3
<1> QED BY <1>2, <1>3

LEMMA RefusedIs == ASSUME NEW field PROVE IsRefused(Refused(field))
  BY DEF IsRefused, Refused

LEMMA NormalizedReport ==
    ASSUME NEW given, ~IsRefused(normalizeReport(given)) PROVE normalizeReport(given) = given
  BY RefusedIs DEF normalizeReport

\* What is stored of an upload that is accepted.
StatsOf(r) == normalizeReportPerformanceStats(r.performanceStats, SuiteRows(r), TestRows(r))
Accepted(payload) ==
    /\ payload.projectKey # None /\ ~IsRefused(normalizeReport(payload.report))
    /\ \A i \in DOMAIN StatsOf(payload.report) : ~IsRefused(StatsOf(payload.report)[i])
FactsOf(facts, payload) ==
    LET r == payload.report
        source == payload.source
        kinds == buildReportSubmission(payload.submission, payload, SuiteRows(r), CoverageSnapshot(r), StatsOf(r))
    IN /\ facts.project = buildProject(payload.projectKey, r, source)
       /\ facts.projectVersion = buildProjectVersion(source)
       /\ facts.submission.kind = kinds.kind /\ facts.submission.factKinds = kinds.factKinds
       /\ facts.externalKey = deriveExternalKey(payload.projectKey, source, r)
       /\ facts.status = deriveRunStatus(r) /\ facts.summary = r.summary
       /\ facts.modules = ModuleCatalog(r, TestRows(r), CoverageRows(r))
       /\ facts.suites = SuiteRows(r) /\ facts.tests = TestRows(r)
       /\ facts.coverageSnapshot = CoverageSnapshot(r) /\ facts.coverageFiles = CoverageRows(r)
       /\ facts.artifacts = ArtifactRows(SuiteRows(r), normalizeArtifactList(payload.artifacts))
       /\ facts.source = source

LEMMA AcceptedIs ==
    ASSUME NEW payload, IsList(payload.report.performanceStats),
           NEW normalized, normalized = normalizeIngestPayload(payload)
    PROVE  /\ ~IsRefused(normalized) <=> Accepted(payload)
           /\ Accepted(payload) => FactsOf(normalized, payload)
<1>1. PICK given : given = normalizeReport(payload.report) OBVIOUS
<1>2. PICK suites : suites = SuiteRows(given) OBVIOUS
<1>3. PICK tests : tests = TestRows(given) OBVIOUS
<1>4. PICK stats : stats = normalizeReportPerformanceStats(given.performanceStats, suites, tests) OBVIOUS
<1> DEFINE refusals == {i \in DOMAIN stats : IsRefused(stats[i])}
<1>5. CASE payload.projectKey = None
  <2>1. normalized = Refused("projectKey") BY <1>5 DEF normalizeIngestPayload
  <2> QED BY <1>5, <2>1, RefusedIs DEF Accepted
<1>6. CASE payload.projectKey # None /\ IsRefused(given)
  <2>1. normalized = given BY <1>1, <1>6 DEF normalizeIngestPayload
  <2> QED BY <1>1, <1>6, <2>1 DEF Accepted
<1>9. ASSUME ~IsRefused(given) PROVE given = payload.report /\ stats = StatsOf(payload.report)
  <2>1. given = payload.report BY <1>1, <1>9, NormalizedReport
  <2> QED BY <1>2, <1>3, <1>4, <2>1 DEF StatsOf
<1>7. CASE payload.projectKey # None /\ ~IsRefused(given) /\ refusals # {}
  <2>1. normalized = stats[Min(refusals)] BY <1>1, <1>2, <1>3, <1>4, <1>7 DEF normalizeIngestPayload
  <2>2. given = payload.report BY <1>7, <1>9
  <2>3. PICK entries : entries = given.performanceStats OBVIOUS
  <2>4. IsList(entries) /\ DOMAIN entries = 1..Len(entries) /\ Len(entries) \in Nat BY <2>2, <2>3, ListIs
  <2>5. DOMAIN stats = DOMAIN entries BY <1>4, <2>3 DEF normalizeReportPerformanceStats
  <2>6. refusals \subseteq Nat BY <2>4, <2>5
  <2>7. Min(refusals) \in refusals
    <3> PICK R : R = refusals OBVIOUS
    <3>1. PICK m \in R : \A n \in R : m <= n BY <1>7, <2>6, LeastNumber
    <3>2. Min(R) \in R BY <3>1 DEF Min
    <3> QED BY <3>2
  <2>8. IsRefused(stats[Min(refusals)]) BY <2>7
  <2>9. ~Accepted(payload) BY <1>7, <1>9 DEF Accepted
  <2> QED BY <2>1, <2>8, <2>9
<1>8. CASE payload.projectKey # None /\ ~IsRefused(given) /\ refusals = {}
  <2>1. given = payload.report /\ stats = StatsOf(payload.report) BY <1>8, <1>9
  <2>2. suites = SuiteRows(payload.report) /\ tests = TestRows(payload.report) BY <1>2, <1>3, <2>1
  <2>3. PICK r : r = payload.report OBVIOUS
  <2>4. given = r /\ suites = SuiteRows(r) /\ tests = TestRows(r) /\ stats = StatsOf(r) BY <2>1, <2>2, <2>3
  <2>5. normalized =
          [project |-> buildProject(payload.projectKey, given, payload.source),
           projectVersion |-> buildProjectVersion(payload.source),
           submission |-> buildReportSubmission(payload.submission, payload, suites, CoverageSnapshot(given), stats),
           externalKey |-> deriveExternalKey(payload.projectKey, payload.source, given),
           status |-> deriveRunStatus(given), summary |-> given.summary,
           packages |-> PackageCatalog(given, CoverageRows(given)),
           modules |-> ModuleCatalog(given, tests, CoverageRows(given)),
           files |-> FileCatalog(tests, CoverageRows(given)),
           suites |-> suites, tests |-> tests,
           coverageSnapshot |-> CoverageSnapshot(given), coverageFiles |-> CoverageRows(given),
           errors |-> ErrorRows(suites, tests),
           performanceStats |-> TimingRows(suites, tests) \o stats,
           artifacts |-> ArtifactRows(suites, normalizeArtifactList(payload.artifacts)),
           source |-> payload.source]
    BY <1>1, <1>2, <1>3, <1>4, <1>8 DEF normalizeIngestPayload
  <2>6. ~IsRefused(normalized) BY <2>5 DEF IsRefused
  <2>7. Accepted(payload)
    <3>1. \A i \in DOMAIN stats : ~IsRefused(stats[i]) BY <1>8
    <3> QED BY <1>1, <1>8, <2>1, <3>1 DEF Accepted
  <2>8. FactsOf(normalized, payload)
    <3>1. /\ normalized.project = buildProject(payload.projectKey, r, payload.source)
          /\ normalized.projectVersion = buildProjectVersion(payload.source)
          /\ normalized.submission = buildReportSubmission(payload.submission, payload, SuiteRows(r), CoverageSnapshot(r), StatsOf(r))
          /\ normalized.externalKey = deriveExternalKey(payload.projectKey, payload.source, r)
          /\ normalized.status = deriveRunStatus(r) /\ normalized.summary = r.summary
          /\ normalized.source = payload.source
      BY <2>4, <2>5
    <3>2. /\ normalized.modules = ModuleCatalog(r, TestRows(r), CoverageRows(r))
          /\ normalized.suites = SuiteRows(r) /\ normalized.tests = TestRows(r)
          /\ normalized.coverageSnapshot = CoverageSnapshot(r) /\ normalized.coverageFiles = CoverageRows(r)
          /\ normalized.artifacts = ArtifactRows(SuiteRows(r), normalizeArtifactList(payload.artifacts))
      BY <2>4, <2>5
    <3> QED BY <2>3, <3>1, <3>2 DEF FactsOf
  <2> QED BY <2>6, <2>7, <2>8
<1> QED BY <1>5, <1>6, <1>7, <1>8

LEMMA NormalizedIs ==
    ASSUME NEW payload, IsList(payload.report.performanceStats),
           NEW normalized, normalized = normalizeIngestPayload(payload), ~IsRefused(normalized)
    PROVE  normalized.status = deriveRunStatus(payload.report)
  BY AcceptedIs DEF FactsOf

\* Where the artifacts are kept is all that the publisher adds to a report.
LEMMA LocatedIs ==
    ASSUME NEW report1, DOMAIN report1 = ReportFields, NEW storage,
           NEW located, located = attachArtifactLocations(report1, storage)
    PROVE  /\ "summary" \in DOMAIN located
           /\ located.summary = report1.summary /\ located.performanceStats = report1.performanceStats
  BY DEF attachArtifactLocations, ReportFields

-----------------------------------------------------------------------------
(* The directory that is published, and what is uploaded of it.             *)

LEMMA FilesOfSuite ==
    ASSUME NEW suite, NEW result, IsList(result.rawArtifacts) PROVE IsList(SuiteFiles(suite, result))
<1>1. PICK raw : raw = result.rawArtifacts OBVIOUS
<1>2. PICK first : first = [path |-> <<"raw", suite.slug \o ".json">>, content |-> result] OBVIOUS
<1>3. PICK files : files = [i \in DOMAIN raw |-> [path |-> <<"raw">> \o raw[i].relativePath,
                                                  content |-> raw[i].content]] OBVIOUS
<1>4. files = [i \in DOMAIN raw |-> files[i]] BY <1>3
<1>5. IsList(files) BY <1>1, <1>4, Mapped
<1>6. SuiteFiles(suite, result) = <<first>> \o files BY <1>1, <1>2, <1>3 DEF SuiteFiles
<1> QED BY <1>5, <1>6, FirstThen

LEMMA DiskIsList ==
    ASSUME NEW built, NEW suites, NEW suiteResults, IsList(suiteResults),
           \A s \in ToSet(suiteResults) : IsList(s.rawArtifacts)
    PROVE  IsList(writeReportArtifacts(built, suites, suiteResults))
<1>1. PICK a, b, c : writeReportArtifacts(built, suites, suiteResults)
          = <<a, b, c>> \o FlattenSeq([i \in DOMAIN suiteResults |-> SuiteFiles(suites[i], suiteResults[i])])
  BY DEF writeReportArtifacts
<1>2. PICK each : each = [i \in DOMAIN suiteResults |-> SuiteFiles(suites[i], suiteResults[i])] OBVIOUS
<1>3. DOMAIN suiteResults = 1..Len(suiteResults) BY ListIs
<1>4. IsList(each) /\ Len(each) = Len(suiteResults)
  <2>1. each = [i \in DOMAIN suiteResults |-> each[i]] BY <1>2
  <2> QED BY <2>1, Mapped
<1>5. \A i \in 1..Len(each) : IsList(each[i])
  <2>1. \A i \in DOMAIN suiteResults : suiteResults[i] \in ToSet(suiteResults) BY DEF ToSet
  <2> QED BY <1>2, <1>3, <1>4, <2>1, FilesOfSuite
<1>6. IsList(FlattenSeq(each)) BY <1>4, <1>5, FlattenIs
<1>7. IsList(<<a, b, c>>) BY DEF IsList, ToSet
<1> QED BY <1>1, <1>2, <1>6, <1>7, Joined

\* An artifact of the run, as it is uploaded and as it is uploaded again.
Uploadable(a) == a = [relativePath |-> a.relativePath, href |-> a.href, sourceUrl |-> a.sourceUrl]
ArtifactsFit(artifacts) == IsList(artifacts) /\ \A i \in 1..Len(artifacts) : Uploadable(artifacts[i])

LEMMA CollectedFit ==
    ASSUME NEW written, IsList(written), NEW storage,
           NEW artifacts, artifacts = collectOutputArtifacts(written, storage)
    PROVE  ArtifactsFit(artifacts)
<1>1. PICK all : all = [i \in DOMAIN written |-> written[i].path] OBVIOUS
<1>2. IsList(all)
  <2>1. all = [i \in DOMAIN written |-> all[i]] BY <1>1
  <2> QED BY <2>1, Mapped
<1>3. PICK paths : paths = Dedupe(all) OBVIOUS
<1>4. IsList(paths) BY <1>2, <1>3, DedupeIs
<1>5. artifacts = [i \in DOMAIN paths |->
          [relativePath |-> paths[i], href |-> paths[i],
           sourceUrl |-> createArtifactLocator(paths[i], storage).sourceUrl]]
  BY <1>1, <1>3 DEF collectOutputArtifacts
<1>6. artifacts = [i \in DOMAIN paths |-> artifacts[i]] BY <1>5
<1>7. IsList(artifacts) /\ Len(artifacts) = Len(paths) /\ DOMAIN paths = 1..Len(paths)
  BY <1>4, <1>6, Mapped, ListIs
<1>8. \A i \in 1..Len(artifacts) : Uploadable(artifacts[i]) BY <1>5, <1>7 DEF Uploadable
<1> QED BY <1>7, <1>8 DEF ArtifactsFit

\* Where the artifacts of the suites are lists.
SuitesFit(report1) ==
    /\ IsList(report1.packages)
    /\ \A p \in DOMAIN report1.packages :
          /\ IsList(report1.packages[p].suites)
          /\ \A i \in 1..Len(report1.packages[p].suites) : IsList(report1.packages[p].suites[i].rawArtifacts)

LEMMA LocatedSuites ==
    ASSUME NEW report1, "packages" \in DOMAIN report1, NEW suites, PackagesFit(report1.packages, suites),
           \A s \in ToSet(suites) : "rawArtifacts" \in DOMAIN s /\ IsList(s.rawArtifacts),
           NEW storage, NEW located, located = attachArtifactLocations(report1, storage)
    PROVE  SuitesFit(located)
<1> DEFINE Located(artifact) ==
               artifact @@ createArtifactLocator(<<"raw">> \o artifact.relativePath, storage)
           OfSuite(suite) ==
               [suite EXCEPT !.rawArtifacts = [i \in DOMAIN suite.rawArtifacts |-> Located(suite.rawArtifacts[i])]]
           OfPackage(package) ==
               [package EXCEPT !.suites = [i \in DOMAIN package.suites |-> OfSuite(package.suites[i])]]
<1>1. PICK packages : packages = report1.packages OBVIOUS
<1>2. located.packages = [i \in DOMAIN packages |-> OfPackage(packages[i])]
  BY <1>1 DEF attachArtifactLocations
<1>3. ASSUME NEW s, "rawArtifacts" \in DOMAIN s, IsList(s.rawArtifacts) PROVE IsList(OfSuite(s).rawArtifacts)
  <2>1. PICK raw : raw = s.rawArtifacts OBVIOUS
  <2> HIDE DEF Located
  <2>2. PICK next : next = OfSuite(s).rawArtifacts OBVIOUS
  <2>3. next = [i \in DOMAIN raw |-> Located(raw[i])] BY <1>3, <2>1, <2>2
  <2>4. next = [i \in DOMAIN raw |-> next[i]] BY <2>3
  <2> QED BY <1>3, <2>1, <2>2, <2>4, Mapped
<1> HIDE DEF OfSuite
<1>4. ASSUME NEW p \in DOMAIN packages
      PROVE  /\ IsList(OfPackage(packages[p]).suites)
             /\ \A i \in 1..Len(OfPackage(packages[p]).suites) : IsList(OfPackage(packages[p]).suites[i].rawArtifacts)
  <2>1. PICK own : own = packages[p].suites OBVIOUS
  <2>2. IsList(own) /\ ToSet(own) \subseteq ToSet(suites) /\ "suites" \in DOMAIN packages[p]
    BY <1>1, <2>1 DEF PackagesFit
  <2>3. PICK next : next = OfPackage(packages[p]).suites OBVIOUS
  <2>4. next = [i \in DOMAIN own |-> OfSuite(own[i])] BY <2>1, <2>2, <2>3
  <2>5. next = [i \in DOMAIN own |-> next[i]] BY <2>4
  <2>6. IsList(next) /\ Len(next) = Len(own) /\ DOMAIN own = 1..Len(own) BY <2>2, <2>5, Mapped, ListIs
  <2>7. \A i \in DOMAIN own : own[i] \in ToSet(suites) BY <2>2 DEF ToSet
  <2>8. \A i \in 1..Len(next) : IsList(next[i].rawArtifacts) BY <1>3, <2>4, <2>6, <2>7
  <2> QED BY <2>3, <2>6, <2>8
<1> HIDE DEF OfPackage
<1>5. PICK next : next = located.packages OBVIOUS
<1>6. next = [i \in DOMAIN packages |-> next[i]] BY <1>2, <1>5
<1>7. IsList(next) /\ DOMAIN next = DOMAIN packages
  BY <1>1, <1>6, Mapped, ListIs DEF PackagesFit
<1>8. \A p \in DOMAIN next : next[p] = OfPackage(packages[p]) BY <1>2, <1>5, <1>7
<1> QED BY <1>4, <1>5, <1>7, <1>8 DEF SuitesFit

\* The rows of suites and of their artifacts are lists.
RowsFit(rows) == IsList(rows) /\ \A i \in 1..Len(rows) : IsList(rows[i].rawArtifacts)

LEMMA ArtifactListIs ==
    ASSUME NEW artifacts, IsList(artifacts)
    PROVE  IsList(normalizeArtifactList(artifacts)) /\ ToSet(normalizeArtifactList(artifacts)) \subseteq ToSet(artifacts)
<1>1. PICK indices : normalizeArtifactList(artifacts) = EntriesAt(artifacts, indices)
  BY DEF normalizeArtifactList, Where
<1>2. /\ IsList(EntriesAt(artifacts, indices))
      /\ ToSet(EntriesAt(artifacts, indices)) = {artifacts[i] : i \in (1..Len(artifacts)) \intersect indices}
  BY EntriesAtIs
<1>3. ToSet(artifacts) = {artifacts[i] : i \in 1..Len(artifacts)} BY ListIs
<1> QED BY <1>1, <1>2, <1>3

LEMMA LocatedArtifactsAre ==
    ASSUME NEW suite, IsList(suite.rawArtifacts) PROVE IsList(LocatedArtifacts(suite))
<1>1. PICK raw : raw = suite.rawArtifacts OBVIOUS
<1>2. PICK given : given = [i \in DOMAIN raw |->
          [relativePath |-> raw[i].relativePath, href |-> None,
           sourceUrl |-> IF "sourceUrl" \in DOMAIN raw[i] THEN raw[i].sourceUrl ELSE None]] OBVIOUS
<1>3. given = [i \in DOMAIN raw |-> given[i]] BY <1>2
<1>4. IsList(given) BY <1>1, <1>3, Mapped
<1>5. LocatedArtifacts(suite) = normalizeArtifactList(given) BY <1>1, <1>2 DEF LocatedArtifacts
<1> QED BY <1>4, <1>5, ArtifactListIs

LEMMA SuiteRowsAre ==
    ASSUME NEW report1, SuitesFit(report1) PROVE RowsFit(SuiteRows(report1))
<1>1. PICK packages : packages = report1.packages OBVIOUS
<1>2. IsList(packages) /\ DOMAIN packages = 1..Len(packages) BY <1>1, ListIs DEF SuitesFit
<1> DEFINE RowsOf(p) == IF packages[p].name = None THEN <<>> ELSE SuiteRowsOf(packages[p])
<1>3. PICK each : each = [p \in DOMAIN packages |-> RowsOf(p)] OBVIOUS
<1>4. SuiteRows(report1) = FlattenSeq(each) BY <1>1, <1>3 DEF SuiteRows
<1>5. ASSUME NEW p \in DOMAIN packages
      PROVE  IsList(RowsOf(p)) /\ \A row \in ToSet(RowsOf(p)) : IsList(row.rawArtifacts)
  <2>1. PICK own : own = packages[p].suites OBVIOUS
  <2>2. PICK rows : rows = SuiteRowsOf(packages[p]) OBVIOUS
  <2>3. /\ rows = [i \in DOMAIN own |-> rows[i]]
        /\ \A i \in DOMAIN own : rows[i].rawArtifacts = LocatedArtifacts(own[i])
    BY <2>1, <2>2 DEF SuiteRowsOf
  <2>4. IsList(own) /\ DOMAIN own = 1..Len(own) /\ \A i \in 1..Len(own) : IsList(own[i].rawArtifacts)
    BY <1>1, <2>1, ListIs DEF SuitesFit
  <2>5. IsList(rows) /\ ToSet(rows) = {rows[i] : i \in 1..Len(own)} BY <2>3, <2>4, Mapped
  <2>6. \A i \in 1..Len(own) : IsList(rows[i].rawArtifacts) BY <2>3, <2>4, LocatedArtifactsAre
  <2>7. IsList(<<>>) /\ ToSet(<<>>) = {} BY EmptyList DEF ToSet
  <2> QED BY <2>2, <2>5, <2>6, <2>7
<1> HIDE DEF RowsOf
<1>6. IsList(each) /\ Len(each) = Len(packages)
  <2>1. each = [p \in DOMAIN packages |-> each[p]] BY <1>3
  <2> QED BY <1>2, <2>1, Mapped
<1>7. PICK all : all = FlattenSeq(each) OBVIOUS
<1>8. \A p \in 1..Len(each) : IsList(each[p]) /\ \A row \in ToSet(each[p]) : IsList(row.rawArtifacts)
  BY <1>2, <1>3, <1>5, <1>6
<1>9. IsList(all) /\ ToSet(all) = UNION {ToSet(each[p]) : p \in 1..Len(each)} BY <1>6, <1>7, <1>8, FlattenIs
<1>10. \A row \in ToSet(all) : IsList(row.rawArtifacts) BY <1>8, <1>9
<1>11. \A i \in 1..Len(all) : all[i] \in ToSet(all) BY <1>9, ListIs
<1> QED BY <1>4, <1>7, <1>9, <1>10, <1>11 DEF RowsFit

-----------------------------------------------------------------------------
(* The artifacts that are uploaded again are among those that were stored.  *)

LEMMA NormalizedFit ==
    ASSUME NEW artifacts, ArtifactsFit(artifacts) PROVE ArtifactsFit(normalizeArtifactList(artifacts))
<1>1. PICK own : own = normalizeArtifactList(artifacts) OBVIOUS
<1>2. IsList(own) /\ ToSet(own) \subseteq ToSet(artifacts) BY <1>1, ArtifactListIs DEF ArtifactsFit
<1>3. /\ ToSet(artifacts) = {artifacts[i] : i \in 1..Len(artifacts)}
      /\ ToSet(own) = {own[i] : i \in 1..Len(own)} BY <1>2, ListIs DEF ArtifactsFit
<1>4. ASSUME NEW i \in 1..Len(own) PROVE Uploadable(own[i])
  <2>1. PICK k \in 1..Len(artifacts) : own[i] = artifacts[k] BY <1>2, <1>3
  <2> QED BY <2>1 DEF ArtifactsFit
<1> QED BY <1>1, <1>2, <1>4 DEF ArtifactsFit

(* Which artifacts stay does not depend on their order, nor on how often    *)
(* there is one.                                                            *)
Given(a) == <<a.relativePath, a.href, a.sourceUrl>> # <<None, None, None>>

LEMMA KeptArtifacts ==
    ASSUME NEW artifacts, IsList(artifacts)
    PROVE  /\ IsList(normalizeArtifactList(artifacts))
           /\ ToSet(normalizeArtifactList(artifacts)) = {a \in ToSet(artifacts) : Given(a)}
<1>1. PICK indices : indices = {i \in DOMAIN artifacts : Given(artifacts[i])} OBVIOUS
<1>2. normalizeArtifactList(artifacts) = EntriesAt(artifacts, indices)
  BY <1>1 DEF normalizeArtifactList, Where, Given
<1>3. /\ IsList(EntriesAt(artifacts, indices))
      /\ ToSet(EntriesAt(artifacts, indices)) = {artifacts[i] : i \in (1..Len(artifacts)) \intersect indices}
  BY EntriesAtIs
<1>4. DOMAIN artifacts = 1..Len(artifacts) /\ ToSet(artifacts) = {artifacts[i] : i \in 1..Len(artifacts)}
  BY ListIs
<1>5. {artifacts[i] : i \in (1..Len(artifacts)) \intersect indices} = {a \in ToSet(artifacts) : Given(a)}
  BY <1>1, <1>4
<1> QED BY <1>2, <1>3, <1>5

\* The rows of the artifacts of suites.
SuiteArtifacts(rows) ==
    FlattenSeq([i \in DOMAIN rows |->
        [k \in DOMAIN rows[i].rawArtifacts |-> ArtifactRow(rows[i].rawArtifacts[k], "suite", rows[i].suite)]])

LEMMA SuiteArtifactsAre ==
    ASSUME NEW rows, RowsFit(rows)
    PROVE  IsList(SuiteArtifacts(rows)) /\ \A a \in ToSet(SuiteArtifacts(rows)) : a.scope = "suite"
<1>1. PICK each : each = [i \in DOMAIN rows |-> [k \in DOMAIN rows[i].rawArtifacts |->
                             ArtifactRow(rows[i].rawArtifacts[k], "suite", rows[i].suite)]] OBVIOUS
<1>2. SuiteArtifacts(rows) = FlattenSeq(each) BY <1>1 DEF SuiteArtifacts
<1>3. DOMAIN rows = 1..Len(rows) BY ListIs DEF RowsFit
<1>4. IsList(each) /\ Len(each) = Len(rows)
  <2>1. each = [i \in DOMAIN rows |-> each[i]] BY <1>1
  <2> QED BY <2>1, Mapped DEF RowsFit
<1>5. ASSUME NEW i \in 1..Len(each) PROVE IsList(each[i]) /\ \A a \in ToSet(each[i]) : a.scope = "suite"
  <2>1. PICK raw : raw = rows[i].rawArtifacts OBVIOUS
  <2>2. PICK own : own = each[i] OBVIOUS
  <2>3. own = [k \in DOMAIN raw |-> ArtifactRow(raw[k], "suite", rows[i].suite)] BY <1>1, <1>3, <1>4, <2>1, <2>2
  <2>4. own = [k \in DOMAIN raw |-> own[k]] /\ \A k \in DOMAIN raw : own[k].scope = "suite"
    BY <2>3 DEF ArtifactRow
  <2>5. IsList(raw) /\ DOMAIN raw = 1..Len(raw) BY <1>4, <2>1, ListIs DEF RowsFit
  <2>6. IsList(own) /\ ToSet(own) = {own[k] : k \in 1..Len(raw)} BY <2>4, <2>5, Mapped
  <2> QED BY <2>2, <2>4, <2>5, <2>6
<1>6. PICK all : all = FlattenSeq(each) OBVIOUS
<1>7. IsList(all) /\ ToSet(all) = UNION {ToSet(each[i]) : i \in 1..Len(each)} BY <1>4, <1>5, <1>6, FlattenIs
<1> QED BY <1>2, <1>5, <1>6, <1>7

LEMMA ArtifactRowsAre ==
    ASSUME NEW rows, RowsFit(rows), NEW artifacts, IsList(artifacts)
    PROVE  /\ IsList(ArtifactRows(rows, artifacts))
           /\ ToSet(ArtifactRows(rows, artifacts))
                  = ToSet(SuiteArtifacts(rows)) \union {ArtifactRow(a, "run", None) : a \in ToSet(artifacts)}
<1>1. PICK back : back = [i \in DOMAIN artifacts |-> ArtifactRow(artifacts[i], "run", None)] OBVIOUS
<1>2. ArtifactRows(rows, artifacts) = SuiteArtifacts(rows) \o back BY <1>1 DEF ArtifactRows, SuiteArtifacts
<1>3. IsList(back) /\ ToSet(back) = {back[i] : i \in 1..Len(artifacts)}
  <2>1. back = [i \in DOMAIN artifacts |-> back[i]] BY <1>1
  <2> QED BY <2>1, Mapped
<1>4. DOMAIN artifacts = 1..Len(artifacts) /\ ToSet(artifacts) = {artifacts[i] : i \in 1..Len(artifacts)}
  BY ListIs
<1>5. ToSet(back) = {ArtifactRow(a, "run", None) : a \in ToSet(artifacts)} BY <1>1, <1>3, <1>4
<1> QED BY <1>2, <1>3, <1>5, SuiteArtifactsAre, Joined

(* A replay uploads the artifacts of the run that are stored, no other, and *)
(* none of a suite.                                                         *)
LEMMA ReplayedArtifacts ==
    ASSUME NEW rows, RowsFit(rows), NEW own, ArtifactsFit(own),
           NEW stored, IsList(stored), ToSet(stored) = ToSet(ArtifactRows(rows, own)),
           NEW again, again = buildRunArtifactReplayPayloads(stored)
    PROVE  ArtifactsFit(again) /\ ToSet(again) = ToSet(own)
<1>1. PICK indices : indices = {i \in DOMAIN stored : stored[i].scope = "run"} OBVIOUS
<1>2. PICK kept : kept = EntriesAt(stored, indices) OBVIOUS
<1>3. again = [i \in DOMAIN kept |->
                  [relativePath |-> kept[i].relativePath, href |-> kept[i].href, sourceUrl |-> kept[i].sourceUrl]]
  BY <1>1, <1>2 DEF buildRunArtifactReplayPayloads, Where
<1>4. IsList(kept) /\ ToSet(kept) = {stored[i] : i \in (1..Len(stored)) \intersect indices}
  BY <1>2, EntriesAtIs
<1>5. DOMAIN stored = 1..Len(stored) /\ ToSet(stored) = {stored[i] : i \in 1..Len(stored)} BY ListIs
<1>6. ToSet(kept) = {a \in ToSet(stored) : a.scope = "run"} BY <1>1, <1>4, <1>5
<1>7. ToSet(stored) = ToSet(SuiteArtifacts(rows)) \union {ArtifactRow(a, "run", None) : a \in ToSet(own)}
  BY ArtifactRowsAre DEF ArtifactsFit
<1>8. \A a : ArtifactRow(a, "run", None).scope = "run" BY DEF ArtifactRow
<1>9. \A a \in ToSet(SuiteArtifacts(rows)) : a.scope # "run" BY SuiteArtifactsAre
<1>10. ToSet(kept) = {ArtifactRow(a, "run", None) : a \in ToSet(own)} BY <1>6, <1>7, <1>8, <1>9
<1>11. again = [i \in DOMAIN kept |-> again[i]] BY <1>3
<1>12. /\ IsList(again) /\ Len(again) = Len(kept) /\ DOMAIN again = 1..Len(kept)
       /\ ToSet(again) = {again[i] : i \in 1..Len(kept)}
  BY <1>4, <1>11, Mapped
<1>13. DOMAIN kept = 1..Len(kept) /\ ToSet(kept) = {kept[i] : i \in 1..Len(kept)} BY <1>4, ListIs
<1>14. \A i \in 1..Len(kept) : Uploadable(again[i]) BY <1>3, <1>13 DEF Uploadable
<1>15. \A a \in ToSet(own) : Uploadable(a) BY ListIs DEF ArtifactsFit
<1>16. ASSUME NEW i \in 1..Len(kept), NEW a \in ToSet(own), kept[i] = ArtifactRow(a, "run", None)
       PROVE  again[i] = a
  <2>1. again[i] = [relativePath |-> kept[i].relativePath, href |-> kept[i].href, sourceUrl |-> kept[i].sourceUrl]
    BY <1>3, <1>13
  <2>2. kept[i].relativePath = a.relativePath /\ kept[i].href = a.href /\ kept[i].sourceUrl = a.sourceUrl
    BY <1>16 DEF ArtifactRow
  <2> QED BY <1>15, <2>1, <2>2 DEF Uploadable
<1>17. \A i \in 1..Len(kept) : again[i] \in ToSet(own) BY <1>10, <1>13, <1>16
<1>18. \A a \in ToSet(own) : \E i \in 1..Len(kept) : again[i] = a BY <1>10, <1>13, <1>16
<1>19. ToSet(again) = ToSet(own) BY <1>12, <1>17, <1>18
<1> QED BY <1>12, <1>14, <1>19 DEF ArtifactsFit

-----------------------------------------------------------------------------
(* What an upload and its replay have in common.                            *)

SourceOK(source) == DOMAIN source = SourceFields

\* What a replay fills in.
LEMMA RefilledSource ==
    ASSUME NEW source, SourceOK(source), NEW project, NEW build, NEW report1, NEW artifacts,
           NEW next, next = buildReplayPayload(project, build, source, report1, artifacts).source
    PROVE  /\ SourceOK(next)
           /\ \A field \in {"provider", "runId", "branch", "tag", "semanticVersion", "commitSha", "versionKey",
                            "workflow", "job"} : next[field] = source[field]
           /\ next.startedAt = OrElse(source.startedAt, report1.generatedAt)
           /\ \A field \in SourceFields \ {"isPublic"} : source[field] # None => next[field] = source[field]
<1>1. PICK kept : kept = OrElse(source.environment, report1.meta.environment) OBVIOUS
<1>2. PICK environment : environment = OrElse(kept, NoEnvironment) OBVIOUS
<1>3. PICK build1 : build1 = OrElse(OrElse(source.buildNumber, build), environment.runNumber) OBVIOUS
<1>4. PICK url : url = OrElse(OrElse(source.repositoryUrl, project.repositoryUrl),
                              deriveRepositoryUrlFromEnvironment(environment)) OBVIOUS
<1>5. next = [source EXCEPT
            !.actor = OrElse(source.actor, environment.actor),
            !.repository = OrElse(source.repository, environment.repository),
            !.repositoryUrl = url,
            !.defaultBranch = OrElse(source.defaultBranch, project.defaultBranch),
            !.projectName = OrElse(source.projectName, project.name),
            !.startedAt = OrElse(source.startedAt, report1.generatedAt),
            !.completedAt = OrElse(source.completedAt, report1.generatedAt),
            !.buildNumber = build1,
            !.environment = kept,
            !.isPublic = FALSE]
  BY <1>1, <1>2, <1>3, <1>4 DEF buildReplayPayload
<1>6. DOMAIN next = SourceFields BY <1>5 DEF SourceOK
<1>7. \A field \in {"provider", "runId", "branch", "tag", "semanticVersion", "commitSha", "versionKey",
                    "workflow", "job"} : next[field] = source[field]
  BY <1>5 DEF SourceOK, SourceFields
<1>8. /\ next.actor = OrElse(source.actor, environment.actor)
      /\ next.repository = OrElse(source.repository, environment.repository)
      /\ next.repositoryUrl = url
      /\ next.defaultBranch = OrElse(source.defaultBranch, project.defaultBranch)
      /\ next.projectName = OrElse(source.projectName, project.name)
  BY <1>5 DEF SourceOK, SourceFields
<1>9. /\ next.startedAt = OrElse(source.startedAt, report1.generatedAt)
      /\ next.completedAt = OrElse(source.completedAt, report1.generatedAt)
      /\ next.buildNumber = build1 /\ next.environment = kept
  BY <1>5 DEF SourceOK, SourceFields
<1>10. source.buildNumber # None => build1 = source.buildNumber BY <1>3 DEF OrElse
<1>11. source.repositoryUrl # None => url = source.repositoryUrl BY <1>4 DEF OrElse
<1>12. source.environment # None => kept = source.environment BY <1>1 DEF OrElse
<1>13. ASSUME NEW field \in SourceFields \ {"isPublic"}, source[field] # None PROVE next[field] = source[field]
  <2>1. \/ field \in {"provider", "runId", "branch", "tag", "semanticVersion", "commitSha", "versionKey",
                      "workflow", "job"}
        \/ field \in {"actor", "repository", "repositoryUrl", "defaultBranch", "projectName"}
        \/ field \in {"startedAt", "completedAt", "buildNumber", "environment"}
    BY DEF SourceFields
  <2>2. CASE field \in {"actor", "repository", "repositoryUrl", "defaultBranch", "projectName"}
    BY <1>8, <1>11, <1>13, <2>2 DEF OrElse
  <2>3. CASE field \in {"startedAt", "completedAt", "buildNumber", "environment"}
    BY <1>9, <1>10, <1>12, <1>13, <2>3 DEF OrElse
  <2> QED BY <1>7, <2>1, <2>2, <2>3
<1> QED BY <1>6, <1>7, <1>9, <1>13 DEF SourceOK

SameVersion(first, again) ==
    \/ again = None /\ first = None
    \/ again.versionKey = first.versionKey /\ again.versionKind = first.versionKind

\* The version is found by what a replay leaves alone.
LEMMA VersionReplayed ==
    ASSUME NEW source, NEW next,
           \A field \in {"branch", "tag", "semanticVersion", "commitSha", "versionKey"} : next[field] = source[field]
    PROVE  SameVersion(buildProjectVersion(source), buildProjectVersion(next))
<1>1. PICK names : names = <<"tag", "semanticVersion", "commitSha", "branch">> OBVIOUS
<1>2. \A i \in DOMAIN names : next[names[i]] = source[names[i]]
  <2>1. \A i \in DOMAIN names : names[i] \in {"tag", "semanticVersion", "commitSha", "branch"} BY <1>1
  <2> QED BY <2>1
<1>3. PICK given : given = {i \in DOMAIN names : source[names[i]] # None} OBVIOUS
<1>4. given = {i \in DOMAIN names : next[names[i]] # None} BY <1>2, <1>3
<1>5. next.versionKey = source.versionKey OBVIOUS
<1>6. given # {} => Min(given) \in DOMAIN names
  <2> SUFFICES ASSUME given # {} PROVE Min(given) \in DOMAIN names OBVIOUS
  <2>1. given \subseteq Nat BY <1>1, <1>3
  <2>2. PICK m \in given : \A n \in given : m <= n BY <2>1, LeastNumber
  <2>3. Min(given) \in given BY <2>2 DEF Min
  <2> QED BY <1>3, <2>3
<1> DEFINE Key(s) == IF s.versionKey # None THEN s.versionKey ELSE <<names[Min(given)], s[names[Min(given)]]>>
           Kind == IF given = {} THEN "branch" ELSE names[Min(given)]
           Version(s) == IF s.versionKey = None /\ given = {} THEN None
                         ELSE [versionKey |-> Key(s), versionKind |-> Kind, buildNumber |-> s.buildNumber]
<1>7. buildProjectVersion(source) = Version(source) BY <1>1, <1>3 DEF buildProjectVersion
<1>8. buildProjectVersion(next) = Version(next) BY <1>1, <1>4 DEF buildProjectVersion
<1>9. CASE source.versionKey = None /\ given = {} BY <1>5, <1>7, <1>8, <1>9 DEF SameVersion
<1>10. CASE ~(source.versionKey = None /\ given = {})
  <2>1. Key(next) = Key(source) BY <1>2, <1>5, <1>6, <1>10
  <2>2. PICK key, kind : key = Key(source) /\ kind = Kind OBVIOUS
  <2>3. /\ Version(source) = [versionKey |-> key, versionKind |-> kind, buildNumber |-> source.buildNumber]
        /\ Version(next) = [versionKey |-> key, versionKind |-> kind, buildNumber |-> next.buildNumber]
    BY <1>5, <1>10, <2>1, <2>2
  <2> HIDE DEF Version, Key, Kind
  <2> QED BY <1>7, <1>8, <2>3 DEF SameVersion
<1> QED BY <1>9, <1>10

\* What the uploads have in common.
SameUpload(first, again) ==
    /\ again.report = first.report /\ again.projectKey = first.projectKey /\ again.submission = first.submission
    /\ SameVersion(buildProjectVersion(first.source), buildProjectVersion(again.source))
    /\ deriveExternalKey(again.projectKey, again.source, again.report)
           = deriveExternalKey(first.projectKey, first.source, first.report)
    /\ \A field \in SourceFields \ {"isPublic"} :
          first.source[field] # None => again.source[field] = first.source[field]
    /\ IsList(again.artifacts) /\ IsList(first.artifacts)
    /\ ToSet(normalizeArtifactList(again.artifacts)) = ToSet(normalizeArtifactList(first.artifacts))
    /\ RowsFit(SuiteRows(first.report))

\* What the facts have in common.
SameFacts(first, again) ==
    /\ again.externalKey = first.externalKey
    /\ again.submission.kind = first.submission.kind
    /\ again.submission.factKinds = first.submission.factKinds
    /\ again.project.key = first.project.key /\ SameVersion(first.projectVersion, again.projectVersion)
    /\ again.status = first.status /\ again.summary = first.summary
    /\ again.modules = first.modules /\ again.suites = first.suites /\ again.tests = first.tests
    /\ again.coverageSnapshot = first.coverageSnapshot /\ again.coverageFiles = first.coverageFiles
    /\ IsList(again.artifacts) /\ ToSet(again.artifacts) = ToSet(first.artifacts)
    /\ \A field \in SourceFields \ {"isPublic"} :
          first.source[field] # None => again.source[field] = first.source[field]

LEMMA SameUploadSameFacts ==
    ASSUME NEW first, NEW again, SameUpload(first, again), IsList(first.report.performanceStats),
           ~IsRefused(normalizeIngestPayload(first))
    PROVE  /\ ~IsRefused(normalizeIngestPayload(again))
           /\ SameFacts(normalizeIngestPayload(first), normalizeIngestPayload(again))
<1>1. PICK r : r = first.report OBVIOUS
<1>2. again.report = r /\ again.projectKey = first.projectKey /\ again.submission = first.submission
  BY <1>1 DEF SameUpload
<1>3. Accepted(first) /\ FactsOf(normalizeIngestPayload(first), first) BY AcceptedIs
<1>4. Accepted(again) BY <1>1, <1>2, <1>3 DEF Accepted
<1>5. IsList(again.report.performanceStats) BY <1>1, <1>2
<1>6. ~IsRefused(normalizeIngestPayload(again)) /\ FactsOf(normalizeIngestPayload(again), again)
  BY <1>4, <1>5, AcceptedIs
<1>7. \A upload1, suites, coverage, stats, supplied :
         LET kinds == buildReportSubmission(supplied, upload1, suites, coverage, stats)
             kind == OrElse(IF supplied.kind \in {"tests", "coverage", "performance", "combined"}
                            THEN supplied.kind ELSE None,
                            deriveSubmissionKind(suites, coverage, stats))
         IN kinds.kind = kind /\ kinds.factKinds = deriveSubmissionFactKinds(suites, coverage, stats, kind)
  BY DEF buildReportSubmission
<1>8. PICK a : a = normalizeIngestPayload(first) OBVIOUS
<1>9. PICK b : b = normalizeIngestPayload(again) OBVIOUS
<1>10. FactsOf(a, first) /\ FactsOf(b, again) BY <1>3, <1>6, <1>8, <1>9
<1>11. a.submission.kind = b.submission.kind /\ a.submission.factKinds = b.submission.factKinds
  BY <1>1, <1>2, <1>7, <1>10 DEF FactsOf
<1>12. SameVersion(a.projectVersion, b.projectVersion) /\ a.externalKey = b.externalKey
  BY <1>10 DEF FactsOf, SameUpload
<1>13. /\ a.status = b.status /\ a.summary = b.summary /\ a.modules = b.modules
       /\ a.suites = b.suites /\ a.tests = b.tests
       /\ a.coverageSnapshot = b.coverageSnapshot /\ a.coverageFiles = b.coverageFiles
  BY <1>1, <1>2, <1>10 DEF FactsOf
<1>14. IsList(b.artifacts) /\ ToSet(b.artifacts) = ToSet(a.artifacts)
  <2>1. PICK rows, one, two : /\ rows = SuiteRows(r) /\ one = normalizeArtifactList(first.artifacts)
                              /\ two = normalizeArtifactList(again.artifacts) OBVIOUS
  <2>2. RowsFit(rows) /\ IsList(one) /\ IsList(two) /\ ToSet(one) = ToSet(two)
    BY <1>1, <2>1, KeptArtifacts DEF SameUpload
  <2>3. a.artifacts = ArtifactRows(rows, one) /\ b.artifacts = ArtifactRows(rows, two)
    BY <1>1, <1>2, <1>10, <2>1 DEF FactsOf
  <2> QED BY <2>2, <2>3, ArtifactRowsAre
<1>15. a.project.key = b.project.key BY <1>2, <1>10 DEF FactsOf, buildProject
<1>16. a.source = first.source /\ b.source = again.source BY <1>10 DEF FactsOf
<1>17. \A field \in SourceFields \ {"isPublic"} : a.source[field] # None => b.source[field] = a.source[field]
  BY <1>16 DEF SameUpload
<1> QED BY <1>6, <1>8, <1>9, <1>11, <1>12, <1>13, <1>14, <1>15, <1>17 DEF SameFacts

LEMMA SameTrend ==
    ASSUME NEW first, NEW again, again.key = first.key, NEW snapshot, NEW files
    PROVE  buildCoverageTrendPoints(again, snapshot, files) = buildCoverageTrendPoints(first, snapshot, files)
  BY DEF buildCoverageTrendPoints

LEMMA SameFactsSameRows ==
    ASSUME NEW facts, NEW again, SameFacts(facts, again)
    PROVE  /\ TestRecords(again) = TestRecords(facts)
           /\ buildCoverageTrendPoints(again.project, again.coverageSnapshot, again.coverageFiles)
                  = buildCoverageTrendPoints(facts.project, facts.coverageSnapshot, facts.coverageFiles)
           /\ SuitesClash(again.suites) <=> SuitesClash(facts.suites)
           /\ \A overview : Shown(overview, again) <=> Shown(overview, facts)
<1>1. PICK tests : tests = facts.tests OBVIOUS
<1>2. again.tests = tests BY <1>1 DEF SameFacts
<1>3. TestRecords(again) = TestRecords(facts)
  <2>1. \A p, m : ModuleRecord(again, p, m) = ModuleRecord(facts, p, m) BY DEF ModuleRecord, SameFacts
  <2>2. TestRecords(facts) = [i \in DOMAIN tests |->
            tests[i] @@ [moduleRecord |-> ModuleRecord(facts, tests[i].package, tests[i].module)]]
    BY <1>1 DEF TestRecords
  <2>3. TestRecords(again) = [i \in DOMAIN tests |->
            tests[i] @@ [moduleRecord |-> ModuleRecord(again, tests[i].package, tests[i].module)]]
    BY <1>2 DEF TestRecords
  <2> QED BY <2>1, <2>2, <2>3
<1>4. buildCoverageTrendPoints(again.project, again.coverageSnapshot, again.coverageFiles)
          = buildCoverageTrendPoints(facts.project, facts.coverageSnapshot, facts.coverageFiles)
  <2>1. PICK snapshot, files : snapshot = facts.coverageSnapshot /\ files = facts.coverageFiles OBVIOUS
  <2>2. snapshot = again.coverageSnapshot /\ files = again.coverageFiles BY <2>1 DEF SameFacts
  <2>3. again.project.key = facts.project.key BY DEF SameFacts
  <2>4. buildCoverageTrendPoints(again.project, snapshot, files) = buildCoverageTrendPoints(facts.project, snapshot, files)
    BY <2>3, SameTrend
  <2> QED BY <2>1, <2>2, <2>4
<1>5. SuitesClash(again.suites) <=> SuitesClash(facts.suites) BY DEF SameFacts
<1>6. HasReport(again.artifacts) <=> HasReport(facts.artifacts)
  <2>1. \A list : HasReport(list) <=> \E a \in ToSet(list) :
                                         a.relativePath # <<>> /\ Last(a.relativePath) = "index.html"
    BY DEF HasReport, ToSet
  <2> QED BY <2>1 DEF SameFacts
<1>7. PICK kinds, status, summary, snapshot :
        /\ kinds = facts.submission.factKinds /\ status = facts.status
        /\ summary = facts.summary /\ snapshot = facts.coverageSnapshot
  OBVIOUS
<1>8. /\ kinds = again.submission.factKinds /\ status = again.status
      /\ summary = again.summary /\ snapshot = again.coverageSnapshot
  BY <1>7 DEF SameFacts
<1>9. PICK one, two : one = RunOverview(NoOverview, facts) /\ two = RunOverview(NoOverview, again) OBVIOUS
<1>10. one.status = two.status /\ one.counts = two.counts /\ one.linesPct = two.linesPct
  BY <1>7, <1>8, <1>9 DEF RunOverview
<1>11. ASSUME NEW overview PROVE Shown(overview, again) <=> Shown(overview, facts)
  BY <1>6, <1>7, <1>8, <1>9, <1>10 DEF Shown
<1> QED BY <1>3, <1>4, <1>5, <1>11

-----------------------------------------------------------------------------
(* The run that is stored.                                                  *)

\* An upload shows its facts, whatever was shown before.
LEMMA OverviewShows == ASSUME NEW current, NEW facts PROVE Shown(RunOverview(current, facts), facts)
<1>1. PICK kinds, status, summary, snapshot, artifacts :
        /\ kinds = facts.submission.factKinds /\ status = facts.status
        /\ summary = facts.summary /\ snapshot = facts.coverageSnapshot /\ artifacts = facts.artifacts
  OBVIOUS
<1>2. PICK one, own : one = RunOverview(current, facts) /\ own = RunOverview(NoOverview, facts) OBVIOUS
<1>3. "tests" \in kinds => one.status = own.status /\ one.counts = own.counts
  BY <1>1, <1>2 DEF RunOverview
<1>4. "coverage" \in kinds => one.linesPct = own.linesPct BY <1>1, <1>2 DEF RunOverview
<1>5. HasReport(artifacts) => one.hasReportArtifact BY <1>1, <1>2 DEF RunOverview
<1> QED BY <1>1, <1>2, <1>3, <1>4, <1>5 DEF Shown

RunFields == {"facts", "submission", "tests", "trend", "overview", "artifacts", "rawReport"}

\* The rows of a run are those of its facts, and show them.
RowsOfFacts(stored, facts) ==
    /\ DOMAIN stored = RunFields
    /\ stored.tests = TestRecords(facts)
    /\ stored.trend = buildCoverageTrendPoints(facts.project, facts.coverageSnapshot, facts.coverageFiles)
    /\ IsList(stored.artifacts) /\ ToSet(stored.artifacts) = ToSet(facts.artifacts)
    /\ stored.submission # None => Shown(stored.overview, facts)

LEMMA PersistedIs ==
    ASSUME NEW existing, NEW facts, IsList(facts.artifacts),
           existing # None => RowsOfFacts(existing, facts),
           NEW stored, stored = persistRun(existing, facts), ~IsRefused(stored)
    PROVE  /\ stored.facts = facts /\ RowsOfFacts(stored, facts)
           /\ Shown(stored.overview, facts)
           /\ stored.rawReport = IF existing = None THEN None ELSE existing.rawReport
           /\ existing = None => ~SuitesClash(facts.suites)
<1>1. PICK revision : revision = Revision(facts.submission) OBVIOUS
<1>2. CASE existing # None /\ existing.submission # None /\ existing.submission = revision
  <2>1. stored = [existing EXCEPT !.facts = facts] BY <1>1, <1>2 DEF persistRun
  <2>2. RowsOfFacts(existing, facts) BY <1>2
  <2>3. /\ DOMAIN stored = RunFields /\ stored.facts = facts /\ stored.submission = existing.submission
        /\ stored.tests = existing.tests /\ stored.trend = existing.trend
        /\ stored.overview = existing.overview /\ stored.artifacts = existing.artifacts
        /\ stored.rawReport = existing.rawReport
    BY <2>1, <2>2 DEF RowsOfFacts, RunFields
  <2> QED BY <1>2, <2>2, <2>3 DEF RowsOfFacts
<1>3. CASE ~(existing # None /\ existing.submission # None /\ existing.submission = revision)
  <2>1. ~SuitesClash(facts.suites)
    <3> SUFFICES ASSUME SuitesClash(facts.suites) PROVE FALSE OBVIOUS
    <3>1. stored = Refused("suite_identifier") BY <1>1, <1>3 DEF persistRun
    <3> QED BY <3>1, RefusedIs
  <2>2. PICK current : current = IF existing = None THEN NoOverview ELSE OrElse(existing.overview, NoOverview) OBVIOUS
  <2>3. PICK before : before = IF existing = None THEN <<>> ELSE existing.artifacts OBVIOUS
  <2>4. PICK kept : kept = IF existing = None THEN None ELSE existing.rawReport OBVIOUS
  <2>5. PICK tests, trend : tests = TestRecords(facts)
          /\ trend = buildCoverageTrendPoints(facts.project, facts.coverageSnapshot, facts.coverageFiles) OBVIOUS
  <2>6. PICK overview : overview = RunOverview(current, facts) OBVIOUS
  <2>7. stored = [facts |-> facts, submission |-> revision, tests |-> tests, trend |-> trend,
                  overview |-> overview, artifacts |-> before \o facts.artifacts, rawReport |-> kept]
    BY <1>1, <1>3, <2>1, <2>2, <2>3, <2>4, <2>5, <2>6 DEF persistRun
  <2>8. IsList(before) /\ ToSet(before) \subseteq ToSet(facts.artifacts)
    BY <2>3, EmptyList DEF RowsOfFacts, ToSet
  <2>9. PICK artifacts : artifacts = before \o facts.artifacts OBVIOUS
  <2>10. IsList(artifacts) /\ ToSet(artifacts) = ToSet(facts.artifacts)
    <3>1. IsList(artifacts) /\ ToSet(artifacts) = ToSet(before) \union ToSet(facts.artifacts)
      BY <2>8, <2>9, Joined
    <3> QED BY <2>8, <3>1
  <2>11. Shown(overview, facts) BY <2>6, OverviewShows
  <2>12. /\ DOMAIN stored = RunFields /\ stored.facts = facts /\ stored.tests = tests /\ stored.trend = trend
         /\ stored.overview = overview /\ stored.artifacts = artifacts /\ stored.rawReport = kept
    BY <2>7, <2>9 DEF RunFields
  <2> QED BY <2>1, <2>4, <2>5, <2>10, <2>11, <2>12 DEF RowsOfFacts
<1> QED BY <1>2, <1>3

\* Nothing but two suites of one identifier makes the rows of facts be refused.
LEMMA PersistedUnless ==
    ASSUME NEW existing, NEW facts, ~SuitesClash(facts.suites),
           existing # None => RowsOfFacts(existing, facts)
    PROVE  ~IsRefused(persistRun(existing, facts))
<1>1. PICK revision : revision = Revision(facts.submission) OBVIOUS
<1>2. PICK stored : stored = persistRun(existing, facts) OBVIOUS
<1>3. CASE existing # None /\ existing.submission # None /\ existing.submission = revision
  <2>1. stored = [existing EXCEPT !.facts = facts] BY <1>1, <1>2, <1>3 DEF persistRun
  <2>2. DOMAIN existing = RunFields BY <1>3 DEF RowsOfFacts
  <2>3. DOMAIN stored = RunFields BY <2>1, <2>2
  <2> QED BY <1>2, <2>3 DEF IsRefused, RunFields
<1>4. CASE ~(existing # None /\ existing.submission # None /\ existing.submission = revision)
  <2>1. PICK tests, trend, overview, artifacts, kept :
           stored = [facts |-> facts, submission |-> revision, tests |-> tests, trend |-> trend,
                     overview |-> overview, artifacts |-> artifacts, rawReport |-> kept]
    BY <1>1, <1>2, <1>4 DEF persistRun
  <2> QED BY <1>2, <2>1 DEF IsRefused
<1> QED BY <1>3, <1>4

-----------------------------------------------------------------------------
(* The inductive invariant.                                                 *)

SuiteRan(i) ==
    /\ ResultOK(results[i], Suites[i])
    /\ ~setup.execution.dryRun /\ Suites[i].resultFormat = None /\ exitCode(processes[i].code) # 0
          => results[i].status = "failed"
AllRan ==
    /\ IsList(processes) /\ IsList(results)
    /\ Len(processes) = Len(results) /\ Len(results) <= Len(Suites)
    /\ \A i \in 1..Len(results) : SuiteRan(i)

Reported == {"reported", "published", "stored", "refused"}
Uploaded == {"published", "stored", "refused"}
Measuring == ~setup.execution.coverageExplicitlyDisabled
ReportKept ==
    IF phase \in Reported
    THEN Len(results) = Len(Suites) /\ ReportFits(report, policy, results, Measuring)
    ELSE report = None
UploadKept ==
    phase \in Uploaded =>
        /\ "summary" \in DOMAIN upload.report
        /\ SummaryFits(upload.report.summary, results)
        /\ IsList(upload.report.performanceStats)
RunKept ==
    IF IsStored
    THEN ~IsRefused(run) /\ run.facts.status = deriveRunStatus(upload.report)
    ELSE phase # "refused" => run = None
(* A stored run is that of its last upload, whose report it has if it has   *)
(* one, and whose submission is then the one that a replay makes; its       *)
(* artifacts are those of its facts, some of them several times.            *)
UploadFit(payload) ==
    /\ SourceOK(payload.source)
    /\ ArtifactsFit(payload.artifacts) /\ RowsFit(SuiteRows(payload.report))
RunFit(stored, payload) ==
    /\ ~IsRefused(stored) /\ ~IsRefused(normalizeIngestPayload(payload))
    /\ stored.facts = normalizeIngestPayload(payload) /\ RowsOfFacts(stored, stored.facts)
    /\ ~SuitesClash(stored.facts.suites)
    /\ stored.rawReport # None => /\ stored.rawReport = payload.report
                                  /\ payload.submission = normalizeSubmissionOptions(None)
ReplayKept ==
    /\ phase \in Reported => IsList(disk)
    /\ phase \in {"published", "stored"} => UploadFit(upload)
    /\ phase = "stored" => RunFit(run, upload)
PipelineInv ==
    /\ setup \in Setups /\ phase \in Phases /\ replays \in 0..MaxReplays
    /\ phase \notin {"start", "rejected"} => PolicyOK(policy)
    /\ AllRan /\ ReportKept /\ UploadKept /\ RunKept /\ ReplayKept

LEMMA CatalogIs ==
    ASSUME NEW s \in Setups PROVE IsList(resolvePackageCatalog(s.packages, s.suites))
<1>1. PICK suites : suites = s.suites OBVIOUS
<1>2. PICK named : named = [i \in DOMAIN suites |-> suites[i].package] OBVIOUS
<1>3. IsList(suites) /\ IsList(s.packages) BY <1>1, PipelineAssumption
<1>4. IsList(named)
  <2>1. named = [i \in DOMAIN suites |-> named[i]] BY <1>2
  <2> QED BY <1>3, <2>1, Mapped
<1>5. resolvePackageCatalog(s.packages, s.suites) = Dedupe(s.packages \o named)
  BY <1>1, <1>2 DEF resolvePackageCatalog
<1> QED BY <1>3, <1>4, <1>5, Joined, DedupeIs

LEMMA SuitesAre ==
    ASSUME setup \in Setups
    PROVE  IsList(Suites) /\ ToSet(Suites) \subseteq ToSet(setup.suites)
<1>1. PICK catalog : catalog = resolvePackageCatalog(setup.packages, setup.suites) OBVIOUS
<1>2. PICK suites : suites = setup.suites OBVIOUS
<1>3. IsList(catalog) BY <1>1, CatalogIs
<1>12. IsList(suites) BY <1>2, PipelineAssumption
<1>4. IsList(suites) /\ DOMAIN suites = 1..Len(suites) /\ ToSet(suites) = {suites[i] : i \in 1..Len(suites)}
  BY <1>12, ListIs
<1> DEFINE In(name) == Where(suites, LAMBDA s : s.package = name)
<1>5. PICK each : each = [i \in DOMAIN catalog |-> In(catalog[i])] OBVIOUS
<1>6. Suites = FlattenSeq(each) BY <1>1, <1>2, <1>5 DEF Suites, SuitesOf
<1>7. ASSUME NEW name PROVE IsList(In(name)) /\ ToSet(In(name)) \subseteq ToSet(suites)
  <2>1. /\ IsList(In(name))
        /\ ToSet(In(name)) = {suites[i] : i \in (1..Len(suites)) \intersect {i \in DOMAIN suites : suites[i].package = name}}
    BY <1>4, EntriesAtIs DEF Where
  <2> HIDE DEF In
  <2> QED BY <1>4, <2>1
<1> HIDE DEF In
<1>8. IsList(each) /\ Len(each) = Len(catalog)
  <2>1. each = [i \in DOMAIN catalog |-> each[i]] BY <1>5
  <2> QED BY <1>3, <2>1, Mapped
<1>9. \A i \in 1..Len(each) : IsList(each[i]) /\ ToSet(each[i]) \subseteq ToSet(suites)
  <2>1. DOMAIN catalog = 1..Len(catalog) BY <1>3, ListIs
  <2> QED BY <1>5, <1>7, <1>8, <2>1
<1>10. IsList(FlattenSeq(each)) /\ ToSet(FlattenSeq(each)) = UNION {ToSet(each[i]) : i \in 1..Len(each)}
  BY <1>8, <1>9, FlattenIs
<1>11. ToSet(FlattenSeq(each)) \subseteq ToSet(suites) BY <1>9, <1>10
<1> QED BY <1>2, <1>6, <1>10, <1>11

-----------------------------------------------------------------------------
LEMMA PipelineInit == Init => PipelineInv
<1> SUFFICES ASSUME Init PROVE PipelineInv OBVIOUS
<1>1. /\ setup \in Setups /\ phase = "start" /\ processes = <<>> /\ results = <<>> /\ report = None /\ run = None
      /\ replays \in 0..MaxReplays
  BY PipelineAssumption DEF Init
<1>2. Len(Suites) \in Nat BY <1>1, SuitesAre, ListIs
<1>3. IsList(<<>>) /\ Len(<<>>) = 0 BY EmptyList
<1>4. AllRan BY <1>1, <1>2, <1>3 DEF AllRan
<1> QED BY <1>1, <1>4 DEF PipelineInv, Phases, ReportKept, UploadKept, RunKept, ReplayKept, Reported, Uploaded, IsStored

LEMMA PrepareKeeps == PipelineInv /\ Prepare => PipelineInv'
<1> SUFFICES ASSUME PipelineInv, Prepare PROVE PipelineInv' OBVIOUS
<1>1. /\ phase = "start" /\ phase' \in {"rejected", "running"}
      /\ setup' = setup /\ processes' = processes /\ results' = results /\ report' = report /\ upload' = upload /\ run' = run
      /\ replays' = replays
  BY DEF Prepare
<1>2. Suites' = Suites BY <1>1 DEF Suites
<1>3. phase' = "running" => PolicyOK(policy')
  <2> SUFFICES ASSUME phase' = "running" PROVE PolicyOK(policy') OBVIOUS
  <2>1. PICK p : p = preparePolicyContext(setup.manifests, setup.builtIns, setup.modules, setup.config) OBVIOUS
  <2>2. p # Rejected /\ policy' = p BY <2>1 DEF Prepare
  <2>3. PolicyOK(p) BY <2>1, <2>2, PreparedPolicy DEF PipelineInv
  <2> QED BY <2>2, <2>3
<1>4. AllRan' BY <1>1, <1>2 DEF PipelineInv, AllRan, SuiteRan
<1>5. report = None /\ run = None BY <1>1 DEF PipelineInv, ReportKept, RunKept, Reported, IsStored
<1> QED BY <1>1, <1>3, <1>4, <1>5
        DEF PipelineInv, Phases, ReportKept, UploadKept, RunKept, ReplayKept, Reported, Uploaded, IsStored

LEMMA RunSuiteKeeps == PipelineInv /\ RunSuite => PipelineInv'
<1> SUFFICES ASSUME PipelineInv, RunSuite PROVE PipelineInv' OBVIOUS
<1>1. /\ phase = "running" /\ phase' = phase /\ Len(results) < Len(Suites)
      /\ setup' = setup /\ policy' = policy /\ report' = report /\ upload' = upload /\ run' = run
      /\ replays' = replays
  BY DEF RunSuite
<1>2. Suites' = Suites BY <1>1 DEF Suites
<1>3. PICK suite : suite = Suites[Len(results) + 1] OBVIOUS
<1>4. PICK outcome \in Outcomes(suite) :
         /\ processes' = Append(processes, outcome)
         /\ results' = Append(results, ResultOf(suite, AdapterRun(suite, setup.execution, outcome), outcome))
  BY <1>3 DEF RunSuite
<1>5. PICK raw : raw = AdapterRun(suite, setup.execution, outcome) OBVIOUS
<1>6. PICK result : result = ResultOf(suite, raw, outcome) OBVIOUS
<1>7. IsList(Suites) /\ DOMAIN Suites = 1..Len(Suites) /\ Len(Suites) \in Nat BY SuitesAre, ListIs DEF PipelineInv
<1>8. IsList(processes) /\ IsList(results) /\ Len(processes) = Len(results) /\ Len(results) \in Nat
  BY ListIs DEF PipelineInv, AllRan
<1>9. suite \in ToSet(setup.suites)
  <2>1. Len(results) + 1 \in DOMAIN Suites BY <1>1, <1>7, <1>8
  <2> QED BY <1>3, <2>1, SuitesAre DEF ToSet, PipelineInv
<1>10. /\ suite.adapter \in {"node-test", "jest", "vitest", "playwright", "shell"}
       /\ OutcomeOK(suite, outcome)
  BY <1>4, <1>9, PipelineAssumption DEF PipelineInv
<1>11. \/ raw = Thrown
       \/ RawOK(raw) /\ (suite.resultFormat = None /\ exitCode(outcome.code) # 0 => raw.status = "failed")
  BY <1>5, <1>10, AdapterRunOK
<1>12. /\ ResultOK(result, suite)
       /\ ~setup.execution.dryRun /\ suite.resultFormat = None /\ exitCode(outcome.code) # 0 => result.status = "failed"
  BY <1>6, <1>11, SuiteResultOK
<1>13. /\ IsList(processes') /\ Len(processes') = Len(results) + 1
       /\ \A i \in 1..Len(results) : processes'[i] = processes[i]
       /\ processes'[Len(results) + 1] = outcome
  BY <1>4, <1>8, Appended
<1>14. /\ IsList(results') /\ Len(results') = Len(results) + 1
       /\ \A i \in 1..Len(results) : results'[i] = results[i]
       /\ results'[Len(results) + 1] = result
  BY <1>4, <1>5, <1>6, <1>8, Appended
<1>15. ASSUME NEW i \in 1..Len(results') PROVE SuiteRan(i)'
  <2>1. CASE i \in 1..Len(results)
    <3>1. SuiteRan(i) BY <2>1 DEF PipelineInv, AllRan
    <3>2. results'[i] = results[i] /\ processes'[i] = processes[i] BY <1>13, <1>14, <2>1
    <3> QED BY <1>1, <1>2, <3>1, <3>2 DEF SuiteRan
  <2>2. CASE i \notin 1..Len(results)
    <3>1. i = Len(results) + 1 BY <1>8, <1>14, <2>2
    <3>2. results'[i] = result /\ processes'[i] = outcome /\ Suites'[i] = suite
      BY <1>2, <1>3, <1>13, <1>14, <3>1
    <3> QED BY <1>1, <1>12, <3>2 DEF SuiteRan
  <2> QED BY <2>1, <2>2
<1>16. AllRan' BY <1>1, <1>2, <1>7, <1>8, <1>13, <1>14, <1>15 DEF AllRan
<1>17. report = None /\ run = None BY <1>1 DEF PipelineInv, ReportKept, RunKept, Reported, IsStored
<1> QED BY <1>1, <1>16, <1>17
        DEF PipelineInv, Phases, ReportKept, UploadKept, RunKept, ReplayKept, Reported, Uploaded, IsStored

LEMMA FinishKeeps == PipelineInv /\ Finish => PipelineInv'
<1> SUFFICES ASSUME PipelineInv, Finish PROVE PipelineInv' OBVIOUS
<1>1. /\ phase = "running" /\ Len(results) = Len(Suites)
      /\ setup' = setup /\ policy' = policy /\ processes' = processes /\ upload' = upload /\ run' = run
      /\ replays' = replays
  BY DEF Finish
<1>2. Suites' = Suites BY <1>1 DEF Suites
<1>3. report = None /\ run = None /\ PolicyOK(policy)
  BY <1>1 DEF PipelineInv, ReportKept, RunKept, Reported, IsStored
<1>4. CASE phase' = "rejected" /\ UNCHANGED <<results, report>>
  <2>1. AllRan' BY <1>1, <1>2, <1>4 DEF PipelineInv, AllRan, SuiteRan
  <2> QED BY <1>1, <1>3, <1>4, <2>1
          DEF PipelineInv, Phases, ReportKept, UploadKept, RunKept, ReplayKept, Reported, Uploaded, IsStored
<1>5. CASE /\ phase' = "reported"
           /\ disk' = writeReportArtifacts(report', Suites, results')
           /\ results' = [i \in DOMAIN results |-> applyPolicyPipeline(policy, results[i])]
           /\ report' = buildReportFromSuiteResults(setup.meta, policy,
                                                    resolvePackageCatalog(setup.packages, setup.suites),
                                                    results', Measuring)
  <2>1. IsList(results) /\ DOMAIN results = 1..Len(results) BY ListIs DEF PipelineInv, AllRan
  <2>2. PICK next : next = results' OBVIOUS
  <2>3. next = [i \in DOMAIN results |-> next[i]] BY <1>5, <2>2
  <2>4. IsList(next) /\ Len(next) = Len(results) /\ ToSet(next) = {next[i] : i \in 1..Len(results)}
    BY <2>1, <2>3, Mapped
  <2>5. ASSUME NEW i \in 1..Len(results)
        PROVE  ResultOK(next[i], Suites[i]) /\ next[i].status = results[i].status
    <3>1. next[i] = applyPolicyPipeline(policy, results[i]) BY <1>5, <2>1, <2>2
    <3>2. ResultOK(results[i], Suites[i]) BY DEF PipelineInv, AllRan, SuiteRan
    <3> QED BY <1>3, <3>1, <3>2, EnrichedResult
  <2>6. \A i \in 1..Len(results) : SuiteRan(i)' BY <1>1, <1>2, <2>2, <2>5 DEF PipelineInv, AllRan, SuiteRan
  <2>7. AllRan' BY <1>1, <1>2, <2>2, <2>4, <2>6 DEF PipelineInv, AllRan
  <2>8. \A s \in ToSet(next) : /\ IsList(s.tests) /\ IsList(s.performanceStats)
                               /\ \A i \in DOMAIN s.tests : NormalTest(s.tests[i])
    BY <2>4, <2>5 DEF ResultOK
  <2>9. PICK catalog : catalog = resolvePackageCatalog(setup.packages, setup.suites) OBVIOUS
  <2>10. IsList(catalog) BY <2>9, CatalogIs DEF PipelineInv
  <2>11. report' = buildReportFromSuiteResults(setup.meta, policy, catalog, next, Measuring) BY <1>5, <2>2, <2>9
  <2>12. ReportFits(report', policy, next, Measuring) BY <2>4, <2>8, <2>10, <2>11, ReportIs
  <2>13. ReportKept' BY <1>1, <1>2, <1>5, <2>2, <2>4, <2>12 DEF ReportKept, Reported, Measuring
  <2>14. \A s \in ToSet(next) : IsList(s.rawArtifacts) BY <2>4, <2>5 DEF ResultOK
  <2>15. IsList(disk') BY <1>5, <2>2, <2>4, <2>14, DiskIsList
  <2>16. ReplayKept' BY <1>5, <2>15 DEF ReplayKept
  <2> QED BY <1>1, <1>3, <1>5, <2>7, <2>13, <2>16 DEF PipelineInv, Phases, UploadKept, RunKept, Uploaded, IsStored
<1> QED BY <1>4, <1>5 DEF Finish, Measuring

\* What scripts post has the suites of the report, and no artifacts of its own.
LEMMA PostedIs ==
    ASSUME NEW report1, DOMAIN report1 = ReportFields, NEW suites, PackagesFit(report1.packages, suites),
           \A s \in ToSet(suites) : IsList(s.rawArtifacts),
           NEW post, NEW payload, payload = postReport(post, report1)
    PROVE  /\ "summary" \in DOMAIN payload.report
           /\ payload.report.summary = report1.summary
           /\ payload.report.performanceStats = report1.performanceStats
           /\ payload.source = post.source
           /\ ArtifactsFit(payload.artifacts) /\ RowsFit(SuiteRows(payload.report))
<1>1. PICK posted : posted = payload.report OBVIOUS
<1>2. /\ DOMAIN posted = ReportFields /\ posted.packages = report1.packages
      /\ posted.summary = report1.summary /\ posted.performanceStats = report1.performanceStats
  BY <1>1 DEF postReport, ReportFields
<1>3. payload.artifacts = <<>> /\ payload.source = post.source BY DEF postReport
<1>4. ArtifactsFit(<<>>)
  <2>1. Len(<<>>) = 0 OBVIOUS
  <2> QED BY <2>1, EmptyList DEF ArtifactsFit
<1>5. SuitesFit(posted)
  <2>1. PICK packages : packages = report1.packages OBVIOUS
  <2>2. IsList(packages) BY <2>1 DEF PackagesFit
  <2>3. ASSUME NEW p \in DOMAIN packages
        PROVE  /\ IsList(packages[p].suites)
               /\ \A i \in 1..Len(packages[p].suites) : IsList(packages[p].suites[i].rawArtifacts)
    <3>1. PICK own : own = packages[p].suites OBVIOUS
    <3>2. IsList(own) /\ ToSet(own) \subseteq ToSet(suites) BY <2>1, <3>1 DEF PackagesFit
    <3>3. ToSet(own) = {own[i] : i \in 1..Len(own)} BY <3>2, ListIs
    <3> QED BY <3>1, <3>2, <3>3
  <2> QED BY <1>2, <2>1, <2>2, <2>3 DEF SuitesFit
<1> QED BY <1>1, <1>2, <1>3, <1>4, <1>5, SuiteRowsAre DEF ReportFields

LEMMA PublishKeeps == PipelineInv /\ Publish => PipelineInv'
<1> SUFFICES ASSUME PipelineInv, Publish PROVE PipelineInv' OBVIOUS
<1>1. /\ phase = "reported" /\ phase' = "published"
      /\ setup' = setup /\ policy' = policy /\ processes' = processes /\ results' = results /\ report' = report /\ run' = run
      /\ replays' = replays
  BY DEF Publish
<1>2. Suites' = Suites /\ Measuring' = Measuring BY <1>1 DEF Suites, Measuring
<1>3. AllRan' BY <1>1, <1>2 DEF PipelineInv, AllRan, SuiteRan
<1>4. ReportFits(report, policy, results, Measuring) /\ Len(results) = Len(Suites) /\ run = None
  BY <1>1 DEF PipelineInv, ReportKept, RunKept, Reported, IsStored
<1>5. disk' = disk /\ IsList(disk) BY <1>1 DEF Publish, PipelineInv, ReplayKept, Reported
<1>6. \A s \in ToSet(results) : "rawArtifacts" \in DOMAIN s /\ IsList(s.rawArtifacts)
  <2>1. ToSet(results) = {results[i] : i \in 1..Len(results)} BY ListIs DEF PipelineInv, AllRan
  <2>2. \A i \in 1..Len(results) : ResultOK(results[i], Suites[i]) BY DEF PipelineInv, AllRan, SuiteRan
  <2> QED BY <2>1, <2>2 DEF ResultOK, ResultFields
<1>7. /\ DOMAIN report = ReportFields /\ "packages" \in DOMAIN report /\ PackagesFit(report.packages, results)
      /\ SummaryFits(report.summary, results) /\ IsList(report.performanceStats)
  BY <1>4 DEF ReportFits, ReportFields
<1>8. /\ "summary" \in DOMAIN upload'.report
      /\ SummaryFits(upload'.report.summary, results) /\ IsList(upload'.report.performanceStats)
      /\ UploadFit(upload')
  <2>1. ASSUME NEW p \in Publications, upload' = createIngestPayload(p.options, p.env, Versions, report, disk)
        PROVE  /\ "summary" \in DOMAIN upload'.report
               /\ SummaryFits(upload'.report.summary, results) /\ IsList(upload'.report.performanceStats)
               /\ UploadFit(upload')
    <3>1. upload'.report = attachArtifactLocations(report, p.options.storage) BY <2>1 DEF createIngestPayload
    <3>2. /\ "summary" \in DOMAIN upload'.report /\ upload'.report.summary = report.summary
          /\ upload'.report.performanceStats = report.performanceStats
      BY <1>7, <3>1, LocatedIs
    <3>3. SourceOK(upload'.source)
      <4>1. upload'.source = buildGitHubSourceContext(p.options, p.env, Versions) BY <2>1 DEF createIngestPayload
      <4> QED BY <4>1 DEF buildGitHubSourceContext, SourceOK, SourceFields
    <3>4. ArtifactsFit(upload'.artifacts)
      <4>1. upload'.artifacts = collectOutputArtifacts(disk, p.options.storage) BY <2>1 DEF createIngestPayload
      <4> QED BY <1>5, <4>1, CollectedFit
    <3>5. RowsFit(SuiteRows(upload'.report))
      <4>1. SuitesFit(upload'.report) BY <1>6, <1>7, <3>1, LocatedSuites
      <4> QED BY <4>1, SuiteRowsAre
    <3> QED BY <1>7, <3>2, <3>3, <3>4, <3>5 DEF UploadFit
  <2>2. ASSUME NEW post \in Posts, upload' = postReport(post, report)
        PROVE  /\ "summary" \in DOMAIN upload'.report
               /\ SummaryFits(upload'.report.summary, results) /\ IsList(upload'.report.performanceStats)
               /\ UploadFit(upload')
    <3>1. SourceOK(post.source) BY PipelineAssumption DEF SourceOK
    <3>2. PICK payload : payload = upload' OBVIOUS
    <3>3. /\ "summary" \in DOMAIN payload.report
          /\ payload.report.summary = report.summary
          /\ payload.report.performanceStats = report.performanceStats
          /\ payload.source = post.source
          /\ ArtifactsFit(payload.artifacts) /\ RowsFit(SuiteRows(payload.report))
      BY <1>6, <1>7, <2>2, <3>2, PostedIs
    <3> QED BY <1>7, <3>1, <3>2, <3>3 DEF UploadFit
  <2> QED BY <2>1, <2>2 DEF Publish
<1>9. UploadKept' BY <1>1, <1>8 DEF UploadKept
<1>10. ReplayKept' BY <1>1, <1>5, <1>8 DEF ReplayKept
<1> QED BY <1>1, <1>2, <1>3, <1>4, <1>9, <1>10 DEF PipelineInv, Phases, ReportKept, RunKept, Reported, IsStored

LEMMA FactsAreLists ==
    ASSUME NEW payload, UploadFit(payload), IsList(payload.report.performanceStats),
           ~IsRefused(normalizeIngestPayload(payload))
    PROVE  /\ IsList(normalizeIngestPayload(payload).artifacts)
           /\ normalizeIngestPayload(payload).status = deriveRunStatus(payload.report)
<1>1. PICK facts : facts = normalizeIngestPayload(payload) OBVIOUS
<1>2. FactsOf(facts, payload) BY <1>1, AcceptedIs
<1>3. PICK own : own = normalizeArtifactList(payload.artifacts) OBVIOUS
<1>4. IsList(own) /\ RowsFit(SuiteRows(payload.report)) BY <1>3, KeptArtifacts DEF UploadFit, ArtifactsFit
<1>5. facts.artifacts = ArtifactRows(SuiteRows(payload.report), own) BY <1>2, <1>3 DEF FactsOf
<1> QED BY <1>1, <1>2, <1>4, <1>5, ArtifactRowsAre DEF FactsOf

LEMMA IngestKeeps == PipelineInv /\ Ingest => PipelineInv'
<1> SUFFICES ASSUME PipelineInv, Ingest PROVE PipelineInv' OBVIOUS
<1>1. /\ phase = "published" /\ phase' = IF IsRefused(run') THEN "refused" ELSE "stored"
      /\ setup' = setup /\ policy' = policy /\ processes' = processes /\ results' = results /\ report' = report
      /\ disk' = disk /\ upload' = upload /\ replays' = replays
  BY DEF Ingest
<1>2. Suites' = Suites /\ Measuring' = Measuring BY <1>1 DEF Suites, Measuring
<1>3. AllRan' BY <1>1, <1>2 DEF PipelineInv, AllRan, SuiteRan
<1>4. UploadKept /\ "published" \in Uploaded /\ UploadFit(upload) /\ IsList(disk)
  BY <1>1 DEF PipelineInv, Uploaded, ReplayKept, Reported
<1>5. PICK stored : stored = Stored(None, upload) OBVIOUS
<1>6. \/ run' = stored
      \/ /\ ~IsRefused(stored) /\ upload.submission = normalizeSubmissionOptions(None)
         /\ run' = [stored EXCEPT !.rawReport = upload.report, !.submission = None, !.overview = None]
  BY <1>5 DEF Ingest
<1>7. PICK facts : facts = normalizeIngestPayload(upload) OBVIOUS
<1>8. ASSUME ~IsRefused(run')
      PROVE  RunFit(run', upload) /\ run'.facts.status = deriveRunStatus(upload.report)
  <2>1. ~IsRefused(stored) BY <1>6, <1>8
  <2>2. ~IsRefused(facts) /\ stored = persistRun(None, facts) BY <1>5, <1>7, <2>1 DEF Stored
  <2>3. IsList(facts.artifacts) /\ facts.status = deriveRunStatus(upload.report)
    BY <1>1, <1>4, <1>7, <2>2, FactsAreLists DEF UploadKept
  <2>4. /\ stored.facts = facts /\ RowsOfFacts(stored, facts) /\ stored.rawReport = None
        /\ ~SuitesClash(facts.suites)
    BY <2>1, <2>2, <2>3, PersistedIs
  <2>5. CASE run' = stored BY <1>7, <2>1, <2>2, <2>3, <2>4, <2>5 DEF RunFit
  <2>6. CASE /\ upload.submission = normalizeSubmissionOptions(None)
             /\ run' = [stored EXCEPT !.rawReport = upload.report, !.submission = None, !.overview = None]
    <3>1. PICK next : next = run' OBVIOUS
    <3>2. DOMAIN stored = RunFields BY <2>4 DEF RowsOfFacts
    <3>3. /\ DOMAIN next = RunFields /\ next.facts = facts /\ next.submission = None
          /\ next.tests = stored.tests /\ next.trend = stored.trend /\ next.artifacts = stored.artifacts
          /\ next.rawReport = upload.report
      BY <2>4, <2>6, <3>1, <3>2 DEF RunFields
    <3>4. RowsOfFacts(next, facts) BY <2>4, <3>3 DEF RowsOfFacts
    <3> QED BY <1>7, <1>8, <2>2, <2>3, <2>4, <2>6, <3>1, <3>3, <3>4 DEF RunFit
  <2> QED BY <1>6, <2>5, <2>6
<1>9. RunKept' BY <1>1, <1>8 DEF RunKept, IsStored
<1>10. ReportKept' BY <1>1, <1>2 DEF PipelineInv, ReportKept, Reported
<1>11. UploadKept' BY <1>1, <1>4 DEF UploadKept, Uploaded
<1>12. ReplayKept'
  <2>1. phase' = "stored" => ~IsRefused(run') BY <1>1
  <2> QED BY <1>1, <1>4, <1>8, <2>1 DEF ReplayKept
<1> QED BY <1>1, <1>3, <1>9, <1>10, <1>11, <1>12 DEF PipelineInv, Phases

(* What a replay of a run uploads has the facts of the run, and is stored.  *)
LEMMA ReplayedUpload ==
    ASSUME NEW stored, NEW first, RunFit(stored, first), UploadFit(first), stored.rawReport # None,
           IsList(first.report.performanceStats), NEW rows, NEW again, again = ReplayOf(stored, rows)
    PROVE  /\ again.report = first.report /\ again.submission = normalizeSubmissionOptions(None)
           /\ UploadFit(again) /\ SameUpload(first, again)
<1>1. PICK facts : facts = stored.facts OBVIOUS
<1>2. facts = normalizeIngestPayload(first) /\ ~IsRefused(facts) /\ RowsOfFacts(stored, facts) BY <1>1 DEF RunFit
<1>3. FactsOf(facts, first) BY <1>2, AcceptedIs
<1>4. PICK source, report1 : source = first.source /\ report1 = first.report OBVIOUS
<1>5. facts.source = source /\ stored.rawReport = report1 /\ first.submission = normalizeSubmissionOptions(None)
  BY <1>3, <1>4 DEF FactsOf, RunFit
<1>6. PICK project : project = [key |-> facts.project.key, name |-> rows.name, repositoryUrl |-> rows.repositoryUrl,
                                defaultBranch |-> rows.defaultBranch] OBVIOUS
<1>7. PICK build : build = IF facts.projectVersion = None THEN None ELSE rows.buildNumber OBVIOUS
<1>8. again = buildReplayPayload(project, build, source, report1, stored.artifacts)
  BY <1>1, <1>5, <1>6, <1>7 DEF ReplayOf
<1>9. /\ again.projectKey = facts.project.key /\ again.report = report1
      /\ again.submission = normalizeSubmissionOptions(None)
      /\ again.artifacts = buildRunArtifactReplayPayloads(stored.artifacts)
  BY <1>6, <1>8 DEF buildReplayPayload
<1>10. facts.project.key = first.projectKey BY <1>3 DEF FactsOf, buildProject
<1>11. PICK next : next = again.source OBVIOUS
<1>12. /\ SourceOK(next)
       /\ \A field \in {"provider", "runId", "branch", "tag", "semanticVersion", "commitSha", "versionKey",
                        "workflow", "job"} : next[field] = source[field]
       /\ next.startedAt = OrElse(source.startedAt, report1.generatedAt)
       /\ \A field \in SourceFields \ {"isPublic"} : source[field] # None => next[field] = source[field]
  <2>1. SourceOK(source) BY <1>4 DEF UploadFit
  <2>2. next = buildReplayPayload(project, build, source, report1, stored.artifacts).source BY <1>8, <1>11
  <2> QED BY <2>1, <2>2, RefilledSource
<1>13. SameVersion(buildProjectVersion(source), buildProjectVersion(next)) BY <1>12, VersionReplayed
<1>14. deriveExternalKey(first.projectKey, next, report1) = deriveExternalKey(first.projectKey, source, report1)
  <2>1. next.provider = source.provider /\ next.runId = source.runId /\ next.commitSha = source.commitSha
    BY <1>12
  <2>2. OrElse(next.startedAt, report1.generatedAt) = OrElse(source.startedAt, report1.generatedAt)
    BY <1>12 DEF OrElse
  <2> QED BY <2>1, <2>2 DEF deriveExternalKey
<1>15. PICK own : own = normalizeArtifactList(first.artifacts) OBVIOUS
<1>16. ArtifactsFit(own) /\ RowsFit(SuiteRows(report1)) /\ IsList(first.artifacts)
  BY <1>4, <1>15, NormalizedFit DEF UploadFit, ArtifactsFit
<1>17. facts.artifacts = ArtifactRows(SuiteRows(report1), own) BY <1>3, <1>4, <1>15 DEF FactsOf
<1>18. ArtifactsFit(again.artifacts) /\ ToSet(again.artifacts) = ToSet(own)
  <2>1. PICK list, rows1 : list = stored.artifacts /\ rows1 = SuiteRows(report1) OBVIOUS
  <2>2. IsList(list) /\ ToSet(list) = ToSet(ArtifactRows(rows1, own)) BY <1>2, <1>17, <2>1 DEF RowsOfFacts
  <2> QED BY <1>9, <1>16, <2>1, <2>2, ReplayedArtifacts
<1>19. ToSet(normalizeArtifactList(again.artifacts)) = ToSet(own)
  <2>1. ToSet(own) = {a \in ToSet(first.artifacts) : Given(a)} BY <1>15, <1>16, KeptArtifacts
  <2>2. ToSet(normalizeArtifactList(again.artifacts)) = {a \in ToSet(again.artifacts) : Given(a)}
    BY <1>18, KeptArtifacts DEF ArtifactsFit
  <2> QED BY <1>18, <2>1, <2>2
<1>20. UploadFit(again) BY <1>9, <1>11, <1>12, <1>16, <1>18 DEF UploadFit
<1>21. SameUpload(first, again)
  BY <1>4, <1>5, <1>9, <1>10, <1>11, <1>12, <1>13, <1>14, <1>15, <1>16, <1>18, <1>19 DEF SameUpload, ArtifactsFit
<1> QED BY <1>4, <1>9, <1>20, <1>21

(* That a run is stored again with what a replay uploads.                   *)
LEMMA StoredAgain ==
    ASSUME NEW stored, NEW first, RunFit(stored, first), UploadFit(first), stored.rawReport # None,
           IsList(first.report.performanceStats), NEW rows, NEW again, again = ReplayOf(stored, rows),
           NEW next, next = Stored(stored, again)
    PROVE  /\ ~IsRefused(next) /\ RunFit(next, again) /\ UploadFit(again)
           /\ again.report = first.report /\ next.facts.status = deriveRunStatus(again.report)
           /\ Replayed(stored, next)
<1>1. /\ again.report = first.report /\ again.submission = normalizeSubmissionOptions(None)
      /\ UploadFit(again) /\ SameUpload(first, again)
  BY ReplayedUpload
<1>2. PICK facts : facts = stored.facts OBVIOUS
<1>3. PICK more : more = normalizeIngestPayload(again) OBVIOUS
<1>4. facts = normalizeIngestPayload(first) /\ ~IsRefused(facts) /\ RowsOfFacts(stored, facts) BY <1>2 DEF RunFit
<1>5. ~IsRefused(more) /\ SameFacts(facts, more) BY <1>1, <1>3, <1>4, SameUploadSameFacts
<1>6. /\ TestRecords(more) = TestRecords(facts)
      /\ buildCoverageTrendPoints(more.project, more.coverageSnapshot, more.coverageFiles)
             = buildCoverageTrendPoints(facts.project, facts.coverageSnapshot, facts.coverageFiles)
      /\ SuitesClash(more.suites) <=> SuitesClash(facts.suites)
      /\ \A overview : Shown(overview, more) <=> Shown(overview, facts)
  BY <1>5, SameFactsSameRows
<1>7. IsList(more.artifacts) /\ ToSet(more.artifacts) = ToSet(facts.artifacts) BY <1>5 DEF SameFacts
<1>8. RowsOfFacts(stored, more) BY <1>4, <1>6, <1>7 DEF RowsOfFacts
<1>9. ~SuitesClash(more.suites) BY <1>2, <1>6 DEF RunFit
<1>10. next = persistRun(stored, more) BY <1>3, <1>5 DEF Stored
<1>11. ~IsRefused(next) BY <1>8, <1>9, <1>10, PersistedUnless
<1>12. /\ next.facts = more /\ RowsOfFacts(next, more) /\ Shown(next.overview, more)
       /\ next.rawReport = IF stored = None THEN None ELSE stored.rawReport
  BY <1>7, <1>8, <1>10, <1>11, PersistedIs
<1>13. RunFit(next, again)
  <2>1. next.rawReport # None => next.rawReport = again.report BY <1>1, <1>12 DEF RunFit
  <2> QED BY <1>1, <1>3, <1>5, <1>9, <1>11, <1>12, <2>1 DEF RunFit
<1>14. more.status = deriveRunStatus(again.report) BY <1>1, <1>3, <1>5, FactsAreLists
<1>15. Replayed(stored, next)
  <2>1. /\ next.facts.externalKey = facts.externalKey /\ next.facts.project.key = facts.project.key
        /\ next.facts.submission.kind = facts.submission.kind
        /\ next.facts.submission.factKinds = facts.submission.factKinds
        /\ next.facts.status = facts.status /\ SameVersion(facts.projectVersion, next.facts.projectVersion)
        /\ \A field \in SourceFields \ {"isPublic"} :
              facts.source[field] # None => next.facts.source[field] = facts.source[field]
        /\ ToSet(next.facts.artifacts) = ToSet(facts.artifacts)
    BY <1>5, <1>12 DEF SameFacts
  <2>2. next.tests = stored.tests /\ next.trend = stored.trend BY <1>8, <1>12 DEF RowsOfFacts
  <2>3. ToSet(next.artifacts) = ToSet(stored.artifacts) BY <1>8, <1>12 DEF RowsOfFacts
  <2>4. Shown(next.overview, facts) BY <1>6, <1>12
  <2> QED BY <1>2, <2>1, <2>2, <2>3, <2>4 DEF Replayed, SameVersion
<1> QED BY <1>1, <1>11, <1>12, <1>13, <1>14, <1>15

\* A replay is accepted, and what it makes of the run.
LEMMA ReplayStores ==
    ASSUME PipelineInv, Replay
    PROVE  /\ ~IsRefused(Stored(run, upload')) /\ run' = Stored(run, upload')
           /\ RunFit(run', upload') /\ UploadFit(upload') /\ upload'.report = upload.report
           /\ run'.facts.status = deriveRunStatus(upload'.report)
           /\ Replayed(run, run')
<1>1. phase = "stored" /\ run.rawReport # None BY DEF Replay, hasReplayableRawReport
<1>2. PICK rows : upload' = ReplayOf(run, rows) BY DEF Replay
<1>3. RunFit(run, upload) /\ UploadFit(upload) /\ IsList(upload.report.performanceStats)
  BY <1>1 DEF PipelineInv, ReplayKept, UploadKept, Uploaded
<1>4. PICK next : next = Stored(run, upload') OBVIOUS
<1>5. PICK again : again = upload' OBVIOUS
<1>6. /\ ~IsRefused(next) /\ RunFit(next, again) /\ UploadFit(again)
      /\ again.report = upload.report /\ next.facts.status = deriveRunStatus(again.report)
      /\ Replayed(run, next)
  BY <1>1, <1>2, <1>3, <1>4, <1>5, StoredAgain
<1>7. run' = next BY <1>4, <1>6 DEF Replay
<1> QED BY <1>4, <1>5, <1>6, <1>7

LEMMA ReplayKeeps == PipelineInv /\ Replay => PipelineInv'
<1> SUFFICES ASSUME PipelineInv, Replay PROVE PipelineInv' OBVIOUS
<1>1. /\ phase = "stored" /\ phase' = phase /\ replays < MaxReplays /\ replays' = replays + 1
      /\ setup' = setup /\ policy' = policy /\ processes' = processes /\ results' = results /\ report' = report
      /\ disk' = disk
  BY DEF Replay
<1>2. Suites' = Suites /\ Measuring' = Measuring BY <1>1 DEF Suites, Measuring
<1>3. AllRan' BY <1>1, <1>2 DEF PipelineInv, AllRan, SuiteRan
<1>4. /\ RunFit(run', upload') /\ UploadFit(upload') /\ upload'.report = upload.report
      /\ run'.facts.status = deriveRunStatus(upload'.report)
  BY ReplayStores
<1>5. RunKept' BY <1>1, <1>4 DEF RunKept, IsStored, RunFit
<1>6. ReportKept' BY <1>1, <1>2 DEF PipelineInv, ReportKept, Reported
<1>7. UploadKept' BY <1>1, <1>4 DEF PipelineInv, UploadKept, Uploaded
<1>8. ReplayKept' BY <1>1, <1>4 DEF PipelineInv, ReplayKept, Reported
<1>9. replays' \in 0..MaxReplays BY <1>1, PipelineAssumption DEF PipelineInv
<1> QED BY <1>1, <1>3, <1>5, <1>6, <1>7, <1>8, <1>9 DEF PipelineInv, Phases

LEMMA PipelineNext == PipelineInv /\ [Next]_vars => PipelineInv'
<1> SUFFICES ASSUME PipelineInv, [Next]_vars PROVE PipelineInv' OBVIOUS
<1>1. CASE Prepare BY <1>1, PrepareKeeps
<1>2. CASE RunSuite BY <1>2, RunSuiteKeeps
<1>3. CASE Finish BY <1>3, FinishKeeps
<1>4. CASE Publish BY <1>4, PublishKeeps
<1>5. CASE Ingest BY <1>5, IngestKeeps
<1>6. CASE Replay BY <1>6, ReplayKeeps
<1>7. CASE UNCHANGED vars
  <2>1. Suites' = Suites BY <1>7 DEF Suites, vars
  <2> QED BY <1>7, <2>1
          DEF vars, PipelineInv, AllRan, SuiteRan, Measuring, ReportKept, UploadKept, RunKept, ReplayKept, IsStored
<1> QED BY <1>1, <1>2, <1>3, <1>4, <1>5, <1>6, <1>7 DEF Next

-----------------------------------------------------------------------------
LEMMA TypeFollows == PipelineInv => TypeOK
<1> SUFFICES ASSUME PipelineInv PROVE TypeOK OBVIOUS
<1>1. IsList(results) /\ DOMAIN results = 1..Len(results) BY ListIs DEF PipelineInv, AllRan
<1>2. ASSUME NEW i \in DOMAIN results
      PROVE  results[i].id = Suites[i].id /\ \A test \in ToSet(results[i].tests) : test.status \in Statuses
  <2>1. ResultOK(results[i], Suites[i]) BY <1>1 DEF PipelineInv, AllRan, SuiteRan
  <2> QED BY <2>1 DEF ResultOK, NormalTest, ToSet
<1>3. report # None => Len(results) = Len(Suites) BY DEF PipelineInv, ReportKept
<1>4. run # None => phase \in {"stored", "refused"} BY DEF PipelineInv, RunKept, IsStored
<1>5. IsStored => ~IsRefused(run) BY DEF PipelineInv, RunKept
<1> QED BY <1>2, <1>3, <1>4, <1>5 DEF TypeOK, PipelineInv, AllRan

LEMMA FailureFollows == PipelineInv => FailureVisible
<1> SUFFICES ASSUME PipelineInv PROVE FailureVisible OBVIOUS
<1>1. IsList(results) /\ DOMAIN results = 1..Len(results) /\ ToSet(results) = {results[i] : i \in 1..Len(results)}
  BY ListIs DEF PipelineInv, AllRan
<1>2. \A i \in Ran : Suites[i].resultFormat = None /\ exitCode(processes[i].code) # 0 => results[i].status = "failed"
  BY <1>1 DEF Ran, PipelineInv, AllRan, SuiteRan
<1>3. ASSUME report # None, NEW i \in DOMAIN results, NEW p \in DOMAIN report.packages,
             results[i].status = "failed", report.packages[p].name = results[i].package
      PROVE  report.packages[p].status = "failed"
  <2>1. PackagesFit(report.packages, results) BY <1>3 DEF PipelineInv, ReportKept, ReportFits
  <2>2. report.packages[p].name # None BY <2>1 DEF PackagesFit
  <2>3. PackageName(results[i]) = report.packages[p].name BY <1>3, <2>2 DEF PackageName, OrElse
  <2>4. results[i] \in ToSet(report.packages[p].suites) BY <1>1, <2>1, <2>3 DEF PackagesFit
  <2> QED BY <1>3, <2>1, <2>4 DEF PackagesFit
<1>4. ASSUME IsStored
      PROVE  run.facts.status = "failed"
                <=> \E i \in DOMAIN results : \/ results[i].status = "failed"
                                              \/ \E test \in ToSet(results[i].tests) : test.status = "failed"
  <2>1. run.facts.status = deriveRunStatus(upload.report) BY <1>4 DEF PipelineInv, RunKept
  <2>2. "summary" \in DOMAIN upload.report /\ SummaryFits(upload.report.summary, results)
    BY <1>4 DEF PipelineInv, UploadKept, Uploaded, IsStored
  <2>3. run.facts.status = "failed" <=> FailedIn(results) BY <2>1, <2>2, RunStatusIs
  <2> QED BY <1>1, <2>3 DEF FailedIn
<1> QED BY <1>2, <1>3, <1>4 DEF FailureVisible

LEMMA ThresholdsFollow == PipelineInv => ThresholdsEnforced
<1> SUFFICES ASSUME PipelineInv, report # None, Measuring,
                    NEW i \in DOMAIN ThresholdRules(policy), NEW module \in report.modules
             PROVE  RuleEnforced(ThresholdRules(policy), i, module, report.thresholds.verdicts)
  BY DEF ThresholdsEnforced, ThresholdRules, RuleEnforced, Misses, Minima, Measured, Measuring
<1>1. phase \in Reported /\ ReportFits(report, policy, results, Measuring)
  BY DEF PipelineInv, ReportKept
<1>2. PolicyOK(policy) BY <1>1 DEF PipelineInv, Reported
<1>3. report.thresholds = evaluateCoverageThresholds(policy, report.modules, Measuring)
  BY <1>1 DEF ReportFits
<1>4. module.module # None BY <1>1 DEF ReportFits
<1>5. RuleEnforced(ThresholdRules(policy), i, module,
                   evaluateCoverageThresholds(policy, report.modules, Measuring).verdicts)
  BY <1>2, <1>4, ThresholdIs DEF PolicyOK
<1> QED BY <1>3, <1>5

LEMMA EveryReplay ==
    PipelineInv /\ [Next]_vars
        => [replays' # replays => ~IsRefused(Stored(run, upload')) /\ Replayed(run, run')]_vars
<1> SUFFICES ASSUME PipelineInv, [Next]_vars, vars' # vars, replays' # replays
             PROVE  ~IsRefused(Stored(run, upload')) /\ Replayed(run, run') OBVIOUS
<1>1. Replay BY DEF Next, Prepare, RunSuite, Finish, Publish, Ingest, vars
<1> QED BY <1>1, ReplayStores

(* Every process that ran has a result, that of the suite whose turn it     *)
(* was, and every test a status; a report is made of all suites, and what   *)
(* is stored is not refused (runReport, normalizeTestResult, persistRun).   *)
THEOREM TypeCorrect == Spec => []TypeOK
<1>1. Spec => []PipelineInv BY PipelineInit, PipelineNext, PTL DEF Spec
<1> QED BY <1>1, TypeFollows, PTL

(* A runner that fails, fails its suite, a failed suite its package, and a  *)
(* failed suite or test the stored run; a module below a minimum of the     *)
(* manifest has the verdict its last rule calls for.  This is so whatever   *)
(* the runners report and the plugins patch (runReport,                     *)
(* finalizePackageResult, evaluateThresholdRule, deriveRunStatus).          *)
THEOREM FailuresAlwaysEnforced == Spec => []FailuresEnforced
<1>1. Spec => []PipelineInv BY PipelineInit, PipelineNext, PTL DEF Spec
<1>2. PipelineInv => FailuresEnforced BY FailureFollows, ThresholdsFollow DEF FailuresEnforced
<1> QED BY <1>1, <1>2, PTL

(* Replays of a stored run (regenerate-stored-reports.mjs 57-112,           *)
(* service.js 34-58) are accepted, any number of them, one upon the other,  *)
(* for any upload whose report was kept and whatever uploads of other runs  *)
(* leave in the rows of the project and the version: it is the same run of  *)
(* the same project and version, in the same state, with the same tests and *)
(* trend, an overview that shows them, no artifact lost and none made up.   *)
(* How many rows an artifact has is not said: they grow.                    *)
THEOREM ReplayAlwaysKeepsFacts == Spec => ReplayKeepsFacts
<1>1. Spec => []PipelineInv BY PipelineInit, PipelineNext, PTL DEF Spec
<1> QED BY <1>1, EveryReplay, PTL DEF Spec, ReplayKeepsFacts
=============================================================================
