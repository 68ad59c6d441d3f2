--------------------------- MODULE ReadingProofs ---------------------------
(***************************************************************************)
(* What is proved of Reading and of the queries it reads with, for any     *)
(* runs, projects, submissions, lists and scopes.                          *)
(***************************************************************************)
EXTENDS Reading, FiniteSetTheorems, WellFoundedInduction, TLAPS

-----------------------------------------------------------------------------
(* Finite sets have least elements.                                         *)

LEMMA LeastNumber ==
    ASSUME NEW T \in SUBSET Nat, T # {} PROVE \E m \in T : \A n \in T : m <= n
<1>1. PICK m \in T : \A n \in T : ~(<<n, m>> \in OpToRel(<, Nat))
  BY NatLessThanWellFounded, WFMin
<1>2. \A n \in T : ~(n < m) BY <1>1 DEF OpToRel
<1>3. m \in T /\ m \in Nat /\ \A n \in T : n \in Nat OBVIOUS
<1> QED BY <1>2, <1>3

LEMMA Subset ==
    ASSUME NEW S, IsFiniteSet(S), NEW T, T \subseteq S
    PROVE  /\ IsFiniteSet(T) /\ Cardinality(T) \in Nat /\ Cardinality(S) \in Nat
           /\ Cardinality(T) <= Cardinality(S)
           /\ T # S => Cardinality(T) < Cardinality(S)
BY FS_Subset, FS_CardinalityType

(* What a relation puts before a thing. *)
Under(S, R, x) == {y \in S : <<y, x>> \in R}

(* A transitive relation that relates nothing to itself has a least element *)
(* in a finite set: one that the fewest others come before.                *)
LEMMA LeastExists ==
    ASSUME NEW S, IsFiniteSet(S), S # {}, NEW R,
           \A x \in S : <<x, x>> \notin R,
           \A x, y, z \in S : <<x, y>> \in R /\ <<y, z>> \in R => <<x, z>> \in R
    PROVE  \E x \in S : \A y \in S : <<y, x>> \notin R
<1> DEFINE T == {Cardinality(Under(S, R, x)) : x \in S}
<1>1. \A x \in S : Under(S, R, x) \subseteq S BY DEF Under
<1>2. \A x \in S : Cardinality(Under(S, R, x)) \in Nat BY <1>1, Subset
<1>3. T \in SUBSET Nat /\ T # {} BY <1>2
<1>4. PICK m \in T : \A n \in T : m <= n BY <1>3, LeastNumber
<1>5. PICK x \in S : m = Cardinality(Under(S, R, x)) BY <1>4
<1>6. ASSUME NEW y \in S, <<y, x>> \in R PROVE FALSE
  <2>1. /\ Under(S, R, y) \subseteq Under(S, R, x) /\ Under(S, R, y) # Under(S, R, x)
        /\ IsFiniteSet(Under(S, R, x))
    <3>1. Under(S, R, y) \subseteq Under(S, R, x) BY <1>6 DEF Under
    <3>2. y \in Under(S, R, x) /\ y \notin Under(S, R, y) BY <1>6 DEF Under
    <3> QED BY <1>1, <3>1, <3>2, Subset
  <2>2. Cardinality(Under(S, R, y)) < Cardinality(Under(S, R, x)) BY <2>1, Subset
  <2>3. Cardinality(Under(S, R, y)) \in T BY <1>6
  <2>4. m <= Cardinality(Under(S, R, y)) BY <1>4, <2>3
  <2> HIDE DEF T
  <2> QED BY <1>2, <1>5, <1>6, <2>2, <2>4
<1> QED BY <1>6

(* Of rows with distinct numbers one has the largest. *)
LEMMA LatestIs ==
    ASSUME NEW S, IsFiniteSet(S), \A x \in S : x.id \in Int
    PROVE  S # {} => Latest(S) \in S /\ \A y \in S : y.id <= Latest(S).id
<1> SUFFICES ASSUME S # {} PROVE Latest(S) \in S /\ \A y \in S : y.id <= Latest(S).id OBVIOUS
<1> DEFINE R == {p \in S \X S : p[1].id > p[2].id}
<1>1. \A x, y \in S : <<x, y>> \in R <=> x.id > y.id OBVIOUS
<1>2. \E x \in S : \A y \in S : <<y, x>> \notin R
  <2>1. \A x \in S : <<x, x>> \notin R BY <1>1
  <2>2. \A x, y, z \in S : <<x, y>> \in R /\ <<y, z>> \in R => <<x, z>> \in R BY <1>1
  <2> HIDE DEF R
  <2> QED BY <2>1, <2>2, LeastExists
<1>3. \E x \in S : \A y \in S : y.id <= x.id
  <2>1. PICK x \in S : \A y \in S : ~(y.id > x.id) BY <1>1, <1>2
  <2>2. \A y \in S : y.id <= x.id BY <2>1
  <2> QED BY <2>2
<1> QED BY <1>3, Zenon DEF Latest

-----------------------------------------------------------------------------
(* Pages.                                                                   *)

(* The rows are in one line. *)
InLine(S, order) ==
    /\ \A x \in S : ~Before(order, x, x)
    /\ \A x, y, z \in S : Before(order, x, y) /\ Before(order, y, z) => Before(order, x, z)
    /\ \A x, y \in S : x = y \/ Before(order, x, y) \/ Before(order, y, x)

(* T is the beginning of the line. *)
Beginning(T, S, order) ==
    T \subseteq S /\ \A x \in T, y \in S : Before(order, y, x) => y \in T

LEMMA InLineSubset ==
    ASSUME NEW S, NEW order, InLine(S, order), NEW T \in SUBSET S PROVE InLine(T, order)
BY Zenon DEF InLine

LEMMA HeadExists ==
    ASSUME NEW S, IsFiniteSet(S), S # {}, NEW order, InLine(S, order)
    PROVE  \E x \in S : \A y \in S : ~Before(order, y, x)
<1> DEFINE R == {p \in S \X S : Before(order, p[1], p[2])}
<1>1. \A x, y \in S : <<x, y>> \in R <=> Before(order, x, y) OBVIOUS
<1>2. \A x \in S : <<x, x>> \notin R BY <1>1 DEF InLine
<1>3. \A x, y, z \in S : <<x, y>> \in R /\ <<y, z>> \in R => <<x, z>> \in R BY <1>1 DEF InLine
<1>4. \E x \in S : \A y \in S : <<y, x>> \notin R
  <2> HIDE DEF R
  <2> QED BY <1>2, <1>3, LeastExists
<1> QED BY <1>1, <1>4

LEMMA LastIs ==
    ASSUME NEW S, IsFiniteSet(S), S # {}, NEW order, InLine(S, order)
    PROVE  Last(S, order) \in S /\ \A y \in S : y = Last(S, order) \/ Before(order, y, Last(S, order))
<1> DEFINE R == {p \in S \X S : Before(order, p[2], p[1])}
<1>1. \A x, y \in S : <<x, y>> \in R <=> Before(order, y, x) OBVIOUS
<1>2. \A x \in S : <<x, x>> \notin R BY <1>1 DEF InLine
<1>3. \A x, y, z \in S : <<x, y>> \in R /\ <<y, z>> \in R => <<x, z>> \in R BY <1>1 DEF InLine
<1>4. \E x \in S : \A y \in S : <<y, x>> \notin R
  <2> HIDE DEF R
  <2> QED BY <1>2, <1>3, LeastExists
<1>5. \E x \in S : \A y \in S \ {x} : Before(order, y, x) BY <1>1, <1>4 DEF InLine
<1>6. Last(S, order) \in S /\ \A y \in S \ {Last(S, order)} : Before(order, y, Last(S, order))
  BY <1>5, Zenon DEF Last
<1> QED BY <1>6

(* The rows ahead of one. *)
Ahead(S, order, x) == {y \in S : Before(order, y, x)}

LEMMA FirstIs ==
    ASSUME NEW S, IsFiniteSet(S), NEW order, InLine(S, order), NEW n \in Nat
    PROVE  /\ Beginning(First(S, n, order), S, order)
           /\ IsFiniteSet(First(S, n, order)) /\ Cardinality(First(S, n, order)) \in Nat
           /\ n > 0 /\ S # {} => First(S, n, order) # {}
           /\ Cardinality(First(S, n, order)) < n => First(S, n, order) = S
           /\ Cardinality(S) <= n => First(S, n, order) = S
<1> DEFINE F == First(S, n, order)
<1>1. \A x \in S : Ahead(S, order, x) \subseteq S /\ Cardinality(Ahead(S, order, x)) \in Nat
                  /\ IsFiniteSet(Ahead(S, order, x))
  <2>1. \A x \in S : Ahead(S, order, x) \subseteq S BY DEF Ahead
  <2> QED BY <2>1, Subset
<1>2. F = {x \in S : Cardinality(Ahead(S, order, x)) < n} BY Zenon DEF First, Ahead
<1> HIDE DEF F
<1>3. Beginning(F, S, order)
  <2>1. ASSUME NEW x \in F, NEW y \in S, Before(order, y, x) PROVE y \in F
    <3>1. x \in S BY <1>2
    <3>2. Ahead(S, order, y) \subseteq Ahead(S, order, x) BY <2>1, <3>1 DEF InLine, Ahead
    <3>3. Cardinality(Ahead(S, order, y)) <= Cardinality(Ahead(S, order, x)) BY <1>1, <3>1, <3>2, Subset
    <3> QED BY <1>1, <1>2, <2>1, <3>1, <3>3
  <2> QED BY <1>2, <2>1 DEF Beginning
<1>4. IsFiniteSet(F) /\ Cardinality(F) \in Nat BY <1>2, Subset
<1>5. ASSUME n > 0, S # {} PROVE F # {}
  <2>1. PICK x \in S : \A y \in S : ~Before(order, y, x) BY <1>5, HeadExists
  <2>2. Ahead(S, order, x) = {} BY <2>1 DEF Ahead
  <2>3. Cardinality(Ahead(S, order, x)) = 0 BY <2>2, FS_EmptySet
  <2> QED BY <1>2, <1>5, <2>1, <2>3
<1>6. ASSUME Cardinality(F) < n, F # S PROVE FALSE
  <2> DEFINE T == S \ F
  <2>1. T # {} /\ T \subseteq S BY <1>2, <1>6
  <2>2. IsFiniteSet(T) /\ InLine(T, order) BY <2>1, Subset, InLineSubset
  <2>3. PICK x \in T : \A y \in T : ~Before(order, y, x) BY <2>1, <2>2, HeadExists
  <2>4. Ahead(S, order, x) \subseteq F BY <2>3 DEF Ahead
  <2>5. Cardinality(Ahead(S, order, x)) <= Cardinality(F) BY <1>4, <2>4, Subset
  <2> QED BY <1>1, <1>2, <1>4, <1>6, <2>3, <2>5
<1>7. ASSUME Cardinality(S) <= n PROVE F = S
  <2>1. Cardinality(S) \in Nat BY Subset
  <2>2. ASSUME NEW x \in S PROVE x \in F
    <3>1. x \notin Ahead(S, order, x) /\ Ahead(S, order, x) \subseteq S BY <2>2 DEF InLine, Ahead
    <3>2. Cardinality(Ahead(S, order, x)) < Cardinality(S) BY <2>2, <3>1, Subset
    <3> QED BY <1>1, <1>2, <1>7, <2>1, <2>2, <3>2
  <2> QED BY <1>2, <2>2
<1> QED BY <1>3, <1>4, <1>5, <1>6, <1>7 DEF F

(* What a request for a page of the line S answers. *)
IsPage(page, S, order) ==
    /\ Beginning(page.rows, S, order)
    /\ page.hasMore => page.rows # {}
    /\ ~page.hasMore => page.rows = S
    /\ page.rows # {} => /\ page.next \in page.rows
                         /\ \A x \in page.rows : x = page.next \/ Before(order, x, page.next)

(* A page of the rows that were read, one more than it holds. *)
LEMMA PageOfFirst ==
    ASSUME NEW S, IsFiniteSet(S), NEW order, InLine(S, order), NEW n \in Nat \ {0}
    PROVE  IsPage(PageOf(First(S, n + 1, order), n, order), S, order)
<1> DEFINE F == First(S, n + 1, order)
           rows == First(F, n, order)
           page == PageOf(F, n, order)
<1>1. /\ Beginning(F, S, order) /\ IsFiniteSet(F) /\ Cardinality(F) \in Nat
      /\ S # {} => F # {}
      /\ Cardinality(F) < n + 1 => F = S
  BY FirstIs
<1>2. F \subseteq S /\ InLine(F, order) BY <1>1, InLineSubset DEF Beginning
<1> HIDE DEF F
<1>3. /\ Beginning(rows, F, order) /\ IsFiniteSet(rows)
      /\ F # {} => rows # {}
      /\ Cardinality(F) <= n => rows = F
  BY <1>1, <1>2, FirstIs
<1>4. page.rows = rows /\ (page.hasMore <=> Cardinality(F) > n) /\ page.next = Last(rows, order) BY DEF PageOf
<1>5. Beginning(rows, S, order) BY <1>1, <1>3, Zenon DEF Beginning
<1>6. InLine(rows, order) BY <1>2, <1>3, InLineSubset DEF Beginning
<1>7. rows # {} => /\ Last(rows, order) \in rows
                   /\ \A x \in rows : x = Last(rows, order) \/ Before(order, x, Last(rows, order))
  BY <1>3, <1>6, LastIs
<1> HIDE DEF rows, page
<1>8. page.hasMore => rows # {}
  <2>1. ASSUME F = {} PROVE Cardinality(F) = 0 BY <2>1, FS_EmptySet
  <2> QED BY <1>1, <1>3, <1>4, <2>1
<1>9. ~page.hasMore => rows = S BY <1>1, <1>3, <1>4
<1>10. IsPage(page, S, order) BY <1>4, <1>5, <1>7, <1>8, <1>9, Zenon DEF IsPage
<1> QED BY <1>10 DEF page, F

-----------------------------------------------------------------------------
(* Orders.                                                                  *)

Orders == {"newest", "id", "path-asc"} \union ByPct

(* A row has what its order compares. *)
Sortable(order, x) ==
    /\ x.id \in Int
    /\ order = "newest" => x.completedAt \in Nat
    /\ order = "path-asc" => x.path \in Nat
    /\ order \in ByPct => x.linesPct \in Nat \union {None}

LEMMA BeforeIs ==
    ASSUME NEW order \in Orders, NEW a, NEW b, Sortable(order, a), Sortable(order, b)
    PROVE  /\ order = "newest" =>
                (Before(order, a, b) <=> \/ a.completedAt > b.completedAt
                                         \/ a.completedAt = b.completedAt /\ a.id > b.id)
           /\ order = "id" => (Before(order, a, b) <=> a.id < b.id)
           /\ order = "path-asc" => (Before(order, a, b) <=> \/ a.path < b.path
                                                             \/ a.path = b.path /\ a.id < b.id)
           /\ order = "lines-asc" =>
                (Before(order, a, b) <=> \/ a.linesPct # None /\ b.linesPct = None
                                         \/ a.linesPct # None /\ b.linesPct # None /\ a.linesPct < b.linesPct
                                         \/ a.linesPct = b.linesPct /\ a.id < b.id)
           /\ order = "lines-desc" =>
                (Before(order, a, b) <=> \/ a.linesPct # None /\ b.linesPct = None
                                         \/ a.linesPct # None /\ b.linesPct # None /\ a.linesPct > b.linesPct
                                         \/ a.linesPct = b.linesPct /\ a.id < b.id)
           /\ order = "sql-lines-desc" =>
                (Before(order, a, b) <=> \/ a.linesPct = None /\ b.linesPct # None
                                         \/ a.linesPct # None /\ b.linesPct # None /\ a.linesPct > b.linesPct
                                         \/ a.linesPct = b.linesPct /\ a.id < b.id)
<1>1. None \notin Nat BY ReadingAssumption DEF ReadingAssumption
<1> QED BY <1>1 DEF Sortable, Orders, ByPct, Before, PctBefore

LEMMA BeforeOrders ==
    ASSUME NEW order \in Orders
    PROVE  /\ \A a : Sortable(order, a) => ~Before(order, a, a)
           /\ \A a, b, c : /\ Sortable(order, a) /\ Sortable(order, b) /\ Sortable(order, c)
                           /\ Before(order, a, b) /\ Before(order, b, c)
                           => Before(order, a, c)
           /\ \A a, b : /\ Sortable(order, a) /\ Sortable(order, b) /\ a.id # b.id
                        => Before(order, a, b) \/ Before(order, b, a)
<1>1. ASSUME NEW a, Sortable(order, a) PROVE ~Before(order, a, a)
  BY <1>1, BeforeIs DEF Sortable, Orders, ByPct
<1>2. ASSUME NEW a, NEW b, NEW c, Sortable(order, a), Sortable(order, b), Sortable(order, c),
             Before(order, a, b), Before(order, b, c)
      PROVE  Before(order, a, c)
  BY <1>2, BeforeIs DEF Sortable, Orders, ByPct
<1>3. ASSUME NEW a, NEW b, Sortable(order, a), Sortable(order, b), a.id # b.id
      PROVE  Before(order, a, b) \/ Before(order, b, a)
  BY <1>3, BeforeIs DEF Sortable, Orders, ByPct
<1> QED BY <1>1, <1>2, <1>3

(* Rows that have what the order compares, and differ by their ids. *)
LEMMA SortableInLine ==
    ASSUME NEW order \in Orders, NEW S, \A x \in S : Sortable(order, x),
           \A x, y \in S : x.id = y.id => x = y
    PROVE  InLine(S, order)
BY BeforeOrders DEF InLine

-----------------------------------------------------------------------------
(* The tables.                                                              *)

LEMMA Covered ==
    ASSUME NEW S, IsFiniteSet(S), NEW T, NEW f \in [S -> T], \A t \in T : \E s \in S : f[s] = t
    PROVE  IsFiniteSet(T)
<1>1. f \in Surjection(S, T) BY DEF Surjection
<1> QED BY <1>1, FS_Surjection

LEMMA ImageFinite ==
    ASSUME NEW S, IsFiniteSet(S), NEW f, DOMAIN f = S, f = [s \in S |-> f[s]]
    PROVE  IsFiniteSet({f[s] : s \in S})
<1> DEFINE T == {f[s] : s \in S}
<1>1. f \in [S -> T] /\ \A t \in T : \E s \in S : f[s] = t OBVIOUS
<1> HIDE DEF T
<1>2. IsFiniteSet(T) BY <1>1, Covered
<1> QED BY <1>2 DEF T

LEMMA FiniteUnion ==
    ASSUME NEW S, IsFiniteSet(S), NEW f, DOMAIN f = S, f = [s \in S |-> f[s]], \A s \in S : IsFiniteSet(f[s])
    PROVE  IsFiniteSet(UNION {f[s] : s \in S})
<1> DEFINE T == {f[s] : s \in S}
<1>1. IsFiniteSet(T) BY ImageFinite
<1>2. \A t \in T : IsFiniteSet(t) OBVIOUS
<1> HIDE DEF T
<1>3. IsFiniteSet(UNION T) BY <1>1, <1>2, FS_UNION
<1> QED BY <1>3 DEF T

ArtifactOf(c, a) == [id |-> a.id, run |-> Content[c].run, sub |-> ReportSubmissionId(c), test |-> a.test, word |-> a.word]
FileOf(c, f) == [id |-> f.id, snapshot |-> c, path |-> f.path, linesPct |-> f.linesPct, package |-> f.package]

(* The rows of the tables that lists are of have their types and their own  *)
(* keys, and there are finitely many.                                      *)
LEMMA TestRows ==
    ASSUME stored \subseteq Contents
    PROVE  /\ TestExecution \subseteq TestType /\ IsFiniteSet(TestExecution)
           /\ \A t, u \in TestExecution : t.id = u.id => t = u
<1>1. \A c \in Contents : /\ IsFiniteSet(Content[c].tests) /\ Content[c].tests \subseteq TestType
                          /\ \A d \in Contents : \A t \in Content[c].tests, u \in Content[d].tests : t.id = u.id => t = u
  BY QueriesAssumption DEF QueriesAssumption, ContentType, KeysApart
<1>2. IsFiniteSet(stored) BY FS_Subset, QueriesAssumption DEF QueriesAssumption
<1>3. PICK f : f = [c \in stored |-> Content[c].tests] OBVIOUS
<1>4. IsFiniteSet(UNION {f[c] : c \in stored}) BY <1>1, <1>2, <1>3, FiniteUnion
<1>5. TestExecution = UNION {f[c] : c \in stored} BY <1>3 DEF TestExecution
<1>6. \A t \in TestExecution : \E c \in Contents : t \in Content[c].tests BY DEF TestExecution
<1> QED BY <1>1, <1>4, <1>5, <1>6

LEMMA ArtifactRows ==
    ASSUME stored \subseteq Contents
    PROVE  /\ Artifact \subseteq ArtifactRow /\ IsFiniteSet(Artifact)
           /\ \A a, b \in Artifact : a.id = b.id => a = b
<1>1. \A c \in Contents :
         /\ Content[c].run \in Runs /\ ReportSubmissionId(c) \in Contents \union {None}
         /\ IsFiniteSet(Content[c].artifacts) /\ Content[c].artifacts \subseteq ArtifactType
         /\ \A d \in Contents : \A a \in Content[c].artifacts, b \in Content[d].artifacts : a.id = b.id => a = b /\ c = d
  BY QueriesAssumption DEF QueriesAssumption, ContentType, KeysApart, ReportSubmissionId
<1>2. IsFiniteSet(stored) BY FS_Subset, QueriesAssumption DEF QueriesAssumption
<1>3. PICK f : f = [c \in stored |-> {ArtifactOf(c, a) : a \in Content[c].artifacts}] OBVIOUS
<1>4. \A c \in stored : f[c] = {ArtifactOf(c, a) : a \in Content[c].artifacts} BY <1>3
<1>5. ASSUME NEW c \in stored PROVE IsFiniteSet(f[c])
  <2>1. PICK g : g = [a \in Content[c].artifacts |-> ArtifactOf(c, a)] OBVIOUS
  <2>2. IsFiniteSet({g[a] : a \in Content[c].artifacts}) BY <1>1, <2>1, ImageFinite
  <2>3. f[c] = {g[a] : a \in Content[c].artifacts} BY <1>4, <2>1
  <2> QED BY <2>2, <2>3
<1>6. IsFiniteSet(UNION {f[c] : c \in stored}) BY <1>2, <1>3, <1>5, FiniteUnion
<1>7. Artifact = UNION {f[c] : c \in stored} BY <1>4 DEF Artifact, ArtifactOf
<1>8. \A x \in Artifact : \E c \in stored : \E a \in Content[c].artifacts : x = ArtifactOf(c, a)
  BY <1>4, <1>7
<1>9. Artifact \subseteq ArtifactRow
  <2>1. ASSUME NEW c \in stored, NEW a \in Content[c].artifacts PROVE ArtifactOf(c, a) \in ArtifactRow
    <3>1. a \in ArtifactType /\ c \in Contents BY <1>1
    <3> QED BY <1>1, <3>1 DEF ArtifactOf, ArtifactRow, ArtifactType
  <2> QED BY <1>8, <2>1
<1>10. ASSUME NEW x \in Artifact, NEW y \in Artifact, x.id = y.id PROVE x = y
  <2>1p. PICK c \in stored : \E a \in Content[c].artifacts : x = ArtifactOf(c, a) BY <1>8
  <2>1. PICK a \in Content[c].artifacts : x = ArtifactOf(c, a) BY <2>1p
  <2>2p. PICK d \in stored : \E b \in Content[d].artifacts : y = ArtifactOf(d, b) BY <1>8
  <2>2. PICK b \in Content[d].artifacts : y = ArtifactOf(d, b) BY <2>2p
  <2>3. a.id = b.id BY <1>10, <2>1, <2>2 DEF ArtifactOf
  <2> QED BY <1>1, <2>1, <2>2, <2>3
<1> QED BY <1>6, <1>7, <1>9, <1>10

LEMMA FileRows ==
    ASSUME stored \subseteq Contents
    PROVE  /\ CoverageFile \subseteq FileRow /\ IsFiniteSet(CoverageFile)
           /\ \A f, g \in CoverageFile : f.id = g.id => f = g
           /\ \A x \in CoverageFile : \E c \in stored : \E f \in Content[c].files : x = FileOf(c, f)
<1>1. \A c \in Contents :
         /\ IsFiniteSet(Content[c].files) /\ Content[c].files \subseteq FileType
         /\ \A d \in Contents : \A f \in Content[c].files, g \in Content[d].files : f.id = g.id => f = g /\ c = d
  BY QueriesAssumption DEF QueriesAssumption, ContentType, KeysApart
<1>2. IsFiniteSet(stored) BY FS_Subset, QueriesAssumption DEF QueriesAssumption
<1>3. PICK h : h = [c \in stored |-> {FileOf(c, f) : f \in Content[c].files}] OBVIOUS
<1>4. \A c \in stored : h[c] = {FileOf(c, f) : f \in Content[c].files} BY <1>3
<1>5. ASSUME NEW c \in stored PROVE IsFiniteSet(h[c])
  <2>1. PICK g : g = [f \in Content[c].files |-> FileOf(c, f)] OBVIOUS
  <2>2. IsFiniteSet({g[f] : f \in Content[c].files}) BY <1>1, <2>1, ImageFinite
  <2>3. h[c] = {g[f] : f \in Content[c].files} BY <1>4, <2>1
  <2> QED BY <2>2, <2>3
<1>6. IsFiniteSet(UNION {h[c] : c \in stored}) BY <1>2, <1>3, <1>5, FiniteUnion
<1>7. CoverageFile = UNION {h[c] : c \in stored} BY <1>4 DEF CoverageFile, FileOf
<1>8. \A x \in CoverageFile : \E c \in stored : \E f \in Content[c].files : x = FileOf(c, f)
  BY <1>4, <1>7
<1>9. CoverageFile \subseteq FileRow
  <2>1. ASSUME NEW c \in stored, NEW f \in Content[c].files PROVE FileOf(c, f) \in FileRow
    <3>1. f \in FileType /\ c \in Contents BY <1>1
    <3> QED BY <3>1 DEF FileOf, FileRow, FileType
  <2> QED BY <1>8, <2>1
<1>10. ASSUME NEW x \in CoverageFile, NEW y \in CoverageFile, x.id = y.id PROVE x = y
  <2>1p. PICK c \in stored : \E f \in Content[c].files : x = FileOf(c, f) BY <1>8
  <2>1. PICK f \in Content[c].files : x = FileOf(c, f) BY <2>1p
  <2>2p. PICK d \in stored : \E g \in Content[d].files : y = FileOf(d, g) BY <1>8
  <2>2. PICK g \in Content[d].files : y = FileOf(d, g) BY <2>2p
  <2>3. f.id = g.id BY <1>10, <2>1, <2>2 DEF FileOf
  <2> QED BY <1>1, <2>1, <2>2, <2>3
<1> QED BY <1>6, <1>7, <1>8, <1>9, <1>10

-----------------------------------------------------------------------------
(* The rows of the lists.                                                   *)

LEMMA PageType ==
    ASSUME NEW S, IsFiniteSet(S), NEW order, InLine(S, order), NEW n \in Nat \ {0}
    PROVE  PageOf(S, n, order).rows \subseteq S /\ PageOf(S, n, order).next \in S \union {None}
<1> DEFINE rows == First(S, n, order)
<1>1. /\ rows \subseteq S /\ IsFiniteSet(rows) /\ InLine(rows, order)
  BY FirstIs, InLineSubset DEF Beginning
<1>2. Last(rows, order) \in S \union {None}
  <2>1. CASE rows = {} BY <2>1 DEF Last
  <2>2. CASE rows # {}
    <3> HIDE DEF rows
    <3>1. Last(rows, order) \in rows BY <1>1, <2>2, LastIs
    <3> QED BY <1>1, <3>1
  <2> QED BY <2>1, <2>2
<1>3. PageOf(S, n, order).rows = rows /\ PageOf(S, n, order).next = Last(rows, order) BY DEF PageOf
<1> QED BY <1>1, <1>2, <1>3

LEMMA NoPage ==
    ASSUME NEW order PROVE IsPage([rows |-> {}, hasMore |-> FALSE, next |-> None], {}, order)
BY DEF IsPage, Beginning

LEMMA RowsSortable ==
    /\ \A x \in FeedRow : Sortable("newest", x)
    /\ \A x \in TestType \union ArtifactRow : Sortable("id", x)
    /\ \A x \in FileRow, order \in Orders \ {"newest"} : Sortable(order, x)
<1>1. \A x \in FeedRow : Sortable("newest", x)
  BY QueriesAssumption DEF QueriesAssumption, FeedRow, Sortable, ByPct
<1>2. \A x \in TestType \union ArtifactRow : Sortable("id", x)
  BY DEF TestType, ArtifactRow, Sortable, ByPct
<1>3. \A x \in FileRow, order \in Orders \ {"newest"} : Sortable(order, x)
  BY DEF FileRow, Sortable, ByPct, Orders
<1> QED BY <1>1, <1>2, <1>3

(* The rows of the tables have their types. *)
Tables ==
    /\ run \in [Runs -> RunType \union {None}]
    /\ overview \in [Runs -> OverviewType \union {None}]
    /\ submission \in [Contents -> {"active", "superseded", None}]
    /\ stored \subseteq Contents

(* A run with a projection is stored, and one of its submissions is known. *)
Projected ==
    \A r \in Runs : overview[r] # None => /\ run[r] # None
                                          /\ \E c \in Contents : Content[c].run = r /\ submission[c] # None

LEMMA FeedRowsType ==
    ASSUME Tables, Projected
    PROVE  /\ \A r \in Runs : overview[r] # None => OverviewRow(r) \in FeedRow /\ OverviewRow(r).id = r
                                                    /\ overview[r].completedAt # None
           /\ FeedRows \subseteq FeedRow /\ IsFiniteSet(FeedRows)
           /\ \A x, y \in FeedRows : x.id = y.id => x = y
<1>1. ASSUME NEW r \in Runs, overview[r] # None
      PROVE  OverviewRow(r) \in FeedRow /\ OverviewRow(r).id = r /\ overview[r].completedAt # None
  <2>1. run[r] \in RunType /\ overview[r] \in OverviewType BY <1>1 DEF Tables, Projected
  <2>2. None \notin Nat BY ReadingAssumption DEF ReadingAssumption
  <2> QED BY <2>1, <2>2 DEF OverviewRow, RunType, OverviewType, FeedRow
<1>2. \A x \in FeedRows : \E r \in Runs : overview[r] # None /\ x = OverviewRow(r) BY DEF FeedRows
<1>3. IsFiniteSet(FeedRows)
  <2> DEFINE S == {x \in Runs : overview[x] # None}
  <2>1. IsFiniteSet(S) BY FS_Subset, QueriesAssumption DEF QueriesAssumption
  <2>2. PICK f : f = [r \in S |-> OverviewRow(r)] OBVIOUS
  <2>3. IsFiniteSet({f[r] : r \in S}) BY <2>1, <2>2, ImageFinite
  <2>4. FeedRows = {f[r] : r \in S} BY <2>2 DEF FeedRows
  <2> QED BY <2>3, <2>4
<1> QED BY <1>1, <1>2, <1>3

LEMMA SelectedInLine ==
    ASSUME Tables, Projected
    PROVE  /\ \A S : S \subseteq FeedRows => IsFiniteSet(S) /\ InLine(S, "newest")
           /\ \A S : S \subseteq TestExecution => IsFiniteSet(S) /\ InLine(S, "id")
           /\ \A S : S \subseteq Artifact => IsFiniteSet(S) /\ InLine(S, "id")
           /\ \A S : S \subseteq CoverageFile =>
                  IsFiniteSet(S) /\ \A order \in Orders \ {"newest"} : InLine(S, order)
<1>1. stored \subseteq Contents BY DEF Tables
<1>2. "newest" \in Orders /\ "id" \in Orders BY DEF Orders
<1>3. ASSUME NEW S, S \subseteq FeedRows PROVE IsFiniteSet(S) /\ InLine(S, "newest")
  BY <1>2, <1>3, FeedRowsType, FS_Subset, RowsSortable, SortableInLine
<1>4. ASSUME NEW S, S \subseteq TestExecution PROVE IsFiniteSet(S) /\ InLine(S, "id")
  BY <1>1, <1>2, <1>4, TestRows, FS_Subset, RowsSortable, SortableInLine
<1>5. ASSUME NEW S, S \subseteq Artifact PROVE IsFiniteSet(S) /\ InLine(S, "id")
  BY <1>1, <1>2, <1>5, ArtifactRows, FS_Subset, RowsSortable, SortableInLine
<1>6. ASSUME NEW S, S \subseteq CoverageFile
      PROVE  IsFiniteSet(S) /\ \A order \in Orders \ {"newest"} : InLine(S, order)
  <2>1. IsFiniteSet(S) /\ S \subseteq FileRow /\ \A x, y \in S : x.id = y.id => x = y
    BY <1>1, <1>6, FileRows, FS_Subset
  <2>2. ASSUME NEW order \in Orders \ {"newest"} PROVE InLine(S, order)
    <3>1. \A x \in S : Sortable(order, x) BY <2>1, RowsSortable
    <3> QED BY <2>1, <3>1, SortableInLine
  <2> QED BY <2>1, <2>2
<1> QED BY <1>3, <1>4, <1>5, <1>6

-----------------------------------------------------------------------------
(* Each list: the page that is answered is a page of what comes after the   *)
(* cursor.                                                                 *)

(* The rows after a cursor. *)
Beyond(S, after, order) == {x \in S : after = None \/ Before(order, after, x)}

(* The runs of a project, or of all, with a status, or any. *)
RunsShown(p, status) ==
    {OverviewRow(r) : r \in {x \in Runs : /\ overview[x] # None /\ p \in {None, RunProject[x]}
                                          /\ status \in {None, overview[x].status}}}

LEMMA RunsShownRows ==
    ASSUME NEW p, NEW status PROVE RunsShown(p, status) \subseteq FeedRows
BY DEF RunsShown, FeedRows

LEMMA ListRunsIs ==
    ASSUME Tables, Projected, NEW q, NEW bare, bare = [q EXCEPT !.search = None],
           bare.search = None, bare.status = q.status, q.search = None,
           q.after = None \/ Sortable("newest", q.after)
    PROVE  listRuns(Projects, q) = First(Beyond(RunsShown(q.project, q.status), q.after, "newest"), q.limit, "newest")
<1> DEFINE projects == {p \in listProjects(Projects) : q.project \in {None, p}}
           rows == {OverviewRow(r) : r \in {x \in Runs : /\ overview[x] # None
                                                         /\ RunProject[x] \in projects
                                                         /\ overview[x].completedAt # None}}
           asked == {x \in rows : FeedWhere(x, q)}
<1>1. listRuns(Projects, q) = First(asked, q.limit, "newest") BY Zenon DEF listRuns
<1>2. rows = {OverviewRow(r) : r \in {x \in Runs : overview[x] # None /\ q.project \in {None, RunProject[x]}}}
  BY FeedRowsType, QueriesAssumption DEF QueriesAssumption, listProjects
<1>3. \A x \in rows : \E r \in Runs : overview[r] # None /\ q.project \in {None, RunProject[r]} /\ x = OverviewRow(r)
  BY <1>2
<1>4. \A r \in Runs : OverviewRow(r).status = overview[r].status BY DEF OverviewRow
<1>5. ASSUME NEW x \in rows
      PROVE  FeedWhere(x, q) <=> /\ q.status \in {None, x.status}
                                 /\ q.after = None \/ Before("newest", q.after, x)
  <2>1. x \in FeedRow BY <1>3, <1>5, FeedRowsType
  <2>2. OverviewMatches(x, q) <=> q.status \in {None, x.status} BY DEF OverviewMatches
  <2>3. OverviewMatches(x, bare) <=> q.status \in {None, x.status} BY DEF OverviewMatches
  <2>4. q.after # None => (AfterRun(x, q.after) <=> Before("newest", q.after, x))
    <3> SUFFICES ASSUME q.after # None PROVE AfterRun(x, q.after) <=> Before("newest", q.after, x) OBVIOUS
    <3>1. Sortable("newest", q.after) /\ Sortable("newest", x) /\ "newest" \in Orders
      BY <2>1, RowsSortable DEF Orders
    <3>2. Before("newest", q.after, x) <=> \/ q.after.completedAt > x.completedAt
                                           \/ q.after.completedAt = x.completedAt /\ q.after.id > x.id
      BY <3>1, BeforeIs
    <3> QED BY <3>1, <3>2 DEF AfterRun, Sortable
  <2>5. FeedWhere(x, q) <=> IF q.after = None THEN OverviewMatches(x, q)
                            ELSE OverviewMatches(x, bare) /\ AfterRun(x, q.after)
    BY Zenon DEF FeedWhere
  <2> QED BY <2>2, <2>3, <2>4, <2>5
<1>6. asked = Beyond(RunsShown(q.project, q.status), q.after, "newest")
  <2>1. ASSUME NEW x PROVE x \in asked => x \in Beyond(RunsShown(q.project, q.status), q.after, "newest")
    <3> SUFFICES ASSUME x \in asked PROVE x \in Beyond(RunsShown(q.project, q.status), q.after, "newest") OBVIOUS
    <3>1. x \in rows /\ FeedWhere(x, q) OBVIOUS
    <3>2. PICK r \in Runs : overview[r] # None /\ q.project \in {None, RunProject[r]} /\ x = OverviewRow(r)
      BY <1>3, <3>1
    <3>3. q.status \in {None, overview[r].status} /\ (q.after = None \/ Before("newest", q.after, x))
      BY <1>4, <1>5, <3>1, <3>2
    <3> HIDE DEF rows
    <3> QED BY <3>2, <3>3 DEF Beyond, RunsShown
  <2>2. ASSUME NEW x PROVE x \in Beyond(RunsShown(q.project, q.status), q.after, "newest") => x \in asked
    <3> SUFFICES ASSUME x \in Beyond(RunsShown(q.project, q.status), q.after, "newest") PROVE x \in asked OBVIOUS
    <3>1. x \in RunsShown(q.project, q.status) /\ (q.after = None \/ Before("newest", q.after, x)) BY DEF Beyond
    <3>2. PICK r \in Runs : /\ overview[r] # None /\ q.project \in {None, RunProject[r]}
                            /\ q.status \in {None, overview[r].status} /\ x = OverviewRow(r)
      BY <3>1 DEF RunsShown
    <3>3. x \in rows BY <1>2, <3>2
    <3>4. FeedWhere(x, q) BY <1>4, <1>5, <3>1, <3>2, <3>3
    <3> QED BY <3>3, <3>4
  <2> HIDE DEF asked
  <2> QED BY <2>1, <2>2
<1> QED BY <1>1, <1>6

LEMMA RunFeedPageIs ==
    ASSUME Tables, Projected, NEW q, NEW sized, sized = [q EXCEPT !.limit = PageSize + 1],
           sized.limit = PageSize + 1, sized.search = None, sized.project = q.project,
           sized.status = q.status, sized.after = q.after,
           [sized EXCEPT !.search = None].search = None, [sized EXCEPT !.search = None].status = q.status,
           q.after = None \/ Sortable("newest", q.after)
    PROVE  IsPage(RunFeedPage(q), Beyond(RunsShown(q.project, q.status), q.after, "newest"), "newest")
<1> DEFINE S == Beyond(RunsShown(q.project, q.status), q.after, "newest")
<1>1. PICK bare : bare = [sized EXCEPT !.search = None] OBVIOUS
<1>2. listRuns(Projects, sized) = First(S, PageSize + 1, "newest") BY <1>1, ListRunsIs
<1>3. S \subseteq FeedRows BY RunsShownRows DEF Beyond
<1>4. IsFiniteSet(S) /\ InLine(S, "newest") BY <1>3, SelectedInLine
<1>5. PageSize \in Nat \ {0} BY QueriesAssumption DEF QueriesAssumption
<1>6. RunFeedPage(q) = PageOf(First(S, PageSize + 1, "newest"), PageSize, "newest") BY <1>2 DEF RunFeedPage
<1> HIDE DEF S
<1>7. IsPage(PageOf(First(S, PageSize + 1, "newest"), PageSize, "newest"), S, "newest")
  BY <1>4, <1>5, PageOfFirst
<1> QED BY <1>6, <1>7 DEF S

(* A query with a cursor is what it was beside it. *)
SameBut(q, query) ==
    /\ q.list = query.list /\ q.run = query.run /\ q.suite = query.suite /\ q.project = query.project
    /\ q.status = query.status /\ q.search = query.search /\ q.sort = query.sort /\ q.order = query.order

At(query, after) == [query EXCEPT !.after = after]
Sized(query, n) == [query EXCEPT !.limit = n]
Bare(query) == [query EXCEPT !.search = None]

LEMMA QueryFields ==
    ASSUME NEW query \in Lists, NEW after, NEW n
    PROVE  /\ SameBut(At(query, after), query) /\ At(query, after).after = after
           /\ SameBut(Sized(At(query, after), n), query)
           /\ Sized(At(query, after), n).after = after /\ Sized(At(query, after), n).limit = n
           /\ Bare(Sized(At(query, after), n)).search = None
           /\ Bare(Sized(At(query, after), n)).status = query.status
<1> DEFINE q == At(query, after)
           sized == Sized(q, n)
<1>1. query \in QueryType BY ReadingAssumption DEF ReadingAssumption
<1>2. query = [list |-> query.list, run |-> query.run, suite |-> query.suite, project |-> query.project,
               status |-> query.status, search |-> query.search, after |-> query.after,
               limit |-> query.limit, sort |-> query.sort, order |-> query.order]
  BY <1>1 DEF QueryType
<1>3. q = [list |-> query.list, run |-> query.run, suite |-> query.suite, project |-> query.project,
           status |-> query.status, search |-> query.search, after |-> after,
           limit |-> query.limit, sort |-> query.sort, order |-> query.order]
  BY <1>2 DEF At
<1>4. sized = [list |-> query.list, run |-> query.run, suite |-> query.suite, project |-> query.project,
               status |-> query.status, search |-> query.search, after |-> after,
               limit |-> n, sort |-> query.sort, order |-> query.order]
  BY <1>3 DEF Sized
<1>5. Bare(sized) = [list |-> query.list, run |-> query.run, suite |-> query.suite, project |-> query.project,
                     status |-> query.status, search |-> None, after |-> after,
                     limit |-> n, sort |-> query.sort, order |-> query.order]
  BY <1>4 DEF Bare
<1> HIDE DEF q, sized
<1>6. SameBut(q, query) /\ q.after = after BY <1>3 DEF SameBut
<1>7. SameBut(sized, query) /\ sized.after = after /\ sized.limit = n BY <1>4 DEF SameBut
<1>8. Bare(sized).search = None /\ Bare(sized).status = query.status BY <1>5
<1> QED BY <1>6, <1>7, <1>8 DEF q, sized

StoredRuns == \A c \in stored : run[Content[c].run] # None

(* The page of a list, which is read without a search. *)
LEMMA RunPages ==
    ASSUME Tables, Projected, NEW query \in Lists, query.list = "runs", query.search = None,
           NEW after, after = None \/ Sortable("newest", after)
    PROVE  IsPage(ListPage([query EXCEPT !.after = after]), Beyond(Listed(query), after, "newest"), "newest")
<1>1. PICK q : q = At(query, after) OBVIOUS
<1>2. PICK sized : sized = Sized(q, PageSize + 1) OBVIOUS
<1>3. /\ SameBut(q, query) /\ q.after = after
      /\ SameBut(sized, query) /\ sized.after = after /\ sized.limit = PageSize + 1
      /\ Bare(sized).search = None /\ Bare(sized).status = query.status
  BY <1>1, <1>2, QueryFields
<1>4. ListPage(q) = RunFeedPage(q) BY <1>3 DEF ListPage, SameBut
<1>5. Listed(query) = RunsShown(query.project, query.status)
  <2>1. \A r \in Runs : OverviewRow(r).status = overview[r].status BY DEF OverviewRow
  <2>2. \A r \in Runs : OverviewMatches(OverviewRow(r), query) <=> query.status \in {None, overview[r].status}
    BY <2>1 DEF OverviewMatches
  <2>3. \A r \in Runs : RunProject[r] \in listProjects(Projects)
    BY QueriesAssumption DEF QueriesAssumption, listProjects
  <2>4. Listed(query) = {OverviewRow(r) : r \in {x \in Runs : /\ overview[x] # None
                                                              /\ RunProject[x] \in listProjects(Projects)
                                                              /\ query.project \in {None, RunProject[x]}
                                                              /\ OverviewMatches(OverviewRow(x), query)}}
    BY DEF Listed
  <2>5. {x \in Runs : /\ overview[x] # None
                      /\ RunProject[x] \in listProjects(Projects)
                      /\ query.project \in {None, RunProject[x]}
                      /\ OverviewMatches(OverviewRow(x), query)}
        = {x \in Runs : /\ overview[x] # None /\ query.project \in {None, RunProject[x]}
                        /\ query.status \in {None, overview[x].status}}
    BY <2>2, <2>3
  <2> QED BY <2>4, <2>5 DEF RunsShown
<1>6. IsPage(RunFeedPage(q), Beyond(RunsShown(query.project, query.status), after, "newest"), "newest")
  BY <1>2, <1>3, RunFeedPageIs DEF SameBut, Sized, Bare
<1> QED BY <1>1, <1>4, <1>5, <1>6 DEF At

LEMMA SuitePages ==
    ASSUME Tables, Projected, StoredRuns, NEW query \in Lists, query.list = "suite", query.search = None,
           NEW after, after = None \/ Sortable("id", after)
    PROVE  IsPage(ListPage([query EXCEPT !.after = after]), Beyond(Listed(query), after, "id"), "id")
<1>1. PICK q : q = At(query, after) OBVIOUS
<1>2. PICK sized : sized = Sized(q, PageSize + 1) OBVIOUS
<1>3. /\ SameBut(q, query) /\ q.after = after
      /\ SameBut(sized, query) /\ sized.after = after /\ sized.limit = PageSize + 1
  BY <1>1, <1>2, QueryFields
<1>4. ListPage(q) = SuitePage(q) BY <1>3 DEF ListPage, SameBut
<1>5. Listed(query) = {t \in TestExecution : t.suite = query.suite /\ query.status \in {None, t.status}} BY DEF Listed
<1>6. PICK S : S = Beyond(Listed(query), after, "id") OBVIOUS
<1>7. \A t \in TestExecution : after = None \/ (t.id > after.id <=> Before("id", after, t))
  <2> SUFFICES ASSUME NEW t \in TestExecution, after # None PROVE t.id > after.id <=> Before("id", after, t) OBVIOUS
  <2>1. Sortable("id", t) /\ Sortable("id", after) /\ "id" \in Orders
    BY TestRows, RowsSortable DEF Tables, Orders
  <2>2. Before("id", after, t) <=> after.id < t.id BY <2>1, BeforeIs
  <2> QED BY <2>1, <2>2 DEF Sortable
<1>8. listTestsForSuiteRun(Projects, q.run, q.suite, sized) = First(S, PageSize + 1, "id")
  <2>1. CASE \E s \in SuiteRun : s.id = q.suite /\ s.run = q.run /\ Found(Projects, q.run)
    <3>1. listTestsForSuiteRun(Projects, q.run, q.suite, sized)
            = First({t \in TestExecution : /\ t.suite = q.suite
                                           /\ sized.after = None \/ t.id > sized.after.id
                                           /\ sized.status \in {None, t.status}
                                           /\ sized.search = None \/ sized.search = t.word},
                    sized.limit, "id")
      BY <2>1, Zenon DEF listTestsForSuiteRun
    <3>2. {t \in TestExecution : /\ t.suite = q.suite
                                 /\ sized.after = None \/ t.id > sized.after.id
                                 /\ sized.status \in {None, t.status}
                                 /\ sized.search = None \/ sized.search = t.word} = S
      BY <1>3, <1>5, <1>6, <1>7 DEF Beyond, SameBut
    <3> QED BY <1>3, <3>1, <3>2
  <2>2. CASE ~ \E s \in SuiteRun : s.id = q.suite /\ s.run = q.run /\ Found(Projects, q.run)
    <3>1. listTestsForSuiteRun(Projects, q.run, q.suite, sized) = {} BY <2>2, Zenon DEF listTestsForSuiteRun
    <3>2. ASSUME NEW t \in Listed(query) PROVE FALSE
      <4>1. t \in TestExecution /\ t.suite = query.suite BY <1>5, <3>2
      <4>2. PICK c \in stored : t \in Content[c].tests BY <4>1 DEF TestExecution
      <4>3. c \in Contents /\ Content[c].run \in Runs
        BY QueriesAssumption DEF QueriesAssumption, ContentType, Tables
      <4>4. PICK s \in Content[c].suites : s.id = t.suite
        <5>1. \A d \in Contents : \A u \in Content[d].tests : \E s \in Content[d].suites : s.id = u.suite
          BY QueriesAssumption DEF QueriesAssumption, KeysApart
        <5> QED BY <4>2, <4>3, <5>1
      <4>5. Content[c].run = query.run
        BY <4>1, <4>3, <4>4, ReadingAssumption DEF ReadingAssumption, QueryOK
      <4>6. Found(Projects, query.run)
        BY <4>3, <4>5, QueriesAssumption DEF QueriesAssumption, StoredRuns, Found, listProjects
      <4>7. PICK row : row = [id |-> s.id, run |-> Content[c].run, sub |-> ReportSubmissionId(c), package |-> s.package]
        OBVIOUS
      <4>8. row \in SuiteRun BY <4>7 DEF SuiteRun
      <4>9. row.id = query.suite /\ row.run = query.run BY <4>1, <4>4, <4>5, <4>7
      <4> QED BY <1>3, <2>2, <4>6, <4>8, <4>9 DEF SameBut
    <3>3. S = {} BY <1>6, <3>2 DEF Beyond
    <3>4. First(S, PageSize + 1, "id") = {} BY <3>3 DEF First
    <3> QED BY <3>1, <3>4
  <2> QED BY <2>1, <2>2
<1>9. SuitePage(q) = PageOf(First(S, PageSize + 1, "id"), PageSize, "id") BY <1>2, <1>8, Zenon DEF SuitePage, Sized
<1>10. IsFiniteSet(S) /\ InLine(S, "id")
  <2>1. S \subseteq TestExecution BY <1>5, <1>6 DEF Beyond
  <2> QED BY <2>1, SelectedInLine
<1>11. PageSize \in Nat \ {0} BY QueriesAssumption DEF QueriesAssumption
<1>12. IsPage(SuitePage(q), S, "id") BY <1>9, <1>10, <1>11, PageOfFirst
<1> QED BY <1>1, <1>4, <1>6, <1>12 DEF At

LEMMA FailurePages ==
    ASSUME Tables, Projected, NEW query \in Lists, query.list = "failures", query.search = None,
           NEW after, after = None \/ Sortable("id", after)
    PROVE  IsPage(ListPage([query EXCEPT !.after = after]), Beyond(Listed(query), after, "id"), "id")
<1>1. PICK q : q = At(query, after) OBVIOUS
<1>2. SameBut(q, query) /\ q.after = after BY <1>1, QueryFields
<1>3. PICK L : L = FailuresMatching(Projects, query.run, query) OBVIOUS
<1>4. L = FailuresMatching(Projects, q.run, q) BY <1>2, <1>3, Zenon DEF FailuresMatching, SameBut
<1>5. Listed(query) = L BY <1>3 DEF Listed
<1>6. L \subseteq TestExecution
  <2>1. L \subseteq listTestsForRun(Projects, query.run, [Everything EXCEPT !.status = "failed"])
    BY <1>3, Zenon DEF FailuresMatching
  <2>2. \A actor, r, x : listTestsForRun(actor, r, x) \subseteq TestExecution BY Zenon DEF listTestsForRun
  <2> QED BY <2>1, <2>2, Zenon
<1>7. PICK S : S = Beyond(L, after, "id") OBVIOUS
<1>8. \A t \in TestExecution : after = None \/ (t.id > after.id <=> Before("id", after, t))
  <2> SUFFICES ASSUME NEW t \in TestExecution, after # None PROVE t.id > after.id <=> Before("id", after, t) OBVIOUS
  <2>1. Sortable("id", t) /\ Sortable("id", after) /\ "id" \in Orders
    BY TestRows, RowsSortable DEF Tables, Orders
  <2>2. Before("id", after, t) <=> after.id < t.id BY <2>1, BeforeIs
  <2> QED BY <2>1, <2>2 DEF Sortable
<1>9. {t \in L : q.after = None \/ t.id > q.after.id} = S BY <1>2, <1>6, <1>7, <1>8 DEF Beyond
<1>10. listRunFailures(Projects, q.run, q) = PageOf(First(S, PageSize + 1, "id"), PageSize, "id")
  BY <1>4, <1>9, Zenon DEF listRunFailures
<1>11. ListPage(q) = listRunFailures(Projects, q.run, q) BY <1>2 DEF ListPage, SameBut
<1>12. IsFiniteSet(S) /\ InLine(S, "id")
  <2>1. S \subseteq TestExecution BY <1>6, <1>7 DEF Beyond
  <2> QED BY <2>1, SelectedInLine
<1>13. PageSize \in Nat \ {0} BY QueriesAssumption DEF QueriesAssumption
<1>14. IsPage(ListPage(q), S, "id") BY <1>10, <1>11, <1>12, <1>13, PageOfFirst
<1> QED BY <1>1, <1>5, <1>7, <1>14 DEF At

LEMMA ArtifactPages ==
    ASSUME Tables, Projected, NEW query \in Lists, query.list = "artifacts", query.search = None,
           NEW after, after = None \/ Sortable("id", after)
    PROVE  IsPage(ListPage([query EXCEPT !.after = after]), Beyond(Listed(query), after, "id"), "id")
<1>1. PICK q : q = At(query, after) OBVIOUS
<1>2. PICK sized : sized = Sized(q, PageSize + 1) OBVIOUS
<1>3. /\ SameBut(q, query) /\ SameBut(sized, query) /\ sized.after = after /\ sized.limit = PageSize + 1
  BY <1>1, <1>2, QueryFields
<1>4. PICK L : L = ArtifactsSelected(Projects, query.run, None) OBVIOUS
<1>5. Listed(query) = L BY <1>4 DEF Listed
<1>6. L \subseteq Artifact BY <1>4, Zenon DEF ArtifactsSelected, Selected
<1>7. PICK S : S = Beyond(L, after, "id") OBVIOUS
<1>8. \A t \in Artifact : after = None \/ (t.id > after.id <=> Before("id", after, t))
  <2> SUFFICES ASSUME NEW t \in Artifact, after # None PROVE t.id > after.id <=> Before("id", after, t) OBVIOUS
  <2>1. Sortable("id", t) /\ Sortable("id", after) /\ "id" \in Orders
    BY ArtifactRows, RowsSortable DEF Tables, Orders
  <2>2. Before("id", after, t) <=> after.id < t.id BY <2>1, BeforeIs
  <2> QED BY <2>1, <2>2 DEF Sortable
<1>9. {a \in L : sized.after = None \/ a.id > sized.after.id} = S BY <1>3, <1>6, <1>7, <1>8 DEF Beyond
<1>10. PageSize \in Nat \ {0} /\ None \notin Nat
  BY QueriesAssumption, ReadingAssumption DEF QueriesAssumption, ReadingAssumption
<1>11. sized.limit # None /\ sized.search = None BY <1>3, <1>10 DEF SameBut
<1>12. listArtifacts(Projects, q.run, None, sized) = First(S, PageSize + 1, "id")
  <2>1. listArtifacts(Projects, q.run, None, sized) = {a \in First(S, sized.limit, "id") : TRUE}
    BY <1>3, <1>4, <1>9, <1>11, Zenon DEF listArtifacts, SameBut
  <2>2. {a \in First(S, sized.limit, "id") : TRUE} = First(S, sized.limit, "id") OBVIOUS
  <2> QED BY <1>3, <2>1, <2>2
<1>13. artifactPage(Projects, q.run, q) = PageOf(First(S, PageSize + 1, "id"), PageSize, "id")
  BY <1>2, <1>12, Zenon DEF artifactPage, Sized
<1>14. ListPage(q) = artifactPage(Projects, q.run, q) BY <1>3 DEF ListPage, SameBut
<1>15. IsFiniteSet(S) /\ InLine(S, "id")
  <2>1. S \subseteq Artifact BY <1>6, <1>7 DEF Beyond
  <2> QED BY <2>1, SelectedInLine
<1>16. IsPage(ListPage(q), S, "id") BY <1>10, <1>13, <1>14, <1>15, PageOfFirst
<1> QED BY <1>1, <1>5, <1>7, <1>16 DEF At

LEMMA ContentsAre == Contents \subseteq Nat /\ Contents \subseteq Int /\ IsFiniteSet(Contents)
<1>1. Contents \subseteq Nat /\ IsFiniteSet(Contents) BY Zenon, QueriesAssumption DEF QueriesAssumption
<1> QED BY <1>1

(* The snapshot of a run is a row of the table, of that run. *)
LEMMA SnapshotIs ==
    ASSUME Tables, NEW r, CoverageSnapshotOf(r) # None
    PROVE  CoverageSnapshotOf(r) \in Selected(CoverageSnapshot, {r}, loadActiveSubmissionIds({r}, {"coverage", "combined"}))
<1> DEFINE T == Selected(CoverageSnapshot, {r}, loadActiveSubmissionIds({r}, {"coverage", "combined"}))
<1>1. T \subseteq CoverageSnapshot BY Zenon DEF Selected
<1>2. \A x \in CoverageSnapshot : x.id \in stored BY DEF CoverageSnapshot
<1>3. IsFiniteSet(CoverageSnapshot)
  <2> DEFINE S == {d \in stored : Content[d].covered}
  <2>1. IsFiniteSet(stored) BY FS_Subset, QueriesAssumption DEF QueriesAssumption, Tables
  <2>2. IsFiniteSet(S) BY <2>1, FS_Subset
  <2>3. PICK f : f = [c \in S |-> [id |-> c, run |-> Content[c].run, sub |-> ReportSubmissionId(c),
                                   linesPct |-> Content[c].linesPct]] OBVIOUS
  <2>4. IsFiniteSet({f[c] : c \in S}) BY <2>2, <2>3, ImageFinite
  <2>5. CoverageSnapshot = {f[c] : c \in S} BY <2>3 DEF CoverageSnapshot
  <2> QED BY <2>4, <2>5
<1>4. CoverageSnapshotOf(r) = Latest(T) BY Zenon DEF CoverageSnapshotOf
<1>5. T # {} BY <1>4, Zenon DEF Latest
<1> HIDE DEF T
<1>6. IsFiniteSet(T) /\ \A x \in T : x.id \in Int
  <2>1. stored \subseteq Int BY ContentsAre DEF Tables
  <2> QED BY <1>1, <1>2, <1>3, <2>1, FS_Subset
<1>7. Latest(T) \in T BY <1>5, <1>6, LatestIs
<1> QED BY <1>4, <1>7 DEF T

(* A file of a report of the run that is asked about. *)
Placed(query, x) == \E c \in stored : Content[c].run = query.run /\ \E f \in Content[c].files : x = FileOf(c, f)

LEMMA SnapshotFilesPlaced ==
    ASSUME Tables, NEW query, getCoverageSnapshotForRun(Projects, query.run) # None
    PROVE  \A f \in CoverageFilesOf(getCoverageSnapshotForRun(Projects, query.run)) : Placed(query, f)
<1>1. PICK s : s = getCoverageSnapshotForRun(Projects, query.run) OBVIOUS
<1>2. s = CoverageSnapshotOf(query.run) /\ s # None BY <1>1 DEF getCoverageSnapshotForRun
<1>3. s \in CoverageSnapshot /\ s.run = query.run BY <1>2, SnapshotIs DEF Selected
<1>4. s.id \in stored /\ Content[s.id].run = query.run BY <1>3 DEF CoverageSnapshot
<1>5. ASSUME NEW x \in CoverageFile, x.snapshot = s.id PROVE Placed(query, x)
  <2>1. PICK c \in stored : \E f \in Content[c].files : x = FileOf(c, f) BY FileRows DEF Tables
  <2>2. c = s.id BY <1>5, <2>1 DEF FileOf
  <2> QED BY <1>4, <2>1, <2>2 DEF Placed
<1> QED BY <1>1, <1>5 DEF CoverageFilesOf

(* Where the database orders the paths as JavaScript does. *)
LEMMA PathOrders ==
    ASSUME Tables, NEW query, query.list = "coverage", query.sort = "path-asc", Comparable(query),
           NEW a, NEW b, Placed(query, a), Placed(query, b)
    PROVE  Before("sql-path-asc", a, b) <=> Before("path-asc", a, b)
<1>1. PICK c \in stored : Content[c].run = query.run /\ \E f \in Content[c].files : a = FileOf(c, f) BY DEF Placed
<1>2. PICK f \in Content[c].files : a = FileOf(c, f) BY <1>1
<1>3. PICK d \in stored : Content[d].run = query.run /\ \E g \in Content[d].files : b = FileOf(d, g) BY DEF Placed
<1>4. PICK g \in Content[d].files : b = FileOf(d, g) BY <1>3
<1>5. /\ f.path < g.path => Collation[f.path] < Collation[g.path]
      /\ g.path < f.path => Collation[g.path] < Collation[f.path]
  BY <1>1, <1>2, <1>3, <1>4 DEF Comparable
<1>6. /\ f.path \in Nat /\ g.path \in Nat /\ f.id \in Nat /\ g.id \in Nat
      /\ Collation[f.path] \in Nat /\ Collation[g.path] \in Nat
  <2>1. c \in Contents /\ d \in Contents BY DEF Tables
  <2>2. f \in FileType /\ g \in FileType
    BY <1>2, <1>4, <2>1, QueriesAssumption DEF QueriesAssumption, ContentType
  <2>3. Collation[f.path] \in Nat /\ Collation[g.path] \in Nat
    BY <1>2, <1>4, <2>1, QueriesAssumption DEF QueriesAssumption
  <2> QED BY <2>2, <2>3 DEF FileType
<1>7. a.path = f.path /\ a.id = f.id /\ b.path = g.path /\ b.id = g.id BY <1>2, <1>4 DEF FileOf
<1>8. Before("sql-path-asc", a, b) <=> \/ Collation[f.path] < Collation[g.path]
                                       \/ Collation[f.path] = Collation[g.path] /\ f.id < g.id
  BY <1>7 DEF Before, ByPct, PctBefore
<1>9. Before("path-asc", a, b) <=> \/ f.path < g.path
                                   \/ f.path = g.path /\ f.id < g.id
  BY <1>7 DEF Before, ByPct, PctBefore
<1> QED BY <1>5, <1>6, <1>8, <1>9

(* The files of a snapshot come with all that their order compares. *)
LEMMA ComparableFiles ==
    ASSUME Tables, NEW query \in Lists, query.list = "coverage", Comparable(query),
           getCoverageSnapshotForRun(Projects, query.run) # None
    PROVE  \A f \in CoverageFilesOf(getCoverageSnapshotForRun(Projects, query.run)) :
              query.sort # "path-asc" => f.linesPct # None
<1>1. PICK s : s = getCoverageSnapshotForRun(Projects, query.run) OBVIOUS
<1>2. s = CoverageSnapshotOf(query.run) /\ s # None BY <1>1 DEF getCoverageSnapshotForRun
<1>3. s \in CoverageSnapshot /\ s.run = query.run BY <1>2, SnapshotIs DEF Selected
<1>4. s.id \in stored /\ Content[s.id].run = query.run BY <1>3 DEF CoverageSnapshot
<1>5. ASSUME NEW f \in CoverageFile, f.snapshot = s.id, query.sort # "path-asc" PROVE f.linesPct # None
  <2>1. PICK c \in stored : \E g \in Content[c].files : f = FileOf(c, g) BY <1>5, FileRows DEF Tables
  <2>2. PICK g \in Content[c].files : f = FileOf(c, g) BY <2>1
  <2>3. c = s.id /\ f.linesPct = g.linesPct BY <1>5, <2>2 DEF FileOf
  <2> QED BY <1>4, <1>5, <2>2, <2>3 DEF Comparable
<1> QED BY <1>1, <1>5 DEF CoverageFilesOf

(* Two orders that agree have the same beginnings. *)
LEMMA SameFirst ==
    ASSUME NEW S, NEW n, NEW order, NEW other, \A x, y \in S : Before(order, y, x) <=> Before(other, y, x)
    PROVE  First(S, n, order) = First(S, n, other)
<1>1. \A x \in S : {y \in S : Before(order, y, x)} = {y \in S : Before(other, y, x)} OBVIOUS
<1>2. \A x \in S : Cardinality({y \in S : Before(order, y, x)}) < n
                  <=> Cardinality({y \in S : Before(other, y, x)}) < n
  BY <1>1, Zenon
<1> QED BY <1>2 DEF First

(* Where every percentage is known the database orders as JavaScript does. *)
LEMMA SqlOrderOfKnown ==
    ASSUME NEW sort \in {"lines-asc", "lines-desc"}, NEW x, NEW y,
           Sortable(sort, x), x.linesPct # None, Sortable(sort, y), y.linesPct # None
    PROVE  Before(SqlOrder(sort), y, x) <=> Before(sort, y, x)
<1>1. CASE sort = "lines-asc" BY <1>1 DEF SqlOrder
<1>2. CASE sort = "lines-desc"
  <2>1. SqlOrder(sort) = "sql-lines-desc" /\ sort \in Orders /\ "sql-lines-desc" \in Orders
    BY <1>2 DEF SqlOrder, Orders, ByPct
  <2>2. Sortable("sql-lines-desc", x) /\ Sortable("sql-lines-desc", y) BY <1>2 DEF Sortable, ByPct
  <2> QED BY <1>2, <2>1, <2>2, BeforeIs
<1> QED BY <1>1, <1>2

LEMMA CoveragePages ==
    ASSUME Tables, Projected, NEW query \in Lists, query.list = "coverage", query.search = None,
           Comparable(query), NEW after,
           \/ after = None
           \/ /\ Sortable(query.sort, after) /\ Placed(query, after)
              /\ query.sort # "path-asc" => after.linesPct # None
    PROVE  IsPage(ListPage([query EXCEPT !.after = after]), Beyond(Listed(query), after, query.sort), query.sort)
<1>1. PICK q : q = At(query, after) OBVIOUS
<1>2. SameBut(q, query) /\ q.after = after BY <1>1, QueryFields
<1>3. PICK s : s = getCoverageSnapshotForRun(Projects, query.run) OBVIOUS
<1>4. PICK sort : sort = query.sort OBVIOUS
<1>5. sort \in {"path-asc", "lines-asc", "lines-desc"} /\ sort \in Orders \ {"newest"}
  BY <1>4, ReadingAssumption DEF ReadingAssumption, QueryOK, Orders, ByPct
<1>6. ListPage(q) = listCoverageFilePage(Projects, query.run, q) BY <1>2 DEF ListPage, SameBut
<1>7. CASE s = None
  <2>1. Listed(query) = {} BY <1>3, <1>7 DEF Listed
  <2>2. ListPage(q) = [rows |-> {}, hasMore |-> FALSE, next |-> None] BY <1>3, <1>6, <1>7, Zenon DEF listCoverageFilePage
  <2>3. Beyond(Listed(query), after, sort) = {} BY <2>1 DEF Beyond
  <2>4. IsPage(ListPage(q), Beyond(Listed(query), after, sort), sort) BY <2>2, <2>3, NoPage
  <2> QED BY <1>1, <1>4, <2>4 DEF At
<1>8. CASE s # None
  <2>1. PICK L : L = CoverageFilesOf(s) OBVIOUS
  <2>2. Listed(query) = L BY <1>3, <1>8, <2>1 DEF Listed
  <2>3. L \subseteq CoverageFile BY <2>1 DEF CoverageFilesOf
  <2>4. \A f \in L : sort # "path-asc" => f.linesPct # None BY <1>3, <1>4, <1>8, <2>1, ComparableFiles
  <2>5. \A f \in L : Sortable(sort, f) BY <1>5, <2>3, FileRows, RowsSortable DEF Tables
  <2>6. PICK S : S = Beyond(L, after, sort) OBVIOUS
  <2>7. \A f \in L : Placed(query, f) BY <1>3, <1>8, <2>1, SnapshotFilesPlaced
  <2>8. \A x, y \in L : Before(SqlOrder(sort), y, x) <=> Before(sort, y, x)
    <3>1. CASE sort = "path-asc"
      <4>1. SqlOrder(sort) = "sql-path-asc" BY <3>1 DEF SqlOrder
      <4>2. \A x, y \in L : Before("sql-path-asc", y, x) <=> Before("path-asc", y, x)
        BY <1>4, <2>7, <3>1, PathOrders
      <4> QED BY <3>1, <4>1, <4>2
    <3>2. CASE sort \in {"lines-asc", "lines-desc"}
      <4>1. \A x \in L : Sortable(sort, x) /\ x.linesPct # None BY <2>4, <2>5, <3>2
      <4> QED BY <3>2, <4>1, SqlOrderOfKnown
    <3> QED BY <1>5, <3>1, <3>2
  <2>9. \A f \in L : buildCoverageCursorWhere(f, after, sort) <=> after = None \/ Before(sort, after, f)
    <3>1. CASE after = None BY <3>1, Zenon DEF buildCoverageCursorWhere
    <3>2. CASE after # None /\ sort = "path-asc"
      <4>1. \A f \in L : Before("sql-path-asc", after, f) <=> Before("path-asc", after, f)
        BY <1>4, <2>7, <3>2, PathOrders
      <4>2. SqlOrder(sort) = "sql-path-asc" BY <3>2 DEF SqlOrder
      <4>3. \A f \in L : buildCoverageCursorWhere(f, after, sort) <=> Before("sql-path-asc", after, f)
        BY <3>2, <4>2, Zenon DEF buildCoverageCursorWhere
      <4> QED BY <3>2, <4>1, <4>3
    <3>3. CASE after # None /\ sort # "path-asc"
      <4>1. after.linesPct # None BY <1>4, <3>3
      <4> QED BY <2>4, <3>3, <4>1 DEF buildCoverageCursorWhere
    <3> QED BY <3>1, <3>2, <3>3
  <2>10. {f \in L : buildCoverageCursorWhere(f, q.after, q.sort)} = S
    <3>1. q.after = after /\ q.sort = sort BY <1>2, <1>4 DEF SameBut
    <3> QED BY <2>6, <2>9, <3>1 DEF Beyond
  <2>11. S \subseteq L BY <2>6 DEF Beyond
  <2>12. IsFiniteSet(S) /\ InLine(S, sort) BY <1>5, <2>3, <2>11, SelectedInLine
  <2>13. PageSize \in Nat \ {0} BY QueriesAssumption DEF QueriesAssumption
  <2>14. PICK rows : rows = First(S, PageSize + 1, SqlOrder(sort)) OBVIOUS
  <2>15. rows = First(S, PageSize + 1, sort) BY <2>8, <2>11, <2>14, SameFirst
  <2>16. rows \subseteq S BY <2>15, Zenon DEF First
  <2>17. {f \in rows : q.after = None \/ Before(q.sort, q.after, f)} = rows
    BY <1>2, <1>4, <2>6, <2>16 DEF Beyond, SameBut
  <2>18. q.sort = sort BY <1>2, <1>4 DEF SameBut
  <2>19. ListPage(q) = PageOf(rows, PageSize, sort)
    BY <1>3, <1>6, <1>8, <2>1, <2>10, <2>14, <2>17, <2>18, Zenon DEF listCoverageFilePage
  <2>20. IsPage(ListPage(q), S, sort) BY <2>12, <2>13, <2>15, <2>19, PageOfFirst
  <2> QED BY <1>1, <1>4, <2>2, <2>6, <2>20 DEF At
<1> QED BY <1>7, <1>8

(* Whatever is asked for, a page and a list are of the entries of a table. *)
LEMMA RunsRead ==
    ASSUME NEW q PROVE listRuns(Projects, q) \subseteq FeedRows
<1>1. listRuns(Projects, q) \subseteq
         {OverviewRow(r) : r \in {x \in Runs : /\ overview[x] # None
                                               /\ RunProject[x] \in {p \in listProjects(Projects) : q.project \in {None, p}}
                                               /\ overview[x].completedAt # None}}
  BY Zenon DEF listRuns, First
<1> QED BY <1>1 DEF FeedRows

LEMMA TestsRead ==
    ASSUME NEW r, NEW suite, NEW q
    PROVE  /\ listTestsForSuiteRun(Projects, r, suite, q) \subseteq TestExecution
           /\ FailuresMatching(Projects, r, q) \subseteq TestExecution
<1>1. listTestsForSuiteRun(Projects, r, suite, q) \subseteq TestExecution
  BY Zenon DEF listTestsForSuiteRun, First
<1>2. FailuresMatching(Projects, r, q) \subseteq listTestsForRun(Projects, r, [Everything EXCEPT !.status = "failed"])
  BY Zenon DEF FailuresMatching
<1>3. \A actor, x : listTestsForRun(actor, r, x) \subseteq TestExecution BY Zenon DEF listTestsForRun
<1>4. FailuresMatching(Projects, r, q) \subseteq TestExecution BY <1>2, <1>3, Zenon
<1> QED BY <1>1, <1>4

LEMMA ArtifactsRead ==
    ASSUME NEW actor, NEW r, NEW test, NEW q
    PROVE  /\ listArtifacts(actor, r, test, q) \subseteq Artifact
           /\ ArtifactsSelected(actor, r, test) \subseteq Artifact
<1>1. ArtifactsSelected(actor, r, test) \subseteq Artifact BY Zenon DEF ArtifactsSelected, Selected
<1>2. listArtifacts(actor, r, test, q) \subseteq ArtifactsSelected(actor, r, test)
  BY Zenon DEF listArtifacts, First
<1> QED BY <1>1, <1>2, Zenon

LEMMA PageEntries ==
    ASSUME Tables, Projected, NEW query \in Lists, NEW after
    PROVE  /\ ListPage([query EXCEPT !.after = after]).rows \subseteq Entries
           /\ ListPage([query EXCEPT !.after = after]).next \in Entries \union {None}
<1>1. PICK q : q = At(query, after) OBVIOUS
<1>2. SameBut(q, query) BY <1>1, QueryFields
<1>3. stored \subseteq Contents BY DEF Tables
<1>4. PageSize \in Nat \ {0} BY QueriesAssumption DEF QueriesAssumption
<1>5. query.list \in {"runs", "suite", "failures", "artifacts", "coverage"}
  BY ReadingAssumption DEF ReadingAssumption, QueryType
<1>6. FeedRows \subseteq Entries /\ TestExecution \subseteq Entries /\ Artifact \subseteq Entries /\ CoverageFile \subseteq Entries
  BY <1>3, FeedRowsType, TestRows, ArtifactRows, FileRows DEF Entries
<1>7. ASSUME NEW S, NEW order, IsFiniteSet(S), InLine(S, order), S \subseteq Entries
      PROVE  /\ PageOf(S, PageSize, order).rows \subseteq Entries
             /\ PageOf(S, PageSize, order).next \in Entries \union {None}
  BY <1>4, <1>7, PageType
<1>8. ListPage(q).rows \subseteq Entries /\ ListPage(q).next \in Entries \union {None}
  <2>1. CASE query.list = "runs"
    <3>1. ListPage(q) = RunFeedPage(q) BY <1>2, <2>1 DEF ListPage, SameBut
    <3>2. PICK S : S = listRuns(Projects, Sized(q, PageSize + 1)) OBVIOUS
    <3>3. RunFeedPage(q) = PageOf(S, PageSize, "newest") BY <3>2, Zenon DEF RunFeedPage, Sized
    <3>4. S \subseteq FeedRows BY <3>2, RunsRead
    <3> QED BY <1>6, <1>7, <3>1, <3>3, <3>4, SelectedInLine
  <2>2. CASE query.list = "suite"
    <3>1. ListPage(q) = SuitePage(q) BY <1>2, <2>2 DEF ListPage, SameBut
    <3>2. PICK S : S = listTestsForSuiteRun(Projects, q.run, q.suite, Sized(q, PageSize + 1)) OBVIOUS
    <3>3. SuitePage(q) = PageOf(S, PageSize, "id") BY <3>2, Zenon DEF SuitePage, Sized
    <3>4. S \subseteq TestExecution BY <3>2, TestsRead
    <3> QED BY <1>6, <1>7, <3>1, <3>3, <3>4, SelectedInLine
  <2>3. CASE query.list = "failures"
    <3>1. ListPage(q) = listRunFailures(Projects, q.run, q) BY <1>2, <2>3 DEF ListPage, SameBut
    <3>2. PICK S : S = First({t \in FailuresMatching(Projects, q.run, q) : q.after = None \/ t.id > q.after.id},
                             PageSize + 1, "id") OBVIOUS
    <3>3. listRunFailures(Projects, q.run, q) = PageOf(S, PageSize, "id") BY <3>2, Zenon DEF listRunFailures
    <3>4. S \subseteq FailuresMatching(Projects, q.run, q) BY <3>2, Zenon DEF First
    <3>5. S \subseteq TestExecution BY <3>4, TestsRead, Zenon
    <3> QED BY <1>6, <1>7, <3>1, <3>3, <3>5, SelectedInLine
  <2>4. CASE query.list = "artifacts"
    <3>1. ListPage(q) = artifactPage(Projects, q.run, q) BY <1>2, <2>4 DEF ListPage, SameBut
    <3>2. PICK S : S = listArtifacts(Projects, q.run, None, Sized(q, PageSize + 1)) OBVIOUS
    <3>3. artifactPage(Projects, q.run, q) = PageOf(S, PageSize, "id") BY <3>2, Zenon DEF artifactPage, Sized
    <3>4. S \subseteq Artifact BY <3>2, ArtifactsRead
    <3> QED BY <1>6, <1>7, <3>1, <3>3, <3>4, SelectedInLine
  <2>5. CASE query.list = "coverage"
    <3>1. ListPage(q) = listCoverageFilePage(Projects, q.run, q) BY <1>2, <2>5 DEF ListPage, SameBut
    <3>2. PICK s : s = getCoverageSnapshotForRun(Projects, q.run) OBVIOUS
    <3>3. CASE s = None
      <4>1. ListPage(q) = [rows |-> {}, hasMore |-> FALSE, next |-> None] BY <3>1, <3>2, <3>3, Zenon DEF listCoverageFilePage
      <4> QED BY <4>1
    <3>4. CASE s # None
      <4>1. PICK rows : rows = First({f \in CoverageFilesOf(s) : buildCoverageCursorWhere(f, q.after, q.sort)},
                                     PageSize + 1, SqlOrder(q.sort)) OBVIOUS
      <4>2. PICK S : S = {f \in rows : q.after = None \/ Before(q.sort, q.after, f)} OBVIOUS
      <4>3. listCoverageFilePage(Projects, q.run, q) = PageOf(S, PageSize, q.sort)
        BY <3>2, <3>4, <4>1, <4>2, Zenon DEF listCoverageFilePage
      <4>4. S \subseteq CoverageFile
        <5>1. rows \subseteq CoverageFilesOf(s) BY <4>1, Zenon DEF First
        <5> QED BY <4>2, <5>1 DEF CoverageFilesOf
      <4>5. q.sort \in Orders \ {"newest"}
        BY <1>2, <2>5, ReadingAssumption DEF ReadingAssumption, QueryOK, Orders, ByPct, SameBut
      <4> QED BY <1>6, <1>7, <3>1, <4>3, <4>4, <4>5, SelectedInLine
    <3> QED BY <3>3, <3>4
  <2> QED BY <1>5, <2>1, <2>2, <2>3, <2>4, <2>5
<1> QED BY <1>1, <1>8 DEF At

LEMMA ListedEntries ==
    ASSUME Tables, Projected, NEW query \in Lists PROVE Listed(query) \subseteq Entries
<1>1. stored \subseteq Contents BY DEF Tables
<1>2. FeedRows \subseteq Entries /\ TestExecution \subseteq Entries /\ Artifact \subseteq Entries /\ CoverageFile \subseteq Entries
  BY <1>1, FeedRowsType, TestRows, ArtifactRows, FileRows DEF Entries
<1>3. query.list \in {"runs", "suite", "failures", "artifacts", "coverage"}
  BY ReadingAssumption DEF ReadingAssumption, QueryType
<1>4. CASE query.list = "runs"
  <2>1. Listed(query) = {OverviewRow(r) : r \in {x \in Runs : /\ overview[x] # None
                                                              /\ RunProject[x] \in listProjects(Projects)
                                                              /\ query.project \in {None, RunProject[x]}
                                                              /\ OverviewMatches(OverviewRow(x), query)}}
    BY <1>4 DEF Listed
  <2>2. Listed(query) \subseteq FeedRows BY <2>1 DEF FeedRows
  <2> QED BY <1>2, <2>2
<1>5. CASE query.list = "suite"
  <2>1. Listed(query) \subseteq TestExecution BY <1>5 DEF Listed
  <2> QED BY <1>2, <2>1
<1>6. CASE query.list = "failures"
  <2>1. Listed(query) \subseteq TestExecution BY <1>6, TestsRead DEF Listed
  <2> QED BY <1>2, <2>1
<1>7. CASE query.list = "artifacts"
  <2>1. Listed(query) = {a \in ArtifactsSelected(Projects, query.run, None) : query.search = None \/ query.search = a.word}
    BY <1>7 DEF Listed
  <2>2. Listed(query) \subseteq Artifact BY <2>1, ArtifactsRead
  <2> QED BY <1>2, <2>2
<1>8. CASE query.list = "coverage"
  <2>1. PICK s : s = getCoverageSnapshotForRun(Projects, query.run) OBVIOUS
  <2>2. Listed(query) = IF s = None THEN {} ELSE CoverageFilesOf(s) BY <1>8, <2>1 DEF Listed
  <2>3. Listed(query) \subseteq CoverageFile BY <2>2 DEF CoverageFilesOf
  <2> QED BY <1>2, <2>3
<1> QED BY <1>3, <1>4, <1>5, <1>6, <1>7, <1>8

LEMMA FeedIs ==
    ASSUME Tables, Projected, NEW s \in Scopes, NEW after, after = None \/ Sortable("newest", after)
    PROVE  /\ IsPage(Feed(s, after), Beyond(RunsShown(ScopeOf(s), None), after, "newest"), "newest")
           /\ Feed(s, after).rows \subseteq FeedRows
           /\ Feed(s, after).hasMore \in BOOLEAN
<1>1. PICK q : q = [list |-> "runs", project |-> ScopeOf(s), status |-> None, search |-> None,
                    after |-> after, limit |-> None] OBVIOUS
<1>2. PICK sized : sized = [q EXCEPT !.limit = PageSize + 1] OBVIOUS
<1>3. sized = [list |-> "runs", project |-> ScopeOf(s), status |-> None, search |-> None,
               after |-> after, limit |-> PageSize + 1] BY <1>1, <1>2
<1>4. PICK bare : bare = [sized EXCEPT !.search = None] OBVIOUS
<1>5. bare = [list |-> "runs", project |-> ScopeOf(s), status |-> None, search |-> None,
              after |-> after, limit |-> PageSize + 1] BY <1>3, <1>4
<1>6. /\ q.project = ScopeOf(s) /\ q.status = None /\ q.after = after
      /\ sized.limit = PageSize + 1 /\ sized.search = None /\ sized.project = q.project
      /\ sized.status = q.status /\ sized.after = q.after
      /\ bare.search = None /\ bare.status = q.status
  BY <1>1, <1>3, <1>5
<1>7. IsPage(RunFeedPage(q), Beyond(RunsShown(q.project, q.status), q.after, "newest"), "newest")
  BY <1>2, <1>4, <1>6, RunFeedPageIs
<1>8. Feed(s, after) = RunFeedPage(q) BY <1>1, Zenon DEF Feed
<1>9. RunFeedPage(q).rows \subseteq listRuns(Projects, sized) /\ RunFeedPage(q).hasMore \in BOOLEAN
  BY <1>2 DEF RunFeedPage, PageOf, First
<1>10. listRuns(Projects, sized) \subseteq FeedRows BY RunsRead
<1> QED BY <1>6, <1>7, <1>8, <1>9, <1>10

-----------------------------------------------------------------------------
(* Types.                                                                   *)

LEMMA ForemostIs ==
    ASSUME NEW S, IsFiniteSet(S), S # {}, NEW order, InLine(S, order)
    PROVE  Foremost(S, order) \in S /\ \A y \in S : y = Foremost(S, order) \/ Before(order, Foremost(S, order), y)
<1>1. PICK x \in S : \A y \in S : ~Before(order, y, x) BY HeadExists
<1>2. \A z \in S : /\ Ahead(S, order, z) \subseteq S /\ Cardinality(Ahead(S, order, z)) \in Nat
                   /\ (Cardinality(Ahead(S, order, z)) < 1 <=> Ahead(S, order, z) = {})
  <2>1. \A z \in S : Ahead(S, order, z) \subseteq S BY DEF Ahead
  <2>2. \A z \in S : IsFiniteSet(Ahead(S, order, z)) /\ Cardinality(Ahead(S, order, z)) \in Nat BY <2>1, Subset
  <2>3. \A z \in S : Cardinality(Ahead(S, order, z)) = 0 <=> Ahead(S, order, z) = {} BY <2>2, FS_EmptySet
  <2> QED BY <2>1, <2>2, <2>3
<1>3. First(S, 1, order) = {z \in S : Cardinality(Ahead(S, order, z)) < 1} BY Zenon DEF First, Ahead
<1>4. \A z \in S : z \in First(S, 1, order) <=> \A y \in S : ~Before(order, y, z)
  <2>1. \A z \in S : Ahead(S, order, z) = {} <=> \A y \in S : ~Before(order, y, z) BY DEF Ahead
  <2> QED BY <1>2, <1>3, <2>1
<1>5. \A z \in S : z = x \/ Before(order, x, z) BY <1>1 DEF InLine
<1>6. First(S, 1, order) \subseteq S BY <1>3
<1>7. First(S, 1, order) = {x} BY <1>1, <1>4, <1>5, <1>6
<1>8. Foremost(S, order) \in S /\ First(S, 1, order) = {Foremost(S, order)} BY <1>7, Zenon DEF Foremost
<1> QED BY <1>5, <1>7, <1>8

LEMMA RunValuesType ==
    ASSUME NEW c \in Contents, NEW old \in RunType \union {None} PROVE RunValues(old, c) \in RunType
<1>1. Content[c] \in ContentType BY QueriesAssumption DEF QueriesAssumption
<1>2. PICK v : v = RunValues(old, c) OBVIOUS
<1>3. /\ v.status \in {"passed", "failed", "unknown"} /\ v.total \in Nat /\ v.failed \in Nat
      /\ v.linesPct \in Nat \union {None} /\ v.completedAt \in Nat /\ v.words \in SUBSET STRING
  BY <1>1, <1>2 DEF RunValues, RunType, ContentType
<1>4. v = [status |-> v.status, total |-> v.total, failed |-> v.failed, linesPct |-> v.linesPct,
           completedAt |-> v.completedAt, words |-> v.words]
  BY <1>2 DEF RunValues
<1> QED BY <1>2, <1>3, <1>4 DEF RunType

LEMMA RunProjectionType ==
    ASSUME NEW c \in Contents, NEW old \in OverviewType \union {None} PROVE RunProjection(old, c) \in OverviewType
<1>1. Content[c] \in ContentType BY QueriesAssumption DEF QueriesAssumption
<1>2. PICK v : v = RunProjection(old, c) OBVIOUS
<1>3. /\ v.status \in {"passed", "failed", "unknown"} /\ v.total \in Nat /\ v.failed \in Nat
      /\ v.linesPct \in Nat \union {None} /\ v.completedAt \in Nat
  BY <1>1, <1>2 DEF RunProjection, OverviewType, ContentType
<1>4. v = [status |-> v.status, total |-> v.total, failed |-> v.failed, linesPct |-> v.linesPct,
           completedAt |-> v.completedAt]
  BY <1>2 DEF RunProjection
<1> QED BY <1>2, <1>3, <1>4 DEF OverviewType

LEMMA ProjectProjectionType ==
    ASSUME NEW rows \in [Runs -> OverviewType \union {None}], NEW p
    PROVE  ProjectProjection(rows, p) \in ProjectType \union {None}
<1> DEFINE R == {q \in Runs : rows[q] # None /\ RunProject[q] = p}
           own == {[id |-> r, completedAt |-> rows[r].completedAt] : r \in R}
<1>1. IsFiniteSet(own)
  <2>1. IsFiniteSet(R) BY FS_Subset, QueriesAssumption DEF QueriesAssumption
  <2>2. PICK f : f = [r \in R |-> [id |-> r, completedAt |-> rows[r].completedAt]] OBVIOUS
  <2>3. IsFiniteSet({f[r] : r \in R})
    <3>1. f = [r \in R |-> f[r]] /\ DOMAIN f = R BY <2>2
    <3> HIDE DEF R
    <3> QED BY <2>1, <3>1, ImageFinite
  <2>4. own = {f[r] : r \in R} BY <2>2
  <2> QED BY <2>3, <2>4
<1>2. \A x \in own : x.id \in Runs /\ x.completedAt \in Nat BY DEF OverviewType
<1>3. \A x, y \in own : x.id = y.id => x = y OBVIOUS
<1>4. ProjectProjection(rows, p) = IF own = {} THEN None
         ELSE [runCount |-> Cardinality(own), latestRun |-> Foremost(own, "newest").id]
  BY Zenon DEF ProjectProjection
<1> HIDE DEF own
<1>5. InLine(own, "newest")
  <2>1. \A x \in own : Sortable("newest", x)
    BY <1>2, QueriesAssumption DEF QueriesAssumption, Sortable, ByPct
  <2> QED BY <1>3, <2>1, SortableInLine DEF Orders
<1>6. CASE own = {} BY <1>4, <1>6
<1>7. CASE own # {}
  <2>1. Foremost(own, "newest") \in own BY <1>1, <1>5, <1>7, ForemostIs
  <2>2. Cardinality(own) \in Nat \ {0} BY <1>1, <1>7, FS_EmptySet, FS_CardinalityType
  <2> QED BY <1>2, <1>4, <1>7, <2>1, <2>2 DEF ProjectType
<1> QED BY <1>6, <1>7

(* A stored report has its run; what is older than the submissions and has  *)
(* no projection is stored as such; a submission has its facts; and the     *)
(* backfill has read what is to be adopted.                                *)
StoredLegacy(r) == \E c \in stored \intersect Legacy : Content[c].run = r
Inherited == \A r \in Runs : run[r] # None /\ overview[r] = None => StoredLegacy(r)
Submitted == \A c \in Contents : submission[c] # None => c \in stored
BackfillType == [pc : {"read", "adopt", "rebuild", "done"}, batch : SUBSET [run : Runs, row : RunType],
                 rows : [Projects -> ProjectType \union {None}], crashes : 0..MaxCrashes]
BackfillOK ==
    /\ backfill \in BackfillType
    /\ \A b \in backfill.batch : run[b.run] # None /\ StoredLegacy(b.run)

TablesInv ==
    /\ Tables /\ StoredRuns /\ Projected /\ Inherited /\ Submitted /\ BackfillOK
    /\ project \in [Projects -> ProjectType \union {None}]
    /\ pointer \in [Runs -> [FactKinds -> stored \union {None}]]

(* The readers. *)
PagerOK ==
    /\ pager \in [query : Lists \union {None}, pages : Seq(SUBSET Entries), next : Entries \union {None},
                  done : BOOLEAN, kept : SUBSET Entries]
    /\ pager # NoList => pager.query \in Lists
ClientOK ==
    /\ client \in [open : BOOLEAN, loaded : [Runs -> LoadedType \union {None}], more : [Scopes -> BOOLEAN],
                   scope : Scopes, visited : SUBSET Scopes, request : RequestType \union {None},
                   kept : SUBSET FeedRow]
    /\ client.scope \in client.visited
ReadersInv == PagerOK /\ ClientOK /\ changes \in 0..MaxChanges

LEMMA ContentFields ==
    ASSUME NEW c \in Contents
    PROVE  /\ Content[c].run \in Runs /\ RunProject[Content[c].run] \in Projects
           /\ Content[c].kinds \subseteq FactKinds
BY QueriesAssumption DEF QueriesAssumption, ContentType

LEMMA NoneIsNothing ==
    /\ None \notin RunType /\ None \notin OverviewType /\ None \notin ProjectType /\ None \notin Entries
    /\ None \notin LoadedType /\ None \notin CursorType /\ None \notin RequestType
    /\ None \notin SnapshotRow /\ None \notin Contents /\ None \notin Runs
    /\ None \notin Nat /\ None \notin Lists /\ None \notin Projects /\ None # All
    /\ Legacy \subseteq Contents
BY ReadingAssumption DEF ReadingAssumption

LEMMA NoneIsNoStatus == None # "active" /\ None # "superseded" /\ None # "failed"
BY ReadingAssumption DEF ReadingAssumption

LEMMA UploadTables ==
    ASSUME TablesInv, NEW c \in Contents, Upload(c) PROVE TablesInv'
<1>1. PICK r : r = Content[c].run OBVIOUS
<1>2. r \in Runs /\ RunProject[r] \in Projects /\ Content[c].kinds \subseteq FactKinds BY <1>1, ContentFields
<1>3. Tables /\ StoredRuns /\ Projected /\ Inherited /\ Submitted /\ BackfillOK BY DEF TablesInv
<1>4. PICK row : row = RunValues(run[r], c) OBVIOUS
<1>5. row \in RunType /\ row # None BY <1>2, <1>3, <1>4, RunValuesType, NoneIsNothing DEF Tables
<1>6. PICK shown : shown = RunProjection(overview[r], c) OBVIOUS
<1>7. shown \in OverviewType /\ shown # None BY <1>2, <1>3, <1>6, RunProjectionType, NoneIsNothing DEF Tables
<1>8. run' = [run EXCEPT ![r] = row] /\ overview' = [overview EXCEPT ![r] = shown]
  BY <1>1, <1>4, <1>6 DEF Upload
<1>9. stored' = stored \union {c} /\ backfill' = backfill /\ submission[c] = None BY DEF Upload
<1>10. /\ \A d \in Contents : submission[d] # None => submission'[d] # None
       /\ submission' \in [Contents -> {"active", "superseded", None}]
       /\ submission'[c] # None
       /\ \A d \in Contents : submission'[d] # None => submission[d] # None \/ d = c
  <2>1. submission' = [d \in Contents |-> IF d = c THEN "active"
                                          ELSE IF SameIdentity(c, d) /\ submission[d] = "active"
                                          THEN "superseded" ELSE submission[d]]
    BY DEF Upload
  <2>2. "active" # None /\ "superseded" # None BY NoneIsNoStatus
  <2> QED BY <1>3, <2>1, <2>2 DEF Tables
<1>11. Tables'
  BY <1>2, <1>3, <1>5, <1>7, <1>8, <1>9, <1>10 DEF Tables
<1>12. \A q \in Runs : run'[q] # None <=> run[q] # None \/ q = r
  BY <1>2, <1>3, <1>5, <1>8 DEF Tables
<1>13. \A q \in Runs : overview'[q] = IF q = r THEN shown ELSE overview[q] BY <1>2, <1>3, <1>8 DEF Tables
<1>14. StoredRuns' BY <1>1, <1>2, <1>3, <1>9, <1>12, ContentFields DEF StoredRuns, Tables
<1>15. Projected' BY <1>1, <1>2, <1>3, <1>10, <1>12, <1>13 DEF Projected
<1>16. Inherited' BY <1>2, <1>3, <1>7, <1>9, <1>12, <1>13 DEF Inherited, StoredLegacy
<1>17. Submitted' BY <1>3, <1>9, <1>10 DEF Submitted
<1>18. BackfillOK' BY <1>3, <1>9, <1>12 DEF BackfillOK, BackfillType, StoredLegacy
<1>19. project' \in [Projects -> ProjectType \union {None}]
  <2>1. PICK v : v = ProjectProjection(overview', RunProject[r]) OBVIOUS
  <2>2. v \in ProjectType \union {None} BY <1>11, <2>1, ProjectProjectionType DEF Tables
  <2>3. project' = [project EXCEPT ![RunProject[r]] = v] BY <1>1, <2>1 DEF Upload
  <2> QED BY <1>2, <2>2, <2>3 DEF TablesInv
<1>20. pointer' \in [Runs -> [FactKinds -> stored' \union {None}]]
  <2>1. PICK p : p = [k \in FactKinds |-> IF k \in Content[c].kinds THEN c ELSE pointer[r][k]] OBVIOUS
  <2>2. pointer' = [pointer EXCEPT ![r] = p] BY <1>1, <1>2, <2>1 DEF Upload, Selecting, TablesInv
  <2>3. pointer \in [Runs -> [FactKinds -> stored' \union {None}]] BY <1>9 DEF TablesInv
  <2>4. p \in [FactKinds -> stored' \union {None}] BY <1>2, <1>9, <2>1, <2>3
  <2> QED BY <1>2, <2>2, <2>3, <2>4
<1> QED BY <1>11, <1>14, <1>15, <1>16, <1>17, <1>18, <1>19, <1>20 DEF TablesInv

LEMMA RetryTables ==
    ASSUME TablesInv, NEW c \in Contents, Retry(c) PROVE TablesInv'
<1>1. PICK r : r = Content[c].run OBVIOUS
<1>2. r \in Runs /\ RunProject[r] \in Projects /\ Content[c].kinds \subseteq FactKinds BY <1>1, ContentFields
<1>3. Tables /\ StoredRuns /\ Projected /\ Inherited /\ Submitted /\ BackfillOK BY DEF TablesInv
<1>4. PICK row : row = RunValues(run[r], c) OBVIOUS
<1>5. row \in RunType /\ row # None BY <1>2, <1>3, <1>4, RunValuesType, NoneIsNothing DEF Tables
<1>6. run' = [run EXCEPT ![r] = row] BY <1>1, <1>4 DEF Retry
<1>7. /\ overview' = overview /\ project' = project /\ submission' = submission /\ stored' = stored
      /\ backfill' = backfill
  BY DEF Retry
<1>8. submission[c] # None BY NoneIsNoStatus DEF Retry
<1>9. c \in stored /\ run[r] # None BY <1>1, <1>3, <1>8 DEF Submitted, StoredRuns
<1>10. \A q \in Runs : run'[q] # None <=> run[q] # None BY <1>2, <1>3, <1>5, <1>6, <1>9 DEF Tables
<1>11. Tables' BY <1>2, <1>3, <1>5, <1>6, <1>7 DEF Tables
<1>12. StoredRuns' BY <1>3, <1>7, <1>10, ContentFields DEF StoredRuns, Tables
<1>13. Projected' /\ Inherited' /\ Submitted' /\ BackfillOK'
  BY <1>3, <1>7, <1>10 DEF Projected, Inherited, Submitted, BackfillOK, BackfillType, StoredLegacy
<1>14. pointer' \in [Runs -> [FactKinds -> stored' \union {None}]]
  <2>1. PICK p : p = [k \in FactKinds |-> IF k \in Content[c].kinds THEN c ELSE pointer[r][k]] OBVIOUS
  <2>2. pointer' = [pointer EXCEPT ![r] = p] BY <1>1, <1>2, <2>1 DEF Retry, Selecting, TablesInv
  <2>3. pointer \in [Runs -> [FactKinds -> stored' \union {None}]] BY <1>7 DEF TablesInv
  <2>4. p \in [FactKinds -> stored' \union {None}] BY <1>2, <1>7, <1>9, <2>1, <2>3
  <2> QED BY <1>2, <2>2, <2>3, <2>4
<1> QED BY <1>7, <1>11, <1>12, <1>13, <1>14 DEF TablesInv

LEMMA BackfillReadTables ==
    ASSUME TablesInv, BackfillRead PROVE TablesInv'
<1>1. run' = run /\ overview' = overview /\ project' = project /\ submission' = submission
      /\ pointer' = pointer /\ stored' = stored
  BY DEF BackfillRead, tables
<1>2. PICK R : R = {x \in Unadopted : Cardinality({y \in Unadopted : y < x}) < BatchSize} OBVIOUS
<1>3. backfill' = [backfill EXCEPT !.pc = "adopt", !.batch = {[run |-> r, row |-> run[r]] : r \in R}]
  BY <1>2 DEF BackfillRead
<1>4. ASSUME NEW r \in R PROVE r \in Runs /\ run[r] \in RunType /\ run[r] # None /\ StoredLegacy(r)
  <2>1. r \in Runs /\ run[r] # None /\ ((\A c \in Contents : Content[c].run = r => submission[c] = None) \/ overview[r] = None)
    BY <1>2, <1>4 DEF Unadopted
  <2>2. overview[r] = None BY <2>1 DEF TablesInv, Projected
  <2> QED BY <2>1, <2>2 DEF TablesInv, Tables, Inherited
<1>5. {[run |-> r, row |-> run[r]] : r \in R} \in SUBSET [run : Runs, row : RunType] BY <1>4
<1>6. \A b \in {[run |-> r, row |-> run[r]] : r \in R} : run[b.run] # None /\ StoredLegacy(b.run) BY <1>4
<1>7. PICK B : B = {[run |-> r, row |-> run[r]] : r \in R} OBVIOUS
<1>8. backfill' \in BackfillType
      /\ backfill'.batch = B
  BY <1>3, <1>5, <1>7 DEF TablesInv, BackfillOK, BackfillType
<1>9. BackfillOK' BY <1>1, <1>6, <1>7, <1>8 DEF BackfillOK, StoredLegacy
<1>10. (Tables /\ StoredRuns /\ Projected /\ Inherited /\ Submitted)'
  BY <1>1 DEF TablesInv, Tables, StoredRuns, Projected, Inherited, Submitted, StoredLegacy
<1>11. /\ project' \in [Projects -> ProjectType \union {None}]
       /\ pointer' \in [Runs -> [FactKinds -> stored' \union {None}]]
  BY <1>1 DEF TablesInv
<1> QED BY <1>9, <1>10, <1>11 DEF TablesInv

(* The report that is older than the submissions, of a run that has one. *)
LEMMA LegacyIs ==
    ASSUME NEW r, StoredLegacy(r), stored \subseteq Contents
    PROVE  /\ (CHOOSE c \in Legacy : Content[c].run = r) \in stored \intersect Legacy
           /\ Content[CHOOSE c \in Legacy : Content[c].run = r].run = r
           /\ \A c \in Legacy : Content[c].run = r => c = CHOOSE d \in Legacy : Content[d].run = r
<1>1. PICK c \in stored \intersect Legacy : Content[c].run = r BY DEF StoredLegacy
<1>2. PICK d : d = CHOOSE x \in Legacy : Content[x].run = r OBVIOUS
<1>3. d \in Legacy /\ Content[d].run = r BY <1>1, <1>2, Zenon
<1>4. \A x \in Legacy : Content[x].run = r => x = d BY <1>3, ReadingAssumption DEF ReadingAssumption
<1>5. d = c BY <1>1, <1>4
<1> QED BY <1>1, <1>2, <1>3, <1>4, <1>5

LEMMA BackfillRunTables ==
    ASSUME TablesInv, BackfillRun PROVE TablesInv'
<1>1. PICK b \in backfill.batch :
         /\ Adopt(b)
         /\ backfill' = [backfill EXCEPT !.batch = @ \ {b}, !.pc = IF backfill.batch = {b} THEN "read" ELSE "adopt"]
  BY DEF BackfillRun
<1>2. run' = run /\ project' = project /\ stored' = stored BY DEF BackfillRun
<1>3. Tables /\ StoredRuns /\ Projected /\ Inherited /\ Submitted /\ BackfillOK BY DEF TablesInv
<1>4. b.run \in Runs /\ b.row \in RunType /\ run[b.run] # None /\ StoredLegacy(b.run)
  BY <1>3 DEF BackfillOK, BackfillType
<1>5. PICK L : L = CHOOSE c \in Legacy : Content[c].run = b.run OBVIOUS
<1>6. L \in stored \intersect Legacy /\ Content[L].run = b.run /\ \A c \in Legacy : Content[c].run = b.run => c = L
  BY <1>3, <1>4, <1>5, LegacyIs DEF Tables
<1>7. submission' = [c \in Contents |-> IF c \in Legacy /\ Content[c].run = b.run THEN "active" ELSE submission[c]]
  BY <1>1 DEF Adopt
<1>8. \A c \in Contents : submission'[c] = IF c = L THEN "active" ELSE submission[c] BY <1>6, <1>7
<1>9. PICK shown : shown = OverviewOfRun(b.row) OBVIOUS
<1>10. shown \in OverviewType /\ shown # None
  BY <1>4, <1>9, NoneIsNothing DEF OverviewOfRun, OverviewType, RunType
<1>11. overview' = [overview EXCEPT ![b.run] = shown] BY <1>1, <1>9 DEF Adopt
<1>12. \A r \in Runs : overview'[r] = IF r = b.run THEN shown ELSE overview[r] BY <1>3, <1>4, <1>11 DEF Tables
<1>13. submission' \in [Contents -> {"active", "superseded", None}] BY <1>3, <1>7 DEF Tables
<1>14. Tables' BY <1>2, <1>3, <1>4, <1>10, <1>11, <1>13 DEF Tables
<1>15. StoredRuns' BY <1>2, <1>3 DEF StoredRuns
<1>16. L \in Contents /\ submission'[L] # None /\ \A c \in Contents : submission[c] # None => submission'[c] # None
  BY <1>3, <1>6, <1>8, NoneIsNoStatus DEF Tables
<1>17. Projected' BY <1>2, <1>3, <1>4, <1>6, <1>12, <1>16 DEF Projected
<1>18. Inherited' BY <1>2, <1>3, <1>10, <1>12 DEF Inherited, StoredLegacy
<1>19. Submitted' BY <1>2, <1>3, <1>6, <1>8 DEF Submitted
<1>20. PICK B : B = backfill.batch \ {b} OBVIOUS
<1>21. backfill' \in BackfillType
       /\ backfill'.batch = B
  BY <1>1, <1>3, <1>20 DEF BackfillOK, BackfillType
<1>22. BackfillOK' BY <1>2, <1>3, <1>20, <1>21 DEF BackfillOK, StoredLegacy
<1>23. pointer' \in [Runs -> [FactKinds -> stored' \union {None}]]
  <2>1. PICK p : p = [k \in FactKinds |-> L] OBVIOUS
  <2>2. pointer' = [pointer EXCEPT ![b.run] = p] BY <1>1, <1>5, <2>1 DEF Adopt
  <2> QED BY <1>2, <1>4, <1>6, <2>1, <2>2 DEF TablesInv
<1>24. project' \in [Projects -> ProjectType \union {None}] BY <1>2 DEF TablesInv
<1> QED BY <1>14, <1>15, <1>17, <1>18, <1>19, <1>22, <1>23, <1>24 DEF TablesInv

LEMMA ProjectionsType ==
    ASSUME Tables PROVE [p \in Projects |-> ProjectProjection(overview, p)] \in [Projects -> ProjectType \union {None}]
<1>1. \A p \in Projects : ProjectProjection(overview, p) \in ProjectType \union {None}
  BY ProjectProjectionType DEF Tables
<1> QED BY <1>1

LEMMA SelectTables ==
    ASSUME TablesInv, selectProjectOverviews PROVE TablesInv'
<1>1. run' = run /\ overview' = overview /\ project' = project /\ submission' = submission
      /\ pointer' = pointer /\ stored' = stored
  BY DEF selectProjectOverviews, tables
<1>2. PICK rows : rows = [p \in Projects |-> ProjectProjection(overview, p)] OBVIOUS
<1>3. rows \in [Projects -> ProjectType \union {None}] BY <1>2, ProjectionsType DEF TablesInv
<1>4. backfill' = [backfill EXCEPT !.pc = "rebuild", !.rows = rows] BY <1>2 DEF selectProjectOverviews
<1>5. backfill \in BackfillType BY DEF TablesInv, BackfillOK
<1>6. backfill' \in BackfillType /\ backfill'.batch = backfill.batch BY <1>3, <1>4, <1>5 DEF BackfillType
<1>7. BackfillOK' BY <1>1, <1>6 DEF TablesInv, BackfillOK, StoredLegacy
<1>8. (Tables /\ StoredRuns /\ Projected /\ Inherited /\ Submitted)'
  BY <1>1 DEF TablesInv, Tables, StoredRuns, Projected, Inherited, Submitted, StoredLegacy
<1>9. /\ project' \in [Projects -> ProjectType \union {None}]
      /\ pointer' \in [Runs -> [FactKinds -> stored' \union {None}]]
  BY <1>1 DEF TablesInv
<1> QED BY <1>7, <1>8, <1>9 DEF TablesInv

LEMMA RebuildTables ==
    ASSUME TablesInv, rebuildProjectOverviews PROVE TablesInv'
<1>1. run' = run /\ overview' = overview /\ submission' = submission /\ pointer' = pointer /\ stored' = stored
  BY DEF rebuildProjectOverviews
<1>2. backfill' = [backfill EXCEPT !.pc = "done", !.rows = NoRows] BY DEF rebuildProjectOverviews
<1>3. backfill \in BackfillType BY DEF TablesInv, BackfillOK
<1>4. NoRows \in [Projects -> ProjectType \union {None}] BY DEF NoRows
<1>5. backfill' \in BackfillType /\ backfill'.batch = backfill.batch BY <1>2, <1>3, <1>4 DEF BackfillType
<1>6. BackfillOK' BY <1>1, <1>5 DEF TablesInv, BackfillOK, StoredLegacy
<1>7. (Tables /\ StoredRuns /\ Projected /\ Inherited /\ Submitted)'
  BY <1>1 DEF TablesInv, Tables, StoredRuns, Projected, Inherited, Submitted, StoredLegacy
<1>8. backfill.rows \in [Projects -> ProjectType \union {None}] BY <1>3 DEF BackfillType
<1>9. project' \in [Projects -> ProjectType \union {None}]
  <2>1. project' = [p \in Projects |-> IF backfill.rows[p] = None THEN project[p] ELSE backfill.rows[p]]
    BY DEF rebuildProjectOverviews
  <2> QED BY <1>8, <2>1 DEF TablesInv
<1>10. pointer' \in [Runs -> [FactKinds -> stored' \union {None}]] BY <1>1 DEF TablesInv
<1> QED BY <1>6, <1>7, <1>9, <1>10 DEF TablesInv

LEMMA CrashTables ==
    ASSUME TablesInv, BackfillCrash PROVE TablesInv'
<1>1. run' = run /\ overview' = overview /\ project' = project /\ submission' = submission
      /\ pointer' = pointer /\ stored' = stored
  BY DEF BackfillCrash, tables
<1>2. /\ backfill' = [pc |-> "read", batch |-> {}, rows |-> NoRows, crashes |-> backfill.crashes + 1]
      /\ backfill.crashes < MaxCrashes
  BY DEF BackfillCrash
<1>3. backfill.crashes + 1 \in 0..MaxCrashes
  BY <1>2, ReadingAssumption DEF ReadingAssumption, TablesInv, BackfillOK, BackfillType
<1>4. NoRows \in [Projects -> ProjectType \union {None}] BY DEF NoRows
<1>5. BackfillOK' BY <1>2, <1>3, <1>4 DEF BackfillOK, BackfillType
<1>6. (Tables /\ StoredRuns /\ Projected /\ Inherited /\ Submitted)'
  BY <1>1 DEF TablesInv, Tables, StoredRuns, Projected, Inherited, Submitted, StoredLegacy
<1>7. /\ project' \in [Projects -> ProjectType \union {None}]
      /\ pointer' \in [Runs -> [FactKinds -> stored' \union {None}]]
  BY <1>1 DEF TablesInv
<1> QED BY <1>5, <1>6, <1>7 DEF TablesInv

LEMMA CountedType ==
    ASSUME PagerOK, ClientOK, changes \in 0..MaxChanges, Counted PROVE changes' \in 0..MaxChanges
<1>1. MaxChanges \in Nat /\ MaxListChanges \in 0..MaxChanges BY ReadingAssumption DEF ReadingAssumption
<1>2. CASE Idle BY <1>2 DEF Counted
<1>3. CASE ~Idle
  <2>1. changes' = changes + 1 BY <1>3 DEF Counted
  <2>2. pager # NoList \/ client.open BY <1>3 DEF Idle
  <2>3. changes < MaxChanges BY <1>1, <2>2 DEF Counted
  <2> QED BY <1>1, <2>1, <2>3
<1> QED BY <1>2, <1>3

(* What a page adds to a list. *)
LEMMA TurnedType ==
    ASSUME NEW page, page.rows \subseteq Entries, page.next \in Entries \union {None},
           NEW matching, matching \subseteq Entries, NEW query \in Lists,
           NEW pages \in Seq(SUBSET Entries), Turned(page, matching, query, pages)
    PROVE  PagerOK'
<1>1. pager' = [query |-> query, pages |-> Append(pages, page.rows), next |-> page.next,
                done |-> ~page.hasMore, kept |-> matching]
  BY DEF Turned
<1>2. Append(pages, page.rows) \in Seq(SUBSET Entries) OBVIOUS
<1>3. (~page.hasMore) \in BOOLEAN OBVIOUS
<1> QED BY <1>1, <1>2, <1>3 DEF PagerOK

LEMMA OpenListType ==
    ASSUME TablesInv, ReadersInv, NEW query \in Lists, OpenList(query) PROVE ReadersInv'
<1>1. Tables /\ Projected BY DEF TablesInv
<1>2. PICK page : page = ListPage([query EXCEPT !.after = None]) OBVIOUS
<1>3. page.rows \subseteq Entries /\ page.next \in Entries \union {None} BY <1>1, <1>2, PageEntries
<1>4. Listed(query) \subseteq Entries BY <1>1, ListedEntries
<1>5. Turned(page, Listed(query), query, <<>>) /\ client' = client /\ changes' = changes BY <1>2 DEF OpenList
<1>6. <<>> \in Seq(SUBSET Entries) OBVIOUS
<1>7. PagerOK' BY <1>3, <1>4, <1>5, <1>6, TurnedType
<1> QED BY <1>5, <1>7 DEF ReadersInv, ClientOK

LEMMA NextPageType ==
    ASSUME TablesInv, ReadersInv, NextPage PROVE ReadersInv'
<1>1. Tables /\ Projected BY DEF TablesInv
<1>2. pager.query \in Lists /\ pager.pages \in Seq(SUBSET Entries) BY DEF NextPage, ReadersInv, PagerOK
<1>3. PICK page : page = ListPage([pager.query EXCEPT !.after = pager.next]) OBVIOUS
<1>4. page.rows \subseteq Entries /\ page.next \in Entries \union {None} BY <1>1, <1>2, <1>3, PageEntries
<1>5. PICK K : K = pager.kept \intersect Listed(pager.query) OBVIOUS
<1>6. K \subseteq Entries BY <1>1, <1>2, <1>5, ListedEntries
<1>7. Turned(page, K, pager.query, pager.pages) /\ client' = client /\ changes' = changes
  BY <1>3, <1>5 DEF NextPage
<1>8. PagerOK' BY <1>2, <1>4, <1>6, <1>7, TurnedType
<1> QED BY <1>7, <1>8 DEF ReadersInv, ClientOK

(* Runs are merged by their ids. *)
LEMMA MergedIs ==
    ASSUME NEW loaded \in [Runs -> LoadedType \union {None}], NEW rows, rows \subseteq FeedRow
    PROVE  /\ mergeRuns(loaded, rows) \in [Runs -> LoadedType \union {None}]
           /\ \A r \in Runs : mergeRuns(loaded, rows)[r] =
                 IF \E x \in rows : x.id = r
                 THEN [completedAt |-> (CHOOSE x \in rows : x.id = r).completedAt] ELSE loaded[r]
           /\ \A r \in Runs : (\E x \in rows : x.id = r) => (CHOOSE x \in rows : x.id = r) \in rows
                                                            /\ (CHOOSE x \in rows : x.id = r).id = r
<1>1. \A r \in Runs : (\E x \in rows : x.id = r) => (CHOOSE x \in rows : x.id = r) \in rows
                                                   /\ (CHOOSE x \in rows : x.id = r).id = r
  BY Zenon
<1>2. ASSUME NEW r \in Runs, \E x \in rows : x.id = r
      PROVE  [completedAt |-> (CHOOSE x \in rows : x.id = r).completedAt] \in LoadedType
  <2>1. PICK y : y = CHOOSE x \in rows : x.id = r OBVIOUS
  <2>2. y \in FeedRow BY <1>1, <1>2, <2>1
  <2> QED BY <2>1, <2>2 DEF FeedRow, LoadedType
<1>3. PICK m : m = mergeRuns(loaded, rows) OBVIOUS
<1>4. m = [r \in Runs |-> IF \E x \in rows : x.id = r
                          THEN [completedAt |-> (CHOOSE x \in rows : x.id = r).completedAt] ELSE loaded[r]]
  BY <1>3, Zenon DEF mergeRuns
<1>5. m \in [Runs -> LoadedType \union {None}] BY <1>2, <1>4
<1> QED BY <1>1, <1>3, <1>4, <1>5

LEMMA OpenOverviewType ==
    ASSUME TablesInv, ReadersInv, OpenOverview PROVE ReadersInv'
<1>1. Tables /\ Projected BY DEF TablesInv
<1>2. PICK page : page = Feed(All, None) OBVIOUS
<1>3. All \in Scopes BY ReadingAssumption DEF ReadingAssumption
<1>4. page.rows \subseteq FeedRows /\ page.hasMore \in BOOLEAN BY <1>1, <1>2, <1>3, FeedIs
<1>5. FeedRows \subseteq FeedRow BY <1>1, FeedRowsType
<1>6. PICK m : m = mergeRuns(client.loaded, page.rows) OBVIOUS
<1>7. m \in [Runs -> LoadedType \union {None}] BY <1>4, <1>5, <1>6, MergedIs DEF ReadersInv, ClientOK
<1>8. client' = [client EXCEPT !.open = TRUE, !.loaded = m, !.more = [@ EXCEPT ![All] = page.hasMore], !.kept = FeedRows]
  BY <1>2, <1>6 DEF OpenOverview
<1>9. ClientOK' BY <1>3, <1>4, <1>5, <1>7, <1>8 DEF ReadersInv, ClientOK
<1> QED BY <1>9 DEF OpenOverview, ReadersInv, PagerOK

LEMMA SelectProjectType ==
    ASSUME ReadersInv, NEW s \in Scopes, selectProject(s) PROVE ReadersInv'
<1>1. client' = [client EXCEPT !.scope = s, !.visited = @ \union {s}] /\ pager' = pager /\ Counted
  BY DEF selectProject
<1>2. ClientOK' BY <1>1 DEF ReadersInv, ClientOK
<1>3. changes' \in 0..MaxChanges BY <1>1, CountedType DEF ReadersInv
<1> QED BY <1>1, <1>2, <1>3 DEF ReadersInv, PagerOK

LEMMA OldestType ==
    ASSUME ClientOK, NEW s PROVE Oldest(s) \subseteq CursorType
<1>1. \A r \in LoadedIn(s) : r \in Runs /\ client.loaded[r] \in LoadedType BY DEF LoadedIn, ClientOK
<1> QED BY <1>1 DEF Oldest, CursorType, LoadedType

LEMMA LoadMoreType ==
    ASSUME ReadersInv, loadMoreRuns PROVE ReadersInv'
<1>1. PICK after \in IF LoadedIn(client.scope) = {} THEN {None} ELSE Oldest(client.scope) :
         client' = [client EXCEPT !.request = [scope |-> client.scope, after |-> after]]
  BY DEF loadMoreRuns
<1>2. after \in CursorType \union {None} BY <1>1, OldestType DEF ReadersInv
<1>3. PICK q : q = [scope |-> client.scope, after |-> after] OBVIOUS
<1>4. q \in RequestType BY <1>2, <1>3 DEF ReadersInv, ClientOK, RequestType
<1>5. ClientOK' BY <1>1, <1>3, <1>4 DEF ReadersInv, ClientOK
<1> QED BY <1>5 DEF loadMoreRuns, ReadersInv, PagerOK

LEMMA CursorSortable ==
    ASSUME NEW after \in CursorType \union {None} PROVE after = None \/ Sortable("newest", after)
BY QueriesAssumption DEF QueriesAssumption, CursorType, Sortable, ByPct

LEMMA RequestFeedType ==
    ASSUME TablesInv, ReadersInv, requestFeed PROVE ReadersInv'
<1>1. Tables /\ Projected BY DEF TablesInv
<1>2. PICK s, after : s = client.request.scope /\ after = client.request.after OBVIOUS
<1>3. s \in Scopes /\ after \in CursorType \union {None}
  BY <1>2 DEF requestFeed, ReadersInv, ClientOK, RequestType
<1>4. PICK page : page = Feed(s, after) OBVIOUS
<1>5. page.rows \subseteq FeedRows /\ page.hasMore \in BOOLEAN BY <1>1, <1>3, <1>4, FeedIs, CursorSortable
<1>6. FeedRows \subseteq FeedRow BY <1>1, FeedRowsType
<1>7. PICK m : m = mergeRuns(client.loaded, page.rows) OBVIOUS
<1>8. m \in [Runs -> LoadedType \union {None}] BY <1>5, <1>6, <1>7, MergedIs DEF ReadersInv, ClientOK
<1>9. client' = [client EXCEPT !.loaded = m, !.request = None, !.kept = @ \intersect FeedRows,
                               !.more = [@ EXCEPT ![s] = page.hasMore]]
  BY <1>2, <1>4, <1>7 DEF requestFeed
<1>10. ClientOK' BY <1>3, <1>5, <1>8, <1>9 DEF ReadersInv, ClientOK
<1> QED BY <1>10 DEF requestFeed, ReadersInv, PagerOK

LEMMA RefreshType ==
    ASSUME TablesInv, ReadersInv, refreshRuns PROVE ReadersInv'
<1>1. Tables /\ Projected BY DEF TablesInv
<1>2. PICK page : page = Feed(client.scope, None) OBVIOUS
<1>3. client.scope \in Scopes BY DEF ReadersInv, ClientOK
<1>4. page.rows \subseteq FeedRows BY <1>1, <1>2, <1>3, FeedIs
<1>5. FeedRows \subseteq FeedRow BY <1>1, FeedRowsType
<1>6. PICK m : m = mergeRuns(client.loaded, page.rows) OBVIOUS
<1>7. m \in [Runs -> LoadedType \union {None}] BY <1>4, <1>5, <1>6, MergedIs DEF ReadersInv, ClientOK
<1>8. client' = [client EXCEPT !.loaded = m, !.kept = @ \intersect FeedRows] BY <1>2, <1>6 DEF refreshRuns
<1>9. ClientOK' BY <1>7, <1>8 DEF ReadersInv, ClientOK
<1>10. changes' \in 0..MaxChanges BY CountedType DEF ReadersInv, refreshRuns
<1> QED BY <1>9, <1>10 DEF refreshRuns, ReadersInv, PagerOK

LEMMA NoneOpen ==
    ASSUME pager' = NoList, client' = Closed, changes' = 0 PROVE ReadersInv'
<1>1. All \in Scopes /\ MaxChanges \in Nat BY ReadingAssumption DEF ReadingAssumption
<1>2. <<>> \in Seq(SUBSET Entries) OBVIOUS
<1>3. PagerOK' BY <1>2 DEF PagerOK, NoList
<1>4. ClientOK' BY <1>1 DEF ClientOK, Closed
<1> QED BY <1>1, <1>3, <1>4 DEF ReadersInv

Typed == TablesInv /\ ReadersInv

LEMMA TypedInit ==
    ASSUME Init PROVE Typed
<1>1. stored \subseteq Contents /\ stored \subseteq Legacy BY NoneIsNothing DEF Init
<1>2. \A r \in Runs : run[r] = IF \E c \in stored : Content[c].run = r
                               THEN RunValues(None, CHOOSE c \in stored : Content[c].run = r) ELSE None
  BY DEF Init
<1>3. ASSUME NEW r \in Runs, \E c \in stored : Content[c].run = r PROVE run[r] \in RunType
  <2>1. PICK c : c = CHOOSE x \in stored : Content[x].run = r OBVIOUS
  <2>2. c \in stored BY <1>3, <2>1, Zenon
  <2>3. RunValues(None, c) \in RunType BY <1>1, <2>2, RunValuesType
  <2> QED BY <1>2, <1>3, <2>1, <2>3
<1>4. run \in [Runs -> RunType \union {None}]
  <2>1. \A r \in Runs : run[r] \in RunType \union {None} BY <1>2, <1>3
  <2>2. run = [r \in Runs |-> run[r]] BY DEF Init
  <2> QED BY <2>1, <2>2
<1>5. \A r \in Runs : run[r] # None <=> \E c \in stored : Content[c].run = r BY <1>2, <1>3, NoneIsNothing
<1>6. overview = [r \in Runs |-> None] /\ submission = [c \in Contents |-> None] BY DEF Init
<1>7. Tables BY <1>1, <1>4, <1>6 DEF Tables
<1>8. StoredRuns BY <1>1, <1>5, ContentFields DEF StoredRuns
<1>9. Projected /\ Submitted BY <1>6 DEF Projected, Submitted
<1>10. Inherited BY <1>1, <1>5 DEF Inherited, StoredLegacy
<1>11. BackfillOK BY ReadingAssumption DEF ReadingAssumption, BackfillOK, BackfillType, NoRows, Init
<1>12. /\ project \in [Projects -> ProjectType \union {None}]
       /\ pointer \in [Runs -> [FactKinds -> stored \union {None}]]
  BY DEF Init
<1>13. TablesInv BY <1>7, <1>8, <1>9, <1>10, <1>11, <1>12 DEF TablesInv
<1>14. All \in Scopes /\ MaxChanges \in Nat BY ReadingAssumption DEF ReadingAssumption
<1>15. <<>> \in Seq(SUBSET Entries) OBVIOUS
<1>16. pager = NoList /\ client = Closed /\ changes = 0 BY DEF Init
<1>17. PagerOK BY <1>15, <1>16 DEF PagerOK, NoList
<1>18. ClientOK BY <1>14, <1>16 DEF ClientOK, Closed
<1> QED BY <1>13, <1>14, <1>16, <1>17, <1>18 DEF Typed, ReadersInv

LEMMA TypedNext ==
    ASSUME Typed, [Next]_vars PROVE Typed'
<1>1. ASSUME tables' = tables, backfill' = backfill PROVE TablesInv'
  BY <1>1 DEF Typed, TablesInv, Tables, StoredRuns, Projected, Inherited, Submitted, BackfillOK, StoredLegacy, tables
<1>2. ASSUME pager' = pager, client' = client, changes' \in 0..MaxChanges PROVE ReadersInv'
  BY <1>2 DEF Typed, ReadersInv, PagerOK, ClientOK
<1>3. TablesInv /\ ReadersInv BY DEF Typed
<1>4. ASSUME NEW c \in Contents, Upload(c) PROVE Typed'
  <2>1. changes' \in 0..MaxChanges BY <1>3, <1>4, CountedType DEF Upload, ReadersInv
  <2>2. pager' = pager /\ client' = client BY <1>4 DEF Upload
  <2> QED BY <1>2, <1>3, <1>4, <2>1, <2>2, UploadTables DEF Typed
<1>5. ASSUME NEW c \in Contents, Retry(c) PROVE Typed'
  <2>1. changes' \in 0..MaxChanges BY <1>3, <1>5, CountedType DEF Retry, ReadersInv
  <2>2. pager' = pager /\ client' = client BY <1>5 DEF Retry
  <2> QED BY <1>2, <1>3, <1>5, <2>1, <2>2, RetryTables DEF Typed
<1>6. CASE BackfillRead BY <1>2, <1>3, <1>6, BackfillReadTables DEF Typed, BackfillRead, ReadersInv
<1>7. CASE BackfillRun BY <1>2, <1>3, <1>7, BackfillRunTables DEF Typed, BackfillRun, ReadersInv
<1>8. CASE rebuildProjectOverviews BY <1>2, <1>3, <1>8, RebuildTables DEF Typed, rebuildProjectOverviews, ReadersInv
<1>9. CASE BackfillCrash BY <1>2, <1>3, <1>9, CrashTables DEF Typed, BackfillCrash, ReadersInv
<1>10. ASSUME NEW query \in Lists, OpenList(query) PROVE Typed' BY <1>1, <1>3, <1>10, OpenListType DEF Typed, OpenList
<1>11. CASE NextPage BY <1>1, <1>3, <1>11, NextPageType DEF Typed, NextPage
<1>12. CASE OpenOverview BY <1>1, <1>3, <1>12, OpenOverviewType DEF Typed, OpenOverview
<1>13. CASE loadMoreRuns BY <1>1, <1>3, <1>13, LoadMoreType DEF Typed, loadMoreRuns
<1>14. CASE requestFeed BY <1>1, <1>3, <1>14, RequestFeedType DEF Typed, requestFeed
<1>15. CASE refreshRuns BY <1>1, <1>3, <1>15, RefreshType DEF Typed, refreshRuns
<1>16. ASSUME NEW s \in Scopes, selectProject(s) PROVE Typed'
  BY <1>1, <1>3, <1>16, SelectProjectType DEF Typed, selectProject
<1>17. CASE Leave BY <1>1, <1>17, NoneOpen DEF Typed, Leave
<1>18. CASE UNCHANGED vars BY <1>1, <1>2, <1>3, <1>18 DEF Typed, ReadersInv, vars
<1>19. CASE selectProjectOverviews BY <1>2, <1>3, <1>19, SelectTables DEF Typed, selectProjectOverviews, ReadersInv
<1> QED BY <1>19, <1>4, <1>5, <1>6, <1>7, <1>8, <1>9, <1>10, <1>11, <1>12, <1>13, <1>14, <1>15, <1>16, <1>17, <1>18
        DEF Next, BackfillStep, Read

LEMMA TypedInvariance == Spec => []Typed
<1>1. Init => Typed BY TypedInit
<1>2. Typed /\ [Next]_vars => Typed' BY TypedNext
<1> QED BY <1>1, <1>2, PTL DEF Spec

(* Rows, projections, pointers and the states of the job and of both kinds  *)
(* of reader keep their types, whatever is uploaded, adopted and read.     *)
THEOREM TypeCorrect == Spec => []TypeOK
<1>1. Typed => TypeOK
  BY DEF Typed, TablesInv, ReadersInv, Tables, BackfillOK, BackfillType, PagerOK, ClientOK, TypeOK
<1> QED BY <1>1, TypedInvariance, PTL

-----------------------------------------------------------------------------
(* Paging.                                                                  *)

(* What a cursor is of. *)
Cursor(order, x) == x # None /\ Sortable(order, x) /\ (order \in ByPct => x.linesPct # None)

(* Pages that follow each other; an entry that was there at all of them is  *)
(* on one of them or after the cursor.                                     *)
PagesFollow(pages, next, done, kept, order) ==
    /\ \A i \in DOMAIN pages : \A x \in pages[i] : Sortable(order, x)
    /\ \A i, j \in DOMAIN pages : i < j => \A a \in pages[i], b \in pages[j] : Before(order, a, b)
    /\ ~done => /\ Cursor(order, next)
                /\ \A i \in DOMAIN pages : \A x \in pages[i] : x = next \/ Before(order, x, next)
    /\ \A row \in kept : \/ \E i \in DOMAIN pages : row \in pages[i]
                         \/ ~done /\ Before(order, next, row)

(* What a page is of: the list, in line. *)
ListInLine(L, order) ==
    InLine(L, order) /\ \A x \in L : Cursor(order, x)

LEMMA FirstPage ==
    ASSUME NEW order \in Orders, NEW L, ListInLine(L, order), NEW page, IsPage(page, Beyond(L, None, order), order)
    PROVE  PagesFollow(Append(<<>>, page.rows), page.next, ~page.hasMore, L, order)
<1>1. PICK pages : pages = Append(<<>>, page.rows) OBVIOUS
<1>2. DOMAIN pages = {1} /\ pages[1] = page.rows BY <1>1
<1>3. Beyond(L, None, order) = L BY DEF Beyond
<1>4. Beginning(page.rows, L, order) BY <1>3 DEF IsPage
<1>5. page.rows \subseteq L BY <1>4 DEF Beginning
<1>6. page.hasMore => page.next \in page.rows /\ \A x \in page.rows : x = page.next \/ Before(order, x, page.next)
  BY DEF IsPage
<1>7. ASSUME NEW row \in L, row \notin page.rows PROVE page.hasMore /\ Before(order, page.next, row)
  <2>1. page.hasMore BY <1>3, <1>7 DEF IsPage
  <2>2. page.next \in L /\ page.next \in page.rows BY <1>5, <1>6, <2>1
  <2>3. ~Before(order, row, page.next) BY <1>4, <1>7, <2>2 DEF Beginning
  <2> QED BY <1>7, <2>1, <2>2, <2>3 DEF ListInLine, InLine
<1>8. \A x \in L : Sortable(order, x) /\ Cursor(order, x) BY DEF ListInLine, Cursor
<1> QED BY <1>1, <1>2, <1>5, <1>6, <1>7, <1>8 DEF PagesFollow

LEMMA LaterPage ==
    ASSUME NEW order \in Orders, NEW L, ListInLine(L, order), NEW pages \in Seq(SUBSET Entries), NEW next, NEW kept,
           PagesFollow(pages, next, FALSE, kept, order),
           NEW page, page.rows \subseteq Entries, IsPage(page, Beyond(L, next, order), order)
    PROVE  PagesFollow(Append(pages, page.rows), page.next, ~page.hasMore, kept \intersect L, order)
<1>1. PICK all : all = Append(pages, page.rows) OBVIOUS
<1>2. PICK n : n = Len(pages) + 1 OBVIOUS
<1>3. /\ n \in Nat /\ DOMAIN pages = 1..(n - 1) /\ DOMAIN all = 1..n
      /\ all[n] = page.rows /\ \A i \in 1..(n - 1) : all[i] = pages[i]
  BY <1>1, <1>2
<1>4. PICK S : S = Beyond(L, next, order) OBVIOUS
<1>5. Cursor(order, next) /\ \A i \in DOMAIN pages : \A x \in pages[i] : x = next \/ Before(order, x, next)
  BY DEF PagesFollow
<1>6. S = {x \in L : Before(order, next, x)} BY <1>4, <1>5 DEF Beyond, Cursor
<1>7. /\ page.rows \subseteq S
      /\ \A x \in page.rows, y \in S : Before(order, y, x) => y \in page.rows
      /\ ~page.hasMore => page.rows = S
      /\ page.hasMore => page.next \in page.rows
      /\ page.hasMore => \A x \in page.rows : x = page.next \/ Before(order, x, page.next)
  BY <1>4 DEF IsPage, Beginning
<1>8. \A x \in L : Sortable(order, x) /\ Cursor(order, x) BY DEF ListInLine, Cursor
<1>9. \A i \in DOMAIN pages : \A x \in pages[i] : Sortable(order, x) BY DEF PagesFollow
<1>10. Sortable(order, next) BY <1>5 DEF Cursor
<1>11. \A i \in DOMAIN pages : \A x \in pages[i], y \in page.rows : Before(order, x, y)
  <2> SUFFICES ASSUME NEW i \in DOMAIN pages, NEW x \in pages[i], NEW y \in page.rows PROVE Before(order, x, y)
    OBVIOUS
  <2>1. Before(order, next, y) /\ Sortable(order, y) BY <1>6, <1>7, <1>8
  <2>2. x = next \/ Before(order, x, next) BY <1>5
  <2> QED BY <1>9, <1>10, <2>1, <2>2, BeforeOrders
<1>12. \A i, j \in DOMAIN all : i < j => \A a \in all[i], b \in all[j] : Before(order, a, b)
  <2> SUFFICES ASSUME NEW i \in 1..n, NEW j \in 1..n, i < j, NEW a \in all[i], NEW b \in all[j]
               PROVE  Before(order, a, b)
    BY <1>3
  <2>1. i \in 1..(n - 1) /\ a \in pages[i] BY <1>3
  <2>2. CASE j = n BY <1>3, <1>11, <2>1, <2>2
  <2>3. CASE j # n
    <3>1. j \in 1..(n - 1) /\ b \in pages[j] BY <1>3, <2>3
    <3> QED BY <1>3, <2>1, <3>1 DEF PagesFollow
  <2> QED BY <2>2, <2>3
<1>13. ASSUME page.hasMore
       PROVE  /\ Cursor(order, page.next)
              /\ \A i \in DOMAIN all : \A x \in all[i] : x = page.next \/ Before(order, x, page.next)
  <2>1. page.next \in page.rows /\ page.next \in L BY <1>6, <1>7, <1>13
  <2>2. ASSUME NEW i \in 1..n, NEW x \in all[i] PROVE x = page.next \/ Before(order, x, page.next)
    <3>1. CASE i = n BY <1>3, <1>7, <1>13, <3>1
    <3>2. CASE i # n
      <4>1. i \in 1..(n - 1) /\ x \in pages[i] BY <1>3, <3>2
      <4> QED BY <1>3, <1>11, <2>1, <4>1
    <3> QED BY <3>1, <3>2
  <2> QED BY <1>3, <1>8, <2>1, <2>2
<1>14. ASSUME NEW row \in kept \intersect L
       PROVE  \/ \E i \in DOMAIN all : row \in all[i]
              \/ page.hasMore /\ Before(order, page.next, row)
  <2>1. CASE \E i \in DOMAIN pages : row \in pages[i]
    <3>1. PICK i \in DOMAIN pages : row \in pages[i] BY <2>1
    <3>2. i \in DOMAIN all /\ row \in all[i] BY <1>3, <3>1
    <3> QED BY <3>2
  <2>2. CASE ~ \E i \in DOMAIN pages : row \in pages[i]
    <3>1. row \in S BY <1>6, <1>14, <2>2 DEF PagesFollow
    <3>2. CASE row \in page.rows
      <4>0. n \in 1..n BY <1>2, <1>3
      <4>1. n \in DOMAIN all /\ row \in all[n] BY <1>3, <3>2, <4>0
      <4> QED BY <4>1
    <3>3. CASE row \notin page.rows
      <4>1. page.hasMore BY <1>7, <3>1, <3>3
      <4>2. page.next \in page.rows /\ page.next \in L BY <1>6, <1>7, <4>1
      <4>3. ~Before(order, row, page.next) BY <1>7, <3>1, <3>3, <4>2
      <4>4. Before(order, page.next, row) BY <1>14, <3>3, <4>2, <4>3 DEF ListInLine, InLine
      <4> QED BY <4>1, <4>4
    <3> QED BY <3>2, <3>3
  <2> QED BY <2>1, <2>2
<1>15. ASSUME NEW i \in DOMAIN all, NEW x \in all[i] PROVE Sortable(order, x)
  <2>1. CASE i = n BY <1>3, <1>6, <1>7, <1>8, <1>15, <2>1
  <2>2. CASE i # n BY <1>3, <1>9, <1>15, <2>2
  <2> QED BY <2>1, <2>2
<1>16. PagesFollow(all, page.next, ~page.hasMore, kept \intersect L, order)
  BY <1>12, <1>13, <1>14, <1>15 DEF PagesFollow
<1> QED BY <1>1, <1>16

(* What is listed is of one table, in line by what its order compares. *)
LEMMA ListedInLine ==
    ASSUME Tables, Projected, NEW query \in Lists, Comparable(query)
    PROVE  query.order \in Orders /\ ListInLine(Listed(query), query.order)
<1>1. query.list \in {"runs", "suite", "failures", "artifacts", "coverage"} /\ QueryOK(query)
  BY ReadingAssumption DEF ReadingAssumption, QueryType
<1>2. \A x \in Listed(query) : x # None BY ListedEntries, NoneIsNothing
<1>3. stored \subseteq Contents BY DEF Tables
<1>4. CASE query.list = "runs"
  <2>1. query.order = "newest" BY <1>1, <1>4 DEF QueryOK
  <2>2. Listed(query) = {OverviewRow(r) : r \in {x \in Runs : /\ overview[x] # None
                                                              /\ RunProject[x] \in listProjects(Projects)
                                                              /\ query.project \in {None, RunProject[x]}
                                                              /\ OverviewMatches(OverviewRow(x), query)}}
    BY <1>4 DEF Listed
  <2>3. Listed(query) \subseteq FeedRows BY <2>2 DEF FeedRows
  <2>4. \A x \in Listed(query) : Sortable("newest", x) BY <2>3, FeedRowsType, RowsSortable
  <2> QED BY <1>2, <2>1, <2>3, <2>4, SelectedInLine DEF ListInLine, Cursor, Orders, ByPct
<1>5. CASE query.list \in {"suite", "failures"}
  <2>1. query.order = "id" BY <1>1, <1>5 DEF QueryOK
  <2>2. Listed(query) \subseteq TestExecution BY <1>5, TestsRead DEF Listed
  <2>3. \A x \in Listed(query) : Sortable("id", x) BY <1>3, <2>2, TestRows, RowsSortable
  <2> QED BY <1>2, <2>1, <2>2, <2>3, SelectedInLine DEF ListInLine, Cursor, Orders, ByPct
<1>6. CASE query.list = "artifacts"
  <2>1. query.order = "id" BY <1>1, <1>6 DEF QueryOK
  <2>2. Listed(query) = {a \in ArtifactsSelected(Projects, query.run, None) : query.search = None \/ query.search = a.word}
    BY <1>6 DEF Listed
  <2>3. Listed(query) \subseteq Artifact BY <2>2, ArtifactsRead
  <2>4. \A x \in Listed(query) : Sortable("id", x) BY <1>3, <2>3, ArtifactRows, RowsSortable
  <2> QED BY <1>2, <2>1, <2>3, <2>4, SelectedInLine DEF ListInLine, Cursor, Orders, ByPct
<1>7. CASE query.list = "coverage"
  <2>1. PICK order : order = query.order OBVIOUS
  <2>2. order = query.sort /\ order \in {"path-asc", "lines-asc", "lines-desc"} /\ order \in Orders \ {"newest"}
    BY <1>1, <1>7, <2>1 DEF QueryOK, Orders, ByPct
  <2>3. PICK s : s = getCoverageSnapshotForRun(Projects, query.run) OBVIOUS
  <2>4. Listed(query) = IF s = None THEN {} ELSE CoverageFilesOf(s) BY <1>7, <2>3 DEF Listed
  <2>5. Listed(query) \subseteq CoverageFile BY <2>4 DEF CoverageFilesOf
  <2>6. \A x \in Listed(query) : Sortable(order, x) BY <1>3, <2>2, <2>5, FileRows, RowsSortable
  <2>7. \A x \in Listed(query) : order # "path-asc" => x.linesPct # None
    BY <1>7, <2>2, <2>3, <2>4, ComparableFiles
  <2>8. \A x \in Listed(query) : Cursor(order, x) BY <1>2, <2>2, <2>6, <2>7 DEF Cursor, ByPct
  <2> QED BY <2>1, <2>2, <2>5, <2>8, SelectedInLine DEF ListInLine
<1> QED BY <1>1, <1>4, <1>5, <1>6, <1>7

(* The page after a cursor. *)
LEMMA PageAfter ==
    ASSUME Tables, Projected, StoredRuns, NEW query \in Lists, query.search = None, Comparable(query),
           NEW after, after = None \/ (Cursor(query.order, after) /\ (query.list = "coverage" => Placed(query, after)))
    PROVE  IsPage(ListPage([query EXCEPT !.after = after]), Beyond(Listed(query), after, query.order), query.order)
<1>1. query.list \in {"runs", "suite", "failures", "artifacts", "coverage"} /\ QueryOK(query)
  BY ReadingAssumption DEF ReadingAssumption, QueryType
<1>2. after = None \/ Sortable(query.order, after) BY DEF Cursor
<1>3. CASE query.list = "runs"
  <2>1. query.order = "newest" BY <1>1, <1>3 DEF QueryOK
  <2> QED BY <1>2, <1>3, <2>1, RunPages
<1>4. CASE query.list = "suite"
  <2>1. query.order = "id" BY <1>1, <1>4 DEF QueryOK
  <2> QED BY <1>2, <1>4, <2>1, SuitePages
<1>5. CASE query.list = "failures"
  <2>1. query.order = "id" BY <1>1, <1>5 DEF QueryOK
  <2> QED BY <1>2, <1>5, <2>1, FailurePages
<1>6. CASE query.list = "artifacts"
  <2>1. query.order = "id" BY <1>1, <1>6 DEF QueryOK
  <2> QED BY <1>2, <1>6, <2>1, ArtifactPages
<1>7. CASE query.list = "coverage"
  <2>1. query.order = query.sort /\ query.sort \in {"path-asc", "lines-asc", "lines-desc"}
    BY <1>1, <1>7 DEF QueryOK
  <2>2. query.sort # "path-asc" => query.order \in ByPct BY <2>1 DEF ByPct
  <2>3. \/ after = None
        \/ /\ Sortable(query.sort, after) /\ Placed(query, after)
           /\ query.sort # "path-asc" => after.linesPct # None
    BY <1>7, <2>1, <2>2 DEF Cursor
  <2> QED BY <1>7, <2>1, <2>3, CoveragePages
<1> QED BY <1>1, <1>3, <1>4, <1>5, <1>6, <1>7

(* The pages of the list that is open follow each other. *)
PagesInv ==
    pager # NoList /\ pager.query.search = None /\ Comparable(pager.query) =>
        /\ PagesFollow(pager.pages, pager.next, pager.done, pager.kept, pager.query.order)
        /\ ~pager.done /\ pager.query.list = "coverage" => Placed(pager.query, pager.next)

(* Where a page of files ends is a file of the run. *)
LEMMA NextPlaced ==
    ASSUME Tables, NEW query \in Lists, query.list = "coverage", NEW after, NEW page,
           IsPage(page, Beyond(Listed(query), after, query.order), query.order), page.hasMore
    PROVE  Placed(query, page.next)
<1>1. page.next \in Beyond(Listed(query), after, query.order) BY DEF IsPage, Beginning
<1>2. page.next \in Listed(query) BY <1>1 DEF Beyond
<1>3. PICK s : s = getCoverageSnapshotForRun(Projects, query.run) OBVIOUS
<1>4. Listed(query) = IF s = None THEN {} ELSE CoverageFilesOf(s) BY <1>3 DEF Listed
<1> QED BY <1>2, <1>3, <1>4, SnapshotFilesPlaced

LEMMA OpenListFollows ==
    ASSUME Typed, NEW query \in Lists, OpenList(query) PROVE PagesInv'
<1>1. Tables /\ Projected /\ StoredRuns BY DEF Typed, TablesInv
<1>2. PICK page : page = ListPage([query EXCEPT !.after = None]) OBVIOUS
<1>3. pager' = [query |-> query, pages |-> Append(<<>>, page.rows), next |-> page.next,
                done |-> ~page.hasMore, kept |-> Listed(query)]
  BY <1>2 DEF OpenList, Turned
<1>4. stored' = stored BY DEF OpenList, tables
<1>5. ASSUME query.search = None, Comparable(query)
      PROVE  /\ PagesFollow(Append(<<>>, page.rows), page.next, ~page.hasMore, Listed(query), query.order)
             /\ page.hasMore /\ query.list = "coverage" => Placed(query, page.next)
  <2>1. query.order \in Orders /\ ListInLine(Listed(query), query.order) BY <1>1, <1>5, ListedInLine
  <2>2. IsPage(page, Beyond(Listed(query), None, query.order), query.order) BY <1>1, <1>2, <1>5, PageAfter
  <2>3. page.hasMore /\ query.list = "coverage" => Placed(query, page.next) BY <1>1, <2>2, NextPlaced
  <2> QED BY <2>1, <2>2, <2>3, FirstPage
<1>6. /\ pager'.query = query /\ pager'.pages = Append(<<>>, page.rows) /\ pager'.next = page.next
      /\ pager'.done = ~page.hasMore /\ pager'.kept = Listed(query)
  BY <1>3
<1>7. Comparable(pager.query)' => Comparable(query) BY <1>4, <1>6 DEF Comparable
<1>8. Placed(query, page.next) => Placed(pager.query, pager.next)' BY <1>4, <1>6 DEF Placed
<1> QED BY <1>5, <1>6, <1>7, <1>8 DEF PagesInv

LEMMA NextPageFollows ==
    ASSUME Typed, PagesInv, NextPage PROVE PagesInv'
<1>1. Tables /\ Projected /\ StoredRuns /\ PagerOK BY DEF Typed, TablesInv, ReadersInv
<1>2. PICK query : query = pager.query OBVIOUS
<1>3. pager # NoList /\ pager.done = FALSE /\ query \in Lists /\ pager.pages \in Seq(SUBSET Entries)
  BY <1>1, <1>2 DEF NextPage, PagerOK
<1>4. PICK page : page = ListPage([query EXCEPT !.after = pager.next]) OBVIOUS
<1>5. pager' = [query |-> query, pages |-> Append(pager.pages, page.rows), next |-> page.next,
                done |-> ~page.hasMore, kept |-> pager.kept \intersect Listed(query)]
  BY <1>2, <1>4 DEF NextPage, Turned
<1>6. stored' = stored BY DEF NextPage, tables
<1>7. ASSUME query.search = None, Comparable(query)
      PROVE  /\ PagesFollow(Append(pager.pages, page.rows), page.next, ~page.hasMore,
                            pager.kept \intersect Listed(query), query.order)
             /\ page.hasMore /\ query.list = "coverage" => Placed(query, page.next)
  <2>1. query.order \in Orders /\ ListInLine(Listed(query), query.order) BY <1>1, <1>3, <1>7, ListedInLine
  <2>2. /\ PagesFollow(pager.pages, pager.next, FALSE, pager.kept, query.order)
        /\ query.list = "coverage" => Placed(query, pager.next)
    BY <1>2, <1>3, <1>7 DEF PagesInv
  <2>3. Cursor(query.order, pager.next) BY <2>2 DEF PagesFollow
  <2>4. IsPage(page, Beyond(Listed(query), pager.next, query.order), query.order)
    BY <1>1, <1>3, <1>4, <1>7, <2>2, <2>3, PageAfter
  <2>5. page.rows \subseteq Entries
    <3>1. page.rows \subseteq Beyond(Listed(query), pager.next, query.order) BY <2>4 DEF IsPage, Beginning
    <3>2. Listed(query) \subseteq Entries BY <1>1, <1>3, ListedEntries
    <3> QED BY <3>1, <3>2 DEF Beyond
  <2>6. page.hasMore /\ query.list = "coverage" => Placed(query, page.next) BY <1>1, <1>3, <2>4, NextPlaced
  <2> QED BY <1>3, <2>1, <2>2, <2>4, <2>5, <2>6, LaterPage
<1>8. /\ pager'.query = query /\ pager'.pages = Append(pager.pages, page.rows) /\ pager'.next = page.next
      /\ pager'.done = ~page.hasMore /\ pager'.kept = pager.kept \intersect Listed(query)
  BY <1>5
<1>9. Comparable(pager.query)' => Comparable(query) BY <1>6, <1>8 DEF Comparable
<1>10. Placed(query, page.next) => Placed(pager.query, pager.next)' BY <1>6, <1>8 DEF Placed
<1> QED BY <1>7, <1>8, <1>9, <1>10 DEF PagesInv

LEMMA PagesNext ==
    ASSUME Typed, PagesInv, [Next]_vars PROVE PagesInv'
<1>1. ASSUME pager' = pager, stored \subseteq stored' PROVE PagesInv'
  <2>1. Comparable(pager.query)' => Comparable(pager.query) BY <1>1 DEF Comparable
  <2>2. Placed(pager.query, pager.next) => Placed(pager.query, pager.next)' BY <1>1 DEF Placed
  <2> QED BY <1>1, <2>1, <2>2 DEF PagesInv
<1>2. ASSUME NEW c \in Contents, Upload(c) \/ Retry(c) PROVE PagesInv' BY <1>1, <1>2 DEF Upload, Retry
<1>3. CASE BackfillStep \/ BackfillCrash
  BY <1>1, <1>3 DEF BackfillStep, BackfillRead, BackfillRun, selectProjectOverviews, rebuildProjectOverviews,
                    BackfillCrash, tables
<1>4. ASSUME NEW query \in Lists, OpenList(query) PROVE PagesInv' BY <1>4, OpenListFollows
<1>5. CASE NextPage BY <1>5, NextPageFollows
<1>6. CASE OpenOverview \/ loadMoreRuns \/ requestFeed \/ refreshRuns
  BY <1>1, <1>6 DEF OpenOverview, loadMoreRuns, requestFeed, refreshRuns, tables
<1>7. ASSUME NEW s \in Scopes, selectProject(s) PROVE PagesInv' BY <1>1, <1>7 DEF selectProject, tables
<1>8. CASE Leave BY <1>8 DEF Leave, PagesInv
<1>9. CASE UNCHANGED vars BY <1>1, <1>9 DEF vars, tables
<1> QED BY <1>2, <1>3, <1>4, <1>5, <1>6, <1>7, <1>8, <1>9 DEF Next, Read

(* Each entry that was kept is on one page, and the pages are in order. *)
LEMMA PagesOnce ==
    ASSUME Typed, PagesInv PROVE PagesComplete
<1>1. SUFFICES ASSUME pager.done, pager.query.search = None, Comparable(pager.query)
               PROVE  /\ \A row \in pager.kept : Cardinality(OnPages(row)) = 1
                      /\ \A i, j \in DOMAIN pager.pages : i < j =>
                            \A a \in pager.pages[i] \intersect pager.kept, b \in pager.pages[j] \intersect pager.kept :
                                Before(pager.query.order, a, b)
  BY DEF PagesComplete, ShownOnce
<1>2. pager # NoList BY <1>1 DEF NoList
<1>3. PagerOK /\ pager.query \in Lists BY <1>2 DEF Typed, ReadersInv, PagerOK
<1>4. PICK order : order = pager.query.order OBVIOUS
<1>5. order \in Orders BY <1>1, <1>3, <1>4, ListedInLine DEF Typed, TablesInv
<1>6. PagesFollow(pager.pages, pager.next, pager.done, pager.kept, order) BY <1>1, <1>2, <1>4 DEF PagesInv
<1>7. PICK n \in Nat : DOMAIN pager.pages = 1..n BY <1>3 DEF PagerOK
<1>8. ASSUME NEW row \in pager.kept PROVE Cardinality(OnPages(row)) = 1
  <2>1. PICK i \in DOMAIN pager.pages : row \in pager.pages[i] BY <1>1, <1>6 DEF PagesFollow
  <2>2. ~Before(order, row, row) BY <1>5, <1>6, <2>1, BeforeOrders DEF PagesFollow
  <2>3. ASSUME NEW j \in DOMAIN pager.pages, row \in pager.pages[j] PROVE j = i
    <3>1. ~(i < j) /\ ~(j < i) BY <1>6, <2>1, <2>2, <2>3 DEF PagesFollow
    <3> QED BY <1>7, <3>1
  <2>4. OnPages(row) = {i} BY <2>1, <2>3 DEF OnPages
  <2> QED BY <2>4, FS_Singleton
<1>9. ASSUME NEW i \in DOMAIN pager.pages, NEW j \in DOMAIN pager.pages, i < j,
             NEW a \in pager.pages[i] \intersect pager.kept, NEW b \in pager.pages[j] \intersect pager.kept
      PROVE  Before(order, a, b)
  BY <1>6, <1>9 DEF PagesFollow
<1> QED BY <1>4, <1>8, <1>9

-----------------------------------------------------------------------------
(* The operations overview.                                                 *)

(* What was there up to x, of what is in the scope, is loaded. *)
Reached(s, rows, loaded, x) ==
    \A y \in rows : s \in {All, RunProject[y.id]} /\ ~Before("newest", x, y) => loaded[y.id] # None
AllReached(s, rows, loaded) ==
    \A y \in rows : s \in {All, RunProject[y.id]} => loaded[y.id] # None
LoadedReached(s, rows, loaded) ==
    \A r \in Runs : loaded[r] # None => Reached(s, rows, loaded, [id |-> r, completedAt |-> loaded[r].completedAt])

(* While no other project was listed, what is loaded of a scope, and what   *)
(* is asked for, has no gap; a scope without more is loaded; and a page    *)
(* that was closed is forgotten.                                           *)
FeedInv ==
    /\ ~client.open => client = Closed
    /\ client.request # None => client.request.scope \in client.visited
    /\ \A s \in Scopes : client.visited \subseteq {All, s} =>
          /\ LoadedReached(s, client.kept, client.loaded)
          /\ client.request # None /\ client.request.after # None =>
                Reached(s, client.kept, client.loaded, client.request.after)
          /\ ~client.more[s] => AllReached(s, client.kept, client.loaded)

LEMMA FewerReached ==
    ASSUME NEW s, NEW rows, NEW loaded, NEW few, few \subseteq rows, NEW more,
           \A y \in few : loaded[y.id] # None => more[y.id] # None
    PROVE  /\ \A x : Reached(s, rows, loaded, x) => Reached(s, few, more, x)
           /\ AllReached(s, rows, loaded) => AllReached(s, few, more)
BY DEF Reached, AllReached

LEMMA FeedRowsOf ==
    ASSUME NEW s \in Scopes, NEW p \in {All, s}, NEW y \in FeedRows, s \in {All, RunProject[y.id]}
    PROVE  y \in RunsShown(ScopeOf(p), None)
<1>1. PICK r \in Runs : overview[r] # None /\ y = OverviewRow(r) BY DEF FeedRows
<1>2. y.id = r BY <1>1 DEF OverviewRow
<1>3. ScopeOf(p) \in {None, RunProject[r]} BY <1>2 DEF ScopeOf
<1> QED BY <1>1, <1>3 DEF RunsShown

(* Merging a page of the scope, or of all, leaves no gap. *)
LEMMA MergeReaches ==
    ASSUME Tables, Projected, NEW s \in Scopes, NEW p \in {All, s}, p \in Scopes, NEW after \in CursorType \union {None},
           NEW loaded \in [Runs -> LoadedType \union {None}], NEW rows, rows \subseteq FeedRows,
           LoadedReached(s, rows, loaded), after # None => Reached(s, rows, loaded, after),
           NEW m, m = mergeRuns(loaded, Feed(p, after).rows)
    PROVE  /\ m \in [Runs -> LoadedType \union {None}]
           /\ \A r \in Runs : loaded[r] # None => m[r] # None
           /\ LoadedReached(s, rows, m)
           /\ ~Feed(p, after).hasMore => AllReached(s, rows, m)
<1>1. PICK page : page = Feed(p, after) OBVIOUS
<1>2. FeedRows \subseteq FeedRow /\ \A x, y \in FeedRows : x.id = y.id => x = y BY FeedRowsType
<1>3. PICK S : S = Beyond(RunsShown(ScopeOf(p), None), after, "newest") OBVIOUS
<1>4. IsPage(page, S, "newest") /\ page.rows \subseteq FeedRows BY <1>1, <1>3, FeedIs, CursorSortable
<1>5. /\ m \in [Runs -> LoadedType \union {None}]
      /\ \A r \in Runs : m[r] = IF \E x \in page.rows : x.id = r
                                THEN [completedAt |-> (CHOOSE x \in page.rows : x.id = r).completedAt] ELSE loaded[r]
      /\ \A r \in Runs : (\E x \in page.rows : x.id = r) => (CHOOSE x \in page.rows : x.id = r) \in page.rows
                                                            /\ (CHOOSE x \in page.rows : x.id = r).id = r
  BY <1>1, <1>2, <1>4, MergedIs
<1>6. \A x \in FeedRow : x.id \in Runs /\ x.completedAt \in Nat BY DEF FeedRow
<1>7. ASSUME NEW x \in page.rows PROVE m[x.id] = [completedAt |-> x.completedAt] /\ m[x.id] # None
  <2>1. PICK z : z = CHOOSE y \in page.rows : y.id = x.id OBVIOUS
  <2>2. x.id \in Runs BY <1>2, <1>4, <1>6
  <2>3. z \in page.rows /\ z.id = x.id BY <1>5, <2>1, <2>2
  <2>4. z = x BY <1>2, <1>4, <2>3
  <2>5. m[x.id] = [completedAt |-> x.completedAt] BY <1>5, <2>1, <2>2, <2>4
  <2>6. m[x.id] \in LoadedType BY <1>2, <1>4, <1>6, <2>5 DEF LoadedType
  <2> QED BY <2>5, <2>6, NoneIsNothing
<1>8. ASSUME NEW r \in Runs, ~ \E x \in page.rows : x.id = r PROVE m[r] = loaded[r] BY <1>5, <1>8
<1>9. \A r \in Runs : loaded[r] # None => m[r] # None BY <1>7, <1>8
<1>10. \A y \in rows : y.id \in Runs BY <1>2, <1>6
<1>11. ASSUME NEW y \in rows, s \in {All, RunProject[y.id]}, y \notin S PROVE m[y.id] # None
  <2>1. y \in RunsShown(ScopeOf(p), None) BY <1>11, FeedRowsOf
  <2>2. after # None /\ ~Before("newest", after, y) BY <1>3, <1>11, <2>1 DEF Beyond
  <2>3. loaded[y.id] # None BY <1>11, <2>2 DEF Reached
  <2> QED BY <1>9, <1>10, <2>3
<1>12. ASSUME ~page.hasMore PROVE AllReached(s, rows, m)
  <2>1. page.rows = S BY <1>4, <1>12 DEF IsPage
  <2> QED BY <1>7, <1>11, <2>1 DEF AllReached
<1>13. S \subseteq FeedRows BY <1>3, RunsShownRows DEF Beyond
<1>14. InLine(S, "newest") BY <1>13, SelectedInLine
<1>15. ASSUME NEW x \in page.rows, NEW y \in rows, s \in {All, RunProject[y.id]}, ~Before("newest", x, y)
       PROVE  m[y.id] # None
  <2>1. CASE y \in S
    <3>1. x \in S BY <1>4 DEF IsPage, Beginning
    <3>2. y = x \/ Before("newest", y, x) BY <1>14, <1>15, <2>1, <3>1 DEF InLine
    <3>3. y \in page.rows BY <1>4, <2>1, <3>2 DEF IsPage, Beginning
    <3> QED BY <1>7, <3>3
  <2>2. CASE y \notin S BY <1>11, <1>15, <2>2
  <2> QED BY <2>1, <2>2
<1>16. ASSUME NEW r \in Runs, m[r] # None
       PROVE  Reached(s, rows, m, [id |-> r, completedAt |-> m[r].completedAt])
  <2>1. CASE \E x \in page.rows : x.id = r
    <3>1. PICK x \in page.rows : x.id = r BY <2>1
    <3>2. PICK z : z = [id |-> r, completedAt |-> m[r].completedAt] OBVIOUS
    <3>3. z.id = x.id /\ z.completedAt = x.completedAt
      <4>1. m[r] = [completedAt |-> x.completedAt] BY <1>7, <3>1
      <4>2. m[r].completedAt = x.completedAt BY <4>1
      <4> QED BY <3>1, <3>2, <4>2
    <3>4. \A y : Before("newest", z, y) <=> Before("newest", x, y) BY <3>3 DEF Before
    <3>5. Reached(s, rows, m, z) BY <1>15, <3>4 DEF Reached
    <3> QED BY <3>2, <3>5
  <2>2. CASE ~ \E x \in page.rows : x.id = r
    <3>1. m[r] = loaded[r] BY <1>8, <2>2
    <3>2. Reached(s, rows, loaded, [id |-> r, completedAt |-> loaded[r].completedAt])
      BY <1>16, <3>1 DEF LoadedReached
    <3>3. Reached(s, rows, m, [id |-> r, completedAt |-> loaded[r].completedAt])
      BY <1>9, <1>10, <3>2, FewerReached
    <3> QED BY <3>1, <3>3
  <2> QED BY <2>1, <2>2
<1>17. LoadedReached(s, rows, m) BY <1>16 DEF LoadedReached
<1> QED BY <1>1, <1>5, <1>9, <1>12, <1>17

LEMMA ClosedReaches ==
    /\ client = Closed => FeedInv
    /\ client' = Closed => FeedInv'
<1>1. /\ ~Closed.open /\ Closed.request = None /\ Closed.kept = {} /\ Closed.loaded = [r \in Runs |-> None]
  BY DEF Closed
<1> QED BY <1>1 DEF FeedInv, LoadedReached, Reached, AllReached

LEMMA OpenOverviewReaches ==
    ASSUME Typed, FeedInv, OpenOverview PROVE FeedInv'
<1>1. Tables /\ Projected /\ ClientOK BY DEF Typed, TablesInv, ReadersInv
<1>2. client = Closed BY DEF OpenOverview, FeedInv
<1>3. PICK loaded : loaded = [r \in Runs |-> None] OBVIOUS
<1>4. /\ client.loaded = loaded /\ client.more = [s \in Scopes |-> TRUE] /\ client.scope = All
      /\ client.visited = {All} /\ client.request = None
  BY <1>2, <1>3 DEF Closed
<1>5. PICK page : page = Feed(All, None) OBVIOUS
<1>6. PICK m : m = mergeRuns(loaded, page.rows) OBVIOUS
<1>7. All \in Scopes BY ReadingAssumption DEF ReadingAssumption
<1>8. client' = [client EXCEPT !.open = TRUE, !.loaded = m, !.more = [@ EXCEPT ![All] = page.hasMore], !.kept = FeedRows]
  BY <1>4, <1>5, <1>6 DEF OpenOverview
<1>9. /\ client'.open = TRUE /\ client'.loaded = m /\ client'.kept = FeedRows
      /\ client'.visited = {All} /\ client'.request = None
      /\ client'.more = [client.more EXCEPT ![All] = page.hasMore]
  BY <1>1, <1>4, <1>8 DEF ClientOK
<1>10. ASSUME NEW s \in Scopes, client'.visited \subseteq {All, s}
       PROVE  LoadedReached(s, FeedRows, m) /\ (~client'.more[s] => AllReached(s, FeedRows, m))
  <2>1. loaded \in [Runs -> LoadedType \union {None}] /\ \A r \in Runs : loaded[r] = None BY <1>3
  <2>2. LoadedReached(s, FeedRows, loaded) BY <2>1 DEF LoadedReached
  <2>3. LoadedReached(s, FeedRows, m) /\ (~page.hasMore => AllReached(s, FeedRows, m))
    BY <1>1, <1>5, <1>6, <1>7, <2>1, <2>2, MergeReaches
  <2>4. s # All => client'.more[s] = TRUE BY <1>4, <1>9
  <2>5. s = All => client'.more[s] = page.hasMore BY <1>4, <1>7, <1>9
  <2> QED BY <2>3, <2>4, <2>5
<1> QED BY <1>9, <1>10 DEF FeedInv

LEMMA SelectProjectReaches ==
    ASSUME Typed, FeedInv, NEW q \in Scopes, selectProject(q) PROVE FeedInv'
<1>1. client' = [client EXCEPT !.scope = q, !.visited = @ \union {q}] /\ client.open BY DEF selectProject
<1>2. /\ client'.open = client.open /\ client'.loaded = client.loaded /\ client'.more = client.more
      /\ client'.visited = client.visited \union {q} /\ client'.request = client.request
      /\ client'.kept = client.kept
  BY <1>1 DEF Typed, ReadersInv, ClientOK
<1>3. \A s \in Scopes : client'.visited \subseteq {All, s} => client.visited \subseteq {All, s} BY <1>2
<1> QED BY <1>1, <1>2, <1>3 DEF FeedInv

LEMMA LoadMoreReaches ==
    ASSUME Typed, FeedInv, loadMoreRuns PROVE FeedInv'
<1>1. PICK after \in IF LoadedIn(client.scope) = {} THEN {None} ELSE Oldest(client.scope) :
         client' = [client EXCEPT !.request = [scope |-> client.scope, after |-> after]]
  BY DEF loadMoreRuns
<1>2. client.open /\ ClientOK BY DEF loadMoreRuns, Typed, ReadersInv
<1>3. PICK q : q = [scope |-> client.scope, after |-> after] OBVIOUS
<1>4. q.scope = client.scope /\ q.after = after BY <1>3
<1>5. /\ client'.open = client.open /\ client'.loaded = client.loaded /\ client'.more = client.more
      /\ client'.visited = client.visited /\ client'.request = q /\ client'.kept = client.kept
  BY <1>1, <1>2, <1>3 DEF ClientOK
<1>6. client.scope \in client.visited BY <1>2 DEF ClientOK
<1>7. ASSUME after # None
      PROVE  \E r \in Runs : client.loaded[r] # None /\ after = [id |-> r, completedAt |-> client.loaded[r].completedAt]
  BY <1>1, <1>7 DEF Oldest, LoadedIn
<1>8. ASSUME NEW s \in Scopes, LoadedReached(s, client.kept, client.loaded), after # None
      PROVE  Reached(s, client.kept, client.loaded, after)
  BY <1>7, <1>8 DEF LoadedReached
<1> QED BY <1>2, <1>4, <1>5, <1>6, <1>8 DEF FeedInv

(* What a page of the scope adds, while what changed is forgotten. *)
LEMMA PageReaches ==
    ASSUME Typed, FeedInv, client.open, NEW p \in client.visited, NEW after \in CursorType \union {None},
           after = None \/ (client.request # None /\ after = client.request.after),
           NEW s \in Scopes, client.visited \subseteq {All, s},
           NEW m, m = mergeRuns(client.loaded, Feed(p, after).rows)
    PROVE  /\ LoadedReached(s, client.kept \intersect FeedRows, m)
           /\ client.request # None /\ client.request.after # None =>
                 Reached(s, client.kept \intersect FeedRows, m, client.request.after)
           /\ ~client.more[s] => AllReached(s, client.kept \intersect FeedRows, m)
           /\ ~Feed(p, after).hasMore => AllReached(s, client.kept \intersect FeedRows, m)
<1>1. Tables /\ Projected /\ ClientOK BY DEF Typed, TablesInv, ReadersInv
<1>2. client.loaded \in [Runs -> LoadedType \union {None}] /\ p \in Scopes /\ p \in {All, s}
  BY <1>1 DEF ClientOK
<1>3. PICK rows : rows = client.kept \intersect FeedRows OBVIOUS
<1>4. rows \subseteq client.kept /\ rows \subseteq FeedRows BY <1>3
<1>5. /\ LoadedReached(s, client.kept, client.loaded)
      /\ client.request # None /\ client.request.after # None =>
            Reached(s, client.kept, client.loaded, client.request.after)
      /\ ~client.more[s] => AllReached(s, client.kept, client.loaded)
  BY DEF FeedInv
<1>6. \A x : Reached(s, client.kept, client.loaded, x) => Reached(s, rows, client.loaded, x)
  BY <1>4, FewerReached
<1>7. LoadedReached(s, rows, client.loaded) BY <1>5, <1>6 DEF LoadedReached
<1>8. after # None => Reached(s, rows, client.loaded, after) BY <1>5, <1>6
<1>9. /\ m \in [Runs -> LoadedType \union {None}]
      /\ \A r \in Runs : client.loaded[r] # None => m[r] # None
      /\ LoadedReached(s, rows, m)
      /\ ~Feed(p, after).hasMore => AllReached(s, rows, m)
  BY <1>1, <1>2, <1>4, <1>7, <1>8, MergeReaches
<1>10. \A y \in rows : y.id \in Runs BY <1>1, <1>4, FeedRowsType DEF FeedRow
<1>11. \A y \in rows : client.loaded[y.id] # None => m[y.id] # None BY <1>9, <1>10
<1>12. /\ \A x : Reached(s, client.kept, client.loaded, x) => Reached(s, rows, m, x)
       /\ AllReached(s, client.kept, client.loaded) => AllReached(s, rows, m)
  BY <1>4, <1>11 DEF Reached, AllReached
<1> QED BY <1>3, <1>5, <1>9, <1>12

LEMMA RequestFeedReaches ==
    ASSUME Typed, FeedInv, requestFeed PROVE FeedInv'
<1>1. ClientOK BY DEF Typed, ReadersInv
<1>2. PICK p, after : p = client.request.scope /\ after = client.request.after OBVIOUS
<1>3. client.request # None /\ client.request \in RequestType BY <1>1 DEF requestFeed, ClientOK
<1>4. p \in client.visited /\ p \in Scopes /\ after \in CursorType \union {None}
  BY <1>2, <1>3 DEF FeedInv, RequestType
<1>5. client.open
  <2>1. Closed.request = None BY DEF Closed
  <2> QED BY <1>3, <2>1 DEF FeedInv
<1>6. PICK page : page = Feed(p, after) OBVIOUS
<1>7. PICK m : m = mergeRuns(client.loaded, page.rows) OBVIOUS
<1>8. client' = [client EXCEPT !.loaded = m, !.request = None, !.kept = @ \intersect FeedRows,
                               !.more = [@ EXCEPT ![p] = page.hasMore]]
  BY <1>2, <1>6, <1>7 DEF requestFeed
<1>9. /\ client'.open = client.open /\ client'.loaded = m /\ client'.more = [client.more EXCEPT ![p] = page.hasMore]
      /\ client'.visited = client.visited /\ client'.request = None
      /\ client'.kept = client.kept \intersect FeedRows
  BY <1>1, <1>8 DEF ClientOK
<1>10. client.more \in [Scopes -> BOOLEAN] BY <1>1 DEF ClientOK
<1>11. ASSUME NEW s \in Scopes, client'.visited \subseteq {All, s}
       PROVE  /\ LoadedReached(s, client'.kept, client'.loaded)
              /\ ~client'.more[s] => AllReached(s, client'.kept, client'.loaded)
  <2>1. /\ LoadedReached(s, client.kept \intersect FeedRows, m)
        /\ ~client.more[s] => AllReached(s, client.kept \intersect FeedRows, m)
        /\ ~page.hasMore => AllReached(s, client.kept \intersect FeedRows, m)
    BY <1>2, <1>3, <1>4, <1>5, <1>6, <1>7, <1>9, <1>11, PageReaches
  <2>2. client'.more[s] = IF s = p THEN page.hasMore ELSE client.more[s] BY <1>9, <1>10, <1>4
  <2> QED BY <1>9, <2>1, <2>2
<1> QED BY <1>5, <1>9, <1>11 DEF FeedInv

LEMMA RefreshReaches ==
    ASSUME Typed, FeedInv, refreshRuns PROVE FeedInv'
<1>1. ClientOK /\ client.open /\ client.scope \in client.visited BY DEF refreshRuns, Typed, ReadersInv, ClientOK
<1>2. PICK page : page = Feed(client.scope, None) OBVIOUS
<1>3. PICK m : m = mergeRuns(client.loaded, page.rows) OBVIOUS
<1>4. client' = [client EXCEPT !.loaded = m, !.kept = @ \intersect FeedRows] BY <1>2, <1>3 DEF refreshRuns
<1>5. /\ client'.open = client.open /\ client'.loaded = m /\ client'.more = client.more
      /\ client'.visited = client.visited /\ client'.request = client.request
      /\ client'.kept = client.kept \intersect FeedRows
  BY <1>1, <1>4 DEF ClientOK
<1>6. None \in CursorType \union {None} OBVIOUS
<1>7. ASSUME NEW s \in Scopes, client'.visited \subseteq {All, s}
      PROVE  /\ LoadedReached(s, client'.kept, client'.loaded)
             /\ client'.request # None /\ client'.request.after # None =>
                   Reached(s, client'.kept, client'.loaded, client'.request.after)
             /\ ~client'.more[s] => AllReached(s, client'.kept, client'.loaded)
  BY <1>1, <1>2, <1>3, <1>5, <1>6, <1>7, PageReaches
<1> QED BY <1>1, <1>5, <1>7 DEF FeedInv

LEMMA FeedNext ==
    ASSUME Typed, FeedInv, [Next]_vars PROVE FeedInv'
<1>1. ASSUME client' = client PROVE FeedInv'
  BY <1>1 DEF FeedInv, LoadedReached, Reached, AllReached, Closed
<1>2. ASSUME NEW c \in Contents, Upload(c) \/ Retry(c) PROVE FeedInv' BY <1>1, <1>2 DEF Upload, Retry
<1>3. CASE BackfillStep \/ BackfillCrash
  BY <1>1, <1>3 DEF BackfillStep, BackfillRead, BackfillRun, selectProjectOverviews, rebuildProjectOverviews, BackfillCrash
<1>4. ASSUME NEW query \in Lists, OpenList(query) PROVE FeedInv' BY <1>1, <1>4 DEF OpenList
<1>5. CASE NextPage BY <1>1, <1>5 DEF NextPage
<1>6. CASE OpenOverview BY <1>6, OpenOverviewReaches
<1>7. ASSUME NEW s \in Scopes, selectProject(s) PROVE FeedInv' BY <1>7, SelectProjectReaches
<1>8. CASE loadMoreRuns BY <1>8, LoadMoreReaches
<1>9. CASE requestFeed BY <1>9, RequestFeedReaches
<1>10. CASE refreshRuns BY <1>10, RefreshReaches
<1>11. CASE Leave BY <1>11, ClosedReaches DEF Leave
<1>12. CASE UNCHANGED vars BY <1>1, <1>12 DEF vars
<1> QED BY <1>2, <1>3, <1>4, <1>5, <1>6, <1>7, <1>8, <1>9, <1>10, <1>11, <1>12 DEF Next, Read

(* Paging and the overview, whatever is written between their requests. *)
LEMMA NothingMissed ==
    ASSUME Typed, PagesInv, FeedInv PROVE NothingSkipped
<1>1. FeedComplete
  <2>1. SUFFICES ASSUME NEW s \in client.visited, client.open, ~client.more[s], client.visited \subseteq {All, s},
                        NEW row \in client.kept, s \in {All, RunProject[row.id]}
                 PROVE  client.loaded[row.id] # None
    BY DEF FeedComplete
  <2>2. s \in Scopes BY DEF Typed, ReadersInv, ClientOK
  <2>3. AllReached(s, client.kept, client.loaded) BY <2>1, <2>2 DEF FeedInv
  <2> QED BY <2>1, <2>3 DEF AllReached
<1> QED BY <1>1, PagesOnce DEF NothingSkipped

(* A list that is paged to its end shows every entry that stayed as it was  *)
(* exactly once and in order, and the overview that says there is no more  *)
(* has loaded every run that stayed as it was (of the one project beside   *)
(* the whole that was listed): for every query, page size and number of    *)
(* uploads, adoptions and refreshes between the requests.                  *)
THEOREM NothingIsSkipped == Spec => []NothingSkipped
<1>1. Init => Typed /\ PagesInv /\ FeedInv
  <2>1. Init => PagesInv BY DEF Init, PagesInv
  <2>2. Init => FeedInv BY ClosedReaches DEF Init
  <2> QED BY <2>1, <2>2, TypedInit
<1>2. Typed /\ PagesInv /\ FeedInv /\ [Next]_vars => (Typed /\ PagesInv /\ FeedInv)'
  BY TypedNext, PagesNext, FeedNext
<1>3. Typed /\ PagesInv /\ FeedInv => NothingSkipped BY NothingMissed
<1> QED BY <1>1, <1>2, <1>3, PTL DEF Spec

-----------------------------------------------------------------------------
(* What is selected of a run.                                               *)

(* A pointer is to a submission of its run and kind, or to the adopted      *)
(* report; what was submitted of a kind has made the kind known; only what  *)
(* is older than the submissions is none; and a submission was superseded   *)
(* by one of its identity.                                                 *)
PointersOwn ==
    \A r \in Runs, k \in FactKinds : pointer[r][k] # None =>
        /\ pointer[r][k] \in Contents /\ Content[pointer[r][k]].run = r /\ submission[pointer[r][k]] # None
        /\ k \in Content[pointer[r][k]].kinds \/ pointer[r][k] \in Legacy
KindsKnown ==
    \A c \in Contents : submission[c] # None => \A k \in Content[c].kinds : pointer[Content[c].run][k] # None
OthersSubmitted == \A c \in stored : submission[c] = None => c \in Legacy
SupersededByOwn ==
    \A c \in Contents : submission[c] = "superseded" =>
        \E d \in Contents : SameIdentity(c, d) /\ submission[d] = "active"
SelectionInv == PointersOwn /\ KindsKnown /\ OthersSubmitted /\ SupersededByOwn

(* What selects a submission of a run keeps the pointers as they should be. *)
LEMMA SelectedPointers ==
    ASSUME PointersOwn, KindsKnown, NEW c \in Contents, NEW K \in SUBSET FactKinds, Content[c].kinds \subseteq K,
           K = Content[c].kinds \/ c \in Legacy, submission'[c] # None,
           \A d \in Contents : submission[d] # None => submission'[d] # None,
           \A d \in Contents : submission'[d] # None => submission[d] # None \/ d = c,
           \A q \in Runs, k \in FactKinds :
              pointer'[q][k] = IF q = Content[c].run /\ k \in K THEN c ELSE pointer[q][k]
    PROVE  PointersOwn' /\ KindsKnown'
<1>1. PointersOwn' BY DEF PointersOwn
<1>2. KindsKnown'
  <2>1. SUFFICES ASSUME NEW d \in Contents, submission'[d] # None, NEW k \in Content[d].kinds
                 PROVE  pointer'[Content[d].run][k] # None
    BY DEF KindsKnown
  <2>2. Content[d].run \in Runs /\ k \in FactKinds /\ c # None BY <2>1, ContentFields, NoneIsNothing
  <2>3. CASE Content[d].run = Content[c].run /\ k \in K BY <2>2, <2>3
  <2>4. CASE ~(Content[d].run = Content[c].run /\ k \in K)
    <3>1. d # c BY <2>1, <2>4
    <3> QED BY <2>1, <2>2, <2>4, <3>1 DEF KindsKnown
  <2> QED BY <2>3, <2>4
<1> QED BY <1>1, <1>2

LEMMA UploadSelects ==
    ASSUME TablesInv, SelectionInv, NEW c \in Contents, Upload(c) PROVE SelectionInv'
<1>1. submission' = [d \in Contents |-> IF d = c THEN "active"
                                        ELSE IF SameIdentity(c, d) /\ submission[d] = "active"
                                        THEN "superseded" ELSE submission[d]]
      /\ stored' = stored \union {c}
  BY DEF Upload
<1>2. /\ \A d \in Contents : submission[d] # None => submission'[d] # None
      /\ \A d \in Contents : submission'[d] # None => submission[d] # None \/ d = c
      /\ submission'[c] = "active" /\ submission'[c] # None
  BY <1>1, NoneIsNoStatus
<1>3. PICK r, K : r = Content[c].run /\ K = Content[c].kinds OBVIOUS
<1>4. r \in Runs /\ K \in SUBSET FactKinds BY <1>3, ContentFields
<1>5. \A q \in Runs, k \in FactKinds : pointer'[q][k] = IF q = r /\ k \in K THEN c ELSE pointer[q][k]
  <2>1. PICK p : p = [k \in FactKinds |-> IF k \in K THEN c ELSE pointer[r][k]] OBVIOUS
  <2>2. pointer' = [pointer EXCEPT ![r] = p] BY <1>3, <1>4, <2>1 DEF Upload, Selecting, TablesInv
  <2> QED BY <1>4, <2>1, <2>2 DEF TablesInv
<1>6. PointersOwn' /\ KindsKnown' BY <1>2, <1>3, <1>4, <1>5, SelectedPointers DEF SelectionInv
<1>7. OthersSubmitted' BY <1>1, <1>2 DEF SelectionInv, OthersSubmitted, TablesInv, Tables
<1>8. SupersededByOwn'
  <2>1. SUFFICES ASSUME NEW d \in Contents, submission'[d] = "superseded"
                 PROVE  \E e \in Contents : SameIdentity(d, e) /\ submission'[e] = "active"
    BY DEF SupersededByOwn, SameIdentity
  <2>2. CASE SameIdentity(c, d)
    <3>1. SameIdentity(d, c) BY <2>2 DEF SameIdentity
    <3> QED BY <1>2, <3>1
  <2>3. CASE ~SameIdentity(c, d)
    <3>1. d # c BY <2>3 DEF SameIdentity
    <3>2. submission[d] = "superseded" BY <1>1, <2>1, <2>3, <3>1
    <3>3. PICK e \in Contents : SameIdentity(d, e) /\ submission[e] = "active"
      BY <3>2 DEF SelectionInv, SupersededByOwn
    <3>4. ~SameIdentity(c, e) /\ e # c BY <2>3, <3>3 DEF SameIdentity
    <3>5. submission'[e] = "active" BY <1>1, <3>3, <3>4
    <3> QED BY <3>3, <3>5
  <2> QED BY <2>2, <2>3
<1> QED BY <1>6, <1>7, <1>8 DEF SelectionInv

LEMMA RetrySelects ==
    ASSUME TablesInv, SelectionInv, NEW c \in Contents, Retry(c) PROVE SelectionInv'
<1>1. submission' = submission /\ stored' = stored /\ submission[c] # None BY NoneIsNoStatus DEF Retry
<1>2. PICK r, K : r = Content[c].run /\ K = Content[c].kinds OBVIOUS
<1>3. r \in Runs /\ K \in SUBSET FactKinds BY <1>2, ContentFields
<1>4. \A q \in Runs, k \in FactKinds : pointer'[q][k] = IF q = r /\ k \in K THEN c ELSE pointer[q][k]
  <2>1. PICK p : p = [k \in FactKinds |-> IF k \in K THEN c ELSE pointer[r][k]] OBVIOUS
  <2>2. pointer' = [pointer EXCEPT ![r] = p] BY <1>2, <1>3, <2>1 DEF Retry, Selecting, TablesInv
  <2> QED BY <1>3, <2>1, <2>2 DEF TablesInv
<1>5. PointersOwn' /\ KindsKnown' BY <1>1, <1>2, <1>3, <1>4, SelectedPointers DEF SelectionInv
<1> QED BY <1>1, <1>5 DEF SelectionInv, OthersSubmitted, SupersededByOwn

LEMMA BackfillSelects ==
    ASSUME TablesInv, SelectionInv, BackfillRun PROVE SelectionInv'
<1>1. PICK b \in backfill.batch : Adopt(b) BY DEF BackfillRun
<1>2. stored' = stored BY DEF BackfillRun
<1>3. b.run \in Runs /\ StoredLegacy(b.run) BY DEF TablesInv, BackfillOK, BackfillType
<1>4. PICK L : L = CHOOSE c \in Legacy : Content[c].run = b.run OBVIOUS
<1>5. L \in stored \intersect Legacy /\ Content[L].run = b.run /\ \A c \in Legacy : Content[c].run = b.run => c = L
  BY <1>3, <1>4, LegacyIs DEF TablesInv, Tables
<1>6. \A c \in Contents : submission'[c] = IF c = L THEN "active" ELSE submission[c] BY <1>1, <1>5 DEF Adopt
<1>7. L \in Contents /\ submission'[L] # None BY <1>5, <1>6, NoneIsNoStatus DEF TablesInv, Tables
<1>8. \A q \in Runs, k \in FactKinds : pointer'[q][k] = IF q = b.run /\ k \in FactKinds THEN L ELSE pointer[q][k]
  <2>1. PICK p : p = [k \in FactKinds |-> L] OBVIOUS
  <2>2. pointer' = [pointer EXCEPT ![b.run] = p] BY <1>1, <1>4, <2>1 DEF Adopt
  <2> QED BY <1>3, <2>1, <2>2 DEF TablesInv
<1>9. PointersOwn' /\ KindsKnown'
  <2>1. PICK K : K = FactKinds OBVIOUS
  <2>2. Content[L].kinds \subseteq K BY <1>7, <2>1, ContentFields
  <2>3. \A c \in Contents : (submission[c] # None => submission'[c] # None)
                            /\ (submission'[c] # None => submission[c] # None \/ c = L)
    BY <1>6, NoneIsNoStatus
  <2> QED BY <1>5, <1>7, <1>8, <2>1, <2>2, <2>3, SelectedPointers DEF SelectionInv
<1>10. OthersSubmitted' BY <1>2, <1>5, <1>6 DEF SelectionInv, OthersSubmitted, TablesInv, Tables
<1>11. SupersededByOwn'
  <2>1. \A c \in Contents : submission'[c] = "superseded" => submission[c] = "superseded" BY <1>6
  <2>2. \A c \in Contents : submission[c] = "active" => submission'[c] = "active" BY <1>6
  <2> QED BY <2>1, <2>2 DEF SelectionInv, SupersededByOwn, SameIdentity
<1> QED BY <1>9, <1>10, <1>11 DEF SelectionInv

LEMMA SelectionInit ==
    ASSUME Init PROVE SelectionInv
<1>1. /\ \A r \in Runs, k \in FactKinds : pointer[r][k] = None
      /\ \A c \in Contents : submission[c] = None
      /\ stored \subseteq Legacy
  BY DEF Init
<1> QED BY <1>1, NoneIsNoStatus DEF SelectionInv, PointersOwn, KindsKnown, OthersSubmitted, SupersededByOwn

LEMMA SelectionNext ==
    ASSUME Typed, SelectionInv, [Next]_vars PROVE SelectionInv'
<1>1. ASSUME pointer' = pointer, submission' = submission, stored' = stored PROVE SelectionInv'
  BY <1>1 DEF SelectionInv, PointersOwn, KindsKnown, OthersSubmitted, SupersededByOwn
<1>2. ASSUME NEW c \in Contents, Upload(c) PROVE SelectionInv' BY <1>2, UploadSelects DEF Typed
<1>3. ASSUME NEW c \in Contents, Retry(c) PROVE SelectionInv' BY <1>3, RetrySelects DEF Typed
<1>4. CASE BackfillRun BY <1>4, BackfillSelects DEF Typed
<1>5. CASE BackfillRead \/ BackfillCrash \/ selectProjectOverviews \/ rebuildProjectOverviews
  BY <1>1, <1>5 DEF BackfillRead, BackfillCrash, selectProjectOverviews, rebuildProjectOverviews, tables
<1>6. CASE Read
  BY <1>1, <1>6 DEF Read, OpenList, NextPage, OpenOverview, loadMoreRuns, requestFeed, refreshRuns, selectProject,
                    Leave, tables
<1>7. CASE UNCHANGED vars BY <1>1, <1>7 DEF vars, tables
<1> QED BY <1>2, <1>3, <1>4, <1>5, <1>6, <1>7 DEF Next, BackfillStep

(* The submissions whose facts of a kind are shown. *)
IdsFor(r, k) ==
    IF pointer[r][k] # None THEN {pointer[r][k]}
    ELSE {c \in stored : submission[c] = "active" /\ Content[c].run = r /\ Content[c].kind \in {k, "combined"}}

LEMMA IdsAre ==
    ASSUME Typed, NEW r \in Runs
    PROVE  /\ loadActiveSubmissionIds({r}, {"tests"}) = IdsFor(r, "tests")
           /\ loadActiveSubmissionIds({r}, {"tests", "combined"}) = IdsFor(r, "tests")
           /\ loadActiveSubmissionIds({r}, {"coverage", "combined"}) = IdsFor(r, "coverage")
<1>1. ASSUME NEW kinds, NEW k, kinds \intersect FactKinds = {k}, kinds \union {"combined"} = {k, "combined"}
      PROVE  loadActiveSubmissionIds({r}, kinds) = IdsFor(r, k)
  <2> DEFINE S == {c \in stored : \E q \in {r}, j \in kinds \intersect FactKinds : pointer[q][j] = c}
             A == {c \in stored : /\ submission[c] = "active" /\ Content[c].run \in {r}
                                  /\ Content[c].kind \in kinds \union {"combined"}}
  <2>1. loadActiveSubmissionIds({r}, kinds) = IF S # {} THEN S ELSE A BY Zenon DEF loadActiveSubmissionIds
  <2>2. S = IF pointer[r][k] # None THEN {pointer[r][k]} ELSE {}
    <3>1. pointer[r][k] \in stored \union {None} /\ None \notin stored
      BY <1>1, NoneIsNothing DEF Typed, TablesInv, Tables
    <3>2. S = {c \in stored : pointer[r][k] = c} BY <1>1
    <3> QED BY <3>1, <3>2
  <2>3. A = {c \in stored : submission[c] = "active" /\ Content[c].run = r /\ Content[c].kind \in {k, "combined"}}
    BY <1>1
  <2> HIDE DEF S, A
  <2>4. S # {} <=> pointer[r][k] # None BY <2>2
  <2> QED BY <2>1, <2>2, <2>3, <2>4 DEF IdsFor
<1> QED BY <1>1 DEF FactKinds

(* The condition a row of a submission meets. *)
Meets(c, ids) == ids = {} \/ ReportSubmissionId(c) \in ids

(* The one source of the facts of a kind. *)
IsSource(S, r, k) ==
    /\ S \in Sources(r, k)
    /\ S \subseteq {c \in stored : Content[c].run = r}
    /\ pointer[r][k] # None => S = {pointer[r][k]}
    /\ \A c : Bears(c, r, k) => (c \in S <=> Meets(c, IdsFor(r, k)))

LEMMA SourceExists ==
    ASSUME Typed, SelectionInv, NEW r \in Runs, NEW k \in FactKinds, Told(r, k) PROVE \E S : IsSource(S, r, k)
<1>1. stored \subseteq Contents /\ None \notin Contents /\ pointer[r][k] \in stored \union {None}
  BY NoneIsNothing DEF Typed, TablesInv, Tables
<1>2. CASE pointer[r][k] # None
  <2>1. PICK p : p = pointer[r][k] OBVIOUS
  <2>2. p \in stored /\ Content[p].run = r /\ submission[p] # None
    BY <1>1, <1>2, <2>1 DEF SelectionInv, PointersOwn
  <2>3. IdsFor(r, k) = {p} BY <1>2, <2>1 DEF IdsFor
  <2>4. Sources(r, k) = {{p}} BY <1>2, <2>1 DEF Sources
  <2>5. \A c : Bears(c, r, k) => (c \in {p} <=> Meets(c, {p}))
    BY <1>1, <2>2 DEF Meets, ReportSubmissionId, Bears
  <2>6. IsSource({p}, r, k) BY <1>2, <2>1, <2>2, <2>3, <2>4, <2>5 DEF IsSource
  <2> QED BY <2>6
<1>3. CASE pointer[r][k] = None
  <2>1. \A c, d : Bears(c, r, k) /\ Bears(d, r, k) => c = d BY <1>3 DEF Told, Bears
  <2>2. {} \in Sources(r, k) /\ \A c \in stored : Content[c].run = r => {c} \in Sources(r, k)
    BY <1>3 DEF Sources
  <2>3. CASE ~ \E c : Bears(c, r, k) /\ Meets(c, IdsFor(r, k))
    <3>1. IsSource({}, r, k) BY <1>3, <2>2, <2>3 DEF IsSource
    <3> QED BY <3>1
  <2>4. CASE \E c : Bears(c, r, k) /\ Meets(c, IdsFor(r, k))
    <3>1. PICK c : Bears(c, r, k) /\ Meets(c, IdsFor(r, k)) BY <2>4
    <3>2. c \in stored /\ Content[c].run = r BY <3>1 DEF Bears
    <3>3. \A d : Bears(d, r, k) => (d \in {c} <=> Meets(d, IdsFor(r, k))) BY <2>1, <3>1
    <3>4. IsSource({c}, r, k) BY <1>3, <2>2, <3>2, <3>3 DEF IsSource
    <3> QED BY <3>4
  <2> QED BY <2>3, <2>4
<1> QED BY <1>2, <1>3

-----------------------------------------------------------------------------
(* The tests of a run.                                                      *)

TestsFrom(S) == UNION {Content[c].tests : c \in S}

SuiteOf(c, s) == [id |-> s.id, run |-> Content[c].run, sub |-> ReportSubmissionId(c), package |-> s.package]

LEMMA SuiteRows ==
    /\ \A x \in SuiteRun : \E c \in stored : \E s \in Content[c].suites : x = SuiteOf(c, s)
    /\ \A c \in stored : \A s \in Content[c].suites : SuiteOf(c, s) \in SuiteRun
BY DEF SuiteRun, SuiteOf

LEMMA SuiteFields ==
    ASSUME NEW c, NEW s
    PROVE  /\ SuiteOf(c, s).id = s.id /\ SuiteOf(c, s).run = Content[c].run
           /\ SuiteOf(c, s).sub = ReportSubmissionId(c) /\ SuiteOf(c, s).package = s.package
BY DEF SuiteOf

LEMMA FoundIs ==
    ASSUME NEW r \in Runs, run[r] # None PROVE Found(Projects, r)
BY QueriesAssumption DEF QueriesAssumption, Found, listProjects

(* The tests that are listed are those of the source, in the package that   *)
(* is asked for.                                                           *)
LEMMA TestsListed ==
    ASSUME Typed, NEW r \in Runs, run[r] # None, NEW S, IsSource(S, r, "tests"), NEW q
    PROVE  /\ \A t \in listTestsForRun(Projects, r, q) :
                 /\ t \in TestsFrom(S) /\ q.status \in {None, t.status}
                 /\ \E c \in S : t \in Content[c].tests /\ \E s \in Content[c].suites :
                       s.id = t.suite /\ q.package \in {None, s.package}
           /\ q.package = None /\ q.status = None /\ q.module = None /\ q.file = None =>
                 listTestsForRun(Projects, r, q) = TestsFrom(S)
<1>1. stored \subseteq Contents BY DEF Typed, TablesInv, Tables
<1>2. PICK ids : ids = IdsFor(r, "tests") OBVIOUS
<1>3. PICK suites : suites = listSuitesForRun(Projects, r) OBVIOUS
<1>4. suites = Selected(SuiteRun, {r}, ids) BY <1>2, <1>3, FoundIs, IdsAre DEF listSuitesForRun
<1>5. suites = {x \in SuiteRun : x.run = r /\ (ids = {} \/ x.sub \in ids)} BY <1>4 DEF Selected
<1>6. PICK packaged : packaged = {s \in suites : q.package \in {None, s.package}} OBVIOUS
<1>7. listTestsForRun(Projects, r, q) =
         {t \in TestExecution : /\ t.suite \in Ids(packaged) /\ q.status \in {None, t.status}
                                /\ q.module \in {None, t.module} /\ q.file \in {None, t.file}}
  BY <1>3, <1>6, Zenon DEF listTestsForRun
<1>8. ASSUME NEW d \in stored, NEW t \in Content[d].tests PROVE Bears(d, Content[d].run, "tests")
  BY <1>8 DEF Bears, Holds
<1>9. \A c, d \in Contents : \A s \in Content[c].suites, t \in Content[d].suites : s.id = t.id => s = t /\ c = d
  BY QueriesAssumption DEF QueriesAssumption, KeysApart
<1>10. \A c \in Contents : \A t \in Content[c].tests : \E s \in Content[c].suites : s.id = t.suite
  BY QueriesAssumption DEF QueriesAssumption, KeysApart
<1>11. ASSUME NEW t \in TestExecution, t.suite \in Ids(packaged)
       PROVE  \E c \in S : t \in Content[c].tests /\ \E s \in Content[c].suites :
                 s.id = t.suite /\ q.package \in {None, s.package}
  <2>1. PICK x \in packaged : x.id = t.suite BY <1>11 DEF Ids
  <2>2. x \in SuiteRun /\ x.run = r /\ (ids = {} \/ x.sub \in ids) /\ q.package \in {None, x.package}
    BY <1>5, <1>6, <2>1
  <2>3. PICK c \in stored : \E s \in Content[c].suites : x = SuiteOf(c, s) BY <2>2, SuiteRows
  <2>4. PICK s \in Content[c].suites : x = SuiteOf(c, s) BY <2>3
  <2>5. s.id = t.suite /\ Content[c].run = r /\ Meets(c, ids) /\ q.package \in {None, s.package}
    BY <2>1, <2>2, <2>4, SuiteFields DEF Meets
  <2>6. PICK d \in stored : t \in Content[d].tests BY <1>11 DEF TestExecution
  <2>7. PICK u \in Content[d].suites : u.id = t.suite BY <1>1, <1>10, <2>6
  <2>8. d = c /\ u = s BY <1>1, <1>9, <2>5, <2>7
  <2>9. Bears(c, r, "tests") BY <1>8, <2>5, <2>6, <2>8
  <2>10. c \in S BY <1>2, <2>5, <2>9 DEF IsSource
  <2> QED BY <2>5, <2>6, <2>8, <2>10
<1>12. \A t \in listTestsForRun(Projects, r, q) :
          /\ t \in TestsFrom(S) /\ q.status \in {None, t.status}
          /\ \E c \in S : t \in Content[c].tests /\ \E s \in Content[c].suites :
                s.id = t.suite /\ q.package \in {None, s.package}
  BY <1>7, <1>11 DEF TestsFrom
<1>13. ASSUME q.package = None, q.status = None, q.module = None, q.file = None, NEW t \in TestsFrom(S)
       PROVE  t \in listTestsForRun(Projects, r, q)
  <2>1. PICK c \in S : t \in Content[c].tests BY <1>13 DEF TestsFrom
  <2>2. c \in stored /\ Content[c].run = r BY <2>1 DEF IsSource
  <2>3. Meets(c, ids) BY <1>2, <1>8, <2>1, <2>2 DEF IsSource
  <2>4. PICK s \in Content[c].suites : s.id = t.suite BY <1>1, <1>10, <2>1, <2>2
  <2>5. SuiteOf(c, s) \in packaged
    BY <1>5, <1>6, <1>13, <2>2, <2>3, <2>4, SuiteRows, SuiteFields DEF Meets
  <2>6. t.suite \in Ids(packaged) BY <2>4, <2>5, SuiteFields DEF Ids
  <2>7. t \in TestExecution BY <2>1, <2>2 DEF TestExecution
  <2> QED BY <1>7, <1>13, <2>6, <2>7
<1> QED BY <1>12, <1>13

-----------------------------------------------------------------------------
(* The evidence of a failure, and the packages.                             *)

ErrorOf(c, e) == [id |-> e.id, run |-> Content[c].run, sub |-> ReportSubmissionId(c), test |-> e.test]

LEMMA ErrorRows ==
    \A x \in ErrorOccurrence : \E c \in stored : \E e \in Content[c].errors : x = ErrorOf(c, e)
BY DEF ErrorOccurrence, ErrorOf

LEMMA ErrorFields ==
    ASSUME NEW c, NEW e
    PROVE  /\ ErrorOf(c, e).id = e.id /\ ErrorOf(c, e).run = Content[c].run
           /\ ErrorOf(c, e).sub = ReportSubmissionId(c) /\ ErrorOf(c, e).test = e.test
BY DEF ErrorOf

LEMMA ErrorsFinite ==
    ASSUME stored \subseteq Contents
    PROVE  IsFiniteSet(ErrorOccurrence) /\ \A x \in ErrorOccurrence : x.id \in Nat
<1>1. \A c \in stored : IsFiniteSet(Content[c].errors) /\ \A e \in Content[c].errors : e.id \in Nat
  BY QueriesAssumption DEF QueriesAssumption, ContentType, ErrorType
<1>2. IsFiniteSet(stored) BY FS_Subset, QueriesAssumption DEF QueriesAssumption
<1>3. PICK f : f = [c \in stored |-> {ErrorOf(c, e) : e \in Content[c].errors}] OBVIOUS
<1>4. \A c \in stored : f[c] = {ErrorOf(c, e) : e \in Content[c].errors} BY <1>3
<1>5. ASSUME NEW c \in stored PROVE IsFiniteSet(f[c])
  <2>1. PICK g : g = [e \in Content[c].errors |-> ErrorOf(c, e)] OBVIOUS
  <2>2. IsFiniteSet({g[e] : e \in Content[c].errors}) BY <1>1, <2>1, ImageFinite
  <2>3. f[c] = {g[e] : e \in Content[c].errors} BY <1>4, <2>1
  <2> QED BY <2>2, <2>3
<1>6. IsFiniteSet(UNION {f[c] : c \in stored}) BY <1>2, <1>3, <1>5, FiniteUnion
<1>7. ErrorOccurrence = UNION {f[c] : c \in stored} BY <1>4 DEF ErrorOccurrence, ErrorOf
<1> QED BY <1>1, <1>6, <1>7, ErrorRows, ErrorFields

FailedTests == [Everything EXCEPT !.status = "failed"]
InPackage(name) == [Everything EXCEPT !.package = name]

LEMMA TestQueries ==
    /\ Everything.package = None /\ Everything.status = None /\ Everything.module = None /\ Everything.file = None
    /\ FailedTests.status = "failed" /\ \A name : InPackage(name).package = name
BY DEF Everything, FailedTests, InPackage

LEMMA EvidenceOfSource ==
    ASSUME Typed, SelectionInv, NEW r \in Runs, run[r] # None, NEW S, IsSource(S, r, "tests"),
           NEW e \in getRunFailureEvidence(Projects, r), e.test # None
    PROVE  /\ \E t \in TestsFrom(S) : t.id = e.test /\ t.status = "failed"
           /\ e.error # None => e.error.test = e.test /\ e.error.id \in Ids(UNION {Content[c].errors : c \in S})
<1>1. stored \subseteq Contents BY DEF Typed, TablesInv, Tables
<1>2. PICK failed : failed = listTestsForRun(Projects, r, FailedTests) OBVIOUS
<1>3. PICK shown : shown = IF failed = {} THEN {None} ELSE Ids(failed) OBVIOUS
<1>4. getRunFailureEvidence(Projects, r) =
         {[test |-> t, error |-> Latest(ErrorsOf(r, t)),
           artifacts |-> listArtifacts(Projects, r, None, AllArtifacts)] : t \in shown}
  BY <1>2, <1>3, FoundIs, Zenon DEF getRunFailureEvidence, FailedTests
<1>5. PICK arts : arts = listArtifacts(Projects, r, None, AllArtifacts) OBVIOUS
<1>6. e.test \in shown /\ e.error = Latest(ErrorsOf(r, e.test)) BY <1>4, <1>5
<1>7. \E t \in failed : t.id = e.test BY <1>3, <1>6 DEF Ids
<1>8. \A t \in failed : t \in TestsFrom(S) /\ t.status = "failed"
  BY <1>2, TestsListed, TestQueries, NoneIsNoStatus
<1>9. ASSUME e.error # None
      PROVE  e.error.test = e.test /\ e.error.id \in Ids(UNION {Content[c].errors : c \in S})
  <2>1. PICK ids : ids = IdsFor(r, "tests") OBVIOUS
  <2>2. PICK E : E = ErrorsOf(r, e.test) OBVIOUS
  <2>3. E = {x \in ErrorOccurrence : x.run = r /\ (ids = {} \/ x.sub \in ids) /\ x.test = e.test}
    BY <2>1, <2>2, IdsAre DEF ErrorsOf, Selected
  <2>4. IsFiniteSet(E) /\ \A x \in E : x.id \in Int BY <1>1, <2>3, ErrorsFinite, FS_Subset
  <2>5. E # {} BY <1>6, <1>9, <2>2 DEF Latest
  <2>6. e.error \in E BY <1>6, <2>2, <2>4, <2>5, LatestIs
  <2>7. PICK c \in stored : \E x \in Content[c].errors : e.error = ErrorOf(c, x) BY <2>3, <2>6, ErrorRows
  <2>8. PICK x \in Content[c].errors : e.error = ErrorOf(c, x) BY <2>7
  <2>9. x.test = e.test /\ Content[c].run = r /\ Meets(c, ids) /\ e.error.id = x.id
    BY <2>3, <2>6, <2>8, ErrorFields DEF Meets
  <2>10. Content[c].tests # {} BY <1>1, <2>8, QueriesAssumption DEF QueriesAssumption, KeysApart
  <2>11. Bears(c, r, "tests") BY <2>9, <2>10 DEF Bears, Holds
  <2>12. c \in S BY <2>1, <2>9, <2>11 DEF IsSource
  <2>13. x \in UNION {Content[d].errors : d \in S} BY <2>8, <2>12
  <2> QED BY <2>3, <2>6, <2>9, <2>13 DEF Ids
<1> QED BY <1>7, <1>8, <1>9

LEMMA PackagesOfSource ==
    ASSUME Typed, SelectionInv, NEW r \in Runs, run[r] # None, Told(r, "tests"), NEW S, IsSource(S, r, "tests"),
           \A c \in S : FailuresReported(c), NEW p \in listRunPackages(Projects, r),
           NEW t \in listTestsForRun(Projects, r, InPackage(p.name)), t.status = "failed"
    PROVE  p.status = "failed"
<1>1. stored \subseteq Contents /\ IsFiniteSet(stored) /\ stored \subseteq Int
  BY FS_Subset, ContentsAre DEF Typed, TablesInv, Tables
<1>2. PICK ids : ids = IdsFor(r, "tests") OBVIOUS
<1>3. PICK report : report = getActiveRunReport(Projects, r, "tests") OBVIOUS
<1>4. PICK R : R = {[id |-> c, packages |-> Content[c].packages] : c \in ids} OBVIOUS
<1>5. report = IF ids = {} THEN None ELSE Latest(R)
  BY <1>2, <1>3, <1>4, FoundIs, IdsAre, Zenon DEF getActiveRunReport
<1>6. listRunPackages(Projects, r) =
         IF report = None THEN {}
         ELSE {[name |-> x.name, status |-> deriveReportedCollectionStatus(x)] : x \in report.packages}
  BY <1>3, Zenon DEF listRunPackages
<1>7. ids # {} BY <1>5, <1>6
<1>8. PICK c \in S : t \in Content[c].tests /\ \E s \in Content[c].suites : s.id = t.suite /\ p.name \in {None, s.package}
  BY TestsListed, TestQueries
<1>9. c \in stored /\ Content[c].run = r /\ Bears(c, r, "tests") BY <1>8 DEF IsSource, Bears, Holds
<1>10. \A d \in ids : d \in stored /\ Content[d].run = r
  BY <1>2 DEF IdsFor, FactKinds, Typed, TablesInv, SelectionInv, PointersOwn
<1>11. PICK d \in ids : report.packages = Content[d].packages
  <2>1. PICK g : g = [e \in ids |-> [id |-> e, packages |-> Content[e].packages]] OBVIOUS
  <2>2. R = {g[e] : e \in ids} BY <1>4, <2>1
  <2>3. IsFiniteSet(ids) BY <1>1, <1>10, FS_Subset
  <2>4. IsFiniteSet(R) BY <2>1, <2>2, <2>3, ImageFinite
  <2>5. ASSUME NEW x \in R PROVE x.id \in Int
    <3>1. PICK e \in ids : x = [id |-> e, packages |-> Content[e].packages] BY <1>4
    <3>2. e \in Int BY <1>1, <1>10
    <3> QED BY <3>1, <3>2
  <2>6. R # {} BY <1>4, <1>7
  <2>7. report \in R BY <1>5, <1>7, <2>4, <2>5, <2>6, LatestIs
  <2> QED BY <1>4, <2>7
<1>12. PICK x \in Content[d].packages : p.name = x.name /\ p.status = deriveReportedCollectionStatus(x)
  BY <1>6, <1>11
<1>13. d = c
  <2>1. Bears(d, r, "tests") BY <1>10, <1>12 DEF Bears, Holds
  <2>2. CASE pointer[r]["tests"] = None BY <1>9, <2>1, <2>2 DEF Told, Bears
  <2>3. CASE pointer[r]["tests"] # None BY <1>2, <1>8, <2>3 DEF IsSource, IdsFor
  <2> QED BY <2>2, <2>3
<1>14. x.name \in STRING
  <2>1. d \in Contents BY <1>1, <1>10
  <2>2. x \in PackageType BY <1>12, <2>1, QueriesAssumption DEF QueriesAssumption, ContentType
  <2> QED BY <2>2 DEF PackageType
<1>15. x.name # None BY <1>14, ReadingAssumption DEF ReadingAssumption
<1>16. "failed" \in x.suites BY <1>8, <1>12, <1>13, <1>15 DEF FailuresReported
<1> QED BY <1>12, <1>16 DEF deriveReportedCollectionStatus

LEMMA TestsOfSource ==
    ASSUME Typed, SelectionInv, NEW r \in Runs, run[r] # None, Told(r, "tests"), NEW S, IsSource(S, r, "tests")
    PROVE  TestsOf(r, S)
<1>1. listTestsForRun(Projects, r, Everything) = TestsFrom(S) BY TestsListed, TestQueries
<1>2. ASSUME \A c \in S : FailuresReported(c), NEW p \in listRunPackages(Projects, r),
             {t \in listTestsForRun(Projects, r, InPackage(p.name)) : t.status = "failed"} # {}
      PROVE  p.status = "failed"
  BY <1>2, PackagesOfSource
<1> QED BY <1>1, <1>2, EvidenceOfSource DEF TestsOf, TestsFrom, InPackage

-----------------------------------------------------------------------------
(* The coverage of a run.                                                   *)

FilesFrom(S) == UNION {Content[c].files : c \in S}
SnapshotFor(c) == [id |-> c, run |-> Content[c].run, sub |-> ReportSubmissionId(c), linesPct |-> Content[c].linesPct]

LEMMA SnapshotRows ==
    ASSUME stored \subseteq Contents
    PROVE  /\ \A x \in CoverageSnapshot : /\ x.id \in stored /\ Content[x.id].covered
                                          /\ x = SnapshotFor(x.id)
           /\ \A c \in stored : Content[c].covered => SnapshotFor(c) \in CoverageSnapshot
           /\ \A c \in stored : /\ SnapshotFor(c) \in SnapshotRow
                                /\ SnapshotFor(c).id = c /\ SnapshotFor(c).run = Content[c].run
                                /\ SnapshotFor(c).sub = ReportSubmissionId(c)
                                /\ SnapshotFor(c).linesPct = Content[c].linesPct
<1>1. CoverageSnapshot = {SnapshotFor(c) : c \in {d \in stored : Content[d].covered}}
  BY DEF CoverageSnapshot, SnapshotFor
<1>2. ASSUME NEW c \in stored
      PROVE  /\ SnapshotFor(c) \in SnapshotRow
             /\ SnapshotFor(c).id = c /\ SnapshotFor(c).run = Content[c].run
             /\ SnapshotFor(c).sub = ReportSubmissionId(c)
             /\ SnapshotFor(c).linesPct = Content[c].linesPct
  <2>1. Content[c].run \in Runs /\ Content[c].linesPct \in Nat \union {None} /\ c \in Contents
    BY QueriesAssumption DEF QueriesAssumption, ContentType
  <2>2. ReportSubmissionId(c) \in Contents \union {None} BY <2>1 DEF ReportSubmissionId
  <2> QED BY <2>1, <2>2 DEF SnapshotFor, SnapshotRow
<1> QED BY <1>1, <1>2

(* The snapshot that is shown is that of the source. *)
LEMMA SnapshotOfSource ==
    ASSUME Typed, NEW r \in Runs, NEW S, IsSource(S, r, "coverage")
    PROVE  /\ CoverageSnapshotOf(r) # None =>
                 /\ S = {CoverageSnapshotOf(r).id} /\ Content[CoverageSnapshotOf(r).id].covered
                 /\ CoverageSnapshotOf(r).linesPct = Content[CoverageSnapshotOf(r).id].linesPct
           /\ CoverageSnapshotOf(r) = None => \A c \in S : ~Content[c].covered /\ Content[c].files = {}
<1>1. stored \subseteq Contents /\ Tables BY DEF Typed, TablesInv, Tables
<1>2. PICK ids : ids = IdsFor(r, "coverage") OBVIOUS
<1>3. PICK T : T = Selected(CoverageSnapshot, {r}, ids) OBVIOUS
<1>4. PICK s : s = CoverageSnapshotOf(r) OBVIOUS
<1>5. loadActiveSubmissionIds({r}, {"coverage", "combined"}) = ids BY <1>2, IdsAre
<1>6. s = Latest(T) BY <1>3, <1>4, <1>5 DEF CoverageSnapshotOf
<1>7. T = {x \in CoverageSnapshot : x.run = r /\ (ids = {} \/ x.sub \in ids)} BY <1>3 DEF Selected
<1>8. \A c, d \in S : c = d BY NoneIsNothing DEF IsSource, Sources
<1>9. ASSUME s # None
      PROVE  S = {s.id} /\ Content[s.id].covered /\ s.linesPct = Content[s.id].linesPct
  <2>1. s \in T BY <1>1, <1>3, <1>4, <1>5, <1>9, SnapshotIs
  <2>2. s.id \in stored /\ Content[s.id].covered /\ s = SnapshotFor(s.id) BY <1>1, <1>7, <2>1, SnapshotRows
  <2>3. Bears(s.id, r, "coverage") /\ Meets(s.id, ids) BY <1>1, <1>7, <2>1, <2>2, SnapshotRows DEF Bears, Holds, Meets
  <2>4. s.id \in S BY <1>2, <2>3 DEF IsSource
  <2> QED BY <1>1, <1>8, <2>2, <2>4, SnapshotRows
<1>10. ASSUME NEW c \in S, Content[c].covered PROVE s # None
  <2>1. c \in stored /\ Content[c].run = r BY DEF IsSource
  <2>2. Meets(c, ids) BY <1>2, <1>10, <2>1 DEF IsSource, Bears, Holds
  <2>3. SnapshotFor(c) \in T BY <1>1, <1>7, <1>10, <2>1, <2>2, SnapshotRows DEF Meets
  <2>4. IsFiniteSet(T) /\ \A x \in T : x.id \in Int
    <3>1. stored \subseteq Int BY <1>1, QueriesAssumption DEF QueriesAssumption
    <3>2. IsFiniteSet(stored) BY <1>1, FS_Subset, QueriesAssumption DEF QueriesAssumption
    <3>3. PICK f : f = [d \in stored |-> SnapshotFor(d)] OBVIOUS
    <3>4. IsFiniteSet({f[d] : d \in stored}) BY <3>2, <3>3, ImageFinite
    <3>5. T \subseteq {f[d] : d \in stored} BY <1>1, <1>7, <3>3, SnapshotRows
    <3> QED BY <1>1, <1>7, <3>1, <3>4, <3>5, SnapshotRows, FS_Subset
  <2>5. s \in T BY <1>6, <2>3, <2>4, LatestIs
  <2>6. s \in SnapshotRow BY <1>1, <1>7, <2>5, SnapshotRows
  <2> QED BY <2>6, NoneIsNothing
<1>11. \A c \in S : Content[c].files # {} => Content[c].covered
  BY <1>1, QueriesAssumption DEF IsSource, QueriesAssumption, KeysApart
<1> QED BY <1>4, <1>9, <1>10, <1>11

LEMMA FileIsRow ==
    /\ \A c \in stored : \A f \in Content[c].files : FileOf(c, f) \in CoverageFile
    /\ \A x \in CoverageFile : \E c \in stored : \E f \in Content[c].files : x = FileOf(c, f)
BY DEF CoverageFile, FileOf

LEMMA FileFields ==
    ASSUME NEW c, NEW f
    PROVE  FileOf(c, f).id = f.id /\ FileOf(c, f).snapshot = c /\ FileOf(c, f).path = f.path
BY DEF FileOf

(* The files of the snapshot are those of the source. *)
LEMMA FilesOfSource ==
    ASSUME Typed, NEW r \in Runs, run[r] # None, NEW S, IsSource(S, r, "coverage"),
           NEW s, s = getCoverageSnapshotForRun(Projects, r), NEW F, F = IF s = None THEN {} ELSE CoverageFilesOf(s)
    PROVE  /\ \A x \in F : \E f \in FilesFrom(S) : f.path = x.path
           /\ \A f \in FilesFrom(S) : /\ s # None
                                      /\ \E x \in F : x.path = f.path /\ x.id = f.id
<1>1. s = CoverageSnapshotOf(r) BY FoundIs DEF getCoverageSnapshotForRun
<1>2. CASE s = None
  <2>1. \A c \in S : Content[c].files = {} BY <1>1, <1>2, SnapshotOfSource
  <2>2. FilesFrom(S) = {} BY <2>1 DEF FilesFrom
  <2> QED BY <1>2, <2>2
<1>3. CASE s # None
  <2>1. S = {s.id} BY <1>1, <1>3, SnapshotOfSource
  <2>2. s.id \in stored BY <2>1 DEF IsSource
  <2>3. F = {x \in CoverageFile : x.snapshot = s.id} BY <1>3 DEF CoverageFilesOf
  <2>4. FilesFrom(S) = Content[s.id].files BY <2>1 DEF FilesFrom
  <2>5. ASSUME NEW x \in F PROVE \E f \in FilesFrom(S) : f.path = x.path
    <3>1. PICK c \in stored : \E f \in Content[c].files : x = FileOf(c, f) BY <2>3, <2>5, FileIsRow
    <3>2. PICK f \in Content[c].files : x = FileOf(c, f) BY <3>1
    <3>3. c = s.id /\ x.path = f.path BY <2>3, <2>5, <3>2, FileFields
    <3> QED BY <2>4, <3>2, <3>3
  <2>6. ASSUME NEW f \in FilesFrom(S) PROVE \E x \in F : x.path = f.path /\ x.id = f.id
    <3>1. FileOf(s.id, f) \in F BY <2>2, <2>3, <2>4, FileIsRow, FileFields
    <3> QED BY <3>1, FileFields
  <2> QED BY <1>3, <2>5, <2>6
<1> QED BY <1>2, <1>3

LEMMA FilesListed ==
    ASSUME Typed, NEW r \in Runs, run[r] # None, NEW S, IsSource(S, r, "coverage"),
           NEW tests, tests = listTestsForRun(Projects, r, Everything)
    PROVE  {f.path : f \in listRunFiles(Projects, r)}
              = {f.path : f \in FilesFrom(S)} \union ({t.file : t \in tests} \ {None})
<1> DEFINE T == {t \in listTestsForRun(Projects, r, Everything) : t.file # None}
           s == getCoverageSnapshotForRun(Projects, r)
           F == IF s = None THEN {} ELSE CoverageFilesOf(s)
           P == {t.file : t \in T} \union {f.path : f \in F}
           file(path) == RunFile(path, {t \in T : t.file = path}, {f \in F : f.path = path})
<1>1. listRunFiles(Projects, r) = {file(path) : path \in P} BY Zenon DEF listRunFiles
<1>2. {t.file : t \in T} = {t.file : t \in tests} \ {None} OBVIOUS
<1>3. {f.path : f \in F} = {f.path : f \in FilesFrom(S)}
  <2>1. PICK x : x = s OBVIOUS
  <2>2. F = IF x = None THEN {} ELSE CoverageFilesOf(x) BY <2>1
  <2>3. x = getCoverageSnapshotForRun(Projects, r) BY <2>1
  <2> HIDE DEF F, s
  <2> QED BY <2>2, <2>3, FilesOfSource
<1>4. \A path : file(path).path = path
  <2>1. \A path, x, y : RunFile(path, x, y).path = path BY DEF RunFile
  <2> HIDE DEF T, F
  <2> QED BY <2>1
<1> HIDE DEF T, F, file
<1>5. {f.path : f \in listRunFiles(Projects, r)} = P
  <2> HIDE DEF P
  <2>1. PICK g : g = [path \in P |-> file(path)] OBVIOUS
  <2>2. \A path \in P : g[path].path = path BY <1>4, <2>1
  <2>3. listRunFiles(Projects, r) = {g[path] : path \in P} BY <1>1, <2>1
  <2> QED BY <2>2, <2>3
<1> QED BY <1>2, <1>3, <1>5

(* Whatever is asked for is among all tests that are listed. *)
LEMMA TestsNarrowed ==
    ASSUME NEW r, NEW q PROVE listTestsForRun(Projects, r, q) \subseteq listTestsForRun(Projects, r, Everything)
<1>1. PICK suites : suites = listSuitesForRun(Projects, r) OBVIOUS
<1>2. PICK packaged : packaged = {s \in suites : q.package \in {None, s.package}} OBVIOUS
<1>3. listTestsForRun(Projects, r, q) =
         {t \in TestExecution : /\ t.suite \in Ids(packaged) /\ q.status \in {None, t.status}
                                /\ q.module \in {None, t.module} /\ q.file \in {None, t.file}}
  BY <1>1, <1>2, Zenon DEF listTestsForRun
<1>4. PICK all : all = Everything OBVIOUS
<1>5. all.package = None /\ all.status = None /\ all.module = None /\ all.file = None BY <1>4, TestQueries
<1>6. {s \in suites : all.package \in {None, s.package}} = suites BY <1>5
<1>7. listTestsForRun(Projects, r, all) =
         {t \in TestExecution : /\ t.suite \in Ids({s \in suites : all.package \in {None, s.package}})
                                /\ all.status \in {None, t.status}
                                /\ all.module \in {None, t.module} /\ all.file \in {None, t.file}}
  BY <1>1, Zenon DEF listTestsForRun
<1>8. Ids(packaged) \subseteq Ids(suites) BY <1>2 DEF Ids
<1> QED BY <1>3, <1>4, <1>5, <1>6, <1>7, <1>8

LEMMA DetailOfSource ==
    ASSUME Typed, SelectionInv, NEW r \in Runs, run[r] # None, NEW S, IsSource(S, r, "coverage"),
           NEW f \in Ids(FilesFrom(S)), NEW tests, tests = listTestsForRun(Projects, r, Everything)
    PROVE  \E detail \in getCoverageFileDetail(Projects, r, f) : \A t \in detail.tests : t \in tests
<1>1. PICK g \in FilesFrom(S) : g.id = f BY DEF Ids
<1>2. PICK s : s = getCoverageSnapshotForRun(Projects, r) OBVIOUS
<1>3. PICK F : F = IF s = None THEN {} ELSE CoverageFilesOf(s) OBVIOUS
<1>4. s # None /\ \E x \in F : x.path = g.path /\ x.id = f
  <2>1. \A h \in FilesFrom(S) : s # None /\ \E x \in F : x.path = h.path /\ x.id = h.id
    BY <1>2, <1>3, FilesOfSource
  <2> QED BY <1>1, <2>1
<1>5. PICK x \in F : x.id = f BY <1>4
<1>6. x \in CoverageFile /\ x.snapshot = s.id BY <1>3, <1>4, <1>5 DEF CoverageFilesOf
<1>7. x \in {y \in CoverageFile : s # None /\ y.id = f /\ y.snapshot = s.id} BY <1>4, <1>5, <1>6
<1>8. PICK q : q = [Everything EXCEPT !.file = x.path] OBVIOUS
<1>9. PICK detail : detail = [file |-> x, tests |-> listTestsForRun(Projects, r, q),
                              change |-> {c \in getRunCoverageComparison(Projects, r).fileChanges : c.key = x.path}]
  OBVIOUS
<1>10. detail \in getCoverageFileDetail(Projects, r, f)
  BY <1>2, <1>7, <1>8, <1>9, Zenon DEF getCoverageFileDetail
<1>11. detail.tests = listTestsForRun(Projects, r, q) BY <1>9
<1>12. listTestsForRun(Projects, r, q) \subseteq tests BY TestsNarrowed
<1> QED BY <1>10, <1>11, <1>12

-----------------------------------------------------------------------------
(* The comparison of a run with the one before.                             *)

RunRow(q) == [id |-> q, completedAt |-> run[q].completedAt]
RunRows(R) == {RunRow(q) : q \in R}

LEMMA ForemostRun ==
    ASSUME Tables, NEW R \in SUBSET Runs, \A q \in R : run[q] # None, R # {}
    PROVE  /\ RunRows(R) # {} /\ Foremost(RunRows(R), "newest").id \in R
           /\ \A q \in R : run[q].completedAt <= run[Foremost(RunRows(R), "newest").id].completedAt
<1>1. \A q \in R : RunRow(q).id = q /\ RunRow(q).completedAt = run[q].completedAt /\ run[q].completedAt \in Nat
  BY DEF RunRow, Tables, RunType
<1>2. IsFiniteSet(RunRows(R))
  <2>1. IsFiniteSet(R) BY FS_Subset, QueriesAssumption DEF QueriesAssumption
  <2>2. PICK f : f = [q \in R |-> RunRow(q)] OBVIOUS
  <2>3. IsFiniteSet({f[q] : q \in R}) BY <2>1, <2>2, ImageFinite
  <2>4. RunRows(R) = {f[q] : q \in R} BY <2>2 DEF RunRows
  <2> QED BY <2>3, <2>4
<1>3. RunRows(R) # {} BY DEF RunRows
<1>4. \A x \in RunRows(R) : x.id \in R /\ x = RunRow(x.id) BY <1>1 DEF RunRows
<1>5. \A x \in RunRows(R) : Sortable("newest", x)
  <2>1. R \subseteq Int BY QueriesAssumption DEF QueriesAssumption
  <2>2. \A x \in RunRows(R) : x.id \in Int BY <1>4, <2>1
  <2>3. ASSUME NEW x \in RunRows(R) PROVE x.completedAt \in Nat
    <3>1. PICK q \in R : q = x.id BY <1>4
    <3>2. x = RunRow(q) BY <1>4, <3>1
    <3> QED BY <1>1, <3>1, <3>2
  <2> QED BY <2>2, <2>3 DEF Sortable, ByPct
<1>6. InLine(RunRows(R), "newest") BY <1>4, <1>5, SortableInLine DEF Orders
<1>7. PICK x : x = Foremost(RunRows(R), "newest") OBVIOUS
<1>8. x \in RunRows(R) /\ \A y \in RunRows(R) : y = x \/ Before("newest", x, y)
  BY <1>2, <1>3, <1>6, <1>7, ForemostIs
<1>9. ASSUME NEW q \in R PROVE run[q].completedAt <= run[x.id].completedAt
  <2>1. RunRow(q) \in RunRows(R) BY DEF RunRows
  <2>2. RunRow(q) = x \/ Before("newest", x, RunRow(q)) BY <1>8, <2>1
  <2>3. Before("newest", x, RunRow(q)) => x.completedAt >= RunRow(q).completedAt
    BY <1>1, <1>4, <1>5, <1>8, <2>1, BeforeIs DEF Orders
  <2>4. x.completedAt = run[x.id].completedAt BY <1>1, <1>4, <1>8
  <2> QED BY <1>1, <1>4, <1>8, <2>2, <2>3, <2>4
<1> QED BY <1>3, <1>4, <1>7, <1>8, <1>9

LEMMA PreviousIs ==
    ASSUME Tables, NEW r, NEW s, s = PreviousRun(Projects, r), s # None PROVE s.id \in Runs
<1> DEFINE R == {q \in Runs : /\ run[q] # None /\ RunProject[q] = RunProject[r]
                              /\ run[q].completedAt < run[r].completedAt}
<1>1. s = Foremost(RunRows(R), "newest") BY Zenon DEF PreviousRun, RunRows, RunRow
<1>2. R # {} BY <1>1 DEF RunRows, Foremost
<1>3. R \in SUBSET Runs /\ \A q \in R : run[q] # None OBVIOUS
<1> HIDE DEF R
<1> QED BY <1>1, <1>2, <1>3, ForemostRun

LEMMA PointRows ==
    /\ \A x \in CoverageTrendPoint : \E c \in stored :
          /\ x.run = Content[c].run /\ x.sub = ReportSubmissionId(c)
          /\ \/ /\ x.scope = "file"
                /\ \E f \in Content[c].files : x.key = f.path /\ x.linesPct = f.linesPct
             \/ x.scope = "project" /\ Content[c].covered /\ x.linesPct = Content[c].linesPct
    /\ \A c \in stored : Content[c].covered => \E x \in CoverageTrendPoint :
          /\ x.run = Content[c].run /\ x.sub = ReportSubmissionId(c)
          /\ x.scope = "project" /\ x.linesPct = Content[c].linesPct
<1> DEFINE snaps(c) == {s \in CoverageSnapshot : s.id = c}
           point(c, s) == [run |-> s.run, sub |-> s.sub, scope |-> "project", key |-> None,
                           linesPct |-> s.linesPct, at |-> Content[c].completedAt]
           points(c) == {point(c, s) : s \in snaps(c)}
           fpoint(c, f) == [run |-> Content[c].run, sub |-> ReportSubmissionId(c), scope |-> "file", key |-> f.path,
                            linesPct |-> f.linesPct, at |-> Content[c].completedAt]
           fpoints(c) == {fpoint(c, f) : f \in Content[c].files}
<1>1. CoverageTrendPoint = UNION {fpoints(c) \union points(c) : c \in stored} BY Zenon DEF CoverageTrendPoint
<1>2. \A c, s : s \in snaps(c) <=> c \in stored /\ Content[c].covered /\ s = SnapshotFor(c)
  BY DEF CoverageSnapshot, SnapshotFor
<1>3. \A c, s : point(c, s).run = s.run /\ point(c, s).sub = s.sub /\ point(c, s).scope = "project"
                /\ point(c, s).linesPct = s.linesPct
  OBVIOUS
<1>4. \A c, f : fpoint(c, f).run = Content[c].run /\ fpoint(c, f).sub = ReportSubmissionId(c)
                /\ fpoint(c, f).scope = "file" /\ fpoint(c, f).key = f.path /\ fpoint(c, f).linesPct = f.linesPct
  OBVIOUS
<1>5. \A c : SnapshotFor(c).run = Content[c].run /\ SnapshotFor(c).sub = ReportSubmissionId(c)
             /\ SnapshotFor(c).linesPct = Content[c].linesPct
  BY DEF SnapshotFor
<1>6. ASSUME NEW x \in CoverageTrendPoint
      PROVE  \E c \in stored :
          /\ x.run = Content[c].run /\ x.sub = ReportSubmissionId(c)
          /\ \/ /\ x.scope = "file"
                /\ \E f \in Content[c].files : x.key = f.path /\ x.linesPct = f.linesPct
             \/ x.scope = "project" /\ Content[c].covered /\ x.linesPct = Content[c].linesPct
  <2> HIDE DEF points, fpoints
  <2>1. PICK c \in stored : x \in fpoints(c) \/ x \in points(c) BY <1>1
  <2> USE DEF points, fpoints
  <2> HIDE DEF snaps, point, fpoint
  <2>2. CASE x \in fpoints(c)
    <3>1. PICK f \in Content[c].files : x = fpoint(c, f) BY <2>2
    <3> QED BY <1>4, <3>1
  <2>3. CASE x \in points(c)
    <3>1. PICK s \in snaps(c) : x = point(c, s) BY <2>3
    <3> QED BY <1>2, <1>3, <1>5, <3>1
  <2> QED BY <2>1, <2>2, <2>3
<1>7. ASSUME NEW c \in stored, Content[c].covered
      PROVE  \E x \in CoverageTrendPoint :
          /\ x.run = Content[c].run /\ x.sub = ReportSubmissionId(c)
          /\ x.scope = "project" /\ x.linesPct = Content[c].linesPct
  <2> HIDE DEF snaps, point, fpoint
  <2>1. point(c, SnapshotFor(c)) \in points(c) BY <1>2, <1>7
  <2>2. point(c, SnapshotFor(c)) \in CoverageTrendPoint
    <3> HIDE DEF points, fpoints
    <3> QED BY <1>1, <2>1
  <2> QED BY <1>3, <1>5, <2>2
<1> QED BY <1>6, <1>7

(* The submissions the points of a run and the one before are read with.    *)
Compared(r, other) == loadActiveSubmissionIds({r, other} \ {None}, {"coverage", "combined"})

LEMMA ComparedIs ==
    ASSUME NEW r, NEW other
    PROVE  Compared(r, other) =
              LET selected == {c \in stored : \E q \in {r, other} \ {None} : pointer[q]["coverage"] = c}
                  active == {c \in stored : /\ submission[c] = "active" /\ Content[c].run \in {r, other} \ {None}
                                            /\ Content[c].kind \in {"coverage", "combined"}}
              IN  IF selected # {} THEN selected ELSE active
<1> DEFINE two == {r, other} \ {None}
           kinds == {"coverage", "combined"}
           S == {c \in stored : \E q \in two, j \in kinds \intersect FactKinds : pointer[q][j] = c}
           A == {c \in stored : /\ submission[c] = "active" /\ Content[c].run \in two
                                /\ Content[c].kind \in kinds \union {"combined"}}
<1>1. Compared(r, other) = IF S # {} THEN S ELSE A BY Zenon DEF Compared, loadActiveSubmissionIds
<1>2. kinds \intersect FactKinds = {"coverage"} /\ kinds \union {"combined"} = kinds BY DEF FactKinds
<1>3. S = {c \in stored : \E q \in two : pointer[q]["coverage"] = c}
  <2> HIDE DEF two, kinds
  <2> QED BY <1>2
<1>4. A = {c \in stored : /\ submission[c] = "active" /\ Content[c].run \in two /\ Content[c].kind \in kinds}
  <2> HIDE DEF two, kinds
  <2> QED BY <1>2
<1> HIDE DEF S, A
<1> QED BY <1>1, <1>3, <1>4

(* What is borne of the run and read with them is of the source; and the    *)
(* source is read with them unless they are all of the other run.          *)
LEMMA ComparedSource ==
    ASSUME Typed, SelectionInv, NEW r \in Runs, NEW other \in Runs \union {None}, NEW S, IsSource(S, r, "coverage"),
           NEW c, Bears(c, r, "coverage")
    PROVE  /\ Meets(c, Compared(r, other)) => c \in S
           /\ c \in S => \/ Meets(c, Compared(r, other))
                         \/ Compared(r, other) # {} /\ \A d \in Compared(r, other) : Content[d].run # r
<1>1. PICK both : both = Compared(r, other) OBVIOUS
<1>2. PICK two : two = {r, other} \ {None} OBVIOUS
<1>3. PICK selected : selected = {d \in stored : \E q \in two : pointer[q]["coverage"] = d} OBVIOUS
<1>4. PICK active : active = {d \in stored : /\ submission[d] = "active" /\ Content[d].run \in two
                                             /\ Content[d].kind \in {"coverage", "combined"}} OBVIOUS
<1>5. both = IF selected # {} THEN selected ELSE active BY <1>1, <1>2, <1>3, <1>4, ComparedIs
<1>6. r \in two /\ two \subseteq Runs BY <1>2, NoneIsNothing
<1>7. PICK ids : ids = IdsFor(r, "coverage") OBVIOUS
<1>8. stored \subseteq Contents /\ None \notin stored /\ c \in stored /\ Content[c].run = r
  BY NoneIsNothing DEF Typed, TablesInv, Tables, Bears
<1>9. None \notin both BY <1>3, <1>4, <1>5, <1>8
<1>10. c \in S <=> Meets(c, ids) BY <1>7 DEF IsSource
<1>11. CASE pointer[r]["coverage"] # None
  <2>1. PICK p : p = pointer[r]["coverage"] OBVIOUS
  <2>2. p \in stored /\ Content[p].run = r /\ submission[p] # None
    BY <1>11, <2>1 DEF FactKinds, Typed, TablesInv, SelectionInv, PointersOwn
  <2>3. S = {p} BY <1>11, <2>1 DEF IsSource
  <2>4. p \in selected BY <1>3, <1>6, <2>1, <2>2
  <2>5. both = selected BY <1>5, <2>4
  <2>6. \A d \in selected : Content[d].run = r => d = p
    <3>1. \A q \in two : pointer[q]["coverage"] # None => Content[pointer[q]["coverage"]].run = q
      BY <1>6 DEF FactKinds, SelectionInv, PointersOwn
    <3> QED BY <1>3, <1>8, <2>1, <3>1
  <2>7. ReportSubmissionId(p) = p BY <2>2 DEF ReportSubmissionId
  <2>8. ReportSubmissionId(c) \in {c, None} BY DEF ReportSubmissionId
  <2> QED BY <1>1, <1>8, <1>9, <2>3, <2>4, <2>5, <2>6, <2>7, <2>8 DEF Meets
<1>12. CASE pointer[r]["coverage"] = None
  <2>1. ReportSubmissionId(c) \in {c, None} BY DEF ReportSubmissionId
  <2>2. \A d \in selected : Content[d].run # r
    <3>1. \A q \in two : pointer[q]["coverage"] # None => Content[pointer[q]["coverage"]].run = q
      BY <1>6 DEF FactKinds, SelectionInv, PointersOwn
    <3> QED BY <1>3, <1>8, <1>12, <3>1
  <2>3. ids = {d \in stored : submission[d] = "active" /\ Content[d].run = r /\ Content[d].kind \in {"coverage", "combined"}}
    BY <1>7, <1>12 DEF IdsFor
  <2>4. ids = {d \in active : Content[d].run = r} BY <1>4, <1>6, <2>3
  <2>5. ASSUME Meets(c, both) PROVE c \in S
    <3>1. CASE both = {} 
      <4>1. ids = {} BY <1>5, <2>4, <3>1
      <4> QED BY <1>10, <4>1 DEF Meets
    <3>2. CASE both # {}
      <4>1. ReportSubmissionId(c) = c /\ c \in both BY <1>9, <2>1, <2>5, <3>2 DEF Meets
      <4>2. c \in ids BY <1>5, <1>8, <2>2, <2>4, <4>1
      <4> QED BY <1>10, <4>1, <4>2 DEF Meets
    <3> QED BY <3>1, <3>2
  <2>6. ASSUME c \in S, ~Meets(c, both) PROVE both # {} /\ \A d \in both : Content[d].run # r
    <3>1. both # {} BY <2>6 DEF Meets
    <3>2. Meets(c, ids) BY <1>10, <2>6
    <3>3. CASE selected # {} BY <1>5, <2>2, <3>1, <3>3
    <3>4. CASE selected = {}
      <4>1. both = active BY <1>5, <3>4
      <4>2. ids = {} BY <2>4, <2>6, <3>2, <4>1 DEF Meets
      <4> QED BY <2>4, <3>1, <4>1, <4>2
    <3> QED BY <3>3, <3>4
  <2> QED BY <1>1, <2>5, <2>6
<1> QED BY <1>11, <1>12

FileAt(S, p) == CHOOSE f \in FilesFrom(S) : f.path = p

LEMMA FileAtIs ==
    ASSUME Typed, NEW r \in Runs, NEW S, IsSource(S, r, "coverage"), NEW d \in S, NEW f \in Content[d].files
    PROVE  FileAt(S, f.path) = f
<1>1. d \in Contents /\ \A c \in S : c = d
  BY NoneIsNothing DEF IsSource, Sources, Typed, TablesInv, Tables
<1>2. FilesFrom(S) = Content[d].files BY <1>1 DEF FilesFrom
<1>3. \A g \in Content[d].files : g.path = f.path => g = f
  BY <1>1, QueriesAssumption DEF QueriesAssumption, KeysApart
<1> QED BY <1>2, <1>3 DEF FileAt

LEMMA ChangeFields ==
    ASSUME NEW points, NEW r, NEW previous, NEW p
    PROVE  CoverageChange(points, r, previous, p).key = p.key /\ CoverageChange(points, r, previous, p).current = p.linesPct
BY DEF CoverageChange

LEMMA ComparisonOfSource ==
    ASSUME Typed, SelectionInv, NEW r \in Runs, run[r] # None, NEW S, IsSource(S, r, "coverage"),
           NEW compared, compared = getRunCoverageComparison(Projects, r)
    PROVE  /\ \/ /\ Compared(r, compared.previousRun) # {}
                 /\ \A c \in Compared(r, compared.previousRun) : Content[c].run # r
              \/ compared.current = findRun(Projects, r).linesPct
           /\ \A c \in compared.fileChanges : c.current = FileAt(S, c.key).linesPct
<1>1. PICK previous : previous = PreviousRun(Projects, r) OBVIOUS
<1>2. PICK other : other = IF previous = None THEN None ELSE previous.id OBVIOUS
<1>3. PICK points : points = ComparedPoints({r, other} \ {None}) OBVIOUS
<1>4. PICK shown : shown = buildCoverageChanges(points, r, other, "file") OBVIOUS
<1>5. compared = [previousRun |-> other, current |-> ProjectPct(points, r), previous |-> ProjectPct(points, other),
                  delta |-> diffMetric(ProjectPct(points, r), ProjectPct(points, other)), fileChanges |-> shown]
  BY <1>1, <1>2, <1>3, <1>4, FoundIs, Zenon DEF getRunCoverageComparison
<1>6. compared.previousRun = other /\ compared.current = ProjectPct(points, r) /\ compared.fileChanges = shown
  BY <1>5
<1>7. other \in Runs \union {None} BY <1>1, <1>2, PreviousIs DEF Typed, TablesInv
<1>8. PICK both : both = Compared(r, other) OBVIOUS
<1>9. points = Selected(CoverageTrendPoint, {r, other} \ {None}, both)
  BY <1>3, <1>8, Zenon DEF ComparedPoints, Compared
<1>10. points = {x \in CoverageTrendPoint : x.run \in {r, other} \ {None} /\ (both = {} \/ x.sub \in both)}
  BY <1>9 DEF Selected
<1>11. r # None /\ stored \subseteq Contents BY NoneIsNothing DEF Typed, TablesInv, Tables
<1>12. ASSUME NEW x \in points, x.run = r
       PROVE  \E c \in S : \/ /\ x.scope = "file"
                              /\ \E f \in Content[c].files : x.key = f.path /\ x.linesPct = f.linesPct
                           \/ x.scope = "project" /\ Content[c].covered /\ x.linesPct = Content[c].linesPct
  <2>1. PICK c \in stored :
           /\ x.run = Content[c].run /\ x.sub = ReportSubmissionId(c)
           /\ \/ /\ x.scope = "file"
                 /\ \E f \in Content[c].files : x.key = f.path /\ x.linesPct = f.linesPct
              \/ x.scope = "project" /\ Content[c].covered /\ x.linesPct = Content[c].linesPct
    BY <1>10, PointRows
  <2>2. Content[c].covered BY <1>11, <2>1, QueriesAssumption DEF QueriesAssumption, KeysApart
  <2>3. Bears(c, r, "coverage") /\ Meets(c, both) BY <1>10, <1>12, <2>1, <2>2 DEF Bears, Holds, Meets
  <2>4. c \in S BY <1>7, <1>8, <2>3, ComparedSource
  <2> QED BY <2>1, <2>4
<1>13. ASSUME NEW c \in shown PROVE c.current = FileAt(S, c.key).linesPct
  <2>1. PICK own : own = {x \in points : x.run = r /\ x.scope = "file"} OBVIOUS
  <2>2. shown \subseteq {CoverageChange(points, r, other, x) : x \in own} BY <1>4, <2>1, Zenon DEF buildCoverageChanges
  <2>3. PICK x \in own : c = CoverageChange(points, r, other, x) BY <2>2
  <2>4. PICK d \in S : \E f \in Content[d].files : x.key = f.path /\ x.linesPct = f.linesPct
    BY <1>12, <2>1, <2>3
  <2>5. PICK f \in Content[d].files : x.key = f.path /\ x.linesPct = f.linesPct BY <2>4
  <2>6. FileAt(S, x.key) = f BY <2>5, FileAtIs
  <2> QED BY <2>3, <2>5, <2>6, ChangeFields
<1>14. ASSUME both = {} \/ \E c \in both : Content[c].run = r
       PROVE  ProjectPct(points, r) = findRun(Projects, r).linesPct
  <2>1. PICK s : s = CoverageSnapshotOf(r) OBVIOUS
  <2>2. findRun(Projects, r).linesPct = IF s = None THEN None ELSE s.linesPct BY <2>1, FoundIs DEF findRun
  <2> DEFINE own == {x \in points : x.run = r /\ x.scope = "project"}
  <2>3. \A x \in own : x \in points /\ x.run = r /\ x.scope = "project" OBVIOUS
  <2>4. ProjectPct(points, r) = IF own = {} THEN None ELSE (CHOOSE x \in own : TRUE).linesPct
    BY Zenon DEF ProjectPct
  <2>5. \A x \in own : \E c \in S : Content[c].covered /\ x.linesPct = Content[c].linesPct
    BY <1>12, <2>3
  <2>6. CASE s = None
    <3>1. own = {} BY <2>1, <2>5, <2>6, SnapshotOfSource
    <3> QED BY <2>2, <2>4, <2>6, <3>1
  <2>7. CASE s # None
    <3>1. S = {s.id} /\ Content[s.id].covered /\ s.linesPct = Content[s.id].linesPct
      BY <2>1, <2>7, SnapshotOfSource
    <3>2. Bears(s.id, r, "coverage") BY <3>1 DEF Bears, Holds, IsSource
    <3>3. Meets(s.id, both) BY <1>7, <1>8, <1>14, <3>1, <3>2, ComparedSource
    <3>4. own # {}
      <4>1. PICK x \in CoverageTrendPoint : /\ x.run = r /\ x.sub = ReportSubmissionId(s.id)
                                            /\ x.scope = "project"
        BY <3>1, <3>2, PointRows DEF Bears
      <4>2. x \in points BY <1>10, <1>11, <3>3, <4>1 DEF Meets
      <4> QED BY <4>1, <4>2
    <3>5. \A x \in own : x.linesPct = s.linesPct BY <2>5, <3>1
    <3> HIDE DEF own
    <3>6. (CHOOSE x \in own : TRUE) \in own BY <3>4
    <3> QED BY <2>2, <2>4, <2>7, <3>4, <3>5, <3>6
  <2> QED BY <2>6, <2>7
<1> QED BY <1>6, <1>8, <1>13, <1>14

LEMMA CoverageOfSource ==
    ASSUME Typed, SelectionInv, NEW r \in Runs, run[r] # None, NEW S, IsSource(S, r, "coverage")
    PROVE  CoverageOf(r, S)
<1>1. PICK compared : compared = getRunCoverageComparison(Projects, r) OBVIOUS
<1>2. /\ \/ /\ Compared(r, compared.previousRun) # {}
            /\ \A c \in Compared(r, compared.previousRun) : Content[c].run # r
         \/ compared.current = findRun(Projects, r).linesPct
      /\ \A c \in compared.fileChanges : c.current = FileAt(S, c.key).linesPct
  BY <1>1, ComparisonOfSource
<1>3. {f.path : f \in listRunFiles(Projects, r)}
         = {f.path : f \in FilesFrom(S)} \union ({t.file : t \in listTestsForRun(Projects, r, Everything)} \ {None})
  BY FilesListed
<1>4. \A f \in Ids(FilesFrom(S)) : \E detail \in getCoverageFileDetail(Projects, r, f) :
         \A t \in detail.tests : t \in listTestsForRun(Projects, r, Everything)
  BY DetailOfSource
<1>5. \A x \in {getRunCoverageComparison(Projects, r)} : x = compared BY <1>1
<1> QED BY <1>2, <1>3, <1>4, <1>5, Zenon DEF CoverageOf, FilesFrom, FileAt, Compared

LEMMA OneSubmission ==
    ASSUME Typed, SelectionInv PROVE FactsOfOneSubmission
<1> SUFFICES ASSUME NEW r \in Runs, run[r] # None
             PROVE  /\ Told(r, "tests") => \E source \in Sources(r, "tests") : TestsOf(r, source)
                    /\ Told(r, "coverage") => \E source \in Sources(r, "coverage") : CoverageOf(r, source)
  BY DEF FactsOfOneSubmission
<1>1. ASSUME Told(r, "tests") PROVE \E source \in Sources(r, "tests") : TestsOf(r, source)
  <2>1. PICK S : IsSource(S, r, "tests") BY <1>1, SourceExists DEF FactKinds
  <2> QED BY <1>1, <2>1, TestsOfSource DEF IsSource
<1>2. ASSUME Told(r, "coverage") PROVE \E source \in Sources(r, "coverage") : CoverageOf(r, source)
  <2>1. PICK S : IsSource(S, r, "coverage") BY <1>2, SourceExists DEF FactKinds
  <2> QED BY <2>1, CoverageOfSource DEF IsSource
<1> QED BY <1>1, <1>2

-----------------------------------------------------------------------------
(* What is hidden from a guest.                                             *)

LEMMA NotFound ==
    ASSUME NEW r, NEW guest, RunProject[r] \notin guest PROVE ~Found(guest, r)
BY DEF Found, listProjects

LEMMA FirstOf ==
    ASSUME NEW rows, NEW n, NEW order PROVE First(rows, n, order) \subseteq rows
BY Zenon DEF First

LEMMA FeedHidden ==
    ASSUME NEW r, NEW guest, RunProject[r] \notin guest, NEW query, NEW x \in listRunFeed(guest, query)
    PROVE  x.id # r
<1> DEFINE shows == {p \in listProjects(guest) : query.project \in {None, p}}
           listed == {y \in Runs : overview[y] # None /\ RunProject[y] \in shows /\ overview[y].completedAt # None}
           rows == {OverviewRow(y) : y \in listed}
           matching == {y \in rows : FeedWhere(y, query)}
<1>1. listRuns(guest, query) = First(matching, query.limit, "newest") BY Zenon DEF listRuns
<1>2. listRuns(guest, query) \subseteq rows
  <2> HIDE DEF rows
  <2> QED BY <1>1, FirstOf
<1>3. \A y \in listed : RunProject[y] \in guest BY DEF listProjects
<1>4. \A y : OverviewRow(y).id = y /\ decorateProjectedRun(y).id = y BY DEF OverviewRow, decorateProjectedRun
<1> HIDE DEF listed
<1>5. PICK y \in listRuns(guest, query) : x = decorateProjectedRun(y.id) BY DEF listRunFeed
<1>6. PICK z \in listed : y = OverviewRow(z) BY <1>2
<1> QED BY <1>3, <1>4, <1>5, <1>6

LEMMA TrendHidden ==
    ASSUME NEW r, NEW guest, RunProject[r] \notin guest, NEW q, NEW x \in listCoverageTrend(guest, q, "project", None)
    PROVE  x.id # r
<1> DEFINE seen == {p \in CoverageTrendPoint : /\ RunProject[p.run] \in listProjects(guest)
                                               /\ p.scope = "project" /\ p.key = None}
           row(p) == [id |-> p.run, completedAt |-> p.at, linesPct |-> p.linesPct]
           rows == {row(p) : p \in seen}
<1>1. listCoverageTrend(guest, q, "project", None)
         = {p \in First(rows, PageSize, "newest") : q \in {None, RunProject[p.id]}}
  BY Zenon DEF listCoverageTrend
<1>2. \A p \in seen : RunProject[p.run] \in guest BY DEF listProjects
<1>3. \A p : row(p).id = p.run OBVIOUS
<1>4. x \in rows
  <2> HIDE DEF rows
  <2> QED BY <1>1, FirstOf
<1> HIDE DEF seen, row
<1>5. PICK p \in seen : x = row(p) BY <1>4
<1> QED BY <1>2, <1>3, <1>5

LEMMA NothingForGuests == GuestsSeePublicOnly
<1> SUFFICES ASSUME NEW r \in Runs, NEW guest \in SUBSET (Projects \ {RunProject[r]}) PROVE Hidden(guest, r)
  BY DEF GuestsSeePublicOnly
<1>1. RunProject[r] \notin guest /\ ~Found(guest, r) BY NotFound
<1>2. findProject(guest, RunProject[r]) = None /\ findRun(guest, r) = None
  BY <1>1 DEF findProject, findRun, listProjects
<1>3. listArtifacts(guest, r, None, AllArtifacts) = {}
  <2>1. ArtifactsSelected(guest, r, None) = {} BY <1>1, Zenon DEF ArtifactsSelected
  <2>2. AllArtifacts.limit = None BY DEF AllArtifacts
  <2>3. PICK q : q = AllArtifacts OBVIOUS
  <2>4. listArtifacts(guest, r, None, q) = {} BY <2>1, <2>2, <2>3 DEF listArtifacts
  <2> QED BY <2>3, <2>4
<1>4. \A s, q : listTestsForSuiteRun(guest, r, s, q) = {} BY <1>1, Zenon DEF listTestsForSuiteRun
<1>5. \A t : getTestExplorerDetail(guest, r, t) = None BY <1>1, Zenon DEF getTestExplorerDetail
<1>6. /\ ~hasRunPerformance(guest, r) /\ getRunPublicationKinds(guest, r) = {}
      /\ listRunPerformanceStats(guest, r) = {}
  BY <1>1 DEF hasRunPerformance, getRunPublicationKinds, listRunPerformanceStats
<1>7. \A query : \A x \in listRunFeed(guest, query) : x.id # r BY <1>1, FeedHidden
<1>8. \A q \in Projects : \A x \in listCoverageTrend(guest, q, "project", None) : x.id # r BY <1>1, TrendHidden
<1> QED BY <1>2, <1>3, <1>4, <1>5, <1>6, <1>7, <1>8, Zenon DEF Hidden

-----------------------------------------------------------------------------
(* The badge.                                                               *)

(* A submission of a kind, or of all of them, is active or superseded by   *)
(* one that is.                                                            *)
LEMMA ActiveFor ==
    ASSUME Typed, SelectionInv, NEW c \in stored, submission[c] # None,
           NEW k \in FactKinds, k \in Content[c].kinds \/ c \in Legacy
    PROVE  \E d \in stored : /\ submission[d] = "active" /\ Content[d].run = Content[c].run
                             /\ Content[d].kind \in {k, "combined"}
<1>1. c \in Contents /\ submission \in [Contents -> {"active", "superseded", None}]
  BY DEF Typed, TablesInv, Tables
<1>2. Content[c].kind \in {k, "combined"}
  <2>1. Content[c].kind = "combined" \/ Content[c].kinds = {Content[c].kind}
    BY <1>1, QueriesAssumption DEF QueriesAssumption
  <2>2. c \in Legacy => Content[c].kind = "combined" BY ReadingAssumption DEF ReadingAssumption
  <2> QED BY <2>1, <2>2
<1>3. CASE submission[c] = "active" BY <1>2, <1>3
<1>4. CASE submission[c] = "superseded"
  <2>1. PICK d \in Contents : SameIdentity(c, d) /\ submission[d] = "active"
    BY <1>1, <1>4 DEF SelectionInv, SupersededByOwn
  <2>2. d \in stored BY <2>1, NoneIsNoStatus DEF Typed, TablesInv, Submitted
  <2> QED BY <1>2, <2>1, <2>2 DEF SameIdentity
<1> QED BY <1>1, <1>3, <1>4

(* The runs the badge reads, and those that are not older than one. *)
ReadFor(p) == {q \in StoredOf(p) : RunRow(q) \in BadgeRuns(p)}
NewestOf(p, r) == {q \in Runs : run[q] # None /\ RunProject[q] = p /\ run[q].completedAt >= run[r].completedAt}

LEMMA BadgeRunsAre ==
    ASSUME NEW p
    PROVE  /\ BadgeRuns(p) = RunRows(ReadFor(p)) /\ Ids(BadgeRuns(p)) = ReadFor(p)
           /\ \A A : {x \in BadgeRuns(p) : \E c \in A : Content[c].run = x.id}
                        = RunRows({q \in ReadFor(p) : \E c \in A : Content[c].run = q})
<1>1. BadgeRuns(p) = First(RunRows(StoredOf(p)), BadgeLimit, "newest") BY Zenon DEF BadgeRuns, RunRows, RunRow, StoredOf
<1>2. \A q : RunRow(q).id = q BY DEF RunRow
<1>3. BadgeRuns(p) \subseteq RunRows(StoredOf(p)) BY <1>1, Zenon DEF First
<1>4. BadgeRuns(p) = RunRows(ReadFor(p)) BY <1>3 DEF RunRows, ReadFor
<1>5. Ids(BadgeRuns(p)) = ReadFor(p) BY <1>2, <1>4 DEF Ids, RunRows
<1>6. ASSUME NEW A
      PROVE  {x \in BadgeRuns(p) : \E c \in A : Content[c].run = x.id}
                = RunRows({q \in ReadFor(p) : \E c \in A : Content[c].run = q})
  BY <1>2, <1>4 DEF RunRows
<1> QED BY <1>4, <1>5, <1>6

(* A run is read unless as many as the limit are not older. *)
LEMMA ReadWithin ==
    ASSUME Tables, NEW p, NEW r \in StoredOf(p)
    PROVE  r \in ReadFor(p) \/ Cardinality(NewestOf(p, r)) > BadgeLimit
<1> DEFINE ahead == {q \in StoredOf(p) : Before("newest", RunRow(q), RunRow(r))}
<1>1. \A q \in StoredOf(p) : /\ RunRow(q).id = q /\ RunRow(q).completedAt = run[q].completedAt
                              /\ run[q].completedAt \in Nat /\ q \in Int
  BY QueriesAssumption DEF RunRow, StoredOf, Tables, RunType, QueriesAssumption
<1>2. \A q \in StoredOf(p) : Before("newest", RunRow(q), RunRow(r))
          <=> \/ run[q].completedAt > run[r].completedAt
              \/ run[q].completedAt = run[r].completedAt /\ q > r
  BY <1>1 DEF Before, ByPct, PctBefore
<1>3. ahead \subseteq NewestOf(p, r) /\ r \in NewestOf(p, r) /\ r \notin ahead
  BY <1>1, <1>2 DEF NewestOf, StoredOf
<1>4. IsFiniteSet(NewestOf(p, r)) /\ IsFiniteSet(ahead)
  BY <1>3, FS_Subset, QueriesAssumption DEF QueriesAssumption, NewestOf
<1> HIDE DEF ahead
<1>5. Cardinality(ahead) < Cardinality(NewestOf(p, r)) /\ Cardinality(ahead) \in Nat /\ Cardinality(NewestOf(p, r)) \in Nat
  BY <1>3, <1>4, Subset
<1>6. IsFiniteSet(RunRows(ahead)) /\ Cardinality(RunRows(ahead)) \in Nat /\ Cardinality(RunRows(ahead)) <= Cardinality(ahead)
  <2>1. PICK f : f = [q \in ahead |-> RunRow(q)] OBVIOUS
  <2>2. f \in Surjection(ahead, RunRows(ahead)) BY <2>1 DEF Surjection, RunRows
  <2> QED BY <1>4, <2>2, FS_Surjection, FS_CardinalityType
<1>7. {y \in RunRows(StoredOf(p)) : Before("newest", y, RunRow(r))} = RunRows(ahead) BY DEF RunRows, ahead
<1>8. ASSUME Cardinality(RunRows(ahead)) < BadgeLimit PROVE r \in ReadFor(p)
  <2>1. BadgeRuns(p) = First(RunRows(StoredOf(p)), BadgeLimit, "newest")
    BY Zenon DEF BadgeRuns, RunRows, RunRow, StoredOf
  <2>2. RunRow(r) \in RunRows(StoredOf(p)) BY DEF RunRows
  <2>3. RunRow(r) \in BadgeRuns(p) BY <1>7, <1>8, <2>1, <2>2 DEF First
  <2> QED BY <2>3 DEF ReadFor
<1> QED BY <1>5, <1>6, <1>8, QueriesAssumption DEF QueriesAssumption

LEMMA ActiveOfRuns ==
    ASSUME NEW p, NEW kinds
    PROVE  ActiveOf(BadgeRuns(p), kinds)
             = {c \in stored : /\ submission[c] = "active" /\ Content[c].run \in ReadFor(p)
                               /\ Content[c].kind \in kinds}
BY BadgeRunsAre DEF ActiveOf

LEMMA BadgeCoverage ==
    ASSUME Typed, SelectionInv, NEW p \in Projects, NEW s \in BadgeSnapshots(p)
    PROVE  \E c \in stored : /\ RunProject[Content[c].run] = p /\ Content[c].covered
                             /\ submission[c] = "superseded" => Content[c].kind = "performance"
                             /\ Content[c].linesPct = s.linesPct
<1>1. PICK runs : runs = BadgeRuns(p) OBVIOUS
<1>2. PICK known : known = ActiveOf(runs, {"tests", "coverage", "combined"}) OBVIOUS
<1>3. PICK active : active = ActiveOf(runs, {"coverage", "combined"}) OBVIOUS
<1>4. /\ s \in CoverageSnapshot
      /\ known = {} => runs # {} /\ s.run = Foremost(runs, "newest").id
      /\ known # {} => s.sub \in active
  BY <1>1, <1>2, <1>3 DEF BadgeSnapshots
<1>5. stored \subseteq Contents /\ None \notin stored /\ Tables
  BY NoneIsNothing DEF Typed, TablesInv, Tables
<1>6. PICK c \in stored : c = s.id /\ Content[c].covered /\ s = SnapshotFor(c)
  BY <1>4, <1>5, SnapshotRows
<1>7. s.run = Content[c].run /\ s.sub = ReportSubmissionId(c) /\ s.linesPct = Content[c].linesPct
  BY <1>5, <1>6, SnapshotRows
<1>8. known = {d \in stored : /\ submission[d] = "active" /\ Content[d].run \in ReadFor(p)
                              /\ Content[d].kind \in {"tests", "coverage", "combined"}}
  BY <1>1, <1>2, ActiveOfRuns
<1>9. active = {d \in stored : /\ submission[d] = "active" /\ Content[d].run \in ReadFor(p)
                               /\ Content[d].kind \in {"coverage", "combined"}}
  BY <1>1, <1>3, ActiveOfRuns
<1>10. CASE known # {}
  <2>1. c \in active BY <1>4, <1>5, <1>7, <1>9, <1>10 DEF ReportSubmissionId
  <2> QED BY <1>6, <1>7, <1>9, <2>1 DEF ReadFor, StoredOf
<1>11. CASE known = {}
  <2>1. runs = RunRows(ReadFor(p)) BY <1>1, BadgeRunsAre
  <2>2. ReadFor(p) # {} BY <1>4, <1>11, <2>1 DEF RunRows
  <2>3. ReadFor(p) \in SUBSET Runs /\ \A q \in ReadFor(p) : run[q] # None BY DEF ReadFor, StoredOf
  <2>4. Content[c].run \in ReadFor(p) BY <1>4, <1>5, <1>7, <1>11, <2>1, <2>2, <2>3, ForemostRun
  <2>5. ASSUME submission[c] = "superseded" PROVE Content[c].kind = "performance"
    <3>1. c \in Contents /\ Content[c].kind \in {"tests", "coverage", "performance", "combined"}
      BY <1>5, QueriesAssumption DEF QueriesAssumption, ContentType
    <3>2. PICK d \in Contents : SameIdentity(c, d) /\ submission[d] = "active"
      BY <2>5, <3>1 DEF SelectionInv, SupersededByOwn
    <3>3. d \in stored /\ Content[d].run = Content[c].run /\ Content[d].kind = Content[c].kind
      BY <3>2, NoneIsNoStatus DEF SameIdentity, Typed, TablesInv, Submitted
    <3> QED BY <1>8, <1>11, <2>4, <3>1, <3>2, <3>3
  <2> QED BY <1>6, <1>7, <2>4, <2>5 DEF ReadFor, StoredOf
<1> QED BY <1>10, <1>11

LEMMA BadgeTests ==
    ASSUME Typed, SelectionInv, NEW p \in Projects, NEW badge, badge = getPublicBadgeSummary(p)
    PROVE  /\ badge.run # None => badge.failed = run[badge.run].failed
           /\ \A r \in Runs : RunProject[r] = p /\ pointer[r]["tests"] # None =>
                 \/ Cardinality(NewestOf(p, r)) > BadgeLimit
                 \/ badge.run # None /\ run[r].completedAt <= run[badge.run].completedAt
           /\ badge.linesPct = {s.linesPct : s \in BadgeSnapshots(p)}
<1>1. PICK runs : runs = BadgeRuns(p) OBVIOUS
<1>2. PICK known : known = ActiveOf(runs, {"tests", "coverage", "combined"}) OBVIOUS
<1>3. PICK active : active = ActiveOf(runs, {"tests", "combined"}) OBVIOUS
<1>4. PICK tested : tested = {x \in runs : \E c \in active : Content[c].run = x.id} OBVIOUS
<1>5. PICK shown : shown = IF known = {} THEN runs ELSE tested OBVIOUS
<1>6. badge = [run |-> IF shown = {} THEN None ELSE Foremost(shown, "newest").id,
               total |-> IF shown = {} THEN 0 ELSE run[Foremost(shown, "newest").id].total,
               failed |-> IF shown = {} THEN 0 ELSE run[Foremost(shown, "newest").id].failed,
               linesPct |-> {s.linesPct : s \in BadgeSnapshots(p)}]
  BY <1>1, <1>2, <1>3, <1>4, <1>5, Zenon DEF getPublicBadgeSummary
<1>7. PICK pcts : pcts = {s.linesPct : s \in BadgeSnapshots(p)} OBVIOUS
<1>8. /\ badge.run = IF shown = {} THEN None ELSE Foremost(shown, "newest").id
      /\ badge.failed = IF shown = {} THEN 0 ELSE run[Foremost(shown, "newest").id].failed
      /\ badge.linesPct = pcts
  BY <1>6, <1>7
<1>9. ASSUME NEW r \in Runs, RunProject[r] = p, pointer[r]["tests"] # None,
             ~(Cardinality(NewestOf(p, r)) > BadgeLimit)
      PROVE  badge.run # None /\ run[r].completedAt <= run[badge.run].completedAt
  <2>1. PICK c : c = pointer[r]["tests"] OBVIOUS
  <2>2. /\ c \in stored /\ Content[c].run = r /\ submission[c] # None
        /\ "tests" \in Content[c].kinds \/ c \in Legacy
    BY <1>9, <2>1 DEF FactKinds, Typed, TablesInv, SelectionInv, PointersOwn
  <2>3. PICK d \in stored : /\ submission[d] = "active" /\ Content[d].run = r
                            /\ Content[d].kind \in {"tests", "combined"}
    BY <2>2, ActiveFor DEF FactKinds
  <2>4. r \in ReadFor(p)
    <3>1. r \in StoredOf(p) BY <1>9, <2>2 DEF StoredOf, Typed, TablesInv, StoredRuns
    <3> QED BY <1>9, <3>1, ReadWithin DEF Typed, TablesInv
  <2>5. d \in active BY <1>1, <1>3, <2>3, <2>4, ActiveOfRuns
  <2>6. d \in known BY <1>1, <1>2, <2>3, <2>4, ActiveOfRuns
  <2>7. PICK R : R = {q \in ReadFor(p) : \E e \in active : Content[e].run = q} OBVIOUS
  <2>8. shown = RunRows(R)
    <3>1. tested = {x \in BadgeRuns(p) : \E e \in active : Content[e].run = x.id} BY <1>1, <1>4
    <3>2. {x \in BadgeRuns(p) : \E e \in active : Content[e].run = x.id} = RunRows(R) BY <2>7, BadgeRunsAre
    <3> QED BY <1>5, <2>6, <3>1, <3>2
  <2>9. R \in SUBSET Runs /\ (\A q \in R : run[q] # None) /\ r \in R BY <2>3, <2>4, <2>5, <2>7 DEF ReadFor, StoredOf
  <2>10. /\ shown # {} /\ Foremost(shown, "newest").id \in R
         /\ run[r].completedAt <= run[Foremost(shown, "newest").id].completedAt
    BY <2>8, <2>9, ForemostRun DEF Typed, TablesInv
  <2> QED BY <1>8, <2>9, <2>10, NoneIsNothing
<1> QED BY <1>7, <1>8, <1>9

LEMMA BadgeSound ==
    ASSUME Typed, SelectionInv PROVE BadgeOfActive
<1> SUFFICES ASSUME NEW p \in Projects
             PROVE  LET badge == getPublicBadgeSummary(p)
                        latest == {c \in stored : /\ RunProject[Content[c].run] = p /\ Content[c].covered
                                                  /\ submission[c] = "superseded" => Content[c].kind = "performance"}
                    IN  /\ \A pct \in badge.linesPct : \E c \in latest : Content[c].linesPct = pct
                        /\ badge.run # None => badge.failed = run[badge.run].failed
                        /\ \A r \in Runs : r # badge.run /\ RunProject[r] = p /\ pointer[r]["tests"] # None =>
                              \/ Cardinality(NewestOf(p, r)) > BadgeLimit
                              \/ badge.run # None /\ run[r].completedAt <= run[badge.run].completedAt
  BY Zenon DEF BadgeOfActive, NewestOf
<1>1. PICK badge : badge = getPublicBadgeSummary(p) OBVIOUS
<1>2. \A pct \in badge.linesPct : \E s \in BadgeSnapshots(p) : s.linesPct = pct BY <1>1, BadgeTests
<1> QED BY <1>1, <1>2, BadgeTests, BadgeCoverage

(* What one answer says of a run or a project holds together and is for      *)
(* those who may see it, in every state that is reached and whatever kinds  *)
(* a report's facts are published as (query-service.js:                    *)
(* loadActiveSubmissionIds and all that reads by it, the access of an actor *)
(* and the public badge).                                                  *)
THEOREM AnswersAreSound == Spec => []AnswersSound
<1>1. Init => Typed /\ SelectionInv BY TypedInit, SelectionInit
<1>2. Typed /\ SelectionInv /\ [Next]_vars => (Typed /\ SelectionInv)' BY TypedNext, SelectionNext
<1>3. Typed /\ SelectionInv => AnswersSound
  BY OneSubmission, NothingForGuests, BadgeSound DEF AnswersSound
<1> QED BY <1>1, <1>2, <1>3, PTL DEF Spec
=============================================================================
