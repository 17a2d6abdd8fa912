------------------------ MODULE ChapterReport_proofs ------------------------
(***************************************************************************)
(* That the log of a chapter lists its images in the order of the site,    *)
(* for any number of images with any indexes and any limit (ChapterReport  *)
(* where it moves in MCStoresAndLogs).  A place in the order of the site   *)
(* is the number of what stands no later, and so is a place among the      *)
(* images that the cursor passes at once: that these numbers tell images   *)
(* apart and leave no gap is shown first.  The invariant says what the     *)
(* log and the lines still to be written show of what the cursor passed.   *)
(***************************************************************************)
EXTENDS MCStoresAndLogs, Sequences, FiniteSetTheorems, TLAPS

\* Where every two of the finite sets b[j] are one within the other, and no two
\* are the same, their sizes number the elements.
LEMMA Numbered ==
  ASSUME NEW P, IsFiniteSet(P), NEW b \in [P -> SUBSET P],
         \A j \in P : j \in b[j],
         \A j, k \in P : b[j] \subseteq b[k] \/ b[k] \subseteq b[j],
         \A j, k \in P : b[j] = b[k] => j = k
  PROVE  /\ \A j \in P : Cardinality(b[j]) \in 1..Cardinality(P)
         /\ \A j, k \in P : Cardinality(b[j]) <= Cardinality(b[k]) <=> b[j] \subseteq b[k]
         /\ \A n \in 1..Cardinality(P) : \E j \in P : Cardinality(b[j]) = n
<1> DEFINE m == Cardinality(P)
           size == [j \in P |-> Cardinality(b[j])]
<1>1. m \in Nat
  BY FS_CardinalityType
<1>2. ASSUME NEW j \in P PROVE IsFiniteSet(b[j]) /\ size[j] \in 1..m
  <2>1. b[j] \in SUBSET P
    OBVIOUS
  <2>2. IsFiniteSet(b[j]) /\ size[j] <= m
    BY <2>1, FS_Subset
  <2>3. size[j] \in Nat /\ size[j] # 0
    BY <2>2, FS_CardinalityType, FS_EmptySet
  <2> QED
    BY <1>1, <2>2, <2>3
<1>3. ASSUME NEW j \in P, NEW k \in P, b[j] \subseteq b[k]
      PROVE  size[j] <= size[k] /\ (size[j] = size[k] => b[j] = b[k])
  BY <1>2, <1>3, FS_Subset
<1>4. ASSUME NEW j \in P, NEW k \in P
      PROVE  size[j] <= size[k] <=> b[j] \subseteq b[k]
  <2>1. CASE b[j] \subseteq b[k]
    BY <1>3, <2>1
  <2>2. CASE ~(b[j] \subseteq b[k])
    <3>1. b[k] \subseteq b[j] /\ b[k] # b[j]
      BY <2>2
    <3>2. size[k] <= size[j] /\ size[k] # size[j]
      BY <3>1, <1>3
    <3> HIDE DEF size, m
    <3> QED
      BY <1>2, <2>2, <3>2, <1>1
  <2> QED
    BY <2>1, <2>2
<1>5. size \in Injection(P, 1..m)
  <2>1. size \in [P -> 1..m]
    BY <1>2
  <2>2. ASSUME NEW j \in P, NEW k \in P, size[j] = size[k] PROVE j = k
    <3>1. size[j] <= size[k] /\ size[k] <= size[j]
      <4> HIDE DEF size, m
      <4> QED
        BY <1>1, <1>2, <2>2
    <3> QED
      BY <3>1, <1>4
  <2> QED
    BY <2>1, <2>2 DEF Injection, IsInjective
<1>6. IsFiniteSet(1..m) /\ Cardinality(1..m) = m
  <2> HIDE DEF m
  <2> QED
    BY <1>1, FS_Interval
<1>7. size \in Surjection(P, 1..m)
  BY <1>5, <1>6, FS_Injection
<1> QED
  BY <1>2, <1>4, <1>7 DEF Surjection

LEMMA SameSize == \A S : Report!Cardinality(S) = Cardinality(S)
  BY DEF Report!Cardinality, Cardinality

LEMMA JobsAreFinite == IsFiniteSet(Report!Jobs) /\ Report!Jobs \subseteq Nat
<1>1. Images \in Nat
  BY StoresAssumption DEF Report!JobsAssumption
<1> QED
  BY <1>1, FS_Interval DEF Report!Jobs

\* What stands no later in the order of the site.
NoLater(j) == {k \in Report!Jobs : index[k] < index[j] \/ (index[k] = index[j] /\ k <= j)}

\* The places in the order of the site tell the images apart.
RanksNumber ==
  /\ \A j \in Report!Jobs : Report!Rank(j) \in 1..Cardinality(Report!Jobs)
  /\ \A j, k \in Report!Jobs : Report!Rank(j) <= Report!Rank(k) <=> j \in NoLater(k)
  /\ \A j, k \in Report!Jobs : Report!Rank(j) = Report!Rank(k) => j = k

LEMMA RanksOrder == index \in [Report!Jobs -> Nat] => RanksNumber
<1> SUFFICES ASSUME index \in [Report!Jobs -> Nat] PROVE RanksNumber
  OBVIOUS
<1> DEFINE J == Report!Jobs
           b == [j \in J |-> NoLater(j)]
<1>1. IsFiniteSet(J) /\ J \subseteq Nat
  BY JobsAreFinite
<1>2. \A j \in J : index[j] \in Nat /\ j \in Nat
  BY <1>1
<1>3. \A j \in J : Report!Rank(j) = Cardinality(b[j])
  BY SameSize DEF Report!Rank, NoLater
<1> HIDE DEF J
<1>4. \A j \in J : b[j] \subseteq J /\ j \in b[j]
  BY <1>2 DEF NoLater, J
<1>5. \A j, k \in J : j \in b[k] <=> index[j] < index[k] \/ (index[j] = index[k] /\ j <= k)
  BY DEF NoLater, J
<1>6. \A j, k \in J : j \in b[k] => b[j] \subseteq b[k]
  <2> SUFFICES ASSUME NEW j \in J, NEW k \in J, j \in b[k], NEW l \in b[j] PROVE l \in b[k]
    OBVIOUS
  <2>1. l \in J
    BY <1>4
  <2> HIDE DEF b
  <2> QED
    BY <1>2, <1>5, <2>1
<1>7. \A j, k \in J : j \in b[k] \/ k \in b[j]
  <2> HIDE DEF b
  <2> QED
    BY <1>2, <1>5
<1>8. \A j, k \in J : j \in b[k] /\ k \in b[j] => j = k
  <2> HIDE DEF b
  <2> QED
    BY <1>2, <1>5
<1>9. b \in [J -> SUBSET J]
  BY <1>4
<1>10. \A j, k \in J : b[j] \subseteq b[k] <=> j \in b[k]
  BY <1>4, <1>6
<1> HIDE DEF b
<1>11. \A j, k \in J : (b[j] \subseteq b[k] \/ b[k] \subseteq b[j]) /\ (b[j] = b[k] => j = k)
  BY <1>4, <1>7, <1>8, <1>10
<1>12. /\ \A j \in J : Cardinality(b[j]) \in 1..Cardinality(J)
       /\ \A j, k \in J : Cardinality(b[j]) <= Cardinality(b[k]) <=> b[j] \subseteq b[k]
  BY <1>1, <1>4, <1>9, <1>11, Numbered
<1>13. \A j \in J : Report!Rank(j) \in 1..Cardinality(J)
  BY <1>3, <1>12
<1>14. \A j, k \in J : Report!Rank(j) <= Report!Rank(k) <=> j \in NoLater(k)
  BY <1>3, <1>12, <1>10 DEF b
<1>15. \A j, k \in J : Report!Rank(j) = Report!Rank(k) => j = k
  <2> SUFFICES ASSUME NEW j \in J, NEW k \in J, Report!Rank(j) = Report!Rank(k) PROVE j = k
    OBVIOUS
  <2>1. Report!Rank(j) \in Int /\ Report!Rank(k) \in Int
    BY <1>13
  <2>2. Report!Rank(j) <= Report!Rank(k) /\ Report!Rank(k) <= Report!Rank(j)
    BY <2>1
  <2>3. Cardinality(b[j]) <= Cardinality(b[k]) /\ Cardinality(b[k]) <= Cardinality(b[j])
    BY <1>3, <2>2
  <2> QED
    BY <1>8, <1>10, <1>12, <2>3
<1> QED
  BY <1>13, <1>14, <1>15 DEF RanksNumber, J

\* What has been recorded without a gap: the cursor stops behind it.
Prefix(i) ==
  {j \in Report!Jobs :
     \A k \in Report!Jobs : Report!Rank(k) <= Report!Rank(j) => k \in Report!Recorded(i)}

LEMMA CursorStops ==
  ASSUME index \in [Report!Jobs -> Nat], NEW i
  PROVE  \A j \in Report!Jobs : Report!Rank(j) <= Report!Cursor(i) <=> j \in Prefix(i)
<1> DEFINE J == Report!Jobs
           P == Prefix(i)
<1>1. RanksNumber
  BY RanksOrder
<1>2. IsFiniteSet(J)
  BY JobsAreFinite
<1>3. Report!Cursor(i) = Cardinality(P)
  BY SameSize DEF Report!Cursor, Prefix
<1>4. P \in SUBSET J /\ \A j \in P, k \in J : Report!Rank(k) <= Report!Rank(j) => k \in P
  <2>1. P \in SUBSET J
    BY DEF Prefix
  <2> SUFFICES ASSUME NEW j \in P, NEW k \in J, Report!Rank(k) <= Report!Rank(j),
                      NEW l \in J, Report!Rank(l) <= Report!Rank(k)
               PROVE  l \in Report!Recorded(i)
    BY <2>1 DEF Prefix
  <2>2. Report!Rank(j) \in Int /\ Report!Rank(k) \in Int /\ Report!Rank(l) \in Int
    BY <1>1, <2>1 DEF RanksNumber
  <2>3. Report!Rank(l) <= Report!Rank(j)
    BY <2>2
  <2> QED
    BY <2>3 DEF Prefix
<1>5. IsFiniteSet(P) /\ Cardinality(P) \in Nat
  BY <1>2, <1>4, FS_Subset, FS_CardinalityType
<1>6. \A j \in J : Report!Rank(j) = Cardinality(NoLater(j)) /\ NoLater(j) \in SUBSET J /\ j \in NoLater(j)
  <2> SUFFICES ASSUME NEW j \in J
               PROVE  Report!Rank(j) = Cardinality(NoLater(j)) /\ NoLater(j) \in SUBSET J /\ j \in NoLater(j)
    OBVIOUS
  <2>1. j \in Nat /\ index[j] \in Nat
    BY JobsAreFinite
  <2> QED
    BY <2>1, SameSize DEF Report!Rank, NoLater
<1> HIDE DEF J, P
<1>7. ASSUME NEW j \in J, j \in P PROVE Report!Rank(j) <= Cardinality(P)
  <2>1. \A k \in NoLater(j) : Report!Rank(k) <= Report!Rank(j) /\ k \in J
    BY <1>1, <1>6 DEF RanksNumber, J
  <2>2. NoLater(j) \in SUBSET P
    BY <1>4, <1>7, <2>1
  <2> QED
    BY <1>5, <1>6, <2>2, FS_Subset
<1>8. ASSUME NEW j \in J, j \notin P PROVE ~(Report!Rank(j) <= Cardinality(P))
  <2>1. ASSUME NEW k \in P PROVE k \in NoLater(j) \ {j}
    <3>1. k \in J /\ ~(Report!Rank(j) <= Report!Rank(k))
      BY <1>4, <1>8
    <3>2. Report!Rank(j) \in Int /\ Report!Rank(k) \in Int
      BY <1>1, <3>1 DEF RanksNumber, J
    <3>3. Report!Rank(k) <= Report!Rank(j)
      BY <3>1, <3>2
    <3> QED
      BY <1>1, <1>8, <3>1, <3>3 DEF RanksNumber, J
  <2>2. P \in SUBSET (NoLater(j) \ {j})
    BY <2>1
  <2>3. IsFiniteSet(NoLater(j))
    BY <1>2, <1>6, FS_Subset
  <2>4. IsFiniteSet(NoLater(j) \ {j}) /\ Cardinality(NoLater(j) \ {j}) = Report!Rank(j) - 1
    BY <1>6, <2>3, FS_RemoveElement
  <2>5. Cardinality(P) <= Report!Rank(j) - 1
    BY <2>2, <2>4, FS_Subset
  <2>6. Report!Rank(j) \in Int
    BY <1>1 DEF RanksNumber, J
  <2> QED
    BY <1>5, <2>5, <2>6
<1> QED
  BY <1>3, <1>7, <1>8 DEF J, P

\* The cursor passes saved images in order, each once, and no other.
PassedInOrder(S, s) ==
  /\ s \in Seq(S)
  /\ \A n \in 1..Len(s) : s[n] \in S
  /\ \A x \in S : \E n \in 1..Len(s) : s[n] = x
  /\ \A m, n \in 1..Len(s) : m < n => Report!Rank(s[m]) < Report!Rank(s[n])

LEMMA ReadyIsOrdered ==
  ASSUME index \in [Report!Jobs -> Nat], NEW i, NEW from, NEW to
  PROVE  PassedInOrder({j \in Report!Jobs : Report!Rank(j) \in (from + 1)..to /\ i[j] = "saved"},
                       Report!Ready(i, from, to))
<1> DEFINE S == {j \in Report!Jobs : Report!Rank(j) \in (from + 1)..to /\ i[j] = "saved"}
           b == [j \in S |-> {k \in S : Report!Rank(k) <= Report!Rank(j)}]
           s == Report!Ready(i, from, to)
           m == Cardinality(S)
<1>1. RanksNumber
  BY RanksOrder
<1>2. S \subseteq Report!Jobs
  OBVIOUS
<1>3. IsFiniteSet(S) /\ m \in Nat
  BY <1>2, JobsAreFinite, FS_Subset, FS_CardinalityType
<1>4. s = [n \in 1..Report!Cardinality(S) |->
             CHOOSE j \in S : Report!Cardinality({k \in S : Report!Rank(k) <= Report!Rank(j)}) = n]
  BY DEF Report!Ready
<1> HIDE DEF s, S
<1>5. \A j, k \in S : Report!Rank(j) \in Int /\ (Report!Rank(j) = Report!Rank(k) => j = k)
  BY <1>1, <1>2 DEF RanksNumber
<1>6. b \in [S -> SUBSET S]
  OBVIOUS
<1>7. \A j, k \in S : k \in b[j] <=> Report!Rank(k) <= Report!Rank(j)
  OBVIOUS
<1> HIDE DEF b
<1>8. \A j \in S : j \in b[j]
  BY <1>5, <1>7
<1>9. \A j, k \in S : Report!Rank(j) <= Report!Rank(k) => b[j] \subseteq b[k]
  <2> SUFFICES ASSUME NEW j \in S, NEW k \in S, Report!Rank(j) <= Report!Rank(k), NEW l \in b[j]
               PROVE  l \in b[k]
    OBVIOUS
  <2>1. l \in S
    BY <1>6
  <2>2. Report!Rank(l) <= Report!Rank(j)
    BY <1>7, <2>1
  <2> QED
    BY <1>5, <1>7, <2>1, <2>2
<1>10. \A j, k \in S : b[j] \subseteq b[k] \/ b[k] \subseteq b[j]
  <2> SUFFICES ASSUME NEW j \in S, NEW k \in S PROVE b[j] \subseteq b[k] \/ b[k] \subseteq b[j]
    OBVIOUS
  <2>1. Report!Rank(j) <= Report!Rank(k) \/ Report!Rank(k) <= Report!Rank(j)
    BY <1>5
  <2> QED
    BY <1>9, <2>1
<1>11. \A j, k \in S : b[j] \subseteq b[k] => Report!Rank(j) <= Report!Rank(k)
  BY <1>7, <1>8
<1>12. \A j, k \in S : b[j] = b[k] => j = k
  <2> SUFFICES ASSUME NEW j \in S, NEW k \in S, b[j] = b[k] PROVE j = k
    OBVIOUS
  <2>1. Report!Rank(j) <= Report!Rank(k) /\ Report!Rank(k) <= Report!Rank(j)
    BY <1>11
  <2> QED
    BY <1>5, <2>1
<1>13. /\ \A j \in S : Cardinality(b[j]) \in 1..m
       /\ \A j, k \in S : Cardinality(b[j]) <= Cardinality(b[k]) <=> b[j] \subseteq b[k]
       /\ \A n \in 1..m : \E j \in S : Cardinality(b[j]) = n
  BY <1>3, <1>6, <1>8, <1>10, <1>12, Numbered
<1>14. \A n \in 1..m : s[n] \in S /\ Cardinality(b[s[n]]) = n
  <2> SUFFICES ASSUME NEW n \in 1..m PROVE s[n] \in S /\ Cardinality(b[s[n]]) = n
    OBVIOUS
  <2>1. \A j \in S : Report!Cardinality({k \in S : Report!Rank(k) <= Report!Rank(j)}) = Cardinality(b[j])
    BY SameSize DEF b
  <2>2. \E j \in S : Report!Cardinality({k \in S : Report!Rank(k) <= Report!Rank(j)}) = n
    BY <1>13, <2>1
  <2>3. s[n] = CHOOSE j \in S : Report!Cardinality({k \in S : Report!Rank(k) <= Report!Rank(j)}) = n
    BY <1>4, SameSize
  <2>4. s[n] \in S /\ Report!Cardinality({k \in S : Report!Rank(k) <= Report!Rank(s[n])}) = n
    BY <2>2, <2>3
  <2> QED
    BY <2>1, <2>4
<1> HIDE DEF m
<1>15. s \in Seq(S) /\ Len(s) = m /\ DOMAIN s = 1..m
  <2> DEFINE nth(n) ==
        CHOOSE j \in S : Report!Cardinality({k \in S : Report!Rank(k) <= Report!Rank(j)}) = n
  <2>1. s = [n \in 1..m |-> nth(n)]
    <3>1. Report!Cardinality(S) = m
      BY SameSize DEF m
    <3> QED
      BY <1>4, <3>1
  <2> HIDE DEF nth
  <2> QED
    BY <1>3, <1>14, <2>1
<1>16. ASSUME NEW x \in S PROVE \E n \in 1..Len(s) : s[n] = x
  <2> DEFINE n == Cardinality(b[x])
  <2>1. n \in 1..m
    BY <1>13
  <2>2. s[n] \in S /\ Cardinality(b[s[n]]) = n
    BY <1>14, <2>1
  <2>3. n \in Int
    BY <2>1
  <2>4. b[s[n]] \subseteq b[x] /\ b[x] \subseteq b[s[n]]
    BY <1>13, <2>2, <2>3
  <2>5. b[s[n]] = b[x]
    BY <2>4
  <2>6. s[n] = x
    BY <1>12, <2>2, <2>5
  <2> QED
    BY <1>15, <2>1, <2>6
<1>17. ASSUME NEW k \in 1..Len(s), NEW n \in 1..Len(s), k < n
       PROVE  Report!Rank(s[k]) < Report!Rank(s[n])
  <2>1. s[k] \in S /\ s[n] \in S /\ Cardinality(b[s[k]]) = k /\ Cardinality(b[s[n]]) = n
    BY <1>14, <1>15
  <2>2. ~(Cardinality(b[s[n]]) <= Cardinality(b[s[k]]))
    BY <1>17, <2>1
  <2>3. ~(b[s[n]] \subseteq b[s[k]])
    BY <1>13, <2>1, <2>2
  <2>4. ~(Report!Rank(s[n]) <= Report!Rank(s[k]))
    BY <1>9, <2>1, <2>3
  <2> QED
    BY <1>5, <2>1, <2>4
<1> QED
  BY <1>14, <1>15, <1>16, <1>17 DEF PassedInOrder, s, S

LogEntries == [what : {"download", "save", "done"} \cup FailureKinds, of : SUBSET Report!Jobs]

\* What the cursor has passed.
Shown == {x \in Prefix(items) : items[x] = "saved"}
Ranks == [j \in Report!Jobs |-> Report!Rank(j)]

IsSave(e) == e.what = "save"
Before(e, f, r) == \A x \in e.of, y \in f.of : r[x] < r[y]
SavesBefore(g, f, r) == \A m \in 1..Len(g) : IsSave(g[m]) => Before(g[m], f, r)

\* The "save" of a shown image behind its "download", in the order of the site.
SavesFit(g, S, r) ==
  /\ g \in Seq(LogEntries)
  /\ \A n \in 1..Len(g) : IsSave(g[n]) =>
       /\ n > 1 /\ g[n - 1] = Report!Entry("download", g[n].of)
       /\ \E x \in S : g[n].of = {x}
  /\ \A m, n \in 1..Len(g) : m < n /\ IsSave(g[m]) /\ IsSave(g[n]) => Before(g[m], g[n], r)

\* What a child has still to write to the log g.
PendingFit(L, g, S, r) ==
  /\ L \in Seq(LogEntries)
  /\ \A n \in 1..Len(L) : \E x \in S : L[n] \in {Report!Entry("download", {x}), Report!Entry("save", {x})}
  /\ \A n \in 1..Len(L) : ~IsSave(L[n]) => n < Len(L) /\ L[n + 1] = Report!Entry("save", L[n].of)
  /\ \A n \in 1..Len(L) : IsSave(L[n]) =>
       /\ n > 1 => L[n - 1] = Report!Entry("download", L[n].of)
       /\ n = 1 => Len(g) > 0 /\ g[Len(g)] = Report!Entry("download", L[n].of)
  /\ \A m, n \in 1..Len(L) : m < n /\ IsSave(L[m]) /\ IsSave(L[n]) => Before(L[m], L[n], r)
  /\ \A n \in 1..Len(L) : IsSave(L[n]) => SavesBefore(g, L[n], r)

IsTold(g, x) == \E n \in 1..Len(g) : g[n] = Report!Entry("save", {x})

\* All of T is behind all of S.
AllBehind(S, T) == \A x \in S, y \in T : Report!Rank(x) < Report!Rank(y)

LEMMA KindsApart == FailureKinds \cap {"absent", "saved", "download", "save", "done"} = {}
  BY StoresAssumption DEF Report!ReportAssumption

LEMMA LineIsWritten ==
  ASSUME NEW g, NEW L, NEW S, NEW r, SavesFit(g, S, r), PendingFit(L, g, S, r), L # <<>>
  PROVE  SavesFit(Append(g, Head(L)), S, r) /\ PendingFit(Tail(L), Append(g, Head(L)), S, r)
<1> DEFINE h == Append(g, Head(L))
           T == Tail(L)
<1>1. g \in Seq(LogEntries) /\ L \in Seq(LogEntries) /\ Len(g) \in Nat /\ Len(L) \in Nat /\ Len(L) > 0
  <2>1. g \in Seq(LogEntries) /\ L \in Seq(LogEntries)
    BY DEF SavesFit, PendingFit
  <2> QED
    BY <2>1
<1>2. /\ h \in Seq(LogEntries) /\ Len(h) = Len(g) + 1
      /\ \A n \in 1..Len(g) : h[n] = g[n]
      /\ h[Len(g) + 1] = L[1]
  BY <1>1
<1>3. /\ T \in Seq(LogEntries) /\ Len(T) = Len(L) - 1
      /\ \A n \in 1..Len(T) : n + 1 \in 1..Len(L) /\ T[n] = L[n + 1]
  BY <1>1
<1>4. 1 \in 1..Len(L)
  BY <1>1
<1>5. \A n \in 1..Len(h) : n \in 1..Len(g) \/ n = Len(g) + 1
  BY <1>1, <1>2
<1> HIDE DEF h, T
<1>6. SavesFit(h, S, r)
  <2>1. ASSUME NEW n \in 1..Len(h), IsSave(h[n])
        PROVE  /\ n > 1 /\ h[n - 1] = Report!Entry("download", h[n].of)
               /\ \E x \in S : h[n].of = {x}
    <3>1. CASE n \in 1..Len(g)
      <4>1. /\ n > 1 /\ g[n - 1] = Report!Entry("download", g[n].of)
            /\ \E x \in S : g[n].of = {x}
        BY <1>2, <2>1, <3>1 DEF SavesFit
      <4>2. n - 1 \in 1..Len(g)
        BY <1>1, <3>1, <4>1
      <4> QED
        BY <1>2, <3>1, <4>1, <4>2
    <3>2. CASE n = Len(g) + 1
      <4>1. Len(g) > 0 /\ g[Len(g)] = Report!Entry("download", L[1].of)
        BY <1>2, <1>4, <2>1, <3>2 DEF PendingFit
      <4>2. n > 1 /\ n - 1 = Len(g) /\ Len(g) \in 1..Len(g)
        BY <1>1, <3>2, <4>1
      <4>3. \E x \in S : L[1].of = {x}
        BY <1>4 DEF PendingFit, Report!Entry
      <4> QED
        BY <1>2, <3>2, <4>1, <4>2, <4>3
    <3> QED
      BY <1>5, <3>1, <3>2
  <2>2. ASSUME NEW m \in 1..Len(h), NEW n \in 1..Len(h), m < n, IsSave(h[m]), IsSave(h[n])
        PROVE  Before(h[m], h[n], r)
    <3>1. m \in 1..Len(g)
      BY <1>1, <1>5, <2>2, <1>2
    <3>2. CASE n \in 1..Len(g)
      BY <1>2, <2>2, <3>1, <3>2 DEF SavesFit
    <3>3. CASE n = Len(g) + 1
      BY <1>2, <1>4, <2>2, <3>1, <3>3 DEF PendingFit, SavesBefore
    <3> QED
      BY <1>5, <3>2, <3>3
  <2> QED
    BY <1>2, <2>1, <2>2 DEF SavesFit
<1>7. PendingFit(T, h, S, r)
  <2>1. \A n \in 1..Len(T) : \E x \in S : T[n] \in {Report!Entry("download", {x}), Report!Entry("save", {x})}
    BY <1>3 DEF PendingFit
  <2>2. ASSUME NEW n \in 1..Len(T), ~IsSave(T[n])
        PROVE  n < Len(T) /\ T[n + 1] = Report!Entry("save", T[n].of)
    <3>1. n + 1 < Len(L) /\ L[n + 1 + 1] = Report!Entry("save", L[n + 1].of)
      BY <1>3, <2>2 DEF PendingFit
    <3>2. n < Len(T) /\ n + 1 \in 1..Len(T)
      BY <1>1, <1>3, <3>1
    <3> QED
      BY <1>3, <3>1, <3>2
  <2>3. ASSUME NEW n \in 1..Len(T), IsSave(T[n])
        PROVE  /\ n > 1 => T[n - 1] = Report!Entry("download", T[n].of)
               /\ n = 1 => Len(h) > 0 /\ h[Len(h)] = Report!Entry("download", T[n].of)
    <3>1. n + 1 > 1 /\ (n + 1) - 1 = n /\ n \in Int
      OBVIOUS
    <3>2. L[n] = Report!Entry("download", L[n + 1].of)
      BY <1>3, <2>3, <3>1 DEF PendingFit
    <3>3. n > 1 => n - 1 \in 1..Len(T) /\ (n - 1) + 1 = n
      BY <1>1, <1>3
    <3>4. n > 1 => T[n - 1] = L[n]
      BY <1>3, <3>3
    <3> QED
      BY <1>1, <1>2, <1>3, <3>2, <3>4
  <2>4. ASSUME NEW m \in 1..Len(T), NEW n \in 1..Len(T), m < n, IsSave(T[m]), IsSave(T[n])
        PROVE  Before(T[m], T[n], r)
    <3>1. m + 1 < n + 1
      BY <2>4
    <3> QED
      BY <1>3, <2>4, <3>1 DEF PendingFit
  <2>5. ASSUME NEW n \in 1..Len(T), IsSave(T[n]), NEW m \in 1..Len(h), IsSave(h[m])
        PROVE  Before(h[m], T[n], r)
    <3>1. CASE m \in 1..Len(g)
      BY <1>2, <1>3, <2>5, <3>1 DEF PendingFit, SavesBefore
    <3>2. CASE m = Len(g) + 1
      <4>1. 1 < n + 1
        OBVIOUS
      <4> QED
        BY <1>2, <1>3, <1>4, <2>5, <3>2, <4>1 DEF PendingFit
    <3> QED
      BY <1>5, <3>1, <3>2
  <2> QED
    BY <1>3, <2>1, <2>2, <2>3, <2>4, <2>5 DEF PendingFit, SavesBefore
<1> QED
  BY <1>6, <1>7 DEF h, T

\* The halves of the numbers.
LEMMA Halves ==
  \A n \in Nat \ {0} :
    /\ n % 2 = 1 => (n + 1) % 2 # 1 /\ (n + 1 + 1) \div 2 = (n + 1) \div 2
    /\ n % 2 # 1 => n > 1 /\ (n - 1) % 2 = 1 /\ (n - 1 + 1) \div 2 = (n + 1) \div 2
    /\ n % 2 # 1 => n = 2 * ((n + 1) \div 2)
    /\ (2 * n) % 2 # 1 /\ (2 * n + 1) \div 2 = n
<1> SUFFICES ASSUME NEW n \in Nat \ {0}
             PROVE  /\ n % 2 = 1 => (n + 1) % 2 # 1 /\ (n + 1 + 1) \div 2 = (n + 1) \div 2
                    /\ n % 2 # 1 => n > 1 /\ (n - 1) % 2 = 1 /\ (n - 1 + 1) \div 2 = (n + 1) \div 2
                    /\ n % 2 # 1 => n = 2 * ((n + 1) \div 2)
                    /\ (2 * n) % 2 # 1 /\ (2 * n + 1) \div 2 = n
  OBVIOUS
<1>1. PICK k \in Nat : n = 2 * k \/ n = 2 * k + 1
  <2>1. n \div 2 \in Nat /\ (n = 2 * (n \div 2) \/ n = 2 * (n \div 2) + 1)
    OBVIOUS
  <2> QED
    BY <2>1
<1>2. \A h \in Nat : /\ (2 * h) % 2 = 0 /\ (2 * h + 1) % 2 = 1
                     /\ (2 * h) \div 2 = h /\ (2 * h + 1) \div 2 = h
  OBVIOUS
<1>3. CASE n = 2 * k
  <2>1. n + 1 = 2 * k + 1 /\ k \in Nat \ {0}
    BY <1>3
  <2>2. n - 1 = 2 * (k - 1) + 1 /\ k - 1 \in Nat /\ n - 1 + 1 = 2 * k
    BY <1>3, <2>1
  <2>3. n % 2 = 0 /\ (n + 1) \div 2 = k /\ (n - 1) % 2 = 1 /\ (n - 1 + 1) \div 2 = k
    BY <1>2, <1>3, <2>1, <2>2
  <2> QED
    BY <1>2, <1>3, <2>1, <2>3
<1>4. CASE n = 2 * k + 1
  <2>1. n + 1 = 2 * (k + 1) /\ k + 1 \in Nat /\ n + 1 + 1 = 2 * (k + 1) + 1
    BY <1>4
  <2>2. n % 2 = 1 /\ (n + 1) % 2 = 0 /\ (n + 1) \div 2 = k + 1 /\ (n + 1 + 1) \div 2 = k + 1
    BY <1>2, <1>4, <2>1
  <2> QED
    BY <1>2, <2>2
<1> QED
  BY <1>1, <1>3, <1>4

\* The lines for the images that the cursor passes now, behind what was shown.
LEMMA LinesAreReady ==
  ASSUME NEW g, NEW S, NEW s, NEW T, S \cup T \subseteq Report!Jobs,
         SavesFit(g, S, Ranks), PassedInOrder(T, s), AllBehind(S, T)
  PROVE  /\ PendingFit(Report!LinesFor(s), g, S \cup T, Ranks)
         /\ (Report!LinesFor(s) = <<>>) <=> (s = <<>>)
         /\ \A x \in T : IsTold(Report!LinesFor(s), x)
<1> DEFINE L == Report!LinesFor(s)
           len == Len(s)
           half(n) == (n + 1) \div 2
           odd(n) == n % 2 = 1
           of(n) == {s[half(n)]}
<1>1. /\ s \in Seq(T) /\ len \in Nat /\ \A n \in 1..len : s[n] \in T
      /\ \A x \in T : \E n \in 1..len : s[n] = x
      /\ \A m, n \in 1..len : m < n => Report!Rank(s[m]) < Report!Rank(s[n])
  <2>1. s \in Seq(T)
    BY DEF PassedInOrder
  <2> QED
    BY <2>1 DEF PassedInOrder
<1>2. L = [n \in 1..(2 * len) |-> Report!Entry(IF odd(n) THEN "download" ELSE "save", of(n))]
  BY DEF Report!LinesFor
<1> HIDE DEF L
<1>3. \A n \in 1..(2 * len) : half(n) \in 1..len
  BY <1>1
<1>4. \A n \in 1..(2 * len) :
        /\ odd(n) => n < 2 * len /\ ~odd(n + 1) /\ half(n + 1) = half(n)
        /\ ~odd(n) => n > 1 /\ odd(n - 1) /\ half(n - 1) = half(n)
  <2> SUFFICES ASSUME NEW n \in 1..(2 * len)
               PROVE  /\ odd(n) => n < 2 * len /\ ~odd(n + 1) /\ half(n + 1) = half(n)
                      /\ ~odd(n) => n > 1 /\ odd(n - 1) /\ half(n - 1) = half(n)
    OBVIOUS
  <2>1. n \in Nat \ {0}
    BY <1>1
  <2>2. n = 2 * len => ~odd(n)
    <3>1. len \in Nat \ {0} => (2 * len) % 2 # 1
      BY Halves
    <3> QED
      BY <1>1, <2>1, <3>1
  <2>3. n <= 2 * len
    OBVIOUS
  <2>4. odd(n) => n < 2 * len
    <3> HIDE DEF odd, len
    <3> QED
      BY <1>1, <2>1, <2>2, <2>3
  <2> QED
    BY <2>1, <2>4, Halves
<1>5. \A m, n \in 1..(2 * len) : m < n /\ ~odd(m) /\ ~odd(n) => half(m) < half(n)
  <2> SUFFICES ASSUME NEW m \in 1..(2 * len), NEW n \in 1..(2 * len), m < n, ~odd(m), ~odd(n)
               PROVE  half(m) < half(n)
    OBVIOUS
  <2>1. m \in Nat \ {0} /\ n \in Nat \ {0}
    BY <1>1
  <2>2. m = 2 * half(m) /\ n = 2 * half(n)
    BY <2>1, Halves
  <2> HIDE DEF half, len
  <2>3. half(m) \in Int /\ half(n) \in Int
    BY <1>3
  <2> QED
    BY <2>2, <2>3
<1>6. \A k \in 1..len : 2 * k \in 1..(2 * len) /\ ~odd(2 * k) /\ half(2 * k) = k
  <2> SUFFICES ASSUME NEW k \in 1..len PROVE 2 * k \in 1..(2 * len) /\ ~odd(2 * k) /\ half(2 * k) = k
    OBVIOUS
  <2>1. k \in Nat \ {0} /\ 2 * k \in 1..(2 * len)
    <3> HIDE DEF len
    <3> QED
      BY <1>1
  <2> QED
    BY <2>1, Halves
<1>7. \A n \in 1..(2 * len) : of(n) \subseteq T /\ s[half(n)] \in T /\ of(n) = {s[half(n)]}
  BY <1>1, <1>3
<1> HIDE DEF half, len, odd, of
<1>8. /\ \A n \in 1..(2 * len) : odd(n) => L[n] = Report!Entry("download", of(n))
      /\ \A n \in 1..(2 * len) : ~odd(n) => L[n] = Report!Entry("save", of(n))
      /\ DOMAIN L = 1..(2 * len) /\ L = [n \in 1..(2 * len) |-> L[n]]
  BY <1>2
<1>9. \A n \in 1..(2 * len) : L[n] \in LogEntries /\ (IsSave(L[n]) <=> ~odd(n)) /\ L[n].of = of(n)
  <2> SUFFICES ASSUME NEW n \in 1..(2 * len)
               PROVE  L[n] \in LogEntries /\ (IsSave(L[n]) <=> ~odd(n)) /\ L[n].of = of(n)
    OBVIOUS
  <2>1. of(n) \in SUBSET Report!Jobs
    BY <1>7
  <2>2. CASE odd(n)
    BY <1>8, <2>1, <2>2 DEF Report!Entry, LogEntries, IsSave
  <2>3. CASE ~odd(n)
    BY <1>8, <2>1, <2>3 DEF Report!Entry, LogEntries, IsSave
  <2> QED
    BY <2>2, <2>3
<1>10. L \in Seq(LogEntries) /\ Len(L) = 2 * len
  <2>1. 2 * len \in Nat /\ \A n \in 1..(2 * len) : L[n] \in LogEntries
    BY <1>1, <1>9
  <2> QED
    BY <1>8, <2>1
<1>11. \A n \in 1..(2 * len) : \E x \in S \cup T : L[n] \in {Report!Entry("download", {x}), Report!Entry("save", {x})}
  <2> SUFFICES ASSUME NEW n \in 1..(2 * len)
               PROVE  \E x \in S \cup T : L[n] \in {Report!Entry("download", {x}), Report!Entry("save", {x})}
    OBVIOUS
  <2>1. s[half(n)] \in T /\ of(n) = {s[half(n)]}
    BY <1>7
  <2> QED
    BY <1>8, <2>1
<1>12. ASSUME NEW n \in 1..(2 * len), ~IsSave(L[n])
       PROVE  n < 2 * len /\ L[n + 1] = Report!Entry("save", L[n].of)
  <2>1. n < 2 * len /\ ~odd(n + 1) /\ half(n + 1) = half(n)
    BY <1>4, <1>9, <1>12
  <2>2. n + 1 \in 1..(2 * len)
    BY <1>1, <2>1
  <2>3. of(n + 1) = of(n)
    BY <2>1 DEF of
  <2> QED
    BY <1>8, <1>9, <2>1, <2>2, <2>3
<1>13. ASSUME NEW n \in 1..(2 * len), IsSave(L[n])
       PROVE  n > 1 /\ L[n - 1] = Report!Entry("download", L[n].of)
  <2>1. n > 1 /\ odd(n - 1) /\ half(n - 1) = half(n)
    BY <1>4, <1>9, <1>13
  <2>2. n - 1 \in 1..(2 * len)
    BY <1>1, <2>1
  <2>3. of(n - 1) = of(n)
    BY <2>1 DEF of
  <2> QED
    BY <1>8, <1>9, <2>1, <2>2, <2>3
<1>14. ASSUME NEW m \in 1..(2 * len), NEW n \in 1..(2 * len), m < n, IsSave(L[m]), IsSave(L[n])
       PROVE  Before(L[m], L[n], Ranks)
  <2>1. half(m) < half(n) /\ half(m) \in 1..len /\ half(n) \in 1..len
    BY <1>3, <1>5, <1>9, <1>14
  <2>2. Report!Rank(s[half(m)]) < Report!Rank(s[half(n)])
    BY <1>1, <2>1
  <2>3. L[m].of = {s[half(m)]} /\ L[n].of = {s[half(n)]} /\ s[half(m)] \in Report!Jobs /\ s[half(n)] \in Report!Jobs
    BY <1>7, <1>9
  <2> QED
    BY <2>2, <2>3 DEF Before, Ranks
<1>15. ASSUME NEW n \in 1..(2 * len), NEW m \in 1..Len(g), IsSave(g[m])
       PROVE  Before(g[m], L[n], Ranks)
  <2>1. PICK x \in S : g[m].of = {x}
    BY <1>15 DEF SavesFit
  <2>2. L[n].of = {s[half(n)]} /\ s[half(n)] \in T
    BY <1>7, <1>9
  <2>3. Report!Rank(x) < Report!Rank(s[half(n)])
    BY <2>2 DEF AllBehind
  <2> QED
    BY <2>1, <2>2, <2>3 DEF Before, Ranks
<1>16. PendingFit(L, g, S \cup T, Ranks)
  <2>1. \A n \in 1..Len(L) : IsSave(L[n]) => SavesBefore(g, L[n], Ranks)
    BY <1>10, <1>15 DEF SavesBefore
  <2>2. \A n \in 1..Len(L) : IsSave(L[n]) =>
          /\ n > 1 => L[n - 1] = Report!Entry("download", L[n].of)
          /\ n = 1 => Len(g) > 0 /\ g[Len(g)] = Report!Entry("download", L[n].of)
    BY <1>10, <1>13
  <2>3. \A n \in 1..Len(L) : ~IsSave(L[n]) => n < Len(L) /\ L[n + 1] = Report!Entry("save", L[n].of)
    BY <1>10, <1>12
  <2> QED
    BY <1>10, <1>11, <1>14, <2>1, <2>2, <2>3 DEF PendingFit
<1>17. (L = <<>>) <=> (s = <<>>)
  <2>1. L = <<>> <=> Len(L) = 0
    BY <1>10
  <2>2. s = <<>> <=> len = 0
    BY <1>1 DEF len
  <2> QED
    BY <1>1, <1>10, <2>1, <2>2
<1>18. ASSUME NEW x \in T PROVE IsTold(L, x)
  <2>1. PICK k \in 1..len : s[k] = x
    BY <1>1
  <2>2. 2 * k \in 1..(2 * len) /\ ~odd(2 * k) /\ half(2 * k) = k
    BY <1>6
  <2>3. of(2 * k) = {x}
    BY <1>7, <2>1, <2>2
  <2> QED
    BY <1>8, <1>10, <2>2, <2>3 DEF IsTold
<1> QED
  BY <1>16, <1>17, <1>18 DEF L

ReportTyped ==
  /\ jobStage \in [Report!Jobs -> Report!Stages]
  /\ jobOutcome \in [Report!Jobs -> Report!Outcomes \cup {"none"}]
  /\ index \in [Report!Jobs -> Nat]
  /\ items \in [Report!Jobs -> {"absent", "saved"} \cup FailureKinds]
  /\ next = Report!Cursor(items)
  /\ lines \in [Report!Jobs -> Seq(LogEntries)]
  /\ groups \subseteq FailureKinds

\* What a child has ended with it has recorded, and it writes while it runs.
ChildFits(j) ==
  /\ jobOutcome[j] = "none" <=> jobStage[j] \in {"queued", "running", "cancelling"}
  /\ jobOutcome[j] = "value" => items[j] # "absent"
  /\ lines[j] # <<>> => jobStage[j] \in {"running", "cancelling"} /\ items[j] # "absent"
  /\ jobStage[j] = "cancelling" => owner = "aborting"
  /\ owner = "waiting" /\ jobStage[j] = "collected" => jobOutcome[j] = "value"
  /\ owner = "returned" => jobStage[j] = "collected" /\ jobOutcome[j] = "value"
  /\ owner \in Report!Ended => jobStage[j] \notin {"running", "cancelling"}

ChildrenFit == \A j \in Report!Jobs : ChildFits(j)

\* One child at a time writes what the cursor has passed.
LinesFit ==
  /\ \A j, k \in Report!Jobs : lines[j] # <<>> /\ lines[k] # <<>> => j = k
  /\ \A j \in Report!Jobs : PendingFit(lines[j], log, Shown, Ranks)

\* Unless the owner was cancelled or failed, what the cursor has passed is in
\* the log or about to be.
NothingHeldBack ==
  owner \in {"waiting", "returned"} =>
    \A x \in Shown : IsTold(log, x) \/ \E j \in Report!Jobs : IsTold(lines[j], x)

\* Each kind has its group once finish() wrote it, and "done" is behind all.
FailuresFit ==
  /\ finishing # "no" => owner \in Report!Ended
  /\ \A n \in 1..Len(log) : log[n].what \in FailureKinds =>
       finishing # "no" /\ log[n].what \notin groups /\ log[n].of = Report!FailedAs(log[n].what)
  /\ \A m, n \in 1..Len(log) : log[m].what \in FailureKinds /\ log[m].what = log[n].what => m = n
  /\ \A n \in 1..Len(log) : log[n].what = "done" => n = Len(log) /\ finishing = "ended" /\ log[n].of = {}
  /\ finishing = "ended" => groups = {}
  /\ finishing \in {"writing", "ended"} =>
       \A k \in FailureKinds : Report!FailedAs(k) # {} =>
         k \in groups \/ \E n \in 1..Len(log) : log[n] = Report!Entry(k, Report!FailedAs(k))

ReportInv ==
  /\ ReportTyped /\ ChildrenFit
  /\ SavesFit(log, Shown, Ranks) /\ LinesFit /\ NothingHeldBack /\ FailuresFit

-----------------------------------------------------------------------------

LEMMA SiteStays ==
  ASSUME index' = index
  PROVE  /\ Ranks' = Ranks
         /\ \A i : Report!Cursor(i)' = Report!Cursor(i) /\ Prefix(i)' = Prefix(i)
<1>1. \A j : Report!Rank(j)' = Report!Rank(j)
  BY DEF Report!Rank, Report!Cardinality, Report!Jobs
<1> QED
  BY <1>1 DEF Ranks, Prefix, Report!Cursor, Report!Recorded, Report!Cardinality, Report!Jobs

LEMMA ShownStays ==
  ASSUME UNCHANGED <<index, items>>
  PROVE  Ranks' = Ranks /\ Shown' = Shown /\ Report!Cursor(items)' = Report!Cursor(items)
  BY SiteStays DEF Shown

LEMMA NothingPending == \A g, S, r : PendingFit(<<>>, g, S, r)
  BY DEF PendingFit

LEMMA SavesStay ==
  ASSUME NEW g, NEW S, NEW T, NEW r, SavesFit(g, S, r), S \subseteq T
  PROVE  SavesFit(g, T, r)
  BY DEF SavesFit

LEMMA CursorIsNat ==
  ASSUME index \in [Report!Jobs -> Nat], NEW i
  PROVE  Report!Cursor(i) \in Nat
<1>1. Prefix(i) \in SUBSET Report!Jobs /\ Report!Cursor(i) = Cardinality(Prefix(i))
  BY SameSize DEF Report!Cursor, Prefix
<1> QED
  BY <1>1, JobsAreFinite, FS_Subset, FS_CardinalityType

\* What a recorded image makes the cursor pass.
PassedBy(i) == {x \in Report!Jobs : Report!Rank(x) \in (next + 1)..Report!Cursor(i) /\ i[x] = "saved"}

LEMMA RecordShows ==
  ASSUME ReportTyped, NEW j \in Report!Jobs, items[j] = "absent", NEW what,
         NEW i, i = [items EXCEPT ![j] = what], what # "absent"
  PROVE  /\ {x \in Prefix(i) : i[x] = "saved"} = Shown \cup PassedBy(i)
         /\ AllBehind(Shown, PassedBy(i))
<1> DEFINE J == Report!Jobs
<1>1. RanksNumber /\ index \in [J -> Nat] /\ next = Report!Cursor(items)
  BY RanksOrder DEF ReportTyped
<1>2. \A x \in J : /\ Report!Rank(x) <= next <=> x \in Prefix(items)
                   /\ Report!Rank(x) <= Report!Cursor(i) <=> x \in Prefix(i)
  BY <1>1, CursorStops
<1>3. next \in Nat /\ Report!Cursor(i) \in Nat
  BY <1>1, CursorIsNat
<1>4. \A x \in J : Report!Rank(x) \in Int
  BY <1>1 DEF RanksNumber
<1>5. \A x \in J : x # j => i[x] = items[x]
  BY DEF ReportTyped
<1>6. i[j] = what
  BY DEF ReportTyped
<1>7. Prefix(items) \subseteq Prefix(i) /\ Prefix(i) \subseteq J
  BY <1>5, <1>6 DEF Prefix, Report!Recorded
<1>8. j \notin Prefix(items)
  <2>1. Report!Rank(j) <= Report!Rank(j)
    BY <1>4
  <2>2. j \notin Report!Recorded(items)
    BY DEF Report!Recorded
  <2> QED
    BY <2>1, <2>2 DEF Prefix
<1>9. \A x \in J : x \in PassedBy(i) <=> x \in Prefix(i) /\ x \notin Prefix(items) /\ i[x] = "saved"
  <2> SUFFICES ASSUME NEW x \in J
               PROVE  x \in PassedBy(i) <=> x \in Prefix(i) /\ x \notin Prefix(items) /\ i[x] = "saved"
    OBVIOUS
  <2>1. Report!Rank(x) \in (next + 1)..Report!Cursor(i)
          <=> ~(Report!Rank(x) <= next) /\ Report!Rank(x) <= Report!Cursor(i)
    BY <1>3, <1>4
  <2> QED
    BY <1>2, <2>1 DEF PassedBy
<1>10. \A x \in J : x \in Shown <=> x \in Prefix(items) /\ i[x] = "saved"
  BY <1>5, <1>8 DEF Shown
<1>11. Shown \subseteq J /\ PassedBy(i) \subseteq J
  BY <1>7 DEF Shown, PassedBy
<1>12. ASSUME NEW x \in Shown, NEW y \in PassedBy(i) PROVE Report!Rank(x) < Report!Rank(y)
  <2>1. Report!Rank(x) <= next /\ ~(Report!Rank(y) <= next)
    BY <1>2, <1>9, <1>10, <1>11
  <2>2. Report!Rank(x) \in Int /\ Report!Rank(y) \in Int
    BY <1>4, <1>11
  <2> QED
    BY <1>3, <2>1, <2>2
<1>13. {x \in Prefix(i) : i[x] = "saved"} = Shown \cup PassedBy(i)
  BY <1>7, <1>9, <1>10, <1>11
<1> QED
  BY <1>12, <1>13 DEF AllBehind

\* A child that runs keeps the failures out of the log.
LEMMA RunningMeansUnfinished ==
  ASSUME ReportInv, NEW j \in Report!Jobs, jobStage[j] \in {"running", "cancelling"}
  PROVE  /\ owner \notin Report!Ended /\ finishing = "no"
         /\ \A n \in 1..Len(log) : log[n].what \notin FailureKinds /\ log[n].what # "done"
<1>1. owner \notin Report!Ended
  BY DEF ReportInv, ChildrenFit, ChildFits
<1>2. finishing = "no"
  BY <1>1 DEF ReportInv, FailuresFit
<1> QED
  BY <1>1, <1>2 DEF ReportInv, FailuresFit

\* One child ends, all others stay as they are.
LEMMA OneEnds ==
  ASSUME ReportInv, NEW j \in Report!Jobs, jobStage[j] \in {"running", "cancelling"},
         jobStage' = [jobStage EXCEPT ![j] = "finished"],
         NEW o \in Report!Outcomes, jobOutcome' = [jobOutcome EXCEPT ![j] = o],
         o = "value" => items'[j] # "absent",
         \A k \in Report!Jobs : k # j => items'[k] = items[k] /\ lines'[k] = lines[k],
         lines'[j] = <<>>, UNCHANGED owner
  PROVE  /\ ChildrenFit'
         /\ jobStage' \in [Report!Jobs -> Report!Stages]
         /\ jobOutcome' \in [Report!Jobs -> Report!Outcomes \cup {"none"}]
<1>1. jobStage \in [Report!Jobs -> Report!Stages] /\ jobOutcome \in [Report!Jobs -> Report!Outcomes \cup {"none"}]
  BY DEF ReportInv, ReportTyped
<1>2. owner \notin Report!Ended
  BY RunningMeansUnfinished
<1>3. ASSUME NEW k \in Report!Jobs PROVE ChildFits(k)'
  <2>1. ChildFits(k)
    BY DEF ReportInv, ChildrenFit
  <2>2. CASE k # j
    <3>1. jobStage'[k] = jobStage[k] /\ jobOutcome'[k] = jobOutcome[k] /\ items'[k] = items[k] /\ lines'[k] = lines[k]
      BY <1>1, <2>2
    <3> QED
      BY <2>1, <3>1 DEF ChildFits
  <2>3. CASE k = j
    <3>1. jobStage'[k] = "finished" /\ jobOutcome'[k] = o /\ o # "none" /\ lines'[k] = <<>>
      BY <1>1, <2>3 DEF Report!Outcomes, Report!Failures
    <3> QED
      BY <1>2, <2>3, <3>1 DEF ChildFits, Report!Ended
  <2> QED
    BY <2>2, <2>3
<1> QED
  BY <1>1, <1>3 DEF ChildrenFit, Report!Stages

\* What becomes of a child that is done with its lines.
LEMMA EndsAsRecorded ==
  ASSUME NEW j, NEW what, Report!EndsAs(j, what)
  PROVE  /\ jobStage' = [jobStage EXCEPT ![j] = "finished"]
         /\ \E o \in Report!Outcomes : jobOutcome' = [jobOutcome EXCEPT ![j] = o]
  BY DEF Report!EndsAs, Report!Outcomes, Report!Failures

LEMMA RecordKeeps ==
  ASSUME ReportInv, NEW j \in Report!Jobs, Report!Record(j)
  PROVE  ReportInv'
<1>1. /\ jobStage[j] = "running" /\ items[j] = "absent"
      /\ \A k \in Report!Jobs : lines[k] = <<>>
      /\ UNCHANGED <<owner, index, log, groups, finishing>>
  BY DEF Report!Record, Report!RecordUnder, Report!Recorded
<1>2. PICK what \in {"saved"} \cup FailureKinds :
        LET i == [items EXCEPT ![j] = what]
            ready == Report!Ready(i, next, Report!Cursor(i))
        IN /\ items' = i
           /\ next' = Report!Cursor(i)
           /\ lines' = [lines EXCEPT ![j] = Report!LinesFor(ready)]
           /\ IF ready = <<>> THEN Report!EndsAs(j, what) ELSE UNCHANGED <<jobStage, jobOutcome>>
  BY DEF Report!Record, Report!RecordUnder
<1> DEFINE i == [items EXCEPT ![j] = what]
           ready == Report!Ready(i, next, Report!Cursor(i))
           L == Report!LinesFor(ready)
<1>3. /\ items' = i /\ next' = Report!Cursor(i) /\ lines' = [lines EXCEPT ![j] = L]
      /\ IF ready = <<>> THEN Report!EndsAs(j, what) ELSE UNCHANGED <<jobStage, jobOutcome>>
  BY <1>2
<1>4. ReportTyped /\ ChildrenFit /\ SavesFit(log, Shown, Ranks) /\ LinesFit /\ NothingHeldBack /\ FailuresFit
  BY DEF ReportInv
<1>5. index \in [Report!Jobs -> Nat] /\ what # "absent" /\ what \in {"absent", "saved"} \cup FailureKinds
  BY <1>4, KindsApart DEF ReportTyped
<1>6. Ranks' = Ranks /\ Report!Cursor(items)' = Report!Cursor(items') /\ Prefix(items)' = Prefix(items')
  BY <1>1, SiteStays
<1>7. /\ {x \in Prefix(i) : i[x] = "saved"} = Shown \cup PassedBy(i)
      /\ AllBehind(Shown, PassedBy(i))
  BY <1>1, <1>4, <1>5, RecordShows
<1>8. PassedInOrder(PassedBy(i), ready)
  BY <1>5, ReadyIsOrdered DEF PassedBy
<1> HIDE DEF i, ready, L
<1>9. Shown' = Shown \cup PassedBy(i)
  BY <1>3, <1>6, <1>7 DEF Shown
<1>10. Shown \subseteq Report!Jobs /\ PassedBy(i) \subseteq Report!Jobs
  BY DEF Shown, Prefix, PassedBy
<1>11. /\ PendingFit(L, log, Shown \cup PassedBy(i), Ranks)
       /\ L = <<>> <=> ready = <<>>
       /\ \A x \in PassedBy(i) : IsTold(L, x)
  <2>1. SavesFit(log, Shown, Ranks) /\ Shown \cup PassedBy(i) \subseteq Report!Jobs
    BY <1>4, <1>10
  <2> QED
    BY <1>7, <1>8, <2>1, LinesAreReady DEF L
<1>12. SavesFit(log, Shown, Ranks)' /\ PendingFit(L, log, Shown', Ranks) /\ log' = log
  BY <1>1, <1>4, <1>6, <1>9, <1>11, SavesStay
<1>13. L \in Seq(LogEntries)
  BY <1>11 DEF PendingFit
<1>14. lines \in [Report!Jobs -> Seq(LogEntries)] /\ lines' \in [Report!Jobs -> Seq(LogEntries)] /\ lines'[j] = L
       /\ \A k \in Report!Jobs : k # j => lines'[k] = <<>>
  BY <1>1, <1>3, <1>4, <1>13 DEF ReportTyped
<1>15. items' \in [Report!Jobs -> {"absent", "saved"} \cup FailureKinds] /\ items'[j] = what
       /\ \A k \in Report!Jobs : k # j => items'[k] = items[k]
  BY <1>3, <1>4, <1>5 DEF ReportTyped, i
<1>16. LinesFit'
  <2>1. \A k \in Report!Jobs : PendingFit(lines'[k], log, Shown', Ranks)
    BY <1>12, <1>14, NothingPending
  <2>2. \A k, l \in Report!Jobs : lines'[k] # <<>> /\ lines'[l] # <<>> => k = l
    BY <1>14
  <2> QED
    BY <1>6, <1>12, <2>1, <2>2 DEF LinesFit
<1>17. NothingHeldBack'
  <2> SUFFICES ASSUME owner' \in {"waiting", "returned"}, NEW x \in Shown'
               PROVE  IsTold(log', x) \/ \E k \in Report!Jobs : IsTold(lines'[k], x)
    BY DEF NothingHeldBack
  <2>1. CASE x \in Shown
    <3>1. IsTold(log, x) \/ \E k \in Report!Jobs : IsTold(lines[k], x)
      BY <1>1, <1>4, <2>1 DEF NothingHeldBack
    <3>2. \A k \in Report!Jobs : ~IsTold(lines[k], x)
      BY <1>1 DEF IsTold
    <3> QED
      BY <1>12, <3>1, <3>2
  <2>2. CASE x \in PassedBy(i)
    BY <1>11, <1>14, <2>2
  <2> QED
    BY <1>9, <2>1, <2>2
<1>18. FailuresFit'
  <2>1. /\ owner \notin Report!Ended /\ finishing = "no"
        /\ \A n \in 1..Len(log) : log[n].what \notin FailureKinds /\ log[n].what # "done"
    BY <1>1, RunningMeansUnfinished
  <2> QED
    BY <1>1, <2>1 DEF FailuresFit
<1>19. /\ ChildrenFit'
       /\ jobStage' \in [Report!Jobs -> Report!Stages]
       /\ jobOutcome' \in [Report!Jobs -> Report!Outcomes \cup {"none"}]
  <2>1. CASE ready = <<>>
    <3>1. Report!EndsAs(j, what) /\ lines'[j] = <<>>
      BY <1>3, <1>11, <1>14, <2>1
    <3>2. \A k \in Report!Jobs : k # j => items'[k] = items[k] /\ lines'[k] = lines[k]
      BY <1>1, <1>14, <1>15
    <3>3. jobStage' = [jobStage EXCEPT ![j] = "finished"]
      BY <3>1, EndsAsRecorded
    <3>4. PICK o \in Report!Outcomes : jobOutcome' = [jobOutcome EXCEPT ![j] = o]
      BY <3>1, EndsAsRecorded
    <3>5. jobStage[j] \in {"running", "cancelling"} /\ owner' = owner /\ items'[j] # "absent"
      BY <1>1, <1>5, <1>15
    <3> QED
      BY <3>1, <3>2, <3>3, <3>4, <3>5, OneEnds
  <2>2. CASE ready # <<>>
    <3>1. jobStage' = jobStage /\ jobOutcome' = jobOutcome
      BY <1>3, <2>2
    <3>2. ASSUME NEW k \in Report!Jobs PROVE ChildFits(k)'
      <4>1. ChildFits(k)
        BY <1>4 DEF ChildrenFit
      <4>2. lines'[k] # <<>> => k = j
        BY <1>14
      <4>3. /\ items[k] # "absent" => items'[k] # "absent"
            /\ k = j => items'[k] # "absent"
        BY <1>1, <1>5, <1>15
      <4> QED
        BY <1>1, <3>1, <4>1, <4>2, <4>3 DEF ChildFits
    <3> QED
      BY <1>4, <3>1, <3>2 DEF ChildrenFit, ReportTyped
  <2> QED
    BY <2>1, <2>2
<1>20. ReportTyped'
  <2>1. next' = Report!Cursor(items)'
    BY <1>3, <1>6
  <2> QED
    BY <1>1, <1>4, <1>14, <1>15, <1>19, <2>1 DEF ReportTyped
<1> QED
  BY <1>12, <1>16, <1>17, <1>18, <1>19, <1>20 DEF ReportInv

LEMMA WriteLineKeeps ==
  ASSUME ReportInv, NEW j \in Report!Jobs, Report!WriteLine(j)
  PROVE  ReportInv'
<1>1. /\ jobStage[j] = "running" /\ lines[j] # <<>>
      /\ log' = Append(log, Head(lines[j]))
      /\ lines' = [lines EXCEPT ![j] = Tail(lines[j])]
      /\ IF Len(lines[j]) = 1 THEN Report!EndsAs(j, items[j]) ELSE UNCHANGED <<jobStage, jobOutcome>>
      /\ UNCHANGED <<owner, index, items, next, groups, finishing>>
  BY DEF Report!WriteLine
<1>2. ReportTyped /\ ChildrenFit /\ SavesFit(log, Shown, Ranks) /\ LinesFit /\ NothingHeldBack /\ FailuresFit
  BY DEF ReportInv
<1>3. Ranks' = Ranks /\ Shown' = Shown /\ Report!Cursor(items)' = Report!Cursor(items)
  BY <1>1, ShownStays
<1> DEFINE L == lines[j]
<1>4. PendingFit(L, log, Shown, Ranks)
  BY <1>2 DEF LinesFit
<1>5. SavesFit(log', Shown, Ranks) /\ PendingFit(Tail(L), log', Shown, Ranks)
  BY <1>1, <1>2, <1>4, LineIsWritten
<1>6. L \in Seq(LogEntries) /\ log \in Seq(LogEntries) /\ Len(L) \in Nat \ {0} /\ Len(log) \in Nat
  <2>1. L \in Seq(LogEntries) /\ log \in Seq(LogEntries)
    BY <1>2, <1>4 DEF PendingFit, SavesFit
  <2> QED
    BY <1>1, <2>1
<1>7. lines \in [Report!Jobs -> Seq(LogEntries)] /\ lines' \in [Report!Jobs -> Seq(LogEntries)]
      /\ lines'[j] = Tail(L) /\ \A k \in Report!Jobs : k # j => lines'[k] = lines[k] /\ lines[k] = <<>>
  <2>1. lines \in [Report!Jobs -> Seq(LogEntries)] /\ Tail(L) \in Seq(LogEntries)
    BY <1>2, <1>6 DEF ReportTyped
  <2>2. \A k \in Report!Jobs : k # j => lines[k] = <<>>
    BY <1>1, <1>2 DEF LinesFit
  <2> QED
    BY <1>1, <2>1, <2>2
<1>8. LinesFit'
  <2>1. \A k \in Report!Jobs : PendingFit(lines'[k], log', Shown, Ranks)
    BY <1>5, <1>7, NothingPending
  <2>2. \A k, l \in Report!Jobs : lines'[k] # <<>> /\ lines'[l] # <<>> => k = l
    BY <1>7
  <2> QED
    BY <1>3, <2>1, <2>2 DEF LinesFit
<1>9. /\ Len(log') = Len(log) + 1 /\ log'[Len(log) + 1] = L[1]
      /\ \A n \in 1..Len(log) : log'[n] = log[n]
  BY <1>1, <1>6
<1>10. Len(Tail(L)) = Len(L) - 1 /\ \A n \in 1..Len(Tail(L)) : Tail(L)[n] = L[n + 1]
  BY <1>6
<1>11. \A x : IsTold(log, x) => IsTold(log', x)
  BY <1>6, <1>9 DEF IsTold
<1>12. ASSUME NEW x, IsTold(L, x) PROVE IsTold(log', x) \/ IsTold(Tail(L), x)
  <2>1. PICK n \in 1..Len(L) : L[n] = Report!Entry("save", {x})
    BY <1>12 DEF IsTold
  <2>2. CASE n = 1
    <3>1. Len(log) + 1 \in 1..Len(log')
      BY <1>6, <1>9
    <3> QED
      BY <1>9, <2>1, <2>2, <3>1 DEF IsTold
  <2>3. CASE n # 1
    <3>1. n - 1 \in 1..Len(Tail(L)) /\ (n - 1) + 1 = n
      BY <1>6, <1>10, <2>3
    <3> QED
      BY <1>10, <2>1, <3>1 DEF IsTold
  <2> QED
    BY <2>2, <2>3
<1>13. NothingHeldBack'
  <2> SUFFICES ASSUME owner' \in {"waiting", "returned"}, NEW x \in Shown'
               PROVE  IsTold(log', x) \/ \E k \in Report!Jobs : IsTold(lines'[k], x)
    BY DEF NothingHeldBack
  <2>1. IsTold(log, x) \/ \E k \in Report!Jobs : IsTold(lines[k], x)
    BY <1>1, <1>2, <1>3 DEF NothingHeldBack
  <2>2. ASSUME NEW k \in Report!Jobs, IsTold(lines[k], x) PROVE k = j
    BY <1>7, <2>2 DEF IsTold
  <2> QED
    BY <1>7, <1>11, <1>12, <2>1, <2>2
<1>14. FailuresFit'
  <2>1. /\ owner \notin Report!Ended /\ finishing = "no"
        /\ \A n \in 1..Len(log) : log[n].what \notin FailureKinds /\ log[n].what # "done"
    BY <1>1, RunningMeansUnfinished
  <2>2. L[1].what \notin FailureKinds /\ L[1].what # "done"
    <3>1. 1 \in 1..Len(L)
      BY <1>6
    <3> QED
      BY <1>4, <3>1, KindsApart DEF PendingFit, Report!Entry
  <2>3. \A n \in 1..Len(log') : log'[n].what \notin FailureKinds /\ log'[n].what # "done"
    BY <1>6, <1>9, <2>1, <2>2
  <2> QED
    BY <1>1, <2>1, <2>3 DEF FailuresFit
<1>15. /\ ChildrenFit'
       /\ jobStage' \in [Report!Jobs -> Report!Stages]
       /\ jobOutcome' \in [Report!Jobs -> Report!Outcomes \cup {"none"}]
  <2>1. CASE Len(L) = 1
    <3>1. Report!EndsAs(j, items[j]) /\ lines'[j] = <<>>
      BY <1>1, <1>6, <1>7, <2>1
    <3>2. \A k \in Report!Jobs : k # j => items'[k] = items[k] /\ lines'[k] = lines[k]
      BY <1>1, <1>7
    <3>3. jobStage' = [jobStage EXCEPT ![j] = "finished"]
      BY <3>1, EndsAsRecorded
    <3>4. PICK o \in Report!Outcomes : jobOutcome' = [jobOutcome EXCEPT ![j] = o]
      BY <3>1, EndsAsRecorded
    <3>5. jobStage[j] \in {"running", "cancelling"} /\ owner' = owner /\ items'[j] # "absent"
      BY <1>1, <1>2 DEF ChildrenFit, ChildFits
    <3> QED
      BY <3>1, <3>2, <3>3, <3>4, <3>5, OneEnds
  <2>2. CASE Len(L) # 1
    <3>1. jobStage' = jobStage /\ jobOutcome' = jobOutcome
      BY <1>1, <2>2
    <3>2. ASSUME NEW k \in Report!Jobs PROVE ChildFits(k)'
      <4>1. ChildFits(k)
        BY <1>2 DEF ChildrenFit
      <4>2. lines'[k] # <<>> => k = j
        BY <1>7
      <4> QED
        BY <1>1, <3>1, <4>1, <4>2 DEF ChildFits
    <3> QED
      BY <1>2, <3>1, <3>2 DEF ChildrenFit, ReportTyped
  <2> QED
    BY <2>1, <2>2
<1>16. ReportTyped'
  BY <1>1, <1>2, <1>3, <1>7, <1>15 DEF ReportTyped
<1> QED
  BY <1>3, <1>5, <1>8, <1>13, <1>14, <1>15, <1>16 DEF ReportInv

LEMMA CancelledEndsKeeps ==
  ASSUME ReportInv, NEW j \in Report!Jobs, Report!CancelledEnds(j)
  PROVE  ReportInv'
<1>1. /\ jobStage[j] = "cancelling"
      /\ jobStage' = [jobStage EXCEPT ![j] = "finished"]
      /\ jobOutcome' = [jobOutcome EXCEPT ![j] = "fatal"]
      /\ lines' = [lines EXCEPT ![j] = <<>>]
      /\ UNCHANGED <<owner, index, items, next, log, groups, finishing>>
  BY DEF Report!CancelledEnds
<1>2. ReportTyped /\ ChildrenFit /\ SavesFit(log, Shown, Ranks) /\ LinesFit /\ FailuresFit
  BY DEF ReportInv
<1>3. Ranks' = Ranks /\ Shown' = Shown /\ Report!Cursor(items)' = Report!Cursor(items)
  BY <1>1, ShownStays
<1>4. /\ lines' \in [Report!Jobs -> Seq(LogEntries)] /\ lines'[j] = <<>>
      /\ \A k \in Report!Jobs : k # j => lines'[k] = lines[k]
  <2>1. lines \in [Report!Jobs -> Seq(LogEntries)] /\ <<>> \in Seq(LogEntries)
    BY <1>2 DEF ReportTyped
  <2> QED
    BY <1>1, <2>1
<1>5. owner = "aborting"
  BY <1>1, <1>2 DEF ChildrenFit, ChildFits
<1>6. /\ ChildrenFit'
      /\ jobStage' \in [Report!Jobs -> Report!Stages]
      /\ jobOutcome' \in [Report!Jobs -> Report!Outcomes \cup {"none"}]
  <2>1. "fatal" \in Report!Outcomes /\ jobStage[j] \in {"running", "cancelling"}
    BY <1>1 DEF Report!Outcomes, Report!Failures
  <2>2. \A k \in Report!Jobs : k # j => items'[k] = items[k] /\ lines'[k] = lines[k]
    BY <1>1, <1>4
  <2> QED
    BY <1>1, <1>4, <2>1, <2>2, OneEnds
<1>7. LinesFit'
  <2>1. \A k \in Report!Jobs : PendingFit(lines'[k], log, Shown, Ranks)
    BY <1>2, <1>4, NothingPending DEF LinesFit
  <2>2. \A k, l \in Report!Jobs : lines'[k] # <<>> /\ lines'[l] # <<>> => k = l
    BY <1>2, <1>4 DEF LinesFit
  <2> QED
    BY <1>1, <1>3, <2>1, <2>2 DEF LinesFit
<1>8. NothingHeldBack'
  BY <1>1, <1>5 DEF NothingHeldBack
<1>9. FailuresFit'
  BY <1>1, <1>2 DEF FailuresFit, Report!FailedAs
<1>10. ReportTyped'
  BY <1>1, <1>2, <1>3, <1>4, <1>6 DEF ReportTyped
<1> QED
  BY <1>1, <1>2, <1>3, <1>6, <1>7, <1>8, <1>9, <1>10 DEF ReportInv

\* bounded() goes on: nothing of the report changes.
LEMMA OwnerKeeps ==
  ASSUME ReportInv, UNCHANGED <<jobOutcome, index, items, next, lines, log, groups, finishing>>,
         jobStage' \in [Report!Jobs -> Report!Stages], ChildrenFit',
         owner' = "waiting" => owner = "waiting",
         owner' = "returned" => owner \in {"waiting", "returned"},
         owner \in Report!Ended => owner' = owner
  PROVE  ReportInv'
<1>1. Ranks' = Ranks /\ Shown' = Shown /\ Report!Cursor(items)' = Report!Cursor(items)
  BY ShownStays
<1>2. ReportTyped'
  BY <1>1 DEF ReportInv, ReportTyped
<1>3. LinesFit'
  BY <1>1 DEF ReportInv, LinesFit
<1>4. NothingHeldBack'
  <2> SUFFICES ASSUME owner' \in {"waiting", "returned"}, NEW x \in Shown'
               PROVE  IsTold(log', x) \/ \E k \in Report!Jobs : IsTold(lines'[k], x)
    BY DEF NothingHeldBack
  <2>1. owner \in {"waiting", "returned"} /\ x \in Shown
    BY <1>1
  <2> QED
    BY <2>1 DEF ReportInv, NothingHeldBack
<1>5. FailuresFit'
  BY DEF ReportInv, FailuresFit, Report!FailedAs
<1> QED
  BY <1>1, <1>2, <1>3, <1>4, <1>5 DEF ReportInv

\* As long as jobs are queued, some are launched for those that were collected.
LEMMA SomeAreLaunched ==
  ASSUME Report!Queued # {}, Report!Finished # {}
  PROVE  Report!Launches(Report!Cardinality(Report!Finished)) # {}
<1> DEFINE Q == Report!Queued
           n == Cardinality(Report!Finished)
<1>1. Q \subseteq Report!Jobs /\ Report!Finished \in SUBSET Report!Jobs
  BY DEF Report!Queued, Report!Finished
<1>2. n \in Nat /\ n # 0
  BY <1>1, JobsAreFinite, FS_Subset, FS_CardinalityType, FS_EmptySet
<1>3. PICK j \in Q : \A k \in Q : ~(k < j)
  <2>1. Q \subseteq Nat /\ Q # {}
    BY <1>1, JobsAreFinite
  <2>2. \E j \in Q : \A k \in Q : <<k, j>> \notin OpToRel(<, Nat)
    BY <2>1, NatLessThanWellFounded, WFMin
  <2> QED
    BY <2>1, <2>2 DEF OpToRel
<1>4. {k \in Q : k < j} = {}
  BY <1>3
<1>5. Cardinality({k \in Q : k < j}) < n
  BY <1>2, <1>4, FS_EmptySet
<1> QED
  BY <1>3, <1>5, SameSize DEF Report!Launches

LEMMA CollectKeeps ==
  ASSUME ReportInv, Report!Collect, UNCHANGED <<index, items, next, lines, log, groups, finishing>>
  PROVE  ReportInv'
<1> DEFINE fails == Report!Finished \cap Report!Failed # {}
           starts == IF fails THEN {} ELSE Report!Launches(Report!Cardinality(Report!Finished))
<1>1. Report!CollectAndStart(starts)
  BY DEF Report!Collect
<1>2. starts \subseteq Report!Queued /\ Report!Queued \subseteq Report!Jobs
  BY DEF Report!Launches, Report!Queued
<1>3. ~fails /\ starts = {} => Report!Queued = {}
  BY <1>1, SomeAreLaunched DEF Report!CollectAndStart
<1> HIDE DEF starts
<1>4. /\ owner = "waiting" /\ jobOutcome' = jobOutcome
      /\ jobStage' = [j \in Report!Jobs |-> IF j \in Report!Finished THEN "collected"
                                            ELSE IF j \in starts THEN "running" ELSE jobStage[j]]
      /\ owner' = IF fails THEN "draining"
                  ELSE IF Report!Active \cup starts = {} THEN "returned" ELSE "waiting"
  BY <1>1 DEF Report!CollectAndStart
<1>5. jobStage \in [Report!Jobs -> Report!Stages] /\ jobOutcome \in [Report!Jobs -> Report!Outcomes \cup {"none"}]
  BY DEF ReportInv, ReportTyped
<1>6. jobStage' \in [Report!Jobs -> Report!Stages]
  BY <1>4, <1>5 DEF Report!Stages
<1>7. ASSUME NEW j \in Report!Jobs PROVE ChildFits(j)'
  <2>1. ChildFits(j) /\ jobStage[j] # "cancelling"
    BY <1>4 DEF ReportInv, ChildrenFit, ChildFits
  <2>2. CASE jobStage[j] = "finished"
    <3>1. jobStage'[j] = "collected" /\ j \in Report!Finished
      BY <1>4, <2>2 DEF Report!Finished
    <3>2. ~fails => jobOutcome[j] = "value"
      <4>1. jobOutcome[j] # "none" /\ jobOutcome[j] \in Report!Outcomes
        BY <1>5, <2>1, <2>2 DEF ChildFits
      <4> QED
        BY <3>1, <4>1 DEF Report!Failed, Report!Outcomes
    <3> QED
      BY <1>4, <2>1, <2>2, <3>1, <3>2 DEF ChildFits, Report!Ended
  <2>3. CASE jobStage[j] = "queued"
    <3>1. jobStage'[j] = IF j \in starts THEN "running" ELSE "queued"
      BY <1>4, <2>3 DEF Report!Finished
    <3>2. owner' # "returned"
      BY <1>3, <1>4, <2>3 DEF Report!Queued
    <3> QED
      BY <1>4, <2>1, <2>3, <3>1, <3>2 DEF ChildFits, Report!Ended
  <2>4. CASE jobStage[j] = "running"
    <3>1. jobStage'[j] = "running" /\ j \in Report!Active
      BY <1>2, <1>4, <2>4 DEF Report!Finished, Report!Queued, Report!Active
    <3>2. owner' # "returned"
      BY <1>4, <3>1
    <3> QED
      BY <1>4, <2>1, <2>4, <3>1, <3>2 DEF ChildFits, Report!Ended
  <2>5. CASE jobStage[j] = "collected"
    <3>1. jobStage'[j] = "collected"
      BY <1>2, <1>4, <2>5 DEF Report!Finished, Report!Queued
    <3> QED
      BY <1>4, <2>1, <2>5, <3>1 DEF ChildFits, Report!Ended
  <2> QED
    BY <1>5, <2>1, <2>2, <2>3, <2>4, <2>5 DEF Report!Stages
<1>8. ChildrenFit'
  BY <1>7 DEF ChildrenFit
<1>9. /\ owner' = "waiting" => owner = "waiting"
      /\ owner' = "returned" => owner \in {"waiting", "returned"}
      /\ owner \in Report!Ended => owner' = owner
  BY <1>4 DEF Report!Ended
<1> QED
  BY <1>4, <1>6, <1>8, <1>9, OwnerKeeps

LEMMA LeavingKeeps ==
  ASSUME ReportInv, Report!DrainEnds \/ Report!CancelOwner \/ Report!AbortEnds,
         UNCHANGED <<index, items, next, lines, log, groups, finishing>>
  PROVE  ReportInv'
<1>1. jobStage \in [Report!Jobs -> Report!Stages]
  BY DEF ReportInv, ReportTyped
<1>2. jobOutcome' = jobOutcome /\ owner' \in {"raised", "aborting", "cancelled"} /\ owner \notin Report!Ended
  BY DEF Report!DrainEnds, Report!CancelOwner, Report!AbortEnds, Report!Ended
<1>3. /\ jobStage' \in [Report!Jobs -> Report!Stages]
      /\ \A j \in Report!Jobs :
           /\ \/ jobStage'[j] = jobStage[j]
              \/ jobStage[j] = "finished" /\ jobStage'[j] = "collected"
              \/ jobStage[j] = "running" /\ jobStage'[j] = "cancelling" /\ owner' = "aborting"
           /\ owner' # "aborting" => jobStage[j] \notin {"running", "cancelling"}
  <2>1. CASE Report!DrainEnds
    BY <1>1, <2>1 DEF Report!DrainEnds, Report!Active, Report!Finished, Report!Stages
  <2>2. CASE Report!CancelOwner
    BY <1>1, <2>2 DEF Report!CancelOwner, Report!Stages
  <2>3. CASE Report!AbortEnds
    BY <1>1, <2>3 DEF Report!AbortEnds, Report!Active
  <2> QED
    BY <2>1, <2>2, <2>3
<1>4. ASSUME NEW j \in Report!Jobs PROVE ChildFits(j)'
  <2>1. ChildFits(j)
    BY DEF ReportInv, ChildrenFit
  <2> QED
    BY <1>2, <1>3, <2>1 DEF ChildFits, Report!Ended
<1>5. ChildrenFit'
  BY <1>4 DEF ChildrenFit
<1> QED
  BY <1>2, <1>3, <1>5, OwnerKeeps

\* Once bounded() is left, no child has anything to write.
LEMMA FinishKeeps ==
  ASSUME ReportInv, owner \in Report!Ended,
         UNCHANGED <<jobStage, jobOutcome, owner, index, items, next, lines>>,
         log' = log \/ \E e \in LogEntries : ~IsSave(e) /\ log' = Append(log, e),
         groups' \subseteq FailureKinds, FailuresFit'
  PROVE  ReportInv'
<1>1. Ranks' = Ranks /\ Shown' = Shown /\ Report!Cursor(items)' = Report!Cursor(items)
  BY ShownStays
<1>2. \A j \in Report!Jobs : lines[j] = <<>>
  BY DEF ReportInv, ChildrenFit, ChildFits
<1>3. SavesFit(log', Shown, Ranks) /\ \A x : IsTold(log, x) => IsTold(log', x)
  <2>1. CASE log' = log
    BY <2>1 DEF ReportInv
  <2>2. CASE \E e \in LogEntries : ~IsSave(e) /\ log' = Append(log, e)
    <3>1. PICK e \in LogEntries : ~IsSave(e) /\ log' = Append(log, e)
      BY <2>2
    <3>2. SavesFit(log, Shown, Ranks) /\ log \in Seq(LogEntries) /\ Len(log) \in Nat
      <4>1. SavesFit(log, Shown, Ranks) /\ log \in Seq(LogEntries)
        BY DEF ReportInv, SavesFit
      <4> QED
        BY <4>1
    <3>3. /\ log' \in Seq(LogEntries) /\ Len(log') = Len(log) + 1
          /\ \A n \in 1..Len(log) : log'[n] = log[n]
          /\ log'[Len(log) + 1] = e
      BY <3>1, <3>2
    <3>4. \A n \in 1..Len(log') : IsSave(log'[n]) => n \in 1..Len(log) /\ log'[n] = log[n] /\ IsSave(log[n])
      BY <3>1, <3>2, <3>3
    <3>5. \A n \in 1..Len(log) : n > 1 => n - 1 \in 1..Len(log)
      BY <3>2
    <3>6. SavesFit(log', Shown, Ranks)
      BY <3>2, <3>3, <3>4, <3>5 DEF SavesFit
    <3>7. \A x : IsTold(log, x) => IsTold(log', x)
      BY <3>2, <3>3 DEF IsTold
    <3> QED
      BY <3>6, <3>7
  <2> QED
    BY <2>1, <2>2
<1>4. LinesFit'
  BY <1>2, NothingPending DEF LinesFit
<1>5. NothingHeldBack'
  <2> SUFFICES ASSUME owner' \in {"waiting", "returned"}, NEW x \in Shown'
               PROVE  IsTold(log', x) \/ \E k \in Report!Jobs : IsTold(lines'[k], x)
    BY DEF NothingHeldBack
  <2>1. IsTold(log, x) \/ \E k \in Report!Jobs : IsTold(lines[k], x)
    BY <1>1 DEF ReportInv, NothingHeldBack
  <2> QED
    BY <1>3, <2>1
<1>6. ReportTyped' /\ ChildrenFit'
  BY <1>1 DEF ReportInv, ReportTyped, ChildrenFit, ChildFits
<1> QED
  BY <1>1, <1>3, <1>4, <1>5, <1>6 DEF ReportInv

LEMMA FinishStartsKeeps ==
  ASSUME ReportInv, Report!FinishStarts \/ Report!CancelFinish
  PROVE  ReportInv'
<1>1. FailuresFit /\ owner \in Report!Ended
  BY DEF ReportInv, FailuresFit, Report!FinishStarts, Report!CancelFinish
<1>2. UNCHANGED <<jobStage, jobOutcome, owner, index, items, next, lines, log>>
  BY DEF Report!FinishStarts, Report!CancelFinish
<1>3. CASE Report!FinishStarts
  <2>1. /\ finishing = "no" /\ finishing' = "writing"
        /\ groups' = {k \in FailureKinds : Report!FailedAs(k) # {}}
    BY <1>3 DEF Report!FinishStarts
  <2>2. \A n \in 1..Len(log) : log[n].what \notin FailureKinds /\ log[n].what # "done"
    BY <1>1, <2>1 DEF FailuresFit
  <2>3. FailuresFit'
    BY <1>1, <1>2, <2>1, <2>2 DEF FailuresFit, Report!FailedAs
  <2>4. groups' \subseteq FailureKinds
    BY <2>1
  <2> QED
    BY <1>1, <1>2, <2>3, <2>4, FinishKeeps
<1>4. CASE Report!CancelFinish
  <2>1. finishing = "writing" /\ finishing' = "cancelled" /\ groups' = groups
    BY <1>4 DEF Report!CancelFinish
  <2>2. FailuresFit' /\ groups' \subseteq FailureKinds
    BY <1>1, <1>2, <2>1 DEF FailuresFit, Report!FailedAs, ReportInv, ReportTyped
  <2> QED
    BY <1>1, <1>2, <2>2, FinishKeeps
<1> QED
  BY <1>3, <1>4

LEMMA WriteGroupKeeps ==
  ASSUME ReportInv, NEW kind \in FailureKinds, Report!WriteGroup(kind)
  PROVE  ReportInv'
<1> DEFINE e == Report!Entry(kind, Report!FailedAs(kind))
<1>1. /\ finishing = "writing" /\ kind \in groups
      /\ log' = Append(log, e) /\ groups' = groups \ {kind}
      /\ UNCHANGED <<jobStage, jobOutcome, owner, index, items, next, lines, finishing>>
  BY DEF Report!WriteGroup
<1>2. FailuresFit /\ owner \in Report!Ended /\ groups \subseteq FailureKinds
  BY <1>1 DEF ReportInv, FailuresFit, ReportTyped
<1>3. e \in LogEntries /\ ~IsSave(e) /\ e.what = kind /\ e.of = Report!FailedAs(kind) /\ kind # "done"
  BY KindsApart DEF Report!Entry, Report!FailedAs, LogEntries, IsSave
<1>4. log \in Seq(LogEntries) /\ Len(log) \in Nat
  <2>1. log \in Seq(LogEntries)
    BY DEF ReportInv, SavesFit
  <2> QED
    BY <2>1
<1> HIDE DEF e
<1>5. /\ Len(log') = Len(log) + 1 /\ log'[Len(log) + 1] = e
      /\ \A n \in 1..Len(log) : log'[n] = log[n]
      /\ \A n \in 1..Len(log') : n \in 1..Len(log) \/ n = Len(log) + 1
  BY <1>1, <1>4
<1>6. \A k : Report!FailedAs(k)' = Report!FailedAs(k)
  BY <1>1 DEF Report!FailedAs
<1>7. /\ \A n \in 1..Len(log) : log[n].what # "done" /\ log[n].what # kind
      /\ \A n \in 1..Len(log) : log[n].what \in FailureKinds =>
           log[n].what \notin groups /\ log[n].of = Report!FailedAs(log[n].what)
  BY <1>1, <1>2 DEF FailuresFit
<1>8. \A n \in 1..Len(log') : log'[n].what \in FailureKinds =>
        finishing # "no" /\ log'[n].what \notin groups' /\ log'[n].of = Report!FailedAs(log'[n].what)
  BY <1>1, <1>3, <1>5, <1>7
<1>9. \A m, n \in 1..Len(log') : log'[m].what \in FailureKinds /\ log'[m].what = log'[n].what => m = n
  <2> SUFFICES ASSUME NEW m \in 1..Len(log'), NEW n \in 1..Len(log'),
                      log'[m].what \in FailureKinds, log'[m].what = log'[n].what
               PROVE  m = n
    OBVIOUS
  <2>1. CASE m \in 1..Len(log) /\ n \in 1..Len(log)
    BY <1>2, <1>5, <2>1 DEF FailuresFit
  <2>2. CASE m \in 1..Len(log) /\ n = Len(log) + 1
    BY <1>3, <1>5, <1>7, <2>2
  <2>3. CASE n \in 1..Len(log) /\ m = Len(log) + 1
    BY <1>3, <1>5, <1>7, <2>3
  <2> QED
    BY <1>5, <2>1, <2>2, <2>3
<1>10. \A n \in 1..Len(log') : log'[n].what # "done"
  BY <1>3, <1>5, <1>7
<1>11. ASSUME NEW k \in FailureKinds, Report!FailedAs(k) # {}
       PROVE  k \in groups' \/ \E n \in 1..Len(log') : log'[n] = Report!Entry(k, Report!FailedAs(k))
  <2>1. k \in groups \/ \E n \in 1..Len(log) : log[n] = Report!Entry(k, Report!FailedAs(k))
    BY <1>1, <1>2, <1>11 DEF FailuresFit
  <2>2. Len(log) + 1 \in 1..Len(log') /\ \A n \in 1..Len(log) : n \in 1..Len(log')
    BY <1>4, <1>5
  <2> QED
    BY <1>1, <1>5, <2>1, <2>2 DEF e
<1>12. FailuresFit'
  BY <1>1, <1>2, <1>6, <1>8, <1>9, <1>10, <1>11 DEF FailuresFit
<1>13. groups' \subseteq FailureKinds
  BY <1>1, <1>2
<1> QED
  BY <1>1, <1>2, <1>3, <1>12, <1>13, FinishKeeps

LEMMA WriteDoneKeeps ==
  ASSUME ReportInv, Report!WriteDone
  PROVE  ReportInv'
<1> DEFINE e == Report!Entry("done", {})
<1>1. /\ finishing = "writing" /\ groups = {} /\ finishing' = "ended"
      /\ log' = Append(log, e)
      /\ UNCHANGED <<jobStage, jobOutcome, owner, index, items, next, lines, groups>>
  BY DEF Report!WriteDone
<1>2. FailuresFit /\ owner \in Report!Ended /\ groups \subseteq FailureKinds
  BY <1>1 DEF ReportInv, FailuresFit, ReportTyped
<1>3. e \in LogEntries /\ ~IsSave(e) /\ e.what = "done" /\ e.of = {} /\ "done" \notin FailureKinds
  BY KindsApart DEF Report!Entry, LogEntries, IsSave
<1>4. log \in Seq(LogEntries) /\ Len(log) \in Nat
  <2>1. log \in Seq(LogEntries)
    BY DEF ReportInv, SavesFit
  <2> QED
    BY <2>1
<1> HIDE DEF e
<1>5. /\ Len(log') = Len(log) + 1 /\ log'[Len(log) + 1] = e
      /\ \A n \in 1..Len(log) : log'[n] = log[n] /\ n \in 1..Len(log')
      /\ \A n \in 1..Len(log') : n \in 1..Len(log) \/ n = Len(log')
  BY <1>1, <1>4
<1>6. \A k : Report!FailedAs(k)' = Report!FailedAs(k)
  BY <1>1 DEF Report!FailedAs
<1>7. \A n \in 1..Len(log) : log[n].what # "done"
  BY <1>1, <1>2 DEF FailuresFit
<1>8. \A n \in 1..Len(log') : log'[n].what \in FailureKinds =>
        log'[n].what \notin groups' /\ log'[n].of = Report!FailedAs(log'[n].what)
  BY <1>1, <1>2, <1>3, <1>5 DEF FailuresFit
<1>9. \A m, n \in 1..Len(log') : log'[m].what \in FailureKinds /\ log'[m].what = log'[n].what => m = n
  BY <1>2, <1>3, <1>5 DEF FailuresFit
<1>10. \A n \in 1..Len(log') : log'[n].what = "done" => n = Len(log') /\ log'[n].of = {}
  BY <1>3, <1>5, <1>7
<1>11. \A k \in FailureKinds : Report!FailedAs(k) # {} =>
         k \in groups' \/ \E n \in 1..Len(log') : log'[n] = Report!Entry(k, Report!FailedAs(k))
  BY <1>1, <1>2, <1>5 DEF FailuresFit
<1>12. FailuresFit'
  BY <1>1, <1>2, <1>6, <1>8, <1>9, <1>10, <1>11 DEF FailuresFit
<1> QED
  BY <1>1, <1>2, <1>3, <1>12, FinishKeeps

LEMMA ReportKept == ReportInv /\ [Report!ReportNext]_reportVars => ReportInv'
<1> SUFFICES ASSUME ReportInv, [Report!ReportNext]_reportVars PROVE ReportInv'
  OBVIOUS
<1>1. CASE UNCHANGED reportVars
  <2>1. UNCHANGED <<jobStage, jobOutcome, owner, index, items, next, lines, log, groups, finishing>>
    BY <1>1 DEF reportVars
  <2>2. ChildrenFit' /\ jobStage' \in [Report!Jobs -> Report!Stages]
    BY <2>1 DEF ReportInv, ChildrenFit, ChildFits, ReportTyped
  <2> QED
    BY <2>1, <2>2, OwnerKeeps
<1>2. CASE Report!ReportNext
  <2>1. CASE \E j \in Report!Jobs : Report!Record(j) \/ Report!WriteLine(j) \/ Report!CancelledEnds(j)
    BY <2>1, RecordKeeps, WriteLineKeeps, CancelledEndsKeeps
  <2>2. CASE Report!OwnerMoves
    <3>1. UNCHANGED <<index, items, next, lines, log, groups, finishing>>
      BY <2>2 DEF Report!OwnerMoves
    <3> QED
      BY <2>2, <3>1, CollectKeeps, LeavingKeeps DEF Report!OwnerMoves
  <2>3. CASE Report!FinishStarts \/ Report!WriteDone \/ Report!CancelFinish
    BY <2>3, FinishStartsKeeps, WriteDoneKeeps
  <2>4. CASE \E kind \in FailureKinds : Report!WriteGroup(kind)
    BY <2>4, WriteGroupKeeps
  <2>5. CASE Report!ReportDone
    BY <1>1, <2>5 DEF Report!ReportDone, Report!reportVars, reportVars
  <2> QED
    BY <1>2, <2>1, <2>2, <2>3, <2>4, <2>5 DEF Report!ReportNext
<1> QED
  BY <1>1, <1>2

LEMMA ReportStarts == Report!ReportInit => ReportInv
<1> SUFFICES ASSUME Report!ReportInit PROVE ReportInv
  OBVIOUS
<1>1. /\ index \in [Report!Jobs -> Nat]
      /\ items = [j \in Report!Jobs |-> "absent"] /\ next = 0
      /\ lines = [j \in Report!Jobs |-> <<>>]
      /\ log = <<>> /\ groups = {} /\ finishing = "no"
  BY StoresAssumption DEF Report!ReportInit, Report!ReportAssumption
<1>2. /\ jobStage = [j \in Report!Jobs |-> IF j <= Limit THEN "running" ELSE "queued"]
      /\ jobOutcome = [j \in Report!Jobs |-> "none"]
      /\ owner = IF Images = 0 THEN "returned" ELSE "waiting"
  BY DEF Report!ReportInit, Report!Init
<1>3. Images = 0 => Report!Jobs = {}
  BY DEF Report!Jobs
<1>4. Prefix(items) = {}
  <2>1. RanksNumber
    BY <1>1, RanksOrder
  <2>2. \A j \in Report!Jobs : Report!Rank(j) <= Report!Rank(j) /\ j \notin Report!Recorded(items)
    BY <1>1, <2>1 DEF RanksNumber, Report!Recorded
  <2> QED
    BY <2>2 DEF Prefix
<1>5. Report!Cursor(items) = 0
  <2>1. Report!Cursor(items) = Cardinality(Prefix(items))
    BY SameSize DEF Report!Cursor, Prefix
  <2> QED
    BY <1>4, <2>1, FS_EmptySet
<1>6. ReportTyped
  BY <1>1, <1>2, <1>5 DEF ReportTyped, Report!Stages
<1>7. ChildrenFit
  BY <1>1, <1>2, <1>3 DEF ChildrenFit, ChildFits, Report!Ended
<1>8. SavesFit(log, Shown, Ranks) /\ LinesFit
  BY <1>1, NothingPending DEF SavesFit, LinesFit
<1>9. NothingHeldBack
  BY <1>4 DEF NothingHeldBack, Shown
<1>10. FailuresFit
  BY <1>1 DEF FailuresFit
<1> QED
  BY <1>6, <1>7, <1>8, <1>9, <1>10 DEF ReportInv

\* Every line of the log is an entry for some images.
LEMMA EntriesOfLog ==
  ASSUME ReportInv
  PROVE  /\ log \in Seq(LogEntries) /\ DOMAIN log = 1..Len(log) /\ Len(log) \in Nat
         /\ \A n \in 1..Len(log) : /\ log[n].of \subseteq Report!Jobs
                                  /\ log[n].what \in {"download", "save", "done"} \cup FailureKinds
<1>1. log \in Seq(LogEntries)
  BY DEF ReportInv, SavesFit
<1>2. \A n \in 1..Len(log) : log[n] \in LogEntries
  BY <1>1
<1>3. \A e \in LogEntries : e.of \subseteq Report!Jobs /\ e.what \in {"download", "save", "done"} \cup FailureKinds
  BY DEF LogEntries
<1> QED
  BY <1>1, <1>2, <1>3

\* The log of a chapter that bounded() returned from is complete.
LEMMA AllIsRendered ==
  ASSUME ReportInv, finishing = "ended", owner = "returned"
  PROVE  Report!Rendered = Report!Jobs
<1>1. /\ \A j \in Report!Jobs : items[j] # "absent" /\ lines[j] = <<>>
      /\ items \in [Report!Jobs -> {"absent", "saved"} \cup FailureKinds]
  BY DEF ReportInv, ReportTyped, ChildrenFit, ChildFits
<1>2. DOMAIN log = 1..Len(log)
  BY EntriesOfLog
<1>3. \A n \in 1..Len(log) : log[n].of \subseteq Report!Jobs
  BY EntriesOfLog
<1>4. ASSUME NEW x \in Report!Jobs, items[x] = "saved"
      PROVE  \E n \in 1..Len(log) : log[n].what # "download" /\ x \in log[n].of
  <2>1. x \in Shown
    BY <1>1, <1>4 DEF Shown, Prefix, Report!Recorded
  <2>2. IsTold(log, x)
    BY <1>1, <2>1 DEF ReportInv, NothingHeldBack, IsTold
  <2> QED
    BY <2>2 DEF IsTold, Report!Entry
<1>5. ASSUME NEW x \in Report!Jobs, items[x] \in FailureKinds
      PROVE  \E n \in 1..Len(log) : log[n].what # "download" /\ x \in log[n].of
  <2>1. x \in Report!FailedAs(items[x]) /\ groups = {}
    BY DEF Report!FailedAs, ReportInv, FailuresFit
  <2>2. PICK n \in 1..Len(log) : log[n] = Report!Entry(items[x], Report!FailedAs(items[x]))
    BY <1>5, <2>1 DEF ReportInv, FailuresFit
  <2> QED
    BY <1>5, <2>1, <2>2, KindsApart DEF Report!Entry
<1>6. \A x \in Report!Jobs : \E n \in 1..Len(log) : log[n].what # "download" /\ x \in log[n].of
  BY <1>1, <1>4, <1>5
<1> QED
  BY <1>2, <1>3, <1>6 DEF Report!Rendered

LEMMA RenderedIsOrdered == ReportInv => Report!RenderedInOrder
<1> SUFFICES ASSUME ReportInv PROVE Report!RenderedInOrder
  OBVIOUS
<1>1. ReportTyped /\ SavesFit(log, Shown, Ranks) /\ FailuresFit
  BY DEF ReportInv
<1>2. /\ DOMAIN log = 1..Len(log) /\ Len(log) \in Nat
      /\ \A n \in 1..Len(log) : /\ log[n].of \subseteq Report!Jobs
                               /\ log[n].what \in {"download", "save", "done"} \cup FailureKinds
  BY EntriesOfLog
<1>3. Shown \subseteq Report!Jobs /\ \A x \in Shown : items[x] = "saved" /\ Report!Rank(x) <= Report!Cursor(items)
  <2>1. \A x \in Report!Jobs : Report!Rank(x) <= Report!Cursor(items) <=> x \in Prefix(items)
    BY <1>1, CursorStops DEF ReportTyped
  <2> QED
    BY <2>1 DEF Shown, Prefix
<1>4. RanksNumber
  BY <1>1, RanksOrder DEF ReportTyped
<1>5. ASSUME NEW n \in DOMAIN log
      PROVE  /\ log[n].what = "save" =>
                  /\ n > 1 /\ log[n - 1] = Report!Entry("download", log[n].of)
                  /\ \A j \in log[n].of : items[j] = "saved" /\ Report!Rank(j) <= Report!Cursor(items)
             /\ log[n].what \in FailureKinds => \A j \in log[n].of : items[j] = log[n].what
             /\ log[n].what = "done" => n = Len(log)
  <2>1. log[n].what = "save" =>
                  /\ n > 1 /\ log[n - 1] = Report!Entry("download", log[n].of)
                  /\ \A j \in log[n].of : items[j] = "saved" /\ Report!Rank(j) <= Report!Cursor(items)
    BY <1>1, <1>2, <1>3 DEF SavesFit, IsSave
  <2>2. log[n].what \in FailureKinds => \A j \in log[n].of : items[j] = log[n].what
    <3>1. log[n].what \in FailureKinds => log[n].of = Report!FailedAs(log[n].what)
      BY <1>1, <1>2 DEF FailuresFit
    <3>2. \A k : \A j \in Report!FailedAs(k) : items[j] = k
      BY DEF Report!FailedAs
    <3> QED
      BY <3>1, <3>2
  <2>3. log[n].what = "done" => n = Len(log)
    BY <1>1, <1>2 DEF FailuresFit
  <2> QED
    BY <2>1, <2>2, <2>3
<1>6. ASSUME NEW m \in DOMAIN log, NEW n \in DOMAIN log, m < n, log[m].what = "save", log[n].what = "save",
             NEW j \in log[m].of, NEW k \in log[n].of
      PROVE  Report!Rank(j) < Report!Rank(k)
  <2>1. Before(log[m], log[n], Ranks)
    BY <1>1, <1>2, <1>6 DEF SavesFit, IsSave
  <2>2. j \in Report!Jobs /\ k \in Report!Jobs
    BY <1>2
  <2> QED
    BY <2>1, <2>2 DEF Before, Ranks
<1>7. ASSUME NEW m \in DOMAIN log, NEW n \in DOMAIN log, m # n,
             log[m].what # "download", log[n].what # "download", NEW j \in log[m].of, j \in log[n].of
      PROVE  FALSE
  <2>1. /\ log[m].what \in {"save", "done"} \cup FailureKinds
        /\ log[n].what \in {"save", "done"} \cup FailureKinds
    BY <1>2, <1>7
  <2>2. log[m].what # "done" /\ log[n].what # "done"
    BY <1>1, <1>2, <1>7 DEF FailuresFit
  <2>3. CASE log[m].what = "save" /\ log[n].what = "save"
    <3>1. m \in Int /\ n \in Int /\ j \in Report!Jobs
      BY <1>2
    <3>2. Report!Rank(j) < Report!Rank(j)
      BY <1>6, <1>7, <2>3, <3>1
    <3> QED
      BY <1>4, <3>1, <3>2 DEF RanksNumber
  <2>4. CASE log[m].what \in FailureKinds /\ log[n].what \in FailureKinds
    <3>1. items[j] = log[m].what /\ items[j] = log[n].what
      BY <1>5, <1>7, <2>4
    <3> QED
      BY <1>1, <1>2, <1>7, <2>4, <3>1 DEF FailuresFit
  <2>5. CASE log[m].what = "save" /\ log[n].what \in FailureKinds
    BY <1>5, <1>7, <2>5, KindsApart
  <2>6. CASE log[n].what = "save" /\ log[m].what \in FailureKinds
    BY <1>5, <1>7, <2>6, KindsApart
  <2> QED
    BY <2>1, <2>2, <2>3, <2>4, <2>5, <2>6
<1>8. Report!EachOnce
  BY <1>7 DEF Report!EachOnce
<1>9. finishing = "ended" /\ owner = "returned" => Report!Rendered = Report!Jobs
  BY AllIsRendered
<1> QED
  BY <1>5, <1>6, <1>8, <1>9 DEF Report!RenderedInOrder

\* Whatever order the images of a chapter are saved in, and wherever children,
\* the chapter or finish() are cancelled, for any number of images, any limit
\* and any indexes: the log lists the saved images in the order of the site,
\* each failure in the one group of its kind, nothing behind "done", and all of
\* them if bounded() returned (ChapterReport, ChapterReporter).
THEOREM ImagesGoInOrder == StoresSpec => []RenderedInOrder
<1>1. StoresInit => ReportInv
  BY ReportStarts DEF StoresInit
<1>2. [StoresNext]_storeVars => [Report!ReportNext]_reportVars
  BY DEF StoresNext, Moves, storeVars
<1>3. ReportInv /\ [StoresNext]_storeVars => ReportInv'
  BY <1>2, ReportKept
<1>4. ReportInv => RenderedInOrder
  BY RenderedIsOrdered DEF RenderedInOrder
<1> QED
  BY <1>1, <1>3, <1>4, PTL DEF StoresSpec

=============================================================================
