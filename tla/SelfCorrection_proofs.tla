------------------------ MODULE SelfCorrection_proofs ------------------------
(***************************************************************************)
(* Theorems about SelfCorrection for any tests, any exceptions, any number *)
(* of lines the sandbox keeps, any ceiling of a report and any budget.     *)
(*                                                                         *)
(* The properties speak of the tree; the loop knows it only through the    *)
(* reports.  So first comes what a report says of the tests that failed:   *)
(* the tests in their order, the lines that are printed for them, those    *)
(* that are left of the output, those that are read, the report.  Then the *)
(* invariant: each report that the loop keeps is the one of a run, the     *)
(* last one of a run on the tree as it stands, and the verdict is about it. *)
(***************************************************************************)
EXTENDS SelfCorrectionProps, SequenceTheorems, FiniteSetTheorems, WellFoundedInduction, TLAPS

Rows == [full : BOOLEAN, raw : Reports, report : Reports]

\* A run on tree t of those tests, or of all of them, may be reported like this.
IsReportOf(r, t, selected) == \E o \in Outcomes(t, selected) : r = Parse(o)

\* Where the loop is.  The first attempt has nothing to narrow its run to, so it leaves one
\* row; a retry is left before the budget is spent.
PlaceInv ==
  /\ tree \in Trees /\ origin \in Trees /\ targets \in SUBSET Tests
  /\ pc \in {"baseline", "edit", "test", "confirm", "retryedit", "done"}
  /\ attempt \in 1..MaxAttempts
  /\ pc \in {"baseline", "edit"} => tree = origin /\ attempt = 1
  /\ pc = "confirm" => targets # {}
  /\ pc = "retryedit" => attempt < MaxAttempts
  /\ attempt = 1 =>
       /\ targets = {} /\ pc # "confirm"
       /\ Len(rows) = IF pc \in {"baseline", "edit", "test"} THEN 0 ELSE 1

\* The baseline is the report of the tree before the first edit.
BaselineInv ==
  IF pc = "baseline" THEN baseline = Parse(Printed(SuiteOutput(<<>>)))
  ELSE IsReportOf(baseline, origin, {})

\* A row holds the report of a run on some tree, and what is left of it without the baseline.
RowInv(row) ==
  /\ row.report = Subtract(row.raw, PreExisting)
  /\ \E t \in Trees, selected \in SUBSET Tests : IsReportOf(row.raw, t, selected)

RowsInv == rows \in Seq(Rows) /\ Len(rows) <= 2 /\ \A i \in DOMAIN rows : RowInv(rows[i])

\* The last row is of a run on the tree as it stands, and the verdict is about this row; a
\* green one is about a run of the whole suite.
VerdictInv ==
  /\ verdict \in {"none", "SUCCEEDED", "EXHAUSTED", "RETRY"}
  /\ verdict \in {"SUCCEEDED", "EXHAUSTED"} => pc = "done"
  /\ pc \in {"confirm", "retryedit", "done"} =>
       /\ rows # <<>>
       /\ IsReportOf(LastRow.raw, tree, IF LastRow.full THEN {} ELSE targets)
  /\ pc \in {"retryedit", "done"} =>
       /\ verdict = Decision(rows, attempt)
       /\ verdict = "SUCCEEDED" => LastRow.full

IInv == PlaceInv /\ BaselineInv /\ RowsInv /\ VerdictInv

-----------------------------------------------------------------------------
\* How many of a set are smaller than this one.
Rank(S, n) == Cardinality({m \in S : m < n})

\* In a finite set the ranks count the elements, each smaller one before each larger one.
LEMMA RanksCount ==
  ASSUME NEW S \in SUBSET Nat, IsFiniteSet(S)
  PROVE  /\ Cardinality(S) \in Nat
         /\ \A n \in S : Rank(S, n) \in 0..(Cardinality(S) - 1)
         /\ \A m, n \in S : m < n => Rank(S, m) < Rank(S, n)
         /\ \A i \in 1..Cardinality(S) : \E n \in S : Rank(S, n) = i - 1
  <1>0. \A n \in S : n \in Nat
    OBVIOUS
  <1>1. /\ Cardinality(S) \in Nat
        /\ \A n \in S : /\ IsFiniteSet({m \in S : m < n})
                        /\ Rank(S, n) \in Nat
    <2>1. \A n \in S : {m \in S : m < n} \in SUBSET S
      OBVIOUS
    <2> QED
      BY <2>1, FS_CardinalityType, FS_Subset DEF Rank
  <1>2. ASSUME NEW n \in S
        PROVE  Rank(S, n) \in 0..(Cardinality(S) - 1)
    <2>1. IsFiniteSet(S \ {n}) /\ Cardinality(S \ {n}) = Cardinality(S) - 1
      BY FS_RemoveElement
    <2>2. {m \in S : m < n} \in SUBSET (S \ {n})
      OBVIOUS
    <2>3. Rank(S, n) <= Cardinality(S) - 1
      BY <2>1, <2>2, FS_Subset DEF Rank
    <2>4. Rank(S, n) \in Nat /\ Cardinality(S) \in Nat
      BY <1>1
    <2> QED
      BY <2>3, <2>4
  <1>3. ASSUME NEW m \in S, NEW n \in S, m < n
        PROVE  Rank(S, m) < Rank(S, n)
    <2> DEFINE below == {l \in S : l < n}
    <2>1. IsFiniteSet(below \ {m}) /\ Cardinality(below \ {m}) = Cardinality(below) - 1
      BY <1>1, <1>3, FS_RemoveElement
    <2>2. {l \in S : l < m} \in SUBSET (below \ {m})
      <3>1. ASSUME NEW l \in S, l < m
            PROVE  l \in below \ {m}
        BY <1>0, <1>3, <3>1
      <3> QED
        BY <3>1
    <2>3. Rank(S, m) <= Rank(S, n) - 1
      BY <2>1, <2>2, FS_Subset DEF Rank
    <2>4. Rank(S, m) \in Nat /\ Rank(S, n) \in Nat
      BY <1>1
    <2> QED
      BY <2>3, <2>4
  <1>4. ASSUME NEW i \in 1..Cardinality(S)
        PROVE  \E n \in S : Rank(S, n) = i - 1
    <2> DEFINE f == [n \in S |-> Rank(S, n) + 1]
               T == 1..Cardinality(S)
    <2>1. \A n \in S : Rank(S, n) + 1 \in T
      BY <1>1, <1>2
    <2>2. \A m, n \in S : m # n => Rank(S, m) # Rank(S, n)
      <3>1. ASSUME NEW m \in S, NEW n \in S, m # n
            PROVE  Rank(S, m) # Rank(S, n)
        <4>1. m < n \/ n < m
          BY <1>0, <3>1
        <4>2. Rank(S, m) \in Nat /\ Rank(S, n) \in Nat
          BY <1>1
        <4>3. Rank(S, m) < Rank(S, n) \/ Rank(S, n) < Rank(S, m)
          BY <1>3, <4>1
        <4> QED
          BY <4>2, <4>3
      <3> QED
        BY <3>1
    <2>3. f \in Injection(S, T)
      <3>1. f \in [S -> T]
        BY <2>1
      <3>2. ASSUME NEW m \in S, NEW n \in S, f[m] = f[n]
            PROVE  m = n
        <4>1. Rank(S, m) + 1 = Rank(S, n) + 1
          BY <3>2
        <4>2. Rank(S, m) \in Nat /\ Rank(S, n) \in Nat
          BY <1>1
        <4>3. Rank(S, m) = Rank(S, n)
          BY <4>1, <4>2
        <4> QED
          BY <2>2, <4>3
      <3> QED
        BY <3>1, <3>2, DOMAIN f = S DEF Injection, IsInjective
    <2>4. IsFiniteSet(T) /\ Cardinality(T) = Cardinality(S)
      BY <1>1, FS_Interval
    <2> HIDE DEF T
    <2>5. f \in Surjection(S, T)
      BY <2>3, <2>4, FS_Injection
    <2>6. PICK n \in S : f[n] = i
      BY <2>5 DEF Surjection, T
    <2>7. Rank(S, n) + 1 = i /\ Rank(S, n) \in Nat
      BY <1>1, <2>6
    <2> QED
      BY <2>7
  <1> QED
    BY <1>1, <1>2, <1>3, <1>4

\* Ascending() lists the elements of a finite set of numbers, each once, in their order.
LEMMA AscendingLists ==
  ASSUME NEW S \in SUBSET Nat, IsFiniteSet(S)
  PROVE  /\ Cardinality(S) \in Nat
         /\ Ascending(S) \in [1..Cardinality(S) -> S]
         /\ Ascending(S) \in Seq(S) /\ Len(Ascending(S)) = Cardinality(S)
         /\ DOMAIN Ascending(S) = 1..Cardinality(S)
         /\ \A i, j \in 1..Cardinality(S) : i < j => Ascending(S)[i] < Ascending(S)[j]
         /\ \A n \in S : \E i \in 1..Cardinality(S) : Ascending(S)[i] = n
  <1> DEFINE s == Ascending(S)
             k == Cardinality(S)
  <1>1. s = [i \in 1..k |-> CHOOSE n \in S : Rank(S, n) = i - 1]
    BY DEF Ascending, Rank
  <1>2. k \in Nat /\ \A n \in S : Rank(S, n) \in 0..(k - 1)
    BY RanksCount
  <1>3. ASSUME NEW i \in 1..k
        PROVE  s[i] \in S /\ Rank(S, s[i]) = i - 1
    <2>1. \E n \in S : Rank(S, n) = i - 1
      BY RanksCount
    <2> QED
      BY <1>1, <2>1
  <1> HIDE DEF s, k
  <1>4. s \in [1..k -> S]
    BY <1>1, <1>3
  <1>5. s \in Seq(S) /\ Len(s) = k /\ DOMAIN s = 1..k
    BY <1>2, <1>4
  <1>6. ASSUME NEW i \in 1..k, NEW j \in 1..k, i < j
        PROVE  s[i] < s[j]
    <2>1. s[i] \in Nat /\ s[j] \in Nat
      BY <1>3
    <2>2. CASE s[j] = s[i]
      BY <1>2, <1>3, <1>6, <2>2
    <2>3. CASE s[j] < s[i]
      <3>1. Rank(S, s[j]) < Rank(S, s[i])
        BY <1>3, <2>3, RanksCount
      <3> QED
        BY <1>2, <1>3, <1>6, <3>1
    <2> QED
      BY <2>1, <2>2, <2>3
  <1>7. ASSUME NEW n \in S
        PROVE  \E i \in 1..k : s[i] = n
    <2>1. Rank(S, n) + 1 \in 1..k
      BY <1>2
    <2>2. PICK i \in 1..k : i = Rank(S, n) + 1
      BY <2>1
    <2>3. Rank(S, s[i]) = Rank(S, n) /\ s[i] \in S /\ Rank(S, n) \in Nat
      BY <1>2, <1>3, <2>2
    <2>4. /\ s[i] < n => Rank(S, s[i]) < Rank(S, n)
          /\ n < s[i] => Rank(S, n) < Rank(S, s[i])
      BY <2>3, RanksCount
    <2>5. s[i] \in Nat /\ n \in Nat
      BY <2>3
    <2>6. ~(s[i] < n) /\ ~(n < s[i])
      BY <2>3, <2>4
    <2>7. s[i] = n
      BY <2>5, <2>6
    <2> QED
      BY <2>7
  <1> QED
    BY <1>2, <1>4, <1>5, <1>6, <1>7 DEF s, k

-----------------------------------------------------------------------------
\* How many lines are kept of the end of an output.
TailKept == MaxLines - MaxLines \div 2

LEMMA TailIsKept == TailKept \in Nat \ {0} /\ MaxLines \div 2 \in Nat /\ MaxLines \in Nat \ {0}
  BY ConstantsAssumption DEF TailKept

\* What is kept of an output: nothing is new in it but the mark, it ends as the output does,
\* and the order is the same.
LEMMA TruncateKeeps ==
  ASSUME NEW X, Other \in X, NEW lines \in Seq(X), lines # <<>>
  PROVE  LET out == Truncate(lines) IN
         /\ out \in Seq(X) /\ Len(out) \in Nat \ {0}
         /\ \A d \in Nat : d < TailKept /\ d < Len(lines)
              => d < Len(out) /\ out[Len(out) - d] = lines[Len(lines) - d]
         /\ \A i, j \in DOMAIN out :
              i < j /\ out[i] # Other /\ out[j] # Other
                => \E p, q \in DOMAIN lines : p < q /\ out[i] = lines[p] /\ out[j] = lines[q]
  <1> DEFINE out == Truncate(lines)
             h == MaxLines \div 2
             t == TailKept
             N == Len(lines)
  <1>1. h \in Nat /\ t \in Nat \ {0} /\ N \in Nat \ {0} /\ h + t = MaxLines
    BY TailIsKept, ConstantsAssumption DEF TailKept
  <1>2. CASE N <= MaxLines
    <2>1. out = lines
      BY <1>2 DEF Truncate
    <2> QED
      BY <1>1, <2>1
  <1>3. CASE ~(N <= MaxLines)
    <2> DEFINE a == SubSeq(lines, 1, h)
               b == SubSeq(lines, N - t + 1, N)
    <2>1. out = (a \o <<Other>>) \o b
      BY <1>3 DEF Truncate, TailKept
    <2>2. /\ 1 \in Int /\ h \in Int /\ N - t + 1 \in Int /\ N \in Int
          /\ N - t + 1 \in 1..N /\ h < N /\ h + t < N
      BY <1>1, <1>3, TailIsKept
    <2>3. a \in Seq(X) /\ Len(a) = h /\ \A i \in 1..h : a[i] = lines[i]
      BY <1>1, <2>2, SubSeqProperties
    <2>4. b \in Seq(X) /\ Len(b) = t /\ \A i \in 1..t : b[i] = lines[N - t + i]
      <3>1. Len(b) = N - (N - t + 1) + 1
        BY <1>1, <2>2, SubSeqProperties
      <3>2. \A i \in 1..t : b[i] = lines[(N - t + 1) + i - 1]
        BY <1>1, <2>2, <3>1, SubSeqProperties
      <3>3. \A i \in 1..t : (N - t + 1) + i - 1 = N - t + i
        BY <1>1
      <3>4. b \in Seq(X)
        BY <2>2, SubSeqProperties
      <3> QED
        BY <1>1, <3>1, <3>2, <3>3, <3>4
    <2> HIDE DEF a, b, out, h, t, N
    <2>5. out \in Seq(X) /\ Len(out) = h + 1 + t
      <3>1. <<Other>> \in Seq(X) /\ Len(<<Other>>) = 1
        OBVIOUS
      <3>2. a \o <<Other>> \in Seq(X) /\ Len(a \o <<Other>>) = h + 1
        BY <1>1, <2>3, <3>1, ConcatProperties
      <3> DEFINE front == a \o <<Other>>
      <3> HIDE DEF front
      <3>3. front \o b \in Seq(X) /\ Len(front \o b) = Len(front) + Len(b)
        BY <2>4, <3>2, ConcatProperties DEF front
      <3>4. out = front \o b /\ Len(front) = h + 1 /\ Len(b) = t
        BY <2>1, <2>4, <3>2 DEF front
      <3> QED
        BY <3>3, <3>4
    <2>6. ASSUME NEW i \in 1..(h + 1 + t)
          PROVE  out[i] = IF i <= h THEN lines[i]
                          ELSE IF i = h + 1 THEN Other ELSE lines[i + (N - (h + 1 + t))]
      <3>1. CASE i <= h
        BY <1>1, <2>1, <2>3, <2>4, <3>1
      <3>2. CASE i = h + 1
        BY <1>1, <2>1, <2>3, <2>4, <3>2
      <3>3. CASE i > h + 1
        <4>1. out[i] = b[i - (h + 1)] /\ i - (h + 1) \in 1..t
          BY <1>1, <2>1, <2>3, <2>4, <3>3
        <4>2. N - t + (i - (h + 1)) = i + (N - (h + 1 + t))
          BY <1>1
        <4> QED
          BY <1>1, <2>4, <3>3, <4>1, <4>2
      <3> QED
        BY <1>1, <3>1, <3>2, <3>3
    <2>7. ASSUME NEW d \in Nat, d < t, d < N
          PROVE  d < Len(out) /\ out[Len(out) - d] = lines[N - d]
      <3>1. Len(out) - d \in 1..(h + 1 + t) /\ Len(out) - d > h + 1
        BY <1>1, <2>5, <2>7
      <3>2. (Len(out) - d) + (N - (h + 1 + t)) = N - d
        BY <1>1, <2>5
      <3> QED
        BY <1>1, <2>5, <2>6, <2>7, <3>1, <3>2
    <2>8. ASSUME NEW i \in DOMAIN out, NEW j \in DOMAIN out, i < j, out[i] # Other, out[j] # Other
          PROVE  \E p, q \in DOMAIN lines : p < q /\ out[i] = lines[p] /\ out[j] = lines[q]
      <3>1. DOMAIN lines = 1..N /\ DOMAIN out = 1..(h + 1 + t)
        BY <1>1, <2>5 DEF N
      <3>2. CASE j <= h
        <4>1. i \in 1..N /\ j \in 1..N /\ out[i] = lines[i] /\ out[j] = lines[j]
          BY <1>1, <2>2, <2>6, <2>8, <3>1, <3>2
        <4> QED
          BY <2>8, <3>1, <4>1
      <3>3. CASE i <= h /\ j > h + 1
        <4> DEFINE q == j + (N - (h + 1 + t))
        <4>1. i \in 1..N /\ q \in 1..N /\ i < q
          BY <1>1, <2>2, <2>8, <3>1, <3>3
        <4>2. out[i] = lines[i] /\ out[j] = lines[q]
          BY <1>1, <2>6, <3>1, <3>3
        <4> QED
          BY <3>1, <4>1, <4>2
      <3>4. CASE i > h + 1
        <4> DEFINE p == i + (N - (h + 1 + t))
                   q == j + (N - (h + 1 + t))
        <4>1. p \in 1..N /\ q \in 1..N /\ p < q
          BY <1>1, <2>2, <2>8, <3>1, <3>4
        <4>2. out[i] = lines[p] /\ out[j] = lines[q]
          BY <1>1, <2>6, <2>8, <3>1, <3>4
        <4> QED
          BY <3>1, <4>1, <4>2
      <3>5. i # h + 1 /\ j # h + 1
        BY <1>1, <2>6, <2>8, <3>1
      <3> QED
        BY <1>1, <2>8, <3>1, <3>2, <3>3, <3>4, <3>5
    <2>9. Len(out) \in Nat \ {0}
      BY <1>1, <2>5
    <2> QED
      BY <2>5, <2>7, <2>8, <2>9 DEF out, t, N
  <1> HIDE DEF out
  <1>4. N <= MaxLines \/ ~(N <= MaxLines)
    OBVIOUS
  <1> QED
    BY <1>2, <1>3, <1>4 DEF out

-----------------------------------------------------------------------------
\* What the suite prints when the tests of D fail is made of these lines.
SuiteLines(D) ==
  {Other, Section("FAILURES"), Section("summary"), Counts(Cardinality(D))}
    \cup {Block(Title[n]) : n \in D} \cup {Exc(e) : e \in Exceptions} \cup {Failed(n) : n \in D}

\* Where the lines of three parts, one behind the other, are in the whole.
LEMMA ThreeParts ==
  ASSUME NEW X, NEW a \in Seq(X), NEW b \in Seq(X), NEW c \in Seq(X), NEW s, s = a \o b \o c
  PROVE  /\ s \in Seq(X) /\ Len(s) = Len(a) + Len(b) + Len(c)
         /\ \A i \in 1..Len(a) : s[i] = a[i]
         /\ \A i \in 1..Len(b) : s[Len(a) + i] = b[i]
         /\ \A i \in 1..Len(c) : s[Len(a) + Len(b) + i] = c[i]
  <1> DEFINE ab == a \o b
  <1>0. s = ab \o c
    OBVIOUS
  <1>1. /\ Len(a) \in Nat /\ Len(b) \in Nat /\ Len(c) \in Nat
        /\ ab \in Seq(X) /\ Len(ab) = Len(a) + Len(b)
        /\ \A i \in 1..Len(a) + Len(b) : ab[i] = IF i <= Len(a) THEN a[i] ELSE b[i - Len(a)]
    BY ConcatProperties
  <1> HIDE DEF ab
  <1>2. /\ s \in Seq(X) /\ Len(s) = Len(ab) + Len(c)
        /\ \A i \in 1..Len(ab) + Len(c) : s[i] = IF i <= Len(ab) THEN ab[i] ELSE c[i - Len(ab)]
    <2>1. ab \in Seq(X) /\ c \in Seq(X)
      BY <1>1
    <2> QED
      BY <1>0, <2>1, ConcatProperties
  <1>3. ASSUME NEW i \in 1..Len(a)
        PROVE  s[i] = a[i]
    BY <1>1, <1>2
  <1>4. ASSUME NEW i \in 1..Len(b)
        PROVE  s[Len(a) + i] = b[i]
    <2>1. Len(a) + i \in 1..Len(a) + Len(b) /\ ~(Len(a) + i <= Len(a)) /\ (Len(a) + i) - Len(a) = i
      BY <1>1
    <2>2. ab[Len(a) + i] = b[i]
      BY <1>1, <2>1
    <2>3. s[Len(a) + i] = ab[Len(a) + i]
      BY <1>1, <1>2, <2>1
    <2> QED
      BY <2>2, <2>3
  <1>5. ASSUME NEW i \in 1..Len(c)
        PROVE  s[Len(a) + Len(b) + i] = c[i]
    <2> DEFINE j == Len(ab) + i
    <2>1. j \in 1..Len(ab) + Len(c) /\ ~(j <= Len(ab)) /\ j - Len(ab) = i
      BY <1>1
    <2>2. s[j] = c[i]
      BY <1>2, <2>1
    <2> QED
      BY <1>1, <2>2
  <1> QED
    BY <1>1, <1>2, <1>3, <1>4, <1>5

\* What the suite prints ends with the counts; above them is the summary, a row for each
\* failure in the order of the tests; there are no other rows.
LEMMA SuiteOutputIs ==
  ASSUME NEW D \in SUBSET Tests, NEW b \in [D -> Exceptions]
  PROVE  LET out == SuiteOutput(b)
             k == Cardinality(D)
         IN  /\ k \in Nat
             /\ out \in Seq(SuiteLines(D)) /\ Len(out) \in Nat \ {0}
             /\ out[Len(out)] = Counts(k)
             /\ k = 0 => Len(out) = 2
             /\ k > 0 => /\ Len(out) = 3 * k + 4 /\ out[2 * k + 3] = Section("summary")
                         /\ \A i \in 1..k : out[2 * k + 3 + i] = Failed(Ascending(D)[i])
             /\ \A i, j \in DOMAIN out : i < j /\ out[i][1] = "failed" /\ out[j][1] = "failed"
                                           => out[i][2] < out[j][2]
  <1> DEFINE X == SuiteLines(D)
             order == Ascending(D)
             k == Cardinality(D)
             exc(n) == IF b[n] \in Untyped THEN Other ELSE Exc(b[n])
             details == [i \in 1..2 * Len(order) |->
                           LET n == order[(i + 1) \div 2]
                           IN  IF i % 2 = 1 THEN Block(Title[n]) ELSE exc(n)]
             failing == [i \in DOMAIN order |-> Failed(order[i])]
             front == <<Other, Section("FAILURES")>>
             out == SuiteOutput(b)
  <1>1. /\ D \in SUBSET Nat /\ IsFiniteSet(D) /\ DOMAIN b = D
    BY ConstantsAssumption, FS_Subset
  <1>2. /\ k \in Nat /\ order \in [1..k -> D] /\ Len(order) = k /\ DOMAIN order = 1..k
        /\ order \in Seq(D)
        /\ \A i, j \in 1..k : i < j => order[i] < order[j]
    BY <1>1, AscendingLists
  <1>3. /\ Other \in X /\ Section("FAILURES") \in X /\ Section("summary") \in X /\ Counts(k) \in X
        /\ \A n \in D : Block(Title[n]) \in X /\ Failed(n) \in X
        /\ \A e \in Exceptions : Exc(e) \in X
    BY DEF SuiteLines
  <1>4. out = IF order = <<>> THEN <<Other, Counts(0)>>
              ELSE front \o details \o <<Section("summary")>> \o failing \o <<Counts(Len(order))>>
    BY <1>1 DEF SuiteOutput
  <1>5. CASE k = 0
    <2>1. order = <<>>
      BY <1>2, <1>5, EmptySeq
    <2>2. out = <<Other, Counts(k)>>
      BY <1>4, <1>5, <2>1
    <2>3. out \in Seq(X) /\ Len(out) = 2 /\ out[1] = Other /\ out[2] = Counts(k) /\ DOMAIN out = 1..2
      BY <1>3, <2>2
    <2>4. \A i \in DOMAIN out : out[i][1] # "failed"
      <3>1. \A i \in 1..2 : i = 1 \/ i = 2
        OBVIOUS
      <3>2. Other[1] # "failed" /\ Counts(k)[1] # "failed"
        BY DEF Other, Counts
      <3> QED
        BY <2>3, <3>1, <3>2
    <2> QED
      BY <1>2, <1>5, <2>3, <2>4
  <1>6. CASE k > 0
    <2>1. order # <<>>
      BY <1>2, <1>6
    <2>2. front \in Seq(X) /\ Len(front) = 2 /\ front[1] = Other /\ front[2] = Section("FAILURES")
      BY <1>3
    <2>3. /\ details \in Seq(X) /\ Len(details) = 2 * k
          /\ \A i \in 1..2 * k : details[i][1] # "failed"
      <3>1. ASSUME NEW i \in 1..2 * k
            PROVE  details[i] \in X /\ details[i][1] # "failed"
        <4>1. (i + 1) \div 2 \in 1..k
          BY <1>2
        <4>2. PICK n \in D : n = order[(i + 1) \div 2]
          BY <1>2, <4>1
        <4>3. details[i] = IF i % 2 = 1 THEN Block(Title[n]) ELSE exc(n)
          BY <1>2, <4>2
        <4>4. exc(n) \in X /\ Block(Title[n]) \in X
          BY <1>3
        <4>5. exc(n)[1] # "failed" /\ Block(Title[n])[1] # "failed"
          BY DEF Other, Exc, Block
        <4> QED
          BY <4>3, <4>4, <4>5
      <3>2. details \in [1..2 * k -> X]
        BY <1>2, <3>1
      <3> HIDE DEF details
      <3>3. 2 * k \in Nat
        BY <1>2
      <3> QED
        BY <3>1, <3>2, <3>3
    <2>4. failing \in Seq(X) /\ Len(failing) = k /\ \A i \in 1..k : failing[i] = Failed(order[i])
      <3>1. failing \in [1..k -> X]
        BY <1>2, <1>3
      <3> QED
        BY <1>2, <3>1
    <2>5. /\ <<Section("summary")>> \in Seq(X) /\ <<Counts(k)>> \in Seq(X)
          /\ Len(<<Section("summary")>>) = 1 /\ Len(<<Counts(k)>>) = 1
      BY <1>3
    <2>6. out = front \o details \o <<Section("summary")>> \o failing \o <<Counts(k)>>
      BY <1>2, <1>4, <2>1
    <2> DEFINE summary == <<Section("summary")>>
               head == front \o details \o summary
    <2>7. /\ head \in Seq(X) /\ Len(head) = 2 * k + 3 /\ head[2 * k + 3] = Section("summary")
          /\ \A i \in 1..2 * k + 3 : head[i][1] # "failed"
      <3> HIDE DEF front, details, summary, head, X
      <3>0. Len(summary) = 1
        BY DEF summary
      <3>1. /\ head \in Seq(X) /\ Len(head) = 2 + 2 * k + 1
            /\ \A i \in 1..2 : head[i] = front[i]
            /\ \A i \in 1..2 * k : head[2 + i] = details[i]
            /\ \A i \in 1..1 : head[2 + 2 * k + i] = summary[i]
        <4>1. front \in Seq(X) /\ details \in Seq(X) /\ summary \in Seq(X)
          BY <2>2, <2>3, <2>5 DEF summary, X
        <4>2. head = front \o details \o summary
          BY DEF head
        <4>3. /\ head \in Seq(X) /\ Len(head) = Len(front) + Len(details) + Len(summary)
              /\ \A i \in 1..Len(front) : head[i] = front[i]
              /\ \A i \in 1..Len(details) : head[Len(front) + i] = details[i]
              /\ \A i \in 1..Len(summary) : head[Len(front) + Len(details) + i] = summary[i]
          BY <4>1, <4>2, ThreeParts
        <4>4. Len(front) = 2 /\ Len(details) = 2 * k /\ Len(summary) = 1
          BY <2>2, <2>3, <3>0
        <4> QED
          BY <4>3, <4>4
      <3>2. head[2 * k + 3] = Section("summary")
        <4>1. 1 \in 1..1 /\ 2 + 2 * k + 1 = 2 * k + 3
          BY <1>2
        <4>2. summary[1] = Section("summary")
          BY DEF summary
        <4>3. head[2 + 2 * k + 1] = summary[1]
          BY <3>1, <4>1
        <4> QED
          BY <4>1, <4>2, <4>3
      <3>3. ASSUME NEW i \in 1..2 * k + 3
            PROVE  head[i][1] # "failed"
        <4>0. Other[1] # "failed" /\ \A title : Section(title)[1] # "failed"
          BY DEF Other, Section
        <4>1. CASE i = 1 \/ i = 2
          <5>1. head[1] = Other /\ head[2] = Section("FAILURES")
            BY <2>2, <3>1
          <5> QED
            BY <4>0, <4>1, <5>1
        <4>2. CASE i = 2 * k + 3
          BY <3>2, <4>0, <4>2
        <4>3. CASE i > 2 /\ i < 2 * k + 3
          <5>1. i - 2 \in 1..2 * k /\ 2 + (i - 2) = i
            BY <1>2, <4>3
          <5> QED
            BY <2>3, <3>1, <5>1
        <4> QED
          BY <1>2, <4>1, <4>2, <4>3
      <3> QED
        BY <1>2, <3>1, <3>2, <3>3
    <2> HIDE DEF front, details, failing, head
    <2>8. /\ out \in Seq(X) /\ Len(out) = 2 * k + 3 + k + 1
          /\ \A i \in 1..2 * k + 3 : out[i] = head[i]
          /\ \A i \in 1..k : out[2 * k + 3 + i] = failing[i]
          /\ \A i \in 1..1 : out[2 * k + 3 + k + i] = <<Counts(k)>>[i]
      <3> DEFINE counts == <<Counts(k)>>
      <3>1. out = head \o failing \o counts
        BY <2>6 DEF head, summary
      <3>2. head \in Seq(X) /\ failing \in Seq(X) /\ counts \in Seq(X)
        BY <2>4, <2>5, <2>7
      <3>3. Len(head) = 2 * k + 3 /\ Len(failing) = k /\ Len(counts) = 1
        BY <2>4, <2>5, <2>7
      <3> HIDE DEF counts, out
      <3>4. /\ out \in Seq(X) /\ Len(out) = Len(head) + Len(failing) + Len(counts)
            /\ \A i \in 1..Len(head) : out[i] = head[i]
            /\ \A i \in 1..Len(failing) : out[Len(head) + i] = failing[i]
            /\ \A i \in 1..Len(counts) : out[Len(head) + Len(failing) + i] = counts[i]
        BY <3>1, <3>2, ThreeParts
      <3> QED
        BY <3>3, <3>4 DEF counts
    <2> HIDE DEF out, k, order
    <2>9. /\ Len(out) = 3 * k + 4 /\ out[Len(out)] = Counts(k)
          /\ out[2 * k + 3] = Section("summary") /\ Len(out) \in Nat \ {0}
      <3>1. 2 * k + 3 + k + 1 = 3 * k + 4 /\ 1 \in 1..1 /\ 2 * k + 3 \in 1..2 * k + 3
        BY <1>2
      <3>2. out[2 * k + 3 + k + 1] = Counts(k)
        BY <2>8, <3>1
      <3> QED
        BY <1>2, <2>7, <2>8, <3>1, <3>2
    <2>10. ASSUME NEW i \in DOMAIN out, out[i][1] = "failed"
           PROVE  \E p \in 1..k : i = 2 * k + 3 + p /\ out[i] = Failed(order[p])
      <3>1. i \in 1..3 * k + 4
        BY <2>8, <2>9
      <3>2. i # 3 * k + 4
        BY <2>9, <2>10 DEF Counts
      <3>3. ~(i <= 2 * k + 3)
        BY <1>2, <2>7, <2>8, <2>10, <3>1
      <3>4. i - (2 * k + 3) \in 1..k /\ 2 * k + 3 + (i - (2 * k + 3)) = i
        BY <1>2, <3>1, <3>2, <3>3
      <3> QED
        BY <2>4, <2>8, <3>4
    <2>11. ASSUME NEW i \in DOMAIN out, NEW j \in DOMAIN out, i < j,
                  out[i][1] = "failed", out[j][1] = "failed"
           PROVE  out[i][2] < out[j][2]
      <3>1. PICK p \in 1..k : i = 2 * k + 3 + p /\ out[i] = Failed(order[p])
        BY <2>10, <2>11
      <3>2. PICK q \in 1..k : j = 2 * k + 3 + q /\ out[j] = Failed(order[q])
        BY <2>10, <2>11
      <3>3. p < q
        BY <1>2, <2>11, <3>1, <3>2
      <3> QED
        BY <1>2, <3>1, <3>2, <3>3 DEF Failed
    <2>12. \A i \in 1..k : out[2 * k + 3 + i] = Failed(order[i])
      BY <2>4, <2>8
    <2> QED
      BY <1>2, <1>6, <2>8, <2>9, <2>11, <2>12 DEF out, k, order
  <1> QED
    BY <1>2, <1>5, <1>6

\* What may be left of it: the counts are, and if the summary fits in the tail, all of it.
LeftOf(lines, D) ==
  LET k == Cardinality(D)
      header == Len(lines) - k - 1
  IN  /\ lines \in Seq(SuiteLines(D)) /\ Len(lines) \in Nat \ {0}
      /\ lines[Len(lines)] = Counts(k)
      /\ \A i, j \in DOMAIN lines : i < j /\ lines[i][1] = "failed" /\ lines[j][1] = "failed"
                                      => lines[i][2] < lines[j][2]
      /\ k > 0 /\ k + 2 <= TailKept
           => /\ header \in Nat \ {0} /\ lines[header] = Section("summary")
              /\ \A i \in 1..k : lines[header + i] = Failed(Ascending(D)[i])

LEMMA TruncateLeaves ==
  ASSUME NEW D \in SUBSET Tests, NEW b \in [D -> Exceptions]
  PROVE  LeftOf(Truncate(SuiteOutput(b)), D)
  <1> DEFINE X == SuiteLines(D)
             lines == SuiteOutput(b)
             out == Truncate(lines)
             k == Cardinality(D)
             N == Len(lines)
             header == Len(out) - k - 1
  <1>1. /\ k \in Nat
        /\ lines \in Seq(X) /\ N \in Nat \ {0}
        /\ lines[N] = Counts(k)
        /\ k > 0 => /\ N = 3 * k + 4 /\ lines[2 * k + 3] = Section("summary")
                    /\ \A i \in 1..k : lines[2 * k + 3 + i] = Failed(Ascending(D)[i])
        /\ \A i, j \in DOMAIN lines : i < j /\ lines[i][1] = "failed" /\ lines[j][1] = "failed"
                                        => lines[i][2] < lines[j][2]
    BY SuiteOutputIs
  <1>2. Other \in X /\ Other[1] # "failed"
    BY DEF SuiteLines, Other
  <1>3. lines # <<>>
    BY <1>1
  <1> HIDE DEF X, lines
  <1>4. /\ out \in Seq(X) /\ Len(out) \in Nat \ {0}
        /\ \A d \in Nat : d < TailKept /\ d < N => d < Len(out) /\ out[Len(out) - d] = lines[N - d]
        /\ \A i, j \in DOMAIN out :
             i < j /\ out[i] # Other /\ out[j] # Other
               => \E p, q \in DOMAIN lines : p < q /\ out[i] = lines[p] /\ out[j] = lines[q]
    BY <1>1, <1>2, <1>3, TruncateKeeps
  <1> HIDE DEF out, k, N
  <1>5. out[Len(out)] = Counts(k)
    <2>1. 0 \in Nat /\ 0 < TailKept /\ 0 < N /\ N - 0 = N /\ Len(out) - 0 = Len(out)
      BY <1>1, <1>4, TailIsKept
    <2> QED
      BY <1>1, <1>4, <2>1
  <1>6. ASSUME NEW i \in DOMAIN out, NEW j \in DOMAIN out, i < j,
               out[i][1] = "failed", out[j][1] = "failed"
        PROVE  out[i][2] < out[j][2]
    <2>1. out[i] # Other /\ out[j] # Other
      BY <1>2, <1>6
    <2>2. PICK p, q \in DOMAIN lines : p < q /\ out[i] = lines[p] /\ out[j] = lines[q]
      BY <1>4, <1>6, <2>1
    <2> QED
      BY <1>1, <1>6, <2>2
  <1>7. ASSUME k > 0, k + 2 <= TailKept
        PROVE  /\ header \in Nat \ {0} /\ out[header] = Section("summary")
               /\ \A i \in 1..k : out[header + i] = Failed(Ascending(D)[i])
    <2>1. N = 3 * k + 4
      BY <1>1, <1>7
    <2>2. /\ k + 1 \in Nat /\ k + 1 < TailKept /\ k + 1 < N
          /\ Len(out) - (k + 1) = header /\ N - (k + 1) = 2 * k + 3
      BY <1>1, <1>4, <1>7, <2>1, TailIsKept
    <2>3. k + 1 < Len(out) /\ out[header] = lines[2 * k + 3]
      BY <1>4, <2>2
    <2>4. header \in Nat \ {0}
      <3>1. k \in Nat /\ Len(out) \in Nat
        BY <1>1, <1>4
      <3> QED
        BY <2>3, <3>1
    <2>5. ASSUME NEW i \in 1..k
          PROVE  out[header + i] = Failed(Ascending(D)[i])
      <3> DEFINE d == k + 1 - i
      <3>1. k \in Nat /\ Len(out) \in Nat /\ TailKept \in Nat
        BY <1>1, <1>4, TailIsKept
      <3>2. d \in Nat /\ d < TailKept /\ d < N /\ Len(out) - d = header + i /\ N - d = 2 * k + 3 + i
        BY <1>7, <2>1, <3>1
      <3>3. out[header + i] = lines[2 * k + 3 + i]
        BY <1>4, <3>2
      <3> QED
        BY <1>1, <1>7, <3>3
    <2> QED
      BY <1>1, <1>7, <2>3, <2>4, <2>5
  <1> QED
    BY <1>1, <1>4, <1>5, <1>6, <1>7 DEF LeftOf, X, lines, out, k

-----------------------------------------------------------------------------
\* The last header above a line is the one that no other one is below.
LEMMA AboveIs ==
  ASSUME NEW lines, NEW kinds, NEW i, At(lines, kinds) \subseteq Int,
         NEW j \in At(lines, kinds), j < i, \A l \in At(lines, kinds) : l < i => l <= j
  PROVE  Above(lines, kinds, i) = j
  <1> DEFINE over == {l \in At(lines, kinds) : l < i}
  <1>1. j \in over /\ over \subseteq Int /\ \A l \in over : l <= j
    OBVIOUS
  <1>2. Above(lines, kinds, i) = CHOOSE m \in over : \A l \in over : l <= m
    BY <1>1 DEF Above
  <1> HIDE DEF over
  <1>3. \A m \in over : (\A l \in over : l <= m) => m = j
    BY <1>1
  <1> QED
    BY <1>1, <1>2, <1>3

\* Of the lines the suite prints, these are of these kinds.
LEMMA SuiteKinds ==
  ASSUME NEW D, NEW l \in SuiteLines(D)
  PROVE  /\ l[1] \notin {"error", "interrupted", "notests"} /\ l # BareError
         /\ l[1] = "failed" => \E n \in D : l = Failed(n)
         /\ l[1] = "block" => \E n \in D : l[2] = Title[n]
         /\ l[1] = "exc" => l[2] \in Exceptions
  <1>1. CASE l \in {Other, Section("FAILURES"), Section("summary"), Counts(Cardinality(D))}
    <2>1. l[1] = "other" \/ l[1] = "section" \/ l[1] = "counts"
      <3>1. Other[1] = "other" /\ \A x : Section(x)[1] = "section" /\ Counts(x)[1] = "counts"
        BY DEF Other, Section, Counts
      <3> QED
        BY <1>1, <3>1
    <2>2. BareError[1] = "error"
      BY DEF BareError
    <2> QED
      BY <2>1, <2>2
  <1>2. CASE l \in {Block(Title[n]) : n \in D}
    BY <1>2 DEF Block, BareError
  <1>3. CASE l \in {Exc(e) : e \in Exceptions}
    BY <1>3 DEF Exc, BareError
  <1>4. CASE l \in {Failed(n) : n \in D}
    BY <1>4 DEF Failed, BareError
  <1> QED
    BY <1>1, <1>2, <1>3, <1>4 DEF SuiteLines

\* A list of failures of tests of D, in the order of the tests.
Ordered(F, D) ==
  /\ F \in Seq(D \X (Exceptions \cup {"None"}))
  /\ \A i, j \in DOMAIN F : i < j => Node(F[i]) < Node(F[j])

\* The rows of the summary that are left are those of some of the failures, in their order.
LEMMA RowsAre ==
  ASSUME NEW D \in SUBSET Tests, NEW lines, LeftOf(lines, D)
  PROVE  LET listed == SummaryRows(lines) IN
         /\ listed \in Seq(SuiteLines(D))
         /\ \A i \in DOMAIN listed : \E n \in D : listed[i] = Failed(n)
         /\ \A i, j \in DOMAIN listed : i < j => listed[i][2] < listed[j][2]
         /\ Len(listed) <= Cardinality(D)
         /\ \A i \in SummaryBody(lines) \cap At(lines, {"failed"}) :
              \E j \in DOMAIN listed : listed[j] = lines[i]
  <1> DEFINE S == SummaryBody(lines) \cap At(lines, {"failed", "error"})
             places == Ascending(S)
             listed == SummaryRows(lines)
             N == Len(lines)
  <1>1. /\ lines \in Seq(SuiteLines(D)) /\ N \in Nat /\ DOMAIN lines = 1..N
        /\ \A i, j \in DOMAIN lines : i < j /\ lines[i][1] = "failed" /\ lines[j][1] = "failed"
                                        => lines[i][2] < lines[j][2]
    BY DEF LeftOf
  <1>2. S \in SUBSET Nat /\ IsFiniteSet(S) /\ S \subseteq 1..N
    <2>1. S \in SUBSET (1..N) /\ IsFiniteSet(1..N)
      BY <1>1, FS_Interval DEF SummaryBody
    <2> QED
      BY <2>1, FS_Subset
  <1>3. /\ Cardinality(S) \in Nat /\ places \in [1..Cardinality(S) -> S]
        /\ DOMAIN places = 1..Cardinality(S)
        /\ \A i, j \in 1..Cardinality(S) : i < j => places[i] < places[j]
        /\ \A n \in S : \E i \in 1..Cardinality(S) : places[i] = n
    BY <1>2, AscendingLists
  <1>4. listed = [i \in 1..Cardinality(S) |-> lines[places[i]]]
    BY <1>3 DEF SummaryRows
  <1>5. ASSUME NEW p \in S
        PROVE  lines[p] \in SuiteLines(D) /\ lines[p][1] = "failed" /\ \E n \in D : lines[p] = Failed(n)
    <2>1. lines[p] \in SuiteLines(D)
      BY <1>1, <1>2
    <2>2. lines[p][1] \in {"failed", "error"}
      BY DEF At
    <2> QED
      BY <2>1, <2>2, SuiteKinds
  <1> HIDE DEF S, places, listed, N
  <1>6. listed \in Seq(SuiteLines(D)) /\ Len(listed) = Cardinality(S) /\ DOMAIN listed = 1..Cardinality(S)
    <2>1. listed \in [1..Cardinality(S) -> SuiteLines(D)]
      BY <1>3, <1>4, <1>5
    <2> QED
      BY <1>3, <2>1
  <1>7. ASSUME NEW i \in DOMAIN listed
        PROVE  \E n \in D : listed[i] = Failed(n)
    BY <1>3, <1>4, <1>5, <1>6
  <1>8. ASSUME NEW p \in S, NEW q \in S, p < q
        PROVE  lines[p][2] < lines[q][2]
    BY <1>1, <1>2, <1>5, <1>8
  <1>9. ASSUME NEW i \in DOMAIN listed, NEW j \in DOMAIN listed, i < j
        PROVE  listed[i][2] < listed[j][2]
    <2>1. places[i] \in S /\ places[j] \in S /\ places[i] < places[j]
      BY <1>3, <1>6, <1>9
    <2> QED
      BY <1>4, <1>6, <1>8, <2>1
  <1>10. Cardinality(S) <= Cardinality(D)
    <2> DEFINE f == [p \in S |-> lines[p][2]]
    <2>1. f \in [S -> D]
      BY <1>5 DEF Failed
    <2>2. ASSUME NEW p \in S, NEW q \in S, f[p] = f[q]
          PROVE  p = q
      <3>1. p \in Nat /\ q \in Nat
        BY <1>2
      <3>2. lines[p][2] = lines[q][2] /\ lines[p][2] \in Nat
        <4>1. f[p] \in D /\ D \subseteq Nat
          BY <2>1, ConstantsAssumption
        <4> QED
          BY <2>2, <4>1
      <3>3. ~(p < q) /\ ~(q < p)
        BY <1>8, <3>2
      <3> QED
        BY <3>1, <3>3
    <2>3. f \in Injection(S, D)
      BY <2>1, <2>2, DOMAIN f = S DEF Injection, IsInjective
    <2>4. IsFiniteSet(D)
      BY ConstantsAssumption, FS_Subset
    <2> HIDE DEF f
    <2> QED
      BY <2>3, <2>4, FS_Injection
  <1>11. ASSUME NEW i \in SummaryBody(lines) \cap At(lines, {"failed"})
         PROVE  \E j \in DOMAIN listed : listed[j] = lines[i]
    <2>1. i \in S
      BY DEF S, At
    <2>2. PICK j \in 1..Cardinality(S) : places[j] = i
      BY <1>3, <2>1
    <2> QED
      BY <1>4, <1>6, <2>2
  <1> QED
    BY <1>6, <1>7, <1>9, <1>10, <1>11 DEF listed

\* An exception type is one that was printed, or none.
LEMMA ExceptionIsPrinted ==
  ASSUME NEW D, NEW lines \in Seq(SuiteLines(D)), NEW n
  PROVE  ExceptionType(lines, n) \in Exceptions \cup {"None"}
  <1> DEFINE read == {l[2] : l \in {b \in BlockFor(lines, n) : b[1] = "exc"}}
  <1>1. BlockFor(lines, n) \subseteq SuiteLines(D)
    <2>1. \A i \in DOMAIN lines : lines[i] \in SuiteLines(D)
      OBVIOUS
    <2> QED
      BY <2>1 DEF BlockFor, DetailBody
  <1>2. read \subseteq Exceptions
    BY <1>1, SuiteKinds
  <1>3. ExceptionType(lines, n) = IF read = {} THEN "None" ELSE CHOOSE e \in read : TRUE
    BY DEF ExceptionType
  <1> HIDE DEF read
  <1> QED
    BY <1>2, <1>3

\* A summary that fits in the tail is read as a whole.
LEMMA SummaryIsRead ==
  ASSUME NEW D \in SUBSET Tests, NEW lines, LeftOf(lines, D), Cardinality(D) + 2 <= TailKept,
         NEW n \in D
  PROVE  \E i \in SummaryBody(lines) \cap At(lines, {"failed"}) : lines[i] = Failed(n)
  <1> DEFINE k == Cardinality(D)
             header == Len(lines) - k - 1
             N == Len(lines)
  <1>1. D \in SUBSET Nat /\ IsFiniteSet(D)
    BY ConstantsAssumption, FS_Subset
  <1>2. k \in Nat /\ k > 0
    BY <1>1, FS_EmptySet, FS_CardinalityType
  <1>3. PICK r \in 1..k : Ascending(D)[r] = n
    BY <1>1, AscendingLists
  <1>4. /\ lines \in Seq(SuiteLines(D)) /\ N \in Nat /\ DOMAIN lines = 1..N
        /\ header \in Nat \ {0} /\ lines[header] = Section("summary")
        /\ \A i \in 1..k : lines[header + i] = Failed(Ascending(D)[i])
    BY <1>2 DEF LeftOf
  <1> DEFINE p == header + r
  <1>5. p \in DOMAIN lines /\ lines[p] = Failed(n) /\ header \in DOMAIN lines /\ header < p
    BY <1>2, <1>3, <1>4
  <1>6. \A x : Section(x)[1] = "section" /\ Section(x)[2] = x /\ Failed(x)[1] = "failed"
    BY DEF Section, Failed
  <1>7. Above(lines, {"section"}, p) = header
    <2>1. At(lines, {"section"}) \subseteq Int
      BY <1>4 DEF At
    <2>2. header \in At(lines, {"section"})
      BY <1>4, <1>5, <1>6 DEF At
    <2>3. ASSUME NEW l \in At(lines, {"section"}), l < p
          PROVE  l <= header
      <3>1. l \in Int /\ lines[l][1] = "section"
        BY <2>1 DEF At
      <3>2. ASSUME l > header
            PROVE  FALSE
        <4>1. l - header \in 1..k /\ header + (l - header) = l
          BY <1>2, <1>3, <1>4, <2>3, <3>1, <3>2
        <4>2. lines[l] = Failed(Ascending(D)[l - header])
          BY <1>4, <4>1
        <4> QED
          BY <1>6, <3>1, <4>2
      <3> QED
        BY <1>4, <3>1, <3>2
    <2> HIDE DEF header, p
    <2> QED
      BY <1>5, <2>1, <2>2, <2>3, AboveIs
  <1>8. At(lines, {"interrupted"}) = {}
    <2>1. \A i \in DOMAIN lines : lines[i] \in SuiteLines(D)
      BY <1>4
    <2> QED
      BY <2>1, SuiteKinds DEF At
  <1>9. p \in SummaryBody(lines)
    <2>1. InSection(lines, p, {"summary"})
      BY <1>4, <1>6, <1>7 DEF InSection
    <2> QED
      BY <1>5, <1>8, <2>1 DEF SummaryBody
  <1>10. p \in At(lines, {"failed"})
    BY <1>5, <1>6 DEF At
  <1> QED
    BY <1>5, <1>9, <1>10

\* The failures that are read are in the order of the tests, and all there if the summary is.
LEMMA FailuresAre ==
  ASSUME NEW D \in SUBSET Tests, NEW lines, LeftOf(lines, D)
  PROVE  LET F == BuildFailures(lines) IN
         /\ Ordered(F, D) /\ Len(F) <= Cardinality(D)
         /\ Cardinality(D) + 2 <= TailKept => \A n \in D : \E i \in DOMAIN F : Node(F[i]) = n
  <1> DEFINE listed == SummaryRows(lines)
             F == BuildFailures(lines)
             R == D \X (Exceptions \cup {"None"})
  <1>1. /\ listed \in Seq(SuiteLines(D))
        /\ \A i \in DOMAIN listed : \E n \in D : listed[i] = Failed(n)
        /\ \A i, j \in DOMAIN listed : i < j => listed[i][2] < listed[j][2]
        /\ Len(listed) <= Cardinality(D)
        /\ \A i \in SummaryBody(lines) \cap At(lines, {"failed"}) :
             \E j \in DOMAIN listed : listed[j] = lines[i]
    BY RowsAre
  <1>2. F = [i \in DOMAIN listed |-> <<listed[i][2], ExceptionType(lines, listed[i][2])>>]
    BY DEF BuildFailures
  <1> HIDE DEF listed, F
  <1>3. lines \in Seq(SuiteLines(D))
    BY DEF LeftOf
  <1>4. ASSUME NEW i \in DOMAIN listed
        PROVE  F[i] \in R /\ Node(F[i]) = listed[i][2]
    <2>1. PICK n \in D : listed[i] = Failed(n)
      BY <1>1
    <2>2. listed[i][2] = n
      BY <2>1 DEF Failed
    <2>3. F[i] = <<n, ExceptionType(lines, n)>>
      BY <1>2, <2>2
    <2>4. ExceptionType(lines, n) \in Exceptions \cup {"None"}
      BY <1>3, ExceptionIsPrinted
    <2> QED
      BY <2>2, <2>3, <2>4 DEF Node
  <1>5. DOMAIN listed = 1..Len(listed) /\ Len(listed) \in Nat /\ DOMAIN F = DOMAIN listed
    BY <1>1, <1>2
  <1>6. F \in Seq(R) /\ Len(F) = Len(listed)
    <2>1. F \in [1..Len(listed) -> R]
      BY <1>2, <1>4, <1>5
    <2> QED
      BY <1>5, <2>1
  <1>7. \A i, j \in DOMAIN F : i < j => Node(F[i]) < Node(F[j])
    BY <1>1, <1>4, <1>5
  <1>8. ASSUME Cardinality(D) + 2 <= TailKept, NEW n \in D
        PROVE  \E i \in DOMAIN F : Node(F[i]) = n
    <2>1. PICK i \in SummaryBody(lines) \cap At(lines, {"failed"}) : lines[i] = Failed(n)
      BY <1>8, SummaryIsRead
    <2>2. PICK j \in DOMAIN listed : listed[j] = Failed(n)
      BY <1>1, <2>1
    <2>3. Node(F[j]) = n
      BY <1>4, <2>2 DEF Failed
    <2> QED
      BY <1>5, <2>2, <2>3
  <1> QED
    BY <1>1, <1>6, <1>7, <1>8 DEF Ordered, F, R

\* The report of a run in which the tests of D fail: it counts them all, and lists those that
\* are read up to the ceiling; all of them are read if the summary fits in the tail.
Reads(r, D) ==
  \E F \in Seq(D \X (Exceptions \cup {"None"})) :
    /\ Ordered(F, D)
    /\ Len(F) <= Cardinality(D)
    /\ Cardinality(D) + 2 <= TailKept => \A n \in D : \E i \in DOMAIN F : Node(F[i]) = n
    /\ r = [mode      |-> "ran",
            failed    |-> Cardinality(D),
            failures  |-> {F[i] : i \in {j \in DOMAIN F : j <= MaxItems}},
            signature |-> SignatureFor(ToSet(F))]

\* The report of a run without a usable summary.
Unfinished == {Without(mode, 0) : mode \in {"timeout", "unparseable", "collection"}}

\* The last line that counts is found if it is the last line.
LEMMA LastLineCounts ==
  ASSUME NEW X, NEW lines \in Seq(X), Len(lines) \in Nat \ {0},
         lines[Len(lines)][1] \in {"counts", "notests"}
  PROVE  CountLine(lines) = Len(lines)
  <1> DEFINE kinds == {"counts", "notests"}
  <1>1. DOMAIN lines = 1..Len(lines)
    OBVIOUS
  <1>2. At(lines, kinds) \subseteq Int /\ Len(lines) \in At(lines, kinds) /\ Len(lines) < Len(lines) + 1
    BY <1>1 DEF At
  <1>3. \A l \in At(lines, kinds) : l < Len(lines) + 1 => l <= Len(lines)
    BY <1>2
  <1>4. Above(lines, kinds, Len(lines) + 1) = Len(lines)
    BY <1>2, <1>3, AboveIs
  <1> QED
    BY <1>4 DEF CountLine

\* A suite that has run is read.
LEMMA SuiteIsParsed ==
  ASSUME NEW D \in SUBSET Tests, NEW b \in [D -> Exceptions]
  PROVE  Reads(Parse(Printed(SuiteOutput(b))), D)
  <1> DEFINE lines == Truncate(SuiteOutput(b))
             F == BuildFailures(lines)
             r == Parse(Printed(SuiteOutput(b)))
  <1>1. LeftOf(lines, D)
    BY TruncateLeaves
  <1> HIDE DEF lines
  <1>2. /\ Ordered(F, D) /\ Len(F) <= Cardinality(D)
        /\ Cardinality(D) + 2 <= TailKept => \A n \in D : \E i \in DOMAIN F : Node(F[i]) = n
    BY <1>1, FailuresAre
  <1>3. /\ lines \in Seq(SuiteLines(D)) /\ Len(lines) \in Nat \ {0}
        /\ lines[Len(lines)] = Counts(Cardinality(D))
    BY <1>1 DEF LeftOf
  <1>4. /\ Counts(Cardinality(D))[1] = "counts" /\ Counts(Cardinality(D))[2] = Cardinality(D)
    BY DEF Counts
  <1>5. CountLine(lines) = Len(lines) /\ CountLine(lines) # 0
    BY <1>3, <1>4, LastLineCounts
  <1>6. ~CollectionError(lines)
    <2>1. \A i \in DOMAIN lines : lines[i] \in SuiteLines(D)
      BY <1>3
    <2>2. At(lines, {"interrupted"}) = {}
      BY <2>1, SuiteKinds DEF At
    <2>3. \A i \in DOMAIN SummaryRows(lines) : SummaryRows(lines)[i] # BareError
      <3>1. SummaryRows(lines) \in Seq(SuiteLines(D))
        BY <1>1, RowsAre
      <3>2. \A i \in DOMAIN SummaryRows(lines) : SummaryRows(lines)[i] \in SuiteLines(D)
        BY <3>1
      <3> QED
        BY <3>2, SuiteKinds
    <2>4. Collecting \notin DetailTitles(lines)
      <3>1. ASSUME NEW i \in At(lines, {"block"})
            PROVE  lines[i][2] # Collecting
        <4>1. lines[i] \in SuiteLines(D) /\ lines[i][1] = "block"
          BY <2>1 DEF At
        <4>2. PICK n \in D : lines[i][2] = Title[n]
          BY <4>1, SuiteKinds
        <4> QED
          BY <4>2, ConstantsAssumption
      <3> QED
        BY <3>1 DEF DetailTitles
    <2> QED
      BY <2>2, <2>3, <2>4 DEF CollectionError
  <1>7. r = [mode      |-> "ran",
             failed    |-> Cardinality(D),
             failures  |-> {F[i] : i \in {j \in DOMAIN F : j <= MaxItems}},
             signature |-> SignatureFor(ToSet(F))]
    BY <1>3, <1>4, <1>5, <1>6 DEF Parse, Printed, lines
  <1>8. F \in Seq(D \X (Exceptions \cup {"None"}))
    BY <1>2 DEF Ordered
  <1> HIDE DEF F, r
  <1> QED
    BY <1>2, <1>7, <1>8 DEF Reads, r

\* A report on nothing.
Quiet == [mode |-> "ran", failed |-> 0, failures |-> {}, signature |-> SignatureFor({})]

LEMMA QuietReadsNothing == Reads(Quiet, {})
  <1>1. <<>> \in Seq({} \X (Exceptions \cup {"None"})) /\ Ordered(<<>>, {}) /\ Len(<<>>) = 0
    BY DEF Ordered
  <1>2. Cardinality({}) = 0 /\ 0 <= 0
    BY FS_EmptySet
  <1>3. ToSet(<<>>) = {} /\ {<<>>[i] : i \in {j \in DOMAIN <<>> : j <= MaxItems}} = {}
    BY DEF ToSet
  <1> QED
    BY <1>1, <1>2, <1>3 DEF Reads, Quiet

\* A row of the summary is a line that names a failure or an error.
LEMMA RowsAreLines ==
  ASSUME NEW X, NEW lines \in Seq(X), NEW i \in DOMAIN SummaryRows(lines)
  PROVE  \E p \in DOMAIN lines : SummaryRows(lines)[i] = lines[p] /\ lines[p][1] \in {"failed", "error"}
  <1> DEFINE S == SummaryBody(lines) \cap At(lines, {"failed", "error"})
             places == Ascending(S)
  <1>1. S \in SUBSET DOMAIN lines /\ DOMAIN lines = 1..Len(lines) /\ Len(lines) \in Nat
    BY DEF SummaryBody
  <1>2. S \in SUBSET Nat /\ IsFiniteSet(S)
    <2>1. IsFiniteSet(1..Len(lines)) /\ 1..Len(lines) \subseteq Nat
      BY <1>1, FS_Interval
    <2> HIDE DEF S
    <2> QED
      BY <1>1, <2>1, FS_Subset
  <1>3. SummaryRows(lines) = [j \in DOMAIN places |-> lines[places[j]]]
    BY DEF SummaryRows
  <1>4. \A p \in S : lines[p][1] \in {"failed", "error"}
    BY DEF At
  <1> HIDE DEF S
  <1>5. places[i] \in S
    <2>1. places \in [1..Cardinality(S) -> S] /\ i \in DOMAIN places
      BY <1>2, <1>3, AscendingLists
    <2> HIDE DEF places
    <2> QED
      BY <2>1
  <1> QED
    BY <1>1, <1>3, <1>4, <1>5

\* Without rows there are no failures.
LEMMA NoRowsNoFailures ==
  ASSUME NEW lines, DOMAIN SummaryRows(lines) = {}
  PROVE  /\ ToSet(BuildFailures(lines)) = {}
         /\ {BuildFailures(lines)[i] : i \in {j \in DOMAIN BuildFailures(lines) : j <= MaxItems}} = {}
  <1>1. DOMAIN BuildFailures(lines) = {}
    BY DEF BuildFailures
  <1> QED
    BY <1>1 DEF ToSet

\* A suite that does not collect is read as such, if the tail has room for its last two lines.
LEMMA CollectionIsParsed ==
  \/ Parse(Printed(CollectionOutput)) = Without("collection", 0)
  \/ Parse(Printed(CollectionOutput)) = Quiet /\ TailKept < 2
  <1> DEFINE X == {Other, Section("ERRORS"), Block(Collecting), Exc("ImportError"),
                   Section("summary"), BareError, Interrupted, Counts(0)}
             whole == CollectionOutput
             lines == Truncate(whole)
  <1>1. whole \in Seq(X) /\ Len(whole) = 7 /\ whole[7] = Counts(0) /\ whole[6] = Interrupted
    BY DEF CollectionOutput
  <1>2. Other \in X /\ whole # <<>>
    BY <1>1
  <1> HIDE DEF whole, X
  <1>3. /\ lines \in Seq(X) /\ Len(lines) \in Nat \ {0}
        /\ \A d \in Nat : d < TailKept /\ d < 7
             => d < Len(lines) /\ lines[Len(lines) - d] = whole[7 - d]
    <2>1. /\ lines \in Seq(X) /\ Len(lines) \in Nat \ {0}
          /\ \A d \in Nat : d < TailKept /\ d < Len(whole)
               => d < Len(lines) /\ lines[Len(lines) - d] = whole[Len(whole) - d]
      <3>1. whole \in Seq(X)
        BY <1>1
      <3> QED
        BY <1>2, <3>1, TruncateKeeps
    <2> HIDE DEF lines
    <2> QED
      BY <1>1, <2>1
  <1> HIDE DEF lines
  <1>4. lines[Len(lines)] = Counts(0)
    <2>1. 0 \in Nat /\ 0 < TailKept /\ 7 - 0 = 7 /\ Len(lines) - 0 = Len(lines)
      BY <1>3, TailIsKept
    <2> QED
      BY <1>1, <1>3, <2>1
  <1>5. /\ CountLine(lines) = Len(lines) /\ CountLine(lines) # 0
        /\ lines[CountLine(lines)][1] = "counts" /\ lines[CountLine(lines)][2] = 0
    <2>1. Counts(0)[1] = "counts" /\ Counts(0)[2] = 0
      BY DEF Counts
    <2> QED
      BY <1>3, <1>4, <2>1, LastLineCounts
  <1>6. Parse(Printed(whole))
          = IF CollectionError(lines) THEN Without("collection", 0)
            ELSE [mode      |-> "ran",
                  failed    |-> 0,
                  failures  |-> {BuildFailures(lines)[i] : i \in {j \in DOMAIN BuildFailures(lines) : j <= MaxItems}},
                  signature |-> SignatureFor(ToSet(BuildFailures(lines)))]
    <2>1. Truncate(Printed(whole).lines) = lines /\ ~Printed(whole).timedOut
      BY DEF Printed, lines
    <2> QED
      BY <1>5, <2>1 DEF Parse
  <1>7. ASSUME ~CollectionError(lines)
        PROVE  DOMAIN SummaryRows(lines) = {}
    <2>1. ASSUME NEW i \in DOMAIN SummaryRows(lines)
          PROVE  SummaryRows(lines)[i] = BareError
      <3>1. PICK p \in DOMAIN lines : SummaryRows(lines)[i] = lines[p] /\ lines[p][1] \in {"failed", "error"}
        BY <1>3, RowsAreLines
      <3>2. lines[p] \in X
        BY <1>3
      <3>3. \A l \in X : l[1] \in {"failed", "error"} => l = BareError
        <4>1. /\ Other[1] = "other" /\ Interrupted[1] = "interrupted"
              /\ \A x : Section(x)[1] = "section" /\ Block(x)[1] = "block" /\ Exc(x)[1] = "exc"
                         /\ Counts(x)[1] = "counts"
          BY DEF Other, Section, Block, Exc, Interrupted, Counts
        <4> QED
          BY <4>1 DEF X
      <3> QED
        BY <3>1, <3>2, <3>3
    <2> QED
      BY <1>7, <2>1 DEF CollectionError
  <1>8. ASSUME ~(TailKept < 2)
        PROVE  CollectionError(lines)
    <2>1. 1 \in Nat /\ 1 < TailKept /\ 1 < 7 /\ 7 - 1 = 6
      BY <1>8, TailIsKept
    <2>2. 1 < Len(lines) /\ lines[Len(lines) - 1] = Interrupted
      BY <1>1, <1>3, <2>1
    <2>3. Len(lines) - 1 \in At(lines, {"interrupted"})
      <3>1. Len(lines) - 1 \in DOMAIN lines
        BY <1>3, <2>2
      <3>2. Interrupted[1] = "interrupted"
        BY DEF Interrupted
      <3> QED
        BY <2>2, <3>1, <3>2 DEF At
    <2> QED
      BY <2>3 DEF CollectionError
  <1>9. CASE CollectionError(lines)
    BY <1>6, <1>9 DEF whole
  <1>10. CASE ~CollectionError(lines)
    BY <1>6, <1>7, <1>8, <1>10, NoRowsNoFailures DEF whole, Quiet
  <1> QED
    BY <1>9, <1>10

\* A run that selects nothing is one without failures, a silent one has no summary.
LEMMA SilenceIsParsed ==
  /\ Parse(Killed) = Without("timeout", 0)
  /\ Parse(Printed(<<Other>>)) = Without("unparseable", 0)
  /\ Parse(Printed(<<NoTests>>)) = Quiet
  <1>1. Parse(Killed) = Without("timeout", 0)
    BY DEF Parse, Killed
  <1>2. \A l : Len(<<l>>) = 1 /\ <<l>>[1] = l /\ DOMAIN <<l>> = {1}
    OBVIOUS
  <1>3. \A l : Truncate(<<l>>) = <<l>>
    BY <1>2, ConstantsAssumption DEF Truncate
  <1>4. Parse(Printed(<<Other>>)) = Without("unparseable", 0)
    <2> DEFINE lines == <<Other>>
    <2>1. At(lines, {"counts", "notests"}) = {}
      <3>1. Other[1] = "other"
        BY DEF Other
      <3>2. DOMAIN lines = {1} /\ lines[1] = Other
        BY <1>2
      <3> HIDE DEF lines
      <3> QED
        BY <3>1, <3>2 DEF At
    <2> HIDE DEF lines
    <2>2. CountLine(lines) = 0
      BY <2>1 DEF CountLine, Above
    <2> QED
      BY <1>3, <2>2 DEF Parse, Printed, lines
  <1>5. Parse(Printed(<<NoTests>>)) = Quiet
    <2> DEFINE lines == <<NoTests>>
    <2>1. lines \in Seq({NoTests}) /\ Len(lines) = 1 /\ lines[1] = NoTests /\ DOMAIN lines = {1}
      BY <1>2
    <2>2. NoTests[1] = "notests"
      BY DEF NoTests
    <2> HIDE DEF lines
    <2>3. CountLine(lines) = 1
      <3>1. /\ lines \in Seq({NoTests}) /\ Len(lines) \in Nat \ {0}
            /\ lines[Len(lines)][1] \in {"counts", "notests"}
        BY <2>1, <2>2
      <3>2. CountLine(lines) = Len(lines)
        BY <3>1, LastLineCounts
      <3> QED
        BY <2>1, <3>2
    <2>4. /\ At(lines, {"interrupted"}) = {} /\ At(lines, {"block"}) = {}
          /\ DOMAIN SummaryRows(lines) = {}
      <3>1. At(lines, {"interrupted"}) = {} /\ At(lines, {"block"}) = {}
        BY <2>1, <2>2 DEF At
      <3>2. DOMAIN SummaryRows(lines) = {}
        BY <2>1, <2>2, RowsAreLines
      <3> QED
        BY <3>1, <3>2
    <2>5. ~CollectionError(lines)
      BY <2>4 DEF CollectionError, DetailTitles
    <2>6. Truncate(lines) = lines
      BY <1>3 DEF lines
    <2>7. Parse(Printed(lines))
            = [mode |-> "ran", failed |-> 0,
               failures  |-> {BuildFailures(lines)[i] : i \in {j \in DOMAIN BuildFailures(lines) : j <= MaxItems}},
               signature |-> SignatureFor(ToSet(BuildFailures(lines)))]
      <3>1. Truncate(Printed(lines).lines) = lines /\ ~Printed(lines).timedOut
        BY <2>6 DEF Printed
      <3>2. CountLine(lines) # 0 /\ lines[CountLine(lines)][1] = "notests"
        BY <2>1, <2>2, <2>3
      <3> QED
        BY <2>5, <3>1, <3>2 DEF Parse
    <2> QED
      BY <2>4, <2>7, NoRowsNoFailures DEF Quiet, lines
  <1> QED
    BY <1>1, <1>4, <1>5

\* The tests a run is about: those selected, or all of them.
Chosen(selected) == IF selected = {} THEN Tests ELSE selected

\* What a run of the suite comes to, whatever happens to it: only if some tests are selected,
\* or there is no room for two lines, can it say less than it found.
LEMMA OutcomeIsParsed ==
  ASSUME NEW t \in Trees, NEW selected \in SUBSET Tests, NEW o \in Outcomes(t, selected)
  PROVE  \/ Parse(o) \in Unfinished
         \/ Reads(Parse(o), Red(t) \cap Chosen(selected))
         \/ Reads(Parse(o), {}) /\ (selected # {} \/ TailKept < 2)
  <1> DEFINE D == Red(t) \cap Chosen(selected)
             broken == [n \in D |-> t.outcome[n]]
  <1>1. D \in SUBSET Tests /\ broken \in [D -> Exceptions]
    BY DEF Red
  <1>2. Without("timeout", 0) \in Unfinished /\ Without("unparseable", 0) \in Unfinished
        /\ Without("collection", 0) \in Unfinished
    BY DEF Unfinished
  <1>3. \/ o = Killed
        \/ o = Printed(<<Other>>)
        \/ o = Printed(<<NoTests>>) /\ selected # {}
        \/ o = Printed(SuiteOutput(broken))
        \/ o = Printed(CollectionOutput)
    BY DEF Outcomes, Chosen
  <1>4. CASE o = Killed \/ o = Printed(<<Other>>)
    BY <1>2, <1>4, SilenceIsParsed
  <1>5. CASE o = Printed(<<NoTests>>) /\ selected # {}
    BY <1>5, SilenceIsParsed, QuietReadsNothing
  <1>6. CASE o = Printed(SuiteOutput(broken))
    BY <1>1, <1>6, SuiteIsParsed
  <1>7. CASE o = Printed(CollectionOutput)
    BY <1>2, <1>7, CollectionIsParsed, QuietReadsNothing
  <1> QED
    BY <1>3, <1>4, <1>5, <1>6, <1>7

-----------------------------------------------------------------------------
\* What a report says of the tests that failed: no others, at most the ceiling's worth, and
\* all of them if it can list so many.
LEMMA ReadsWhat ==
  ASSUME NEW D \in SUBSET Tests, NEW r, Reads(r, D)
  PROVE  /\ r \in Reports /\ r.mode = "ran" /\ r.failed = Cardinality(D)
         /\ r.signature.mode = "ran"
         /\ Nodes(r.failures) \subseteq D
         /\ IsFiniteSet(r.failures)
         /\ Cardinality(r.failures) <= MaxItems /\ Cardinality(r.failures) <= Cardinality(Tests)
         /\ CanList(Cardinality(D)) => Nodes(r.failures) = D
         /\ CanList(Cardinality(D)) /\ D # {} => r.signature.failures # {}
         /\ D = {} => r.failures = {} /\ r.signature = SignatureFor({})
  <1> DEFINE R == D \X (Exceptions \cup {"None"})
  <1>1. PICK F \in Seq(R) :
          /\ Ordered(F, D)
          /\ Len(F) <= Cardinality(D)
          /\ Cardinality(D) + 2 <= TailKept => \A n \in D : \E i \in DOMAIN F : Node(F[i]) = n
          /\ r = [mode      |-> "ran",
                  failed    |-> Cardinality(D),
                  failures  |-> {F[i] : i \in {j \in DOMAIN F : j <= MaxItems}},
                  signature |-> SignatureFor(ToSet(F))]
    BY DEF Reads
  <1> DEFINE J == {j \in DOMAIN F : j <= MaxItems}
             L == {F[i] : i \in J}
  <1>2. /\ r.mode = "ran" /\ r.failed = Cardinality(D) /\ r.failures = L
        /\ r.signature = [mode |-> "ran", failures |-> ToSet(F)]
    BY <1>1 DEF SignatureFor
  <1>3. /\ IsFiniteSet(D) /\ Cardinality(D) \in Nat /\ IsFiniteSet(Tests) /\ Cardinality(Tests) \in Nat
        /\ Cardinality(D) <= Cardinality(Tests)
    BY ConstantsAssumption, FS_Subset, FS_CardinalityType
  <1>4. \A i \in DOMAIN F : F[i] \in R /\ Node(F[i]) \in D
    BY DEF Node
  <1>5. DOMAIN F = 1..Len(F) /\ Len(F) \in Nat
    OBVIOUS
  <1>6. ToSet(F) = {F[i] : i \in DOMAIN F}
    BY DEF ToSet
  <1>7. L \subseteq R /\ ToSet(F) \subseteq R /\ R \subseteq Failures
    BY <1>4, <1>6 DEF Failures
  <1>8. r \in Reports
    <2>1. r.failed \in 0..Cardinality(Tests)
      BY <1>2, <1>3
    <2>2. L \in SUBSET Failures /\ ToSet(F) \in SUBSET Failures
      BY <1>7
    <2>3. r = [mode |-> "ran", failed |-> Cardinality(D), failures |-> L,
               signature |-> [mode |-> "ran", failures |-> ToSet(F)]]
      BY <1>1 DEF SignatureFor
    <2>4. Cardinality(D) \in 0..Cardinality(Tests)
      BY <1>3
    <2> HIDE DEF L
    <2> QED
      BY <2>2, <2>3, <2>4 DEF Reports, Modes
  <1>9. Nodes(L) \subseteq D
    BY <1>4 DEF Nodes
  <1>10. /\ IsFiniteSet(L)
         /\ Cardinality(L) <= MaxItems /\ Cardinality(L) <= Cardinality(Tests)
    <2> DEFINE f == [i \in J |-> F[i]]
    <2>1. J \in SUBSET (1..MaxItems) /\ MaxItems \in Nat /\ J \in SUBSET (1..Len(F))
      BY <1>5, ConstantsAssumption
    <2> HIDE DEF J
    <2>2. \A n \in Nat : \A S \in SUBSET (1..n) : IsFiniteSet(S) /\ Cardinality(S) <= n
      <3> TAKE n \in Nat
      <3> TAKE S \in SUBSET (1..n)
      <3>1. IsFiniteSet(1..n) /\ Cardinality(1..n) = n
        BY FS_Interval
      <3> DEFINE T == 1..n
      <3> HIDE DEF T
      <3>2. IsFiniteSet(T) /\ S \in SUBSET T /\ Cardinality(T) = n
        BY <3>1 DEF T
      <3>3. IsFiniteSet(S) /\ Cardinality(S) <= Cardinality(T)
        BY <3>2, FS_Subset
      <3> QED
        BY <3>2, <3>3
    <2>3. IsFiniteSet(J) /\ Cardinality(J) <= MaxItems /\ Cardinality(J) <= Len(F)
      BY <1>5, <2>1, <2>2
    <2>4. f \in Surjection(J, L)
      BY DEF Surjection
    <2> HIDE DEF f, L
    <2>5. IsFiniteSet(L) /\ Cardinality(L) <= Cardinality(J)
      BY <2>3, <2>4, FS_Surjection
    <2>6. Cardinality(J) \in Nat /\ Cardinality(L) \in Nat
      BY <2>3, <2>5, FS_CardinalityType
    <2> QED
      BY <1>1, <1>3, <1>5, <2>1, <2>3, <2>5, <2>6
  <1>11. ASSUME CanList(Cardinality(D))
         PROVE  Nodes(L) = D /\ (D # {} => ToSet(F) # {})
    <2>1. Cardinality(D) <= MaxItems /\ Cardinality(D) + 2 <= TailKept
      BY <1>11 DEF CanList, TailKept
    <2>2. \A n \in D : \E i \in DOMAIN F : Node(F[i]) = n
      BY <1>1, <2>1
    <2>3. Len(F) <= MaxItems
      BY <1>1, <1>3, <1>5, <2>1, ConstantsAssumption
    <2>4. J = DOMAIN F
      BY <1>5, <2>3, ConstantsAssumption
    <2>5. ASSUME NEW n \in D
          PROVE  n \in Nodes(L)
      BY <2>2, <2>4 DEF Nodes
    <2> QED
      BY <1>6, <1>9, <2>2, <2>5
  <1>12. ASSUME D = {}
         PROVE  L = {} /\ ToSet(F) = {}
    BY <1>4, <1>6, <1>12
  <1> HIDE DEF L
  <1>13. r.signature.mode = "ran" /\ r.signature.failures = ToSet(F)
    BY <1>2
  <1>14. D = {} => r.failures = {} /\ r.signature = SignatureFor({})
    BY <1>2, <1>12 DEF SignatureFor
  <1>15. r.failures = L /\ r.mode = "ran" /\ r.failed = Cardinality(D)
    BY <1>2
  <1> QED
    BY <1>8, <1>9, <1>10, <1>11, <1>13, <1>14, <1>15

\* A set of natural numbers that is not empty has a least one.
LEMMA LeastIsThere ==
  ASSUME NEW S \in SUBSET Nat, S # {}
  PROVE  \E n \in S : \A m \in S : ~(m < n)
  <1> DEFINE less == {pair \in Nat \X Nat : pair[1] < pair[2]}
  <1>1. IsWellFoundedOn(less, Nat)
    BY NatLessThanWellFounded DEF OpToRel
  <1>2. \A m, n \in Nat : m < n => <<m, n>> \in less
    OBVIOUS
  <1> HIDE DEF less
  <1>3. PICK n \in S : \A m \in S : <<m, n>> \notin less
    BY <1>1, WFMin
  <1> QED
    BY <1>2, <1>3

\* Two lists in the order of the tests, with the same failures, begin alike.
LEMMA OrderIsUnique ==
  ASSUME NEW C \in SUBSET Tests, NEW D \in SUBSET Tests, NEW F, NEW G,
         Ordered(F, C), Ordered(G, D), ToSet(F) = ToSet(G)
  PROVE  \A i \in DOMAIN F : i \in DOMAIN G /\ F[i] = G[i]
  <1> DEFINE Bad == {i \in DOMAIN F : ~(i \in DOMAIN G /\ F[i] = G[i])}
  <1> SUFFICES ASSUME Bad # {}
               PROVE  FALSE
    OBVIOUS
  <1>1. /\ DOMAIN F = 1..Len(F) /\ Len(F) \in Nat /\ DOMAIN G = 1..Len(G) /\ Len(G) \in Nat
    BY DEF Ordered
  <1>2. /\ \A i \in DOMAIN F : \E j \in DOMAIN G : G[j] = F[i]
        /\ \A j \in DOMAIN G : \E i \in DOMAIN F : F[i] = G[j]
    BY DEF ToSet
  <1>3. /\ \A i \in DOMAIN F : Node(F[i]) \in Nat
        /\ \A i \in DOMAIN G : Node(G[i]) \in Nat
    <2>1. C \subseteq Nat /\ D \subseteq Nat
      BY ConstantsAssumption
    <2>2. /\ \A i \in DOMAIN F : F[i] \in C \X (Exceptions \cup {"None"})
          /\ \A i \in DOMAIN G : G[i] \in D \X (Exceptions \cup {"None"})
      BY DEF Ordered
    <2> QED
      BY <2>1, <2>2 DEF Node
  <1>4. /\ \A i, j \in DOMAIN F : i < j => Node(F[i]) < Node(F[j])
        /\ \A i, j \in DOMAIN G : i < j => Node(G[i]) < Node(G[j])
    BY DEF Ordered
  <1>5. Bad \in SUBSET Nat
    BY <1>1
  <1>6. PICK i \in Bad : \A m \in Bad : ~(m < i)
    BY <1>5, LeastIsThere
  <1>7. \A m \in DOMAIN F : m < i => m \in DOMAIN G /\ F[m] = G[m]
    BY <1>6
  <1>8. i \in DOMAIN F /\ ~(i \in DOMAIN G /\ F[i] = G[i])
    BY <1>6
  <1> HIDE DEF Bad
  <1>9. PICK j \in DOMAIN G : G[j] = F[i]
    BY <1>2, <1>8
  <1>10. ~(j < i)
    <2>1. ASSUME j < i
          PROVE  FALSE
      <3>1. j \in DOMAIN F
        BY <1>1, <1>8, <1>9, <2>1
      <3>2. F[j] = F[i] /\ Node(F[j]) < Node(F[i])
        BY <1>4, <1>7, <1>8, <1>9, <2>1, <3>1
      <3> QED
        BY <1>3, <1>8, <3>2
    <2> QED
      BY <2>1
  <1>11. i < j /\ i \in DOMAIN G
    BY <1>1, <1>8, <1>9, <1>10
  <1>12. PICK l \in DOMAIN F : F[l] = G[i]
    BY <1>2, <1>11
  <1>13. Node(F[l]) < Node(F[i])
    BY <1>4, <1>9, <1>11, <1>12
  <1>14. l < i
    <2>1. ~(i < l) /\ i # l
      BY <1>3, <1>4, <1>8, <1>12, <1>13
    <2> QED
      BY <1>1, <1>8, <1>12, <2>1
  <1>15. l \in DOMAIN G /\ G[l] = G[i] /\ Node(G[l]) < Node(G[i])
    BY <1>4, <1>7, <1>11, <1>12, <1>14
  <1> QED
    BY <1>3, <1>11, <1>15

\* Two runs with the same signature list the same failures.
LEMMA SignatureTells ==
  ASSUME NEW C \in SUBSET Tests, NEW D \in SUBSET Tests, NEW q, NEW r, Reads(q, C), Reads(r, D),
         q.signature = r.signature
  PROVE  q.failures = r.failures
  <1>1. PICK F : /\ Ordered(F, C)
                 /\ q.failures = {F[i] : i \in {j \in DOMAIN F : j <= MaxItems}}
                 /\ q.signature.failures = ToSet(F)
    BY DEF Reads, SignatureFor
  <1>2. PICK G : /\ Ordered(G, D)
                 /\ r.failures = {G[i] : i \in {j \in DOMAIN G : j <= MaxItems}}
                 /\ r.signature.failures = ToSet(G)
    BY DEF Reads, SignatureFor
  <1>3. ToSet(F) = ToSet(G)
    BY <1>1, <1>2
  <1>4. \A i \in DOMAIN F : i \in DOMAIN G /\ F[i] = G[i]
    BY <1>1, <1>2, <1>3, OrderIsUnique
  <1>5. \A i \in DOMAIN G : i \in DOMAIN F /\ F[i] = G[i]
    BY <1>1, <1>2, <1>3, OrderIsUnique
  <1> QED
    BY <1>1, <1>2, <1>4, <1>5

-----------------------------------------------------------------------------
\* What a report that was parsed is in any case.
IsRaw(r) == r \in Unfinished \/ \E D \in SUBSET Tests : Reads(r, D)

LEMMA ReportsAreRaw ==
  ASSUME NEW t \in Trees, NEW selected \in SUBSET Tests, NEW r, IsReportOf(r, t, selected)
  PROVE  IsRaw(r)
  <1>1. PICK o \in Outcomes(t, selected) : r = Parse(o)
    BY DEF IsReportOf
  <1>2. Red(t) \cap Chosen(selected) \in SUBSET Tests /\ {} \in SUBSET Tests
    BY DEF Red
  <1> QED
    BY <1>1, <1>2, OutcomeIsParsed DEF IsRaw

\* A run without a usable summary lists nothing, and its signature is its mode.
LEMMA UnfinishedWhat ==
  ASSUME NEW r \in Unfinished
  PROVE  /\ r \in Reports /\ r.mode # "ran" /\ r.failures = {} /\ r.signature.mode = r.mode
         /\ IsFiniteSet(r.failures) /\ Cardinality(r.failures) = 0
  <1>1. PICK mode \in {"timeout", "unparseable", "collection"} : r = Without(mode, 0)
    BY DEF Unfinished
  <1>2. r = [mode |-> mode, failed |-> 0, failures |-> {}, signature |-> [mode |-> mode, failures |-> {}]]
    BY <1>1 DEF Without, ModeSignature
  <1>3. 0 \in 0..Cardinality(Tests)
    BY ConstantsAssumption, FS_CardinalityType
  <1>4. r \in Reports
    BY <1>2, <1>3 DEF Reports, Modes
  <1> QED
    BY <1>2, <1>4, FS_EmptySet

\* What was there before is taken away from the list, and from a run that has none to take
\* away from, nothing.
LEMMA SubtractWhat ==
  ASSUME NEW r, IsRaw(r), NEW P
  PROVE  LET s == Subtract(r, P)
             kept == {f \in r.failures : Node(f) \notin P}
         IN  /\ r \in Reports /\ s \in Reports /\ s.mode = r.mode
             /\ Cardinality(s.failures) <= MaxItems
             /\ s.failures \subseteq r.failures /\ Nodes(s.failures) \subseteq Tests
             /\ IsFiniteSet(kept)
             /\ P = {} \/ r.mode = "collection" => s = r
             /\ P # {} /\ r.mode # "collection"
                  => s.failures = kept /\ s.failed = Cardinality(kept) /\ s.signature = SignatureFor(kept)
  <1> DEFINE s == Subtract(r, P)
             kept == {f \in r.failures : Node(f) \notin P}
  <1>1. /\ r \in Reports /\ IsFiniteSet(r.failures) /\ Cardinality(r.failures) <= MaxItems
        /\ Cardinality(r.failures) <= Cardinality(Tests)
    <2>1. CASE r \in Unfinished
      <3>1. MaxItems \in Nat /\ Cardinality(Tests) \in Nat
        BY ConstantsAssumption, FS_CardinalityType
      <3> QED
        BY <2>1, <3>1, UnfinishedWhat
    <2>2. CASE \E D \in SUBSET Tests : Reads(r, D)
      BY <2>2, ReadsWhat
    <2> QED
      BY <2>1, <2>2 DEF IsRaw
  <1>2. r.failures \in SUBSET Failures /\ r.mode \in Modes
    BY <1>1 DEF Reports
  <1>3. /\ kept \in SUBSET r.failures /\ IsFiniteSet(kept)
        /\ Cardinality(kept) <= MaxItems /\ Cardinality(kept) \in 0..Cardinality(Tests)
    <2>1. kept \in SUBSET r.failures
      OBVIOUS
    <2> HIDE DEF kept
    <2>2. /\ IsFiniteSet(kept) /\ Cardinality(kept) <= Cardinality(r.failures)
          /\ Cardinality(kept) \in Nat /\ Cardinality(r.failures) \in Nat
      BY <1>1, <2>1, FS_Subset, FS_CardinalityType
    <2>3. MaxItems \in Nat /\ Cardinality(Tests) \in Nat
      BY ConstantsAssumption, FS_CardinalityType
    <2> QED
      BY <1>1, <2>1, <2>2, <2>3
  <1>4. s = IF P = {} \/ r.mode = "collection" THEN r
            ELSE [r EXCEPT !.failures = kept, !.failed = Cardinality(kept), !.signature = SignatureFor(kept)]
    BY DEF Subtract
  <1> HIDE DEF s, kept
  <1>5. CASE P = {} \/ r.mode = "collection"
    BY <1>1, <1>2, <1>3, <1>4, <1>5 DEF Nodes, Node, Failures, s, kept
  <1>6. CASE ~(P = {} \/ r.mode = "collection")
    <2>1. /\ s.mode = r.mode /\ s.failures = kept /\ s.failed = Cardinality(kept)
          /\ s.signature = SignatureFor(kept)
      BY <1>1, <1>4, <1>6 DEF Reports
    <2>2. s \in Reports
      <3>1. kept \in SUBSET Failures /\ SignatureFor(kept) \in [mode : Modes, failures : SUBSET Failures]
        BY <1>2, <1>3 DEF SignatureFor, Modes
      <3> QED
        BY <1>1, <1>3, <1>4, <1>6, <3>1 DEF Reports
    <2>3. Nodes(kept) \subseteq Tests
      BY <1>2, <1>3 DEF Nodes, Node, Failures
    <2> QED
      BY <1>1, <1>3, <1>6, <2>1, <2>2, <2>3 DEF s, kept
  <1> QED
    BY <1>5, <1>6

\* The failures taken away are failures of the tree before the first edit; all of them, if
\* the baseline ran and could list them.
LEMMA PreExistingIs ==
  ASSUME IInv, pc # "baseline"
  PROVE  /\ PreExisting \subseteq Red(origin)
         /\ baseline.mode = "ran" /\ CanList(Cardinality(Red(origin))) => PreExisting = Red(origin)
  <1> DEFINE D == Red(origin)
  <1>1. origin \in Trees /\ IsReportOf(baseline, origin, {})
    BY DEF IInv, PlaceInv, BaselineInv
  <1>2. D \in SUBSET Tests /\ D \cap Chosen({}) = D
    BY DEF Red, Chosen
  <1>3. \/ baseline \in Unfinished
        \/ Reads(baseline, D)
        \/ Reads(baseline, {}) /\ TailKept < 2
    <2>1. {} \in SUBSET Tests
      OBVIOUS
    <2> QED
      BY <1>1, <1>2, <2>1, OutcomeIsParsed DEF IsReportOf
  <1> HIDE DEF D
  <1>4. CASE baseline \in Unfinished
    BY <1>4, UnfinishedWhat DEF PreExisting, Nodes
  <1>5. CASE Reads(baseline, D)
    BY <1>2, <1>5, ReadsWhat DEF PreExisting, D
  <1>6. CASE Reads(baseline, {}) /\ TailKept < 2
    <2>1. PreExisting = {}
      BY <1>6, ReadsWhat DEF PreExisting, Nodes
    <2>2. Cardinality(D) \in Nat
      BY <1>2, ConstantsAssumption, FS_Subset, FS_CardinalityType
    <2>3. ~CanList(Cardinality(D))
      BY <1>6, <2>2, TailIsKept DEF CanList, TailKept
    <2> QED
      BY <2>1, <2>3 DEF D
  <1> QED
    BY <1>3, <1>4, <1>5, <1>6

-----------------------------------------------------------------------------
LEMMA InitIInv == Init => IInv
  <1> SUFFICES ASSUME Init
               PROVE  IInv
    OBVIOUS
  <1>1. PlaceInv
    <2>1. tree \in Trees /\ origin \in Trees /\ tree = origin /\ targets = {} /\ pc = "baseline"
          /\ attempt = 1 /\ rows = <<>>
      BY DEF Init
    <2>2. 1 \in 1..MaxAttempts /\ Len(<<>>) = 0
      BY AttemptsAssumption
    <2> QED
      BY <2>1, <2>2 DEF PlaceInv
  <1>2. BaselineInv
    BY DEF Init, BaselineInv
  <1>3. RowsInv
    <2>1. <<>> \in Seq(Rows) /\ Len(<<>>) = 0 /\ DOMAIN <<>> = {}
      OBVIOUS
    <2> QED
      BY <2>1 DEF Init, RowsInv
  <1>4. VerdictInv
    BY DEF Init, VerdictInv
  <1> QED
    BY <1>1, <1>2, <1>3, <1>4 DEF IInv

\* A run that is persisted is the last row, behind the row that was the last.
LEMMA PersistKeeps ==
  ASSUME IInv, NEW selected \in SUBSET Tests, NEW o \in Outcomes(tree, selected),
         Persist(o, selected), UNCHANGED baseline
  PROVE  /\ RowsInv' /\ rows' # <<>>
         /\ Len(rows') = IF Len(rows) = 0 THEN 1 ELSE 2
         /\ LastRow'.full = (selected = {}) /\ IsReportOf(LastRow'.raw, tree, selected)
         /\ LastRow' = rows'[Len(rows')]
  <1> DEFINE row == [full |-> selected = {}, raw |-> Parse(o), report |-> Subtract(Parse(o), PreExisting)]
  <1>1. rows \in Seq(Rows) /\ Len(rows) \in Nat /\ Len(rows) <= 2 /\ \A i \in DOMAIN rows : RowInv(rows[i])
    BY DEF IInv, RowsInv
  <1>2. tree \in Trees /\ IsReportOf(Parse(o), tree, selected)
    BY DEF IInv, PlaceInv, IsReportOf
  <1>3. row \in Rows
    <2>1. IsRaw(Parse(o))
      BY <1>2, ReportsAreRaw
    <2> QED
      BY <2>1, SubtractWhat DEF Rows
  <1>4. rows' = IF rows = <<>> THEN <<row>> ELSE <<rows[Len(rows)], row>>
    BY DEF Persist, Last
  <1>5. row.full = (selected = {}) /\ row.raw = Parse(o) /\ row.report = Subtract(row.raw, PreExisting)
    OBVIOUS
  <1>6. PreExisting' = PreExisting
    BY DEF PreExisting
  <1>7. row.report = Subtract(row.raw, PreExisting')
        /\ \E t \in Trees, s \in SUBSET Tests : IsReportOf(row.raw, t, s)
    BY <1>2, <1>5, <1>6
  <1> HIDE DEF row
  <1>8. ASSUME NEW l, RowInv(l)
        PROVE  l.report = Subtract(l.raw, PreExisting')
               /\ \E t \in Trees, s \in SUBSET Tests : IsReportOf(l.raw, t, s)
    BY <1>6, <1>8 DEF RowInv
  <1>9. CASE rows = <<>>
    <2>1. rows' = <<row>> /\ Len(rows) = 0
      BY <1>4, <1>9
    <2>2. rows' \in Seq(Rows) /\ Len(rows') = 1 /\ DOMAIN rows' = {1} /\ rows'[1] = row
      BY <1>3, <2>1
    <2>3. RowsInv'
      <3>1. \A i \in DOMAIN rows' : rows'[i] = row
        BY <2>2
      <3> QED
        BY <1>7, <2>2, <3>1 DEF RowsInv, RowInv
    <2> QED
      BY <1>2, <1>5, <2>1, <2>2, <2>3 DEF LastRow, Last
  <1>10. CASE rows # <<>>
    <2>1. rows' = <<rows[Len(rows)], row>> /\ Len(rows) # 0 /\ Len(rows) \in DOMAIN rows
      BY <1>1, <1>4, <1>10, EmptySeq
    <2>2. rows[Len(rows)] \in Rows /\ RowInv(rows[Len(rows)])
      BY <1>1, <2>1
    <2>3. rows' \in Seq(Rows) /\ Len(rows') = 2 /\ DOMAIN rows' = {1, 2}
          /\ rows'[1] = rows[Len(rows)] /\ rows'[2] = row
      BY <1>3, <2>1, <2>2
    <2>4. RowsInv'
      <3>1. \A i \in DOMAIN rows' : rows'[i] = rows[Len(rows)] \/ rows'[i] = row
        BY <2>3
      <3>2. \A i \in DOMAIN rows' :
              /\ rows'[i].report = Subtract(rows'[i].raw, PreExisting')
              /\ \E t \in Trees, s \in SUBSET Tests : IsReportOf(rows'[i].raw, t, s)
        BY <1>7, <1>8, <2>2, <3>1
      <3> QED
        BY <2>3, <3>2 DEF RowsInv, RowInv
    <2> QED
      BY <1>2, <1>5, <2>1, <2>3, <2>4 DEF LastRow, Last
  <1> QED
    BY <1>9, <1>10

\* The loop goes on only within the budget.
LEMMA DecisionIs ==
  ASSUME NEW runs, NEW n \in Nat
  PROVE  /\ Decision(runs, n) \in {"SUCCEEDED", "EXHAUSTED", "RETRY"}
         /\ Decision(runs, n) = "SUCCEEDED" <=> Succeeded(Last(runs).report)
         /\ Decision(runs, n) = "RETRY" => n < MaxAttempts
         /\ Decision(runs, n) = "EXHAUSTED" /\ n < MaxAttempts => NoProgress(runs)
  BY AttemptsAssumption DEF Decision

LEMMA DecideKeeps ==
  ASSUME IInv, NEW selected \in SUBSET Tests, NEW o \in Outcomes(tree, selected),
         Persist(o, selected), Decide, UNCHANGED <<tree, origin, baseline, attempt, targets>>,
         attempt = 1 => Len(rows) = 0, pc # "baseline",
         selected # {} => selected = targets /\ ~Succeeded(LastRow'.report)
  PROVE  IInv'
  <1>1. /\ RowsInv' /\ rows' # <<>>
        /\ Len(rows') = IF Len(rows) = 0 THEN 1 ELSE 2
        /\ LastRow'.full = (selected = {}) /\ IsReportOf(LastRow'.raw, tree, selected)
    BY PersistKeeps
  <1>2. attempt \in 1..MaxAttempts /\ MaxAttempts \in Nat /\ attempt \in Nat
    BY AttemptsAssumption DEF IInv, PlaceInv
  <1>3. LastRow' = Last(rows')
    BY DEF LastRow
  <1>4. /\ verdict' = Decision(rows', attempt)
        /\ verdict' \in {"SUCCEEDED", "EXHAUSTED", "RETRY"}
        /\ verdict' = "SUCCEEDED" <=> Succeeded(LastRow'.report)
        /\ verdict' = "RETRY" => attempt < MaxAttempts
        /\ pc' = IF verdict' = "RETRY" THEN "retryedit" ELSE "done"
    BY <1>2, <1>3, DecisionIs DEF Decide
  <1>5. PlaceInv'
    <2>1. /\ tree \in Trees /\ origin \in Trees /\ targets \in SUBSET Tests
          /\ attempt = 1 => targets = {}
      BY DEF IInv, PlaceInv
    <2> QED
      BY <1>1, <1>2, <1>4, <2>1 DEF PlaceInv
  <1>6. BaselineInv'
    BY <1>4 DEF IInv, BaselineInv
  <1>7. VerdictInv'
    <2>1. IsReportOf(LastRow'.raw, tree, IF LastRow'.full THEN {} ELSE targets)
      BY <1>1
    <2>2. verdict' = "SUCCEEDED" => LastRow'.full
      BY <1>1, <1>4
    <2> QED
      BY <1>1, <1>4, <2>1, <2>2 DEF VerdictInv
  <1> QED
    BY <1>1, <1>5, <1>6, <1>7 DEF IInv

\* Each step keeps the invariant.
LEMMA Inductive == IInv /\ [Next]_vars => IInv'
  <1> SUFFICES ASSUME IInv, [Next]_vars
               PROVE  IInv'
    OBVIOUS
  <1>1. CASE BaselineReturns
    <2>1. /\ pc = "baseline" /\ pc' = "edit"
          /\ UNCHANGED <<tree, origin, rows, attempt, targets, verdict>>
      BY <1>1 DEF BaselineReturns
    <2>2. tree = origin /\ attempt = 1 /\ targets = {} /\ Len(rows) = 0 /\ tree \in Trees
          /\ 1 \in 1..MaxAttempts /\ rows \in Seq(Rows)
      BY <2>1, AttemptsAssumption DEF IInv, PlaceInv, RowsInv
    <2>3. PlaceInv'
      BY <2>1, <2>2 DEF PlaceInv
    <2>4. BaselineInv'
      <3>1. PICK o \in Outcomes(tree, {}) : baseline' = Parse(o)
        BY <1>1 DEF BaselineReturns
      <3> QED
        BY <2>1, <2>2, <3>1 DEF BaselineInv, IsReportOf
    <2>5. RowsInv'
      <3>1. DOMAIN rows = {}
        BY <2>2
      <3> QED
        BY <2>1, <2>2, <3>1 DEF RowsInv
    <2>6. VerdictInv'
      BY <2>1 DEF IInv, VerdictInv
    <2> QED
      BY <2>3, <2>4, <2>5, <2>6 DEF IInv
  <1>2. CASE EditReturns
    <2>1. /\ pc = "edit" /\ pc' = "test" /\ tree' \in Trees
          /\ UNCHANGED <<origin, baseline, rows, attempt, targets, verdict>>
      BY <1>2 DEF EditReturns
    <2>2. PlaceInv'
      BY <2>1 DEF IInv, PlaceInv
    <2>3. BaselineInv'
      BY <2>1 DEF IInv, BaselineInv
    <2>4. RowsInv'
      BY <2>1 DEF IInv, RowsInv, RowInv, PreExisting
    <2>5. VerdictInv'
      BY <2>1 DEF IInv, VerdictInv
    <2> QED
      BY <2>2, <2>3, <2>4, <2>5 DEF IInv
  <1>3. CASE TestReturns
    <2>1. pc = "test" /\ UNCHANGED <<tree, origin, baseline, attempt, targets>>
      BY <1>3 DEF TestReturns
    <2>2. PICK o \in Outcomes(tree, targets) : Persist(o, targets)
      BY <1>3 DEF TestReturns
    <2>3. /\ targets \in SUBSET Tests
          /\ attempt = 1 => Len(rows) = 0 /\ targets = {}
      BY <2>1 DEF IInv, PlaceInv
    <2>4. LastRow' = Last(rows')
      BY DEF LastRow
    <2>5. CASE /\ targets # {} /\ Succeeded(Last(rows').report)
               /\ pc' = "confirm" /\ UNCHANGED verdict
      <3>1. /\ RowsInv' /\ rows' # <<>>
            /\ LastRow'.full = FALSE /\ IsReportOf(LastRow'.raw, tree, targets)
        BY <2>1, <2>2, <2>3, <2>5, PersistKeeps
      <3>2. PlaceInv'
        BY <2>1, <2>3, <2>5 DEF IInv, PlaceInv
      <3>3. BaselineInv'
        BY <2>1, <2>5 DEF IInv, BaselineInv
      <3>4. VerdictInv'
        BY <2>1, <2>5, <3>1 DEF IInv, VerdictInv
      <3> QED
        BY <3>1, <3>2, <3>3, <3>4 DEF IInv
    <2>6. CASE ~(targets # {} /\ Succeeded(Last(rows').report)) /\ Decide
      BY <2>1, <2>2, <2>3, <2>4, <2>6, DecideKeeps
    <2> QED
      BY <1>3, <2>5, <2>6 DEF TestReturns
  <1>4. CASE ConfirmReturns
    <2>1. /\ pc = "confirm" /\ Decide /\ UNCHANGED <<tree, origin, baseline, attempt, targets>>
      BY <1>4 DEF ConfirmReturns
    <2>2. PICK o \in Outcomes(tree, {}) : Persist(o, {})
      BY <1>4 DEF ConfirmReturns
    <2>3. attempt # 1 /\ {} \in SUBSET Tests
      BY <2>1 DEF IInv, PlaceInv
    <2> QED
      BY <2>1, <2>2, <2>3, DecideKeeps
  <1>5. CASE RetryEditReturns
    <2>1. /\ pc = "retryedit" /\ tree' \in Trees /\ targets' = Nodes(Last(rows).report.failures)
          /\ attempt' = attempt + 1 /\ UNCHANGED <<origin, baseline, rows, verdict>>
      BY <1>5 DEF RetryEditReturns
    <2>2. attempt \in 1..MaxAttempts /\ attempt < MaxAttempts /\ MaxAttempts \in Nat
      BY <2>1, AttemptsAssumption DEF IInv, PlaceInv
    <2>3. pc' = "test"
      BY <1>5, <2>2 DEF RetryEditReturns
    <2>4. targets' \in SUBSET Tests
      <3>1. rows # <<>> /\ rows \in Seq(Rows) /\ \A i \in DOMAIN rows : RowInv(rows[i])
        BY <2>1 DEF IInv, VerdictInv, RowsInv
      <3>2. Len(rows) \in DOMAIN rows
        BY <3>1, EmptySeq
      <3>3. RowInv(Last(rows))
        BY <3>1, <3>2 DEF Last
      <3>4. IsRaw(Last(rows).raw) /\ Last(rows).report = Subtract(Last(rows).raw, PreExisting)
        BY <3>3, ReportsAreRaw DEF RowInv
      <3>5. Nodes(Subtract(Last(rows).raw, PreExisting).failures) \subseteq Tests
        BY <3>4, SubtractWhat
      <3> QED
        BY <2>1, <3>4, <3>5
    <2>5. PlaceInv'
      <3>1. origin \in Trees
        BY DEF IInv, PlaceInv
      <3> QED
        BY <2>1, <2>2, <2>3, <2>4, <3>1 DEF PlaceInv
    <2>6. BaselineInv'
      BY <2>1, <2>3 DEF IInv, BaselineInv
    <2>7. RowsInv'
      BY <2>1 DEF IInv, RowsInv, RowInv, PreExisting
    <2>8. VerdictInv'
      BY <2>1, <2>3 DEF IInv, VerdictInv
    <2> QED
      BY <2>5, <2>6, <2>7, <2>8 DEF IInv
  <1>6. CASE UNCHANGED vars
    <2>1. UNCHANGED <<tree, origin, baseline, rows, attempt, targets, verdict, pc>>
      BY <1>6 DEF vars
    <2>2. PlaceInv' /\ BaselineInv'
      BY <2>1 DEF IInv, PlaceInv, BaselineInv
    <2>3. RowsInv'
      BY <2>1 DEF IInv, RowsInv, RowInv, PreExisting
    <2>4. VerdictInv'
      BY <2>1 DEF IInv, VerdictInv, LastRow
    <2> QED
      BY <2>2, <2>3, <2>4 DEF IInv
  <1> QED
    BY <1>1, <1>2, <1>3, <1>4, <1>5, <1>6 DEF Next

-----------------------------------------------------------------------------
\* The verdict is about a report of the tree as it stands, without the baseline.
LEMMA VerdictIsAbout ==
  ASSUME IInv, pc \in {"retryedit", "done"}
  PROVE  /\ LastRow = rows[Len(rows)] /\ Len(rows) \in DOMAIN rows
         /\ LastRow.report = Subtract(LastRow.raw, PreExisting) /\ IsRaw(LastRow.raw)
         /\ LastRow.report.mode = LastRow.raw.mode
         /\ LastRow.raw.mode = "ran"
              => \/ \E D \in SUBSET Red(tree) :
                      Reads(LastRow.raw, D) /\ (LastRow.full => D = Red(tree))
                 \/ Reads(LastRow.raw, {}) /\ TailKept < 2
  <1>1. /\ rows \in Seq(Rows) /\ rows # <<>> /\ \A i \in DOMAIN rows : RowInv(rows[i])
        /\ IsReportOf(LastRow.raw, tree, IF LastRow.full THEN {} ELSE targets)
        /\ tree \in Trees /\ targets \in SUBSET Tests
    BY DEF IInv, RowsInv, VerdictInv, PlaceInv
  <1>2. LastRow = rows[Len(rows)] /\ Len(rows) \in DOMAIN rows
    BY <1>1, EmptySeq DEF LastRow, Last
  <1>3. LastRow.report = Subtract(LastRow.raw, PreExisting) /\ IsRaw(LastRow.raw)
    BY <1>1, <1>2, ReportsAreRaw DEF RowInv
  <1>4. LastRow.report.mode = LastRow.raw.mode
    <2>1. Subtract(LastRow.raw, PreExisting).mode = LastRow.raw.mode
      BY <1>3, SubtractWhat
    <2> QED
      BY <1>3, <2>1
  <1> DEFINE selected == IF LastRow.full THEN {} ELSE targets
             D == Red(tree) \cap Chosen(selected)
  <1>5. selected \in SUBSET Tests /\ D \in SUBSET Red(tree) /\ (LastRow.full => D = Red(tree))
    BY <1>1 DEF Chosen, Red
  <1>6. \/ LastRow.raw \in Unfinished
        \/ Reads(LastRow.raw, D)
        \/ Reads(LastRow.raw, {}) /\ (selected # {} \/ TailKept < 2)
    BY <1>1, <1>5, OutcomeIsParsed DEF IsReportOf
  <1> HIDE DEF D
  <1>7. LastRow.raw.mode = "ran" => LastRow.raw \notin Unfinished
    BY UnfinishedWhat
  <1>8. {} \in SUBSET Red(tree)
    OBVIOUS
  <1>9. selected # {} => ~LastRow.full
    OBVIOUS
  <1> QED
    BY <1>2, <1>3, <1>4, <1>5, <1>6, <1>7, <1>8, <1>9

LEMMA RedIsFinite ==
  ASSUME NEW t
  PROVE  /\ Red(t) \in SUBSET Tests /\ IsFiniteSet(Red(t)) /\ Cardinality(Red(t)) \in Nat
         /\ CanList(Cardinality(Red(t))) => TailKept >= 2
  <1>1. Red(t) \in SUBSET Tests
    BY DEF Red
  <1>2. IsFiniteSet(Red(t)) /\ Cardinality(Red(t)) \in Nat
    BY <1>1, ConstantsAssumption, FS_Subset, FS_CardinalityType
  <1>3. ASSUME CanList(Cardinality(Red(t)))
        PROVE  TailKept >= 2
    BY <1>2, <1>3, TailIsKept DEF CanList, TailKept
  <1> QED
    BY <1>1, <1>2, <1>3

LEMMA GreenClean == IInv => GreenIsClean
  <1> SUFFICES ASSUME IInv, verdict = "SUCCEEDED", CanList(Cardinality(Red(tree)))
               PROVE  Red(tree) \subseteq Red(origin)
    BY DEF GreenIsClean
  <1> DEFINE raw == LastRow.raw
             kept == {f \in raw.failures : Node(f) \notin PreExisting}
  <1>1. pc = "done" /\ verdict = Decision(rows, attempt) /\ LastRow.full /\ attempt \in Nat
    BY AttemptsAssumption DEF IInv, VerdictInv, PlaceInv
  <1>2. LastRow.report.failed = 0 /\ LastRow.report.mode = "ran"
    BY <1>1, DecisionIs DEF Succeeded, LastRow
  <1>3. /\ LastRow.report = Subtract(raw, PreExisting) /\ IsRaw(raw) /\ raw.mode = "ran"
        /\ Reads(raw, Red(tree)) \/ TailKept < 2
    BY <1>1, <1>2, VerdictIsAbout
  <1>4. Reads(raw, Red(tree)) /\ Red(tree) \in SUBSET Tests /\ IsFiniteSet(Red(tree))
    BY <1>3, RedIsFinite, TailIsKept
  <1>5. Nodes(raw.failures) = Red(tree) /\ raw.failed = Cardinality(Red(tree))
    BY <1>4, ReadsWhat
  <1> HIDE DEF raw
  <1>6. CASE PreExisting = {}
    <2>1. LastRow.report = raw
      BY <1>3, <1>6, SubtractWhat
    <2> QED
      BY <1>2, <1>4, <1>5, <2>1, FS_EmptySet
  <1>7. CASE PreExisting # {}
    <2>1. LastRow.report.failed = Cardinality(kept) /\ IsFiniteSet(kept)
      BY <1>3, <1>7, SubtractWhat
    <2>2. kept = {}
      BY <1>2, <2>1, FS_EmptySet
    <2>3. Nodes(raw.failures) \subseteq PreExisting
      BY <2>2 DEF Nodes
    <2> QED
      BY <1>1, <1>5, <2>3, PreExistingIs
  <1> QED
    BY <1>6, <1>7

LEMMA RedDeserved == IInv => RedIsDeserved
  <1> SUFFICES ASSUME IInv, verdict \in {"RETRY", "EXHAUSTED"}, pc \in {"retryedit", "done"},
                      LastRow.report.mode = "ran", baseline.mode = "ran",
                      CanList(Cardinality(Red(origin)))
               PROVE  Red(tree) \ Red(origin) # {}
    BY DEF RedIsDeserved
  <1> DEFINE raw == LastRow.raw
             kept == {f \in raw.failures : Node(f) \notin PreExisting}
  <1>1. verdict = Decision(rows, attempt) /\ attempt \in Nat
    BY AttemptsAssumption DEF IInv, VerdictInv, PlaceInv
  <1>2. LastRow.report.failed # 0
    BY <1>1, DecisionIs DEF Succeeded, LastRow
  <1>3. TailKept >= 2 /\ TailKept \in Nat
    BY RedIsFinite, TailIsKept
  <1>4. /\ LastRow.report = Subtract(raw, PreExisting) /\ IsRaw(raw) /\ raw.mode = "ran"
        /\ \E D \in SUBSET Red(tree) : Reads(raw, D)
    BY <1>3, VerdictIsAbout
  <1>5. PICK D \in SUBSET Red(tree) : Reads(raw, D)
    BY <1>4
  <1>6. D \in SUBSET Tests
    BY RedIsFinite
  <1>7. PreExisting = Red(origin)
    BY PreExistingIs DEF IInv, PlaceInv
  <1>8. raw.failed = Cardinality(D) /\ Nodes(raw.failures) \subseteq D
    BY <1>5, <1>6, ReadsWhat
  <1> HIDE DEF raw
  <1>9. CASE PreExisting = {}
    <2>1. LastRow.report = raw
      BY <1>4, <1>9, SubtractWhat
    <2>2. D # {}
      BY <1>2, <1>8, <2>1, FS_EmptySet
    <2> QED
      BY <1>5, <1>7, <1>9, <2>2
  <1>10. CASE PreExisting # {}
    <2>1. LastRow.report.failed = Cardinality(kept) /\ IsFiniteSet(kept)
      BY <1>4, <1>10, SubtractWhat
    <2>2. kept # {}
      BY <1>2, <2>1, FS_EmptySet
    <2>3. PICK f \in raw.failures : Node(f) \notin PreExisting
      BY <2>2
    <2>4. Node(f) \in D
      BY <1>8, <2>3 DEF Nodes
    <2> QED
      BY <1>5, <1>7, <2>3, <2>4
  <1> QED
    BY <1>9, <1>10

\* Two runs with the same signature beyond the baseline failed alike; nothing can be said of
\* why they did not finish if there was a baseline to take away.
LEMMA SameSignature ==
  ASSUME NEW q, NEW r, IsRaw(q), IsRaw(r), NEW P,
         Subtract(q, P).signature = Subtract(r, P).signature
  PROVE  /\ Subtract(q, P).failures = Subtract(r, P).failures
         /\ P = {} => q.mode = r.mode
  <1>1. \A s : IsRaw(s) => /\ s.signature.mode = s.mode
                           /\ s.mode # "ran" => s.failures = {} /\ s \in Unfinished
                           /\ s.mode = "ran" => \E D \in SUBSET Tests : Reads(s, D)
    <2> SUFFICES ASSUME NEW s, IsRaw(s)
                 PROVE  /\ s.signature.mode = s.mode
                        /\ s.mode # "ran" => s.failures = {} /\ s \in Unfinished
                        /\ s.mode = "ran" => \E D \in SUBSET Tests : Reads(s, D)
      OBVIOUS
    <2>1. CASE s \in Unfinished
      BY <2>1, UnfinishedWhat
    <2>2. CASE \E D \in SUBSET Tests : Reads(s, D)
      BY <2>2, ReadsWhat
    <2> QED
      BY <2>1, <2>2 DEF IsRaw
  <1> DEFINE kq == {f \in q.failures : Node(f) \notin P}
             kr == {f \in r.failures : Node(f) \notin P}
  <1>2. ASSUME NEW s, IsRaw(s)
        PROVE  /\ P = {} \/ s.mode = "collection" => Subtract(s, P) = s
               /\ P # {} /\ s.mode # "collection"
                    => /\ Subtract(s, P).failures = {f \in s.failures : Node(f) \notin P}
                       /\ Subtract(s, P).signature = SignatureFor({f \in s.failures : Node(f) \notin P})
    BY <1>2, SubtractWhat
  <1>3. CASE P = {}
    <2>1. Subtract(q, P) = q /\ Subtract(r, P) = r /\ q.signature = r.signature
      BY <1>2, <1>3
    <2>2. q.mode = r.mode
      BY <1>1, <2>1
    <2>3. CASE q.mode = "ran"
      <3>1. PICK C \in SUBSET Tests : Reads(q, C)
        BY <1>1, <2>3
      <3>2. PICK D \in SUBSET Tests : Reads(r, D)
        BY <1>1, <2>2, <2>3
      <3>3. q.failures = r.failures
        BY <2>1, <3>1, <3>2, SignatureTells
      <3> QED
        BY <2>1, <2>2, <3>3
    <2>4. CASE q.mode # "ran"
      BY <1>1, <2>1, <2>2, <2>4
    <2> QED
      BY <2>3, <2>4
  <1>4. CASE P # {}
    <2>1. /\ q.mode = "collection" => Subtract(q, P).signature.mode = "collection" /\ Subtract(q, P).failures = {}
          /\ r.mode = "collection" => Subtract(r, P).signature.mode = "collection" /\ Subtract(r, P).failures = {}
      BY <1>1, <1>2
    <2>2. ASSUME NEW F
          PROVE  SignatureFor(F).mode = "ran" /\ SignatureFor(F).failures = F
      BY DEF SignatureFor
    <2>3. ASSUME q.mode # "collection"
          PROVE  /\ Subtract(q, P).signature.mode = "ran"
                 /\ Subtract(q, P).signature.failures = kq
                 /\ Subtract(q, P).failures = kq
      <3>1. Subtract(q, P).failures = kq /\ Subtract(q, P).signature = SignatureFor(kq)
        BY <1>2, <1>4, <2>3
      <3> HIDE DEF kq
      <3> QED
        BY <2>2, <3>1
    <2>4. ASSUME r.mode # "collection"
          PROVE  /\ Subtract(r, P).signature.mode = "ran"
                 /\ Subtract(r, P).signature.failures = kr
                 /\ Subtract(r, P).failures = kr
      <3>1. Subtract(r, P).failures = kr /\ Subtract(r, P).signature = SignatureFor(kr)
        BY <1>2, <1>4, <2>4
      <3> HIDE DEF kr
      <3> QED
        BY <2>2, <3>1
    <2> HIDE DEF kq, kr
    <2> QED
      BY <1>4, <2>1, <2>3, <2>4
  <1> QED
    BY <1>3, <1>4

LEMMA ExhaustionEarned == IInv => ExhaustionIsEarned
  <1> SUFFICES ASSUME IInv, verdict = "EXHAUSTED", attempt < MaxAttempts
               PROVE  /\ attempt > 1
                      /\ rows[1].report.failures = rows[2].report.failures
                      /\ PreExisting = {} => rows[1].report.mode = rows[2].report.mode
                      /\ PreExisting = {} /\ CanList(Cardinality(Red(tree)))
                           => ~Succeeded(rows[1].report)
    BY DEF ExhaustionIsEarned
  <1>1. /\ pc = "done" /\ verdict = Decision(rows, attempt) /\ attempt \in Nat /\ attempt >= 1
        /\ rows \in Seq(Rows) /\ \A i \in DOMAIN rows : RowInv(rows[i])
    BY AttemptsAssumption DEF IInv, VerdictInv, PlaceInv, RowsInv
  <1>2. Len(rows) = 2 /\ rows[2].report.signature = rows[1].report.signature
    BY <1>1, DecisionIs DEF NoProgress
  <1>3. attempt # 1
    BY <1>1, <1>2 DEF IInv, PlaceInv
  <1> DEFINE q == rows[1].raw
             r == rows[2].raw
  <1>4. /\ rows[1].report = Subtract(q, PreExisting) /\ IsRaw(q)
        /\ rows[2].report = Subtract(r, PreExisting) /\ IsRaw(r)
    <2>1. RowInv(rows[1]) /\ RowInv(rows[2])
      BY <1>1, <1>2
    <2> QED
      BY <2>1, ReportsAreRaw DEF RowInv
  <1>5. LastRow = rows[2] /\ ~Succeeded(rows[2].report)
    <2>1. LastRow = rows[2]
      BY <1>2 DEF LastRow, Last
    <2> QED
      BY <1>1, <2>1, DecisionIs DEF LastRow
  <1> HIDE DEF q, r
  <1>6. /\ Subtract(q, PreExisting).failures = Subtract(r, PreExisting).failures
        /\ PreExisting = {} => q.mode = r.mode
    BY <1>2, <1>4, SameSignature
  <1>7. ASSUME PreExisting = {}
        PROVE  rows[1].report = q /\ rows[2].report = r
    BY <1>4, <1>7, SubtractWhat
  <1>8. ASSUME PreExisting = {}, CanList(Cardinality(Red(tree))), Succeeded(rows[1].report)
        PROVE  FALSE
    <2>1. /\ q.mode = "ran" /\ q.failed = 0 /\ r.mode = "ran" /\ q.signature = r.signature
          /\ r.failed # 0
      BY <1>2, <1>5, <1>6, <1>7, <1>8 DEF Succeeded
    <2>2. PICK C \in SUBSET Tests : Reads(q, C)
      BY <1>4, <2>1, UnfinishedWhat DEF IsRaw
    <2>3. q.signature = SignatureFor({})
      <3>1. Cardinality(C) = 0 /\ IsFiniteSet(C)
        BY <2>1, <2>2, ReadsWhat, ConstantsAssumption, FS_Subset
      <3>2. C = {}
        BY <3>1, FS_EmptySet
      <3> QED
        BY <2>2, <3>2, ReadsWhat
    <2>4. TailKept >= 2 /\ TailKept \in Nat
      BY <1>8, RedIsFinite, TailIsKept
    <2>5. \E D \in SUBSET Red(tree) : Reads(r, D)
      BY <1>1, <1>5, <2>1, <2>4, VerdictIsAbout DEF r
    <2>6. PICK D \in SUBSET Red(tree) : Reads(r, D)
      BY <2>5
    <2>7. D \in SUBSET Tests /\ D # {}
      <3>1. D \in SUBSET Tests
        BY RedIsFinite
      <3> QED
        BY <2>1, <2>6, <3>1, ReadsWhat, FS_EmptySet
    <2>8. CanList(Cardinality(D))
      <3>1. Cardinality(D) <= Cardinality(Red(tree)) /\ Cardinality(D) \in Nat
        BY RedIsFinite, FS_Subset, FS_CardinalityType
      <3>2. Cardinality(Red(tree)) \in Nat /\ MaxItems \in Nat /\ MaxLines - MaxLines \div 2 \in Nat
        BY RedIsFinite, ConstantsAssumption, TailIsKept DEF TailKept
      <3> QED
        BY <1>8, <3>1, <3>2 DEF CanList
    <2>9. r.signature.failures # {}
      BY <2>6, <2>7, <2>8, ReadsWhat
    <2> QED
      BY <2>1, <2>3, <2>9 DEF SignatureFor
  <1> QED
    BY <1>1, <1>3, <1>4, <1>6, <1>7, <1>8

\* The variables have their types.
LEMMA Typed == IInv => TypeOK
  <1> SUFFICES ASSUME IInv
               PROVE  TypeOK
    OBVIOUS
  <1>1. /\ tree \in Trees /\ origin \in Trees /\ targets \in SUBSET Tests
        /\ attempt \in 1..MaxAttempts
        /\ pc \in {"baseline", "edit", "test", "confirm", "retryedit", "done"}
        /\ verdict \in {"none", "SUCCEEDED", "EXHAUSTED", "RETRY"}
        /\ rows \in Seq(Rows) /\ Len(rows) <= 2 /\ \A i \in DOMAIN rows : RowInv(rows[i])
    BY DEF IInv, PlaceInv, VerdictInv, RowsInv
  <1>2. baseline \in Reports
    <2>1. CASE pc = "baseline"
      <3>1. {} \in SUBSET Tests /\ <<>> \in [{} -> Exceptions]
        OBVIOUS
      <3>2. Reads(baseline, {})
        BY <2>1, <3>1, SuiteIsParsed DEF IInv, BaselineInv
      <3> QED
        BY <3>1, <3>2, ReadsWhat
    <2>2. CASE pc # "baseline"
      <3>1. IsRaw(baseline)
        <4>1. {} \in SUBSET Tests
          OBVIOUS
        <4> QED
          BY <1>1, <2>2, <4>1, ReportsAreRaw DEF IInv, BaselineInv
      <3> QED
        BY <3>1, SubtractWhat
    <2> QED
      BY <2>1, <2>2
  <1>3. ASSUME NEW i \in DOMAIN rows
        PROVE  rows[i] \in Rows /\ Cardinality(rows[i].report.failures) <= MaxItems
    <2>1. rows[i].report = Subtract(rows[i].raw, PreExisting) /\ IsRaw(rows[i].raw)
      BY <1>1, ReportsAreRaw DEF RowInv
    <2>2. Cardinality(Subtract(rows[i].raw, PreExisting).failures) <= MaxItems
      BY <2>1, SubtractWhat
    <2> QED
      BY <1>1, <2>1, <2>2
  <1> QED
    BY <1>1, <1>2, <1>3 DEF TypeOK, Rows

-----------------------------------------------------------------------------
\* A green verdict hands over a tree in which nothing is red that was not red before.
THEOREM GreenIsTrue == Spec => []GreenIsClean
  <1>1. Init => IInv
    BY InitIInv
  <1>2. IInv /\ [Next]_vars => IInv'
    BY Inductive
  <1>3. IInv => GreenIsClean
    BY GreenClean
  <1> QED
    BY <1>1, <1>2, <1>3, PTL DEF Spec

\* A red verdict on a run that finished is about a test that was not red before.
THEOREM RedIsTrue == Spec => []RedIsDeserved
  <1>1. Init => IInv
    BY InitIInv
  <1>2. IInv /\ [Next]_vars => IInv'
    BY Inductive
  <1>3. IInv => RedIsDeserved
    BY RedDeserved
  <1> QED
    BY <1>1, <1>2, <1>3, PTL DEF Spec

\* The loop stays within its budget and its reports within their form, and it gives up early
\* only after two runs that listed the same failures.
THEOREM BudgetHolds == Spec => []WithinBudget
  <1>1. Init => IInv
    BY InitIInv
  <1>2. IInv /\ [Next]_vars => IInv'
    BY Inductive
  <1>3. IInv => WithinBudget
    BY Typed, ExhaustionEarned DEF WithinBudget
  <1> QED
    BY <1>1, <1>2, <1>3, PTL DEF Spec
=============================================================================
