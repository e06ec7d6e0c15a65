---------------------------- MODULE AnalyticsProofs -----------------------------
(***************************************************************************)
(* The statistics lose no run of their window, unfinished runs take no     *)
(* place in the trend, and anomalies are reported rarely but no spike is   *)
(* missed: for any jobs, clock, lengths of a day and of the window,        *)
(* thresholds, and any number of runs.                                     *)
(***************************************************************************)
EXTENDS Analytics, MaximumFacts

\* The request is a record.
CallShape ==
  call \in [op : Op \cup {"none"}, stage : {"idle", "count", "jobs", "query", "read", "done"},
            job : Job \cup {None}, since : Int, todo : SUBSET Job, result : {call.result}]

\* The window of a request begins no later than the one that is due at any later time.
SinceEarly ==
  /\ call.op = "summary" => call.since <= now - Day
  /\ call.op = "heatmap" => call.since <= now - Days * Day

StartedBefore == \A r \in DOMAIN runs : runs[r].started <= now

\* What GroupByDay finds.
InWindow == {r \in RunsOf(call.job) : runs[r].started >= call.since}
On(d)    == {r \in InWindow : DayOf(runs[r].started) = d}
Grouped  == [d \in {DayOf(runs[r].started) : r \in InWindow} |-> Entry(On(d))]

GroupedStands == call.op = "heatmap" /\ call.stage = "read" => call.result = Grouped

\* What AnomalyRare and SpikeReported say of the runs compared and the verdict.
Rare(rows, flagged) ==
  Threshold[1] > Threshold[2] /\ flagged =>
    Cardinality({r \in rows : Duration(r) >= Duration(Max(rows))})
      * (Threshold[2] * Threshold[2] + Threshold[1] * Threshold[1])
    <= Cardinality(rows) * Threshold[2] * Threshold[2]

Spiking(rows, flagged) ==
  LET before == rows \ {Max(rows)}
  IN  /\ Cardinality(rows) >= MinRuns
      /\ \A q, r \in before : Duration(q) = Duration(r)
      /\ \A r \in before : Duration(r) < Duration(Max(rows))
      /\ Cardinality(rows) * Threshold[2] * Threshold[2]
           > Threshold[2] * Threshold[2] + Threshold[1] * Threshold[1]
      => flagged

\* The runs of a report have ended, so that nothing changes their durations.
ReportsRight ==
  Judged =>
    LET rows == call.result.rows
    IN  /\ rows \subseteq Finished /\ (rows = {} \/ Max(rows) \in rows)
        /\ Rare(rows, call.result.flagged) /\ Spiking(rows, call.result.flagged)

IndInv ==
  /\ TypeOK /\ CallShape /\ SinceEarly /\ StartedBefore /\ GroupedStands
  /\ WindowCovered /\ OpenRunsTakeNoPlace /\ ReportsRight

--------------------------------------------------------------------------------
(* Numbers of rows.                                                        *)

LEMMA DisjointCount ==
  ASSUME NEW S, NEW T, IsFiniteSet(S), IsFiniteSet(T), S \cap T = {}
  PROVE  Cardinality(S \cup T) = Cardinality(S) + Cardinality(T)
<1>1. Cardinality(S \cup T) = Cardinality(S) + Cardinality(T) - Cardinality(S \cap T)
  BY FS_Union
<1>2. Cardinality(S \cap T) = 0
  BY FS_EmptySet
<1>3. Cardinality(S) \in Nat /\ Cardinality(T) \in Nat
  BY FS_CardinalityType
<1> QED BY <1>1, <1>2, <1>3

LEMMA RowsFinite ==
  ASSUME TypeOK, NEW rows, rows \subseteq DOMAIN runs
  PROVE  IsFiniteSet(rows) /\ Cardinality(rows) \in Nat
<1>1. Len(runs) \in Nat /\ DOMAIN runs = 1 .. Len(runs)
  BY DEF TypeOK
<1>2. IsFiniteSet(DOMAIN runs)
  BY <1>1, FS_Interval
<1> QED BY <1>2, FS_Subset, FS_CardinalityType

LEMMA FewerRows ==
  ASSUME TypeOK, NEW rows, rows \subseteq DOMAIN runs, NEW some, some \subseteq rows
  PROVE  Cardinality(some) <= Cardinality(rows)
BY RowsFinite, FS_Subset

\* The counts of the final statuses add up to the rows that have one.
LEMMA CountsFacts ==
  ASSUME TypeOK, NEW rows, rows \subseteq DOMAIN runs
  PROVE  Counts(rows) \in [FinalStatus -> Nat] /\ Sum(Counts(rows)) = Cardinality(Ended(rows))
<1> DEFINE With(s) == {r \in rows : runs[r].status = s}
<1>1. \A s : With(s) \subseteq DOMAIN runs
  OBVIOUS
<1>2. \A s : IsFiniteSet(With(s)) /\ Cardinality(With(s)) \in Nat
  BY <1>1, RowsFinite
<1>3. \A s \in FinalStatus : Counts(rows)[s] = Cardinality(With(s))
  BY DEF Counts
<1>4. Counts(rows) \in [FinalStatus -> Nat]
  BY <1>2 DEF Counts
<1>5. Ended(rows) = (With("success") \cup With("failed")) \cup With("timeout")
  BY DEF Ended, FinalStatus
<1>6. /\ With("success") \cap With("failed") = {}
      /\ (With("success") \cup With("failed")) \cap With("timeout") = {}
  OBVIOUS
<1> HIDE DEF With
<1>7. Cardinality(With("success") \cup With("failed"))
        = Cardinality(With("success")) + Cardinality(With("failed"))
  BY <1>2, <1>6, DisjointCount
<1>8. IsFiniteSet(With("success") \cup With("failed"))
  BY <1>2, FS_Union
<1>9. Cardinality((With("success") \cup With("failed")) \cup With("timeout"))
        = Cardinality(With("success") \cup With("failed")) + Cardinality(With("timeout"))
  BY <1>2, <1>6, <1>8, DisjointCount
<1>10. Sum(Counts(rows)) = Cardinality(With("success")) + Cardinality(With("failed"))
                             + Cardinality(With("timeout"))
  BY <1>3 DEF Sum, FinalStatus
<1> QED BY <1>4, <1>5, <1>7, <1>9, <1>10

LEMMA EntryFacts ==
  ASSUME TypeOK, NEW rows, rows \subseteq DOMAIN runs
  PROVE  Entry(rows) \in EntryType
<1>1. Counts(rows) \in [FinalStatus -> Nat] /\ Cardinality(rows) \in Nat
  BY CountsFacts, RowsFinite
<1> QED BY <1>1 DEF Entry, EntryType

--------------------------------------------------------------------------------
(* Days.                                                                   *)

\* Time is divided into days.
LEMMA DayFacts ==
  ASSUME NEW a \in Int
  PROVE  DayOf(a) \in Int /\ Day * DayOf(a) <= a /\ a < Day * DayOf(a) + Day
<1>1. Day \in Nat /\ Day > 0
  BY WindowAssumption
<1>2. a \div Day \in Int /\ Day * (a \div Day) <= a /\ a < Day * (a \div Day) + Day
  BY <1>1
<1> QED BY <1>2 DEF DayOf

\* A whole number of days lies in a day no earlier.
LEMMA DayAfter ==
  ASSUME NEW a \in Int, NEW k \in Int, Day * k <= a
  PROVE  k <= DayOf(a)
<1>1. Day \in Nat /\ Day > 0
  BY WindowAssumption
<1>2. PICK q \in Int : q = DayOf(a) /\ a < Day * q + Day
  BY DayFacts
<1>3. SUFFICES ASSUME q + 1 <= k PROVE FALSE
  BY <1>2
<1>4. PICK m \in Nat : k = q + 1 + m
  BY <1>3
<1>5. Day * k = Day * q + Day + Day * m /\ Day * m >= 0
  BY <1>1, <1>4
<1>6. Day * q \in Int /\ Day * m \in Int
  BY <1>1
<1> QED BY <1>1, <1>2, <1>5, <1>6

\* What started within the last Days days did so on one of the days counted.
LEMMA InHeatmap ==
  ASSUME NEW a \in Int, a <= now, now - Days * Day <= a, now \in Int
  PROVE  DayOf(a) \in HeatmapDays(DayOf(now))
<1>1. Day \in Nat /\ Day > 0 /\ Days \in Nat
  BY WindowAssumption
<1>2. /\ DayOf(a) \in Int /\ Day * DayOf(a) <= a
      /\ DayOf(now) \in Int /\ Day * DayOf(now) <= now
  BY DayFacts
<1>3. DayOf(a) <= DayOf(now)
  <2>1. Day * DayOf(a) \in Int
    BY <1>1, <1>2
  <2>2. Day * DayOf(a) <= now
    BY <1>2, <2>1
  <2> QED BY <1>2, <2>2, DayAfter
<1>4. DayOf(now) - Days <= DayOf(a)
  <2>1. PICK q \in Int : q = DayOf(now) /\ Day * q <= now
    BY <1>2
  <2>2. Day * (q - Days) = Day * q - Days * Day
    BY <1>1
  <2>3. Day * q \in Int /\ Days * Day \in Int
    BY <1>1
  <2>4. Day * (q - Days) <= a
    BY <2>1, <2>2, <2>3
  <2>5. q - Days <= DayOf(a)
    BY <1>1, <2>4, DayAfter
  <2> QED BY <2>1, <2>5
<1> QED BY <1>1, <1>2, <1>3, <1>4 DEF HeatmapDays
--------------------------------------------------------------------------------
\* Of some numbers, those with fewer than k above them are the k largest, unless they
\* are all.
LEMMA LargestFacts ==
  ASSUME NEW F, F \subseteq Nat, IsFiniteSet(F), NEW k \in Nat \ {0},
         NEW r \in F, ~ (Cardinality({q \in F : q > r}) < k)
  PROVE  LET top == {t \in F : Cardinality({q \in F : q > t}) < k}
         IN  Cardinality(top) = k /\ \A q \in top : q > r
<1> DEFINE Above(t) == {q \in F : q > t}
           top == {t \in F : Cardinality(Above(t)) < k}
           low == F \ top
<1>1. ASSUME NEW t \in F, NEW u \in F, t <= u
      PROVE  Cardinality(Above(u)) <= Cardinality(Above(t))
  <2>1. t \in Nat /\ u \in Nat /\ t <= u
    BY <1>1
  <2>2. \A q \in F : q > u => q > t
    <3> TAKE q \in F
    <3>1. q \in Nat
      OBVIOUS
    <3> QED BY <2>1, <3>1
  <2>3. Above(u) \in SUBSET Above(t)
    BY <2>2
  <2>4. Above(t) \in SUBSET F
    OBVIOUS
  <2> HIDE DEF Above
  <2> QED BY <2>3, <2>4, FS_Subset
<1>2. \A t : IsFiniteSet(Above(t)) /\ Cardinality(Above(t)) \in Nat
  <2> TAKE t
  <2>1. Above(t) \in SUBSET F
    OBVIOUS
  <2> HIDE DEF Above
  <2> QED BY <2>1, FS_Subset, FS_CardinalityType
<1>3. ASSUME NEW t \in low, NEW q \in top PROVE q > t
  <2>1. t \in F /\ q \in F /\ t \in Nat /\ q \in Nat
    OBVIOUS
  <2>2. ~ (Cardinality(Above(t)) < k) /\ Cardinality(Above(q)) < k
    OBVIOUS
  <2> HIDE DEF Above, top, low
  <2>3. ~ (q <= t)
    BY <1>1, <1>2, <2>1, <2>2
  <2> QED BY <2>1, <2>3
<1>4. r \in low
  OBVIOUS
<1>5. PICK m \in low : \A t \in low : t <= m
  <2>1. PICK b \in Nat : \A x \in F : x <= b
    BY FiniteBounded
  <2>2. low \subseteq Nat /\ low # {} /\ \A x \in low : x <= b
    BY <1>4, <2>1
  <2> HIDE DEF low
  <2> QED BY <2>1, <2>2, MaxFacts
<1>6. Above(m) = top
  <2>1. \A q \in top : q \in F /\ q > m
    BY <1>3, <1>5
  <2>2. ASSUME NEW q \in F, q > m PROVE q \in top
    <3>1. q \notin low
      BY <1>5, <2>2
    <3> QED BY <3>1
  <2> HIDE DEF top
  <2> QED BY <2>1, <2>2
<1>7. Cardinality(top) >= k /\ Cardinality(top) \in Nat /\ IsFiniteSet(top)
  <2>1. ~ (Cardinality(Above(m)) < k)
    BY <1>5
  <2> HIDE DEF Above, top
  <2> QED BY <1>2, <1>6, <2>1
<1>8. PICK s \in top : \A t \in top : s <= t
  <2>1. top \subseteq Nat
    OBVIOUS
  <2> HIDE DEF top
  <2>2. top # {}
    BY <1>7, FS_EmptySet
  <2> QED BY <2>1, <2>2, LeastFacts
<1>9. Above(s) = top \ {s}
  <2>1. \A q \in top \ {s} : q \in F /\ q > s
    BY <1>8
  <2>2. ASSUME NEW q \in F, q > s PROVE q \in top \ {s}
    <3>1. q \notin low
      <4>1. q \in low => s > q
        BY <1>3, <1>8
      <4> QED BY <2>2, <4>1
    <3> QED BY <2>2, <3>1
  <2>3. \A q \in Above(s) : q \in F /\ q > s
    OBVIOUS
  <2>4. \A q \in F : q > s => q \in Above(s)
    OBVIOUS
  <2> HIDE DEF top, Above
  <2> QED BY <2>1, <2>2, <2>3, <2>4
<1>10. Cardinality(top) - 1 < k
  <2>1. Cardinality(Above(s)) < k
    BY <1>8
  <2> HIDE DEF Above, top
  <2>2. Cardinality(top \ {s}) = Cardinality(top) - 1
    BY <1>7, <1>8, FS_RemoveElement
  <2> QED BY <1>9, <2>1, <2>2
<1>11. Cardinality(top) = k
  <2> HIDE DEF top
  <2> QED BY <1>7, <1>10
<1>12. \A q \in top : q > r
  BY <1>3, <1>4
<1> QED BY <1>11, <1>12
--------------------------------------------------------------------------------
(* Sums over finite sets.                                                  *)

\* What holds of 0 and with a number of the next one holds of all.
LEMMA Counting ==
  ASSUME NEW P, 0 \in P, \A n \in Nat : n \in P => n + 1 \in P
  PROVE  Nat \subseteq P
<1> DEFINE T == Nat \ P
<1>1. SUFFICES ASSUME T # {} PROVE FALSE
  OBVIOUS
<1>2. T \subseteq Nat
  OBVIOUS
<1>3. PICK k \in T : \A j \in T : k <= j
  <2> HIDE DEF T
  <2> QED BY <1>1, <1>2, LeastFacts
<1>4. k \in Nat /\ k \notin P /\ k # 0
  OBVIOUS
<1>5. k - 1 \in Nat /\ ~ (k <= k - 1)
  BY <1>4
<1>6. k - 1 \in P
  BY <1>3, <1>5
<1>7. (k - 1) + 1 \in P
  BY <1>5, <1>6
<1> QED BY <1>4, <1>7

\* What holds of a subset if it does of those with one element less holds of all subsets.
LEMMA Shrinking ==
  ASSUME NEW R, IsFiniteSet(R), NEW P,
         \A s \in SUBSET R : (\A x \in s : s \ {x} \in P) => s \in P
  PROVE  SUBSET R \subseteq P
<1> DEFINE N == {n \in Nat : \A s \in SUBSET R : Cardinality(s) = n => s \in P}
<1>1. \A s \in SUBSET R : IsFiniteSet(s) /\ Cardinality(s) \in Nat
  BY FS_Subset, FS_CardinalityType
<1>2. 0 \in N
  <2>1. ASSUME NEW s \in SUBSET R, Cardinality(s) = 0 PROVE s \in P
    <3>1. s = {}
      BY <1>1, <2>1, FS_EmptySet
    <3> QED BY <3>1
  <2> QED BY <2>1
<1>3. ASSUME NEW n \in Nat, n \in N PROVE n + 1 \in N
  <2>1. ASSUME NEW s \in SUBSET R, Cardinality(s) = n + 1 PROVE s \in P
    <3>1. ASSUME NEW x \in s PROVE s \ {x} \in P
      <4>1. Cardinality(s \ {x}) = Cardinality(s) - 1
        BY <1>1, FS_RemoveElement
      <4>2. Cardinality(s \ {x}) = n /\ s \ {x} \in SUBSET R
        BY <2>1, <4>1
      <4> QED BY <1>3, <4>2
    <3> QED BY <3>1
  <2> QED BY <2>1
<1>4. Nat \subseteq N
  <2> HIDE DEF N
  <2> QED BY <1>2, <1>3, Counting
<1> QED BY <1>1, <1>4

First(s) == CHOOSE x \in s : TRUE

\* What MapThenSumSet does, for the sets of a given one.
IsFold(g, R, f) ==
  g = [s \in SUBSET R |-> IF s = {} THEN 0 ELSE f[First(s)] + g[s \ {First(s)}]]

LEMMA FirstFacts ==
  ASSUME NEW s, s # {}
  PROVE  First(s) \in s
BY DEF First

\* It does something: up to any number of elements, and so for all sets.
LEMMA FoldExists ==
  ASSUME NEW R, IsFiniteSet(R), NEW f \in [R -> Int]
  PROVE  \E g : IsFold(g, R, f)
<1> DEFINE Body(g, s) == IF s = {} THEN 0 ELSE f[First(s)] + g[s \ {First(s)}]
           N == {n \in Nat : \E g \in [SUBSET R -> Int] :
                   \A s \in SUBSET R : Cardinality(s) <= n => g[s] = Body(g, s)}
<1>1. \A s \in SUBSET R : IsFiniteSet(s) /\ Cardinality(s) \in Nat
  BY FS_Subset, FS_CardinalityType
<1>2. 0 \in N
  <2>1. PICK g \in [SUBSET R -> Int] : \A s \in SUBSET R : g[s] = 0
    <3>1. [s \in SUBSET R |-> 0] \in [SUBSET R -> Int]
      OBVIOUS
    <3> QED BY <3>1
  <2>2. ASSUME NEW s \in SUBSET R, Cardinality(s) <= 0 PROVE g[s] = Body(g, s)
    <3>1. Cardinality(s) = 0
      BY <1>1, <2>2
    <3>2. s = {}
      BY <1>1, <3>1, FS_EmptySet
    <3> QED BY <2>1, <3>2
  <2> QED BY <2>2
<1>3. ASSUME NEW n \in Nat, n \in N PROVE n + 1 \in N
  <2>1. PICK g \in [SUBSET R -> Int] :
          \A s \in SUBSET R : Cardinality(s) <= n => g[s] = Body(g, s)
    BY <1>3
  <2>2. ASSUME NEW s \in SUBSET R, s # {}
        PROVE  /\ First(s) \in s /\ f[First(s)] \in Int
               /\ s \ {First(s)} \in SUBSET R
               /\ Cardinality(s \ {First(s)}) = Cardinality(s) - 1
    <3>1. First(s) \in s
      BY <2>2, FirstFacts
    <3>2. Cardinality(s \ {First(s)}) = Cardinality(s) - 1
      BY <1>1, <3>1, FS_RemoveElement
    <3> QED BY <3>1, <3>2
  <2>3. PICK h : h = [s \in SUBSET R |-> Body(g, s)]
    OBVIOUS
  <2>4. h \in [SUBSET R -> Int]
    <3>1. ASSUME NEW s \in SUBSET R PROVE Body(g, s) \in Int
      <4>1. CASE s = {}
        BY <4>1
      <4>2. CASE s # {}
        <5>1. f[First(s)] \in Int /\ g[s \ {First(s)}] \in Int
          BY <2>2, <4>2
        <5> QED BY <4>2, <5>1
      <4> QED BY <4>1, <4>2
    <3> HIDE DEF Body
    <3> QED BY <2>3, <3>1
  <2>5. ASSUME NEW s \in SUBSET R, Cardinality(s) <= n + 1 PROVE h[s] = Body(h, s)
    <3>1. h[s] = Body(g, s)
      BY <2>3
    <3>2. CASE s = {}
      BY <3>1, <3>2
    <3>3. CASE s # {}
      <4> DEFINE t == s \ {First(s)}
      <4>1. t \in SUBSET R /\ Cardinality(t) <= n
        BY <1>1, <2>2, <2>5, <3>3
      <4> HIDE DEF t
      <4>2. g[t] = Body(g, t) /\ h[t] = Body(g, t)
        BY <2>1, <2>3, <4>1
      <4> QED BY <3>1, <3>3, <4>2 DEF t
    <3> QED BY <3>2, <3>3
  <2> QED BY <2>4, <2>5
<1>4. Cardinality(R) \in N
  <2>1. Nat \subseteq N
    <3> HIDE DEF N
    <3> QED BY <1>2, <1>3, Counting
  <2> QED BY <1>1, <2>1
<1>5. PICK g \in [SUBSET R -> Int] :
        \A s \in SUBSET R : Cardinality(s) <= Cardinality(R) => g[s] = Body(g, s)
  BY <1>4
<1>6. \A s \in SUBSET R : Cardinality(s) <= Cardinality(R)
  BY FS_Subset
<1>7. \A s \in SUBSET R : g[s] = Body(g, s)
  BY <1>5, <1>6
<1>8. g = [s \in SUBSET R |-> Body(g, s)]
  <2> HIDE DEF Body
  <2> QED BY <1>7
<1> QED BY <1>8 DEF IsFold

\* It adds: the order in which elements are taken does not matter.
Sums(R, f) ==
  {g \in [SUBSET R -> Int] : /\ g[{}] = 0
                             /\ \A s \in SUBSET R : \A x \in s : g[s] = f[x] + g[s \ {x}]}

LEMMA FoldAdds ==
  ASSUME NEW R, IsFiniteSet(R), NEW f \in [R -> Int], NEW g, IsFold(g, R, f)
  PROVE  g \in Sums(R, f)
<1>1. /\ DOMAIN g = SUBSET R /\ g[{}] = 0
      /\ \A s \in SUBSET R : s # {} => g[s] = f[First(s)] + g[s \ {First(s)}]
  <2>1. DOMAIN g = SUBSET R
    BY Zenon DEF IsFold
  <2>2. \A s \in SUBSET R : g[s] = IF s = {} THEN 0 ELSE f[First(s)] + g[s \ {First(s)}]
    BY Zenon DEF IsFold
  <2> QED BY <2>1, <2>2
<1>2. ASSUME NEW s \in SUBSET R, s # {}
      PROVE  First(s) \in s /\ f[First(s)] \in Int /\ s \ {First(s)} \in SUBSET R
  BY <1>2, FirstFacts
<1>3. \A s \in SUBSET R : g[s] \in Int
  <2> DEFINE P == {s \in SUBSET R : g[s] \in Int}
  <2>1. ASSUME NEW s \in SUBSET R, \A x \in s : s \ {x} \in P PROVE s \in P
    <3>1. CASE s = {}
      BY <1>1, <3>1
    <3>2. CASE s # {}
      <4>1. g[s \ {First(s)}] \in Int
        BY <1>2, <2>1, <3>2
      <4>2. g[s] = f[First(s)] + g[s \ {First(s)}]
        BY <1>1, <3>2
      <4> QED BY <1>2, <3>2, <4>1, <4>2
    <3> QED BY <3>1, <3>2
  <2>2. SUBSET R \subseteq P
    <3> HIDE DEF P
    <3> QED BY <2>1, Shrinking
  <2> QED BY <2>2
<1>4. \A s \in SUBSET R : \A x \in s : g[s] = f[x] + g[s \ {x}]
  <2> DEFINE P == {s \in SUBSET R : \A x \in s : g[s] = f[x] + g[s \ {x}]}
  <2>1. ASSUME NEW s \in SUBSET R, \A x \in s : s \ {x} \in P, NEW x \in s
        PROVE  g[s] = f[x] + g[s \ {x}]
    <3>1. PICK c \in s : c = First(s)
      BY <1>2
    <3>2. g[s] = f[c] + g[s \ {c}]
      BY <1>1, <3>1
    <3>3. CASE c = x
      BY <3>2, <3>3
    <3>4. CASE c # x
      <4>1. x \in s \ {c} /\ c \in s \ {x}
        BY <3>4
      <4>2. g[s \ {c}] = f[x] + g[(s \ {c}) \ {x}]
        BY <2>1, <4>1
      <4>3. g[s \ {x}] = f[c] + g[(s \ {x}) \ {c}]
        BY <2>1, <4>1
      <4>4. (s \ {c}) \ {x} = (s \ {x}) \ {c}
        OBVIOUS
      <4>5. PICK t \in SUBSET R : t = (s \ {c}) \ {x}
        OBVIOUS
      <4>6. g[s] = f[c] + (f[x] + g[t]) /\ g[s \ {x}] = f[c] + g[t]
        BY <3>2, <4>2, <4>3, <4>4, <4>5, Zenon
      <4>7. f[c] \in Int /\ f[x] \in Int /\ g[t] \in Int
        BY <1>3
      <4> QED BY <4>6, <4>7
    <3> QED BY <3>3, <3>4
  <2>2. ASSUME NEW s \in SUBSET R, \A x \in s : s \ {x} \in P PROVE s \in P
    BY <2>1, <2>2, Zenon
  <2>3. SUBSET R \subseteq P
    <3> HIDE DEF P
    <3> QED BY <2>2, Shrinking
  <2> QED BY <2>3
<1>5. g \in [SUBSET R -> Int]
  <2>1. g = [s \in SUBSET R |-> g[s]]
    BY <1>1, Zenon DEF IsFold
  <2> QED BY <1>3, <2>1
<1> QED BY <1>1, <1>4, <1>5 DEF Sums

--------------------------------------------------------------------------------
(* Inequalities of sums: g adds the numbers f, h their squares.             *)

Squared(R, f) == [x \in R |-> f[x] * f[x]]

LEMMA SquaredFacts ==
  ASSUME NEW R, NEW f \in [R -> Int]
  PROVE  \E q \in [R -> Int] : q = Squared(R, f) /\ \A x \in R : q[x] = f[x] * f[x]
<1>1. PICK q : q = Squared(R, f)
  OBVIOUS
<1>2. \A x \in R : f[x] * f[x] \in Int
  OBVIOUS
<1>3. q \in [R -> Int]
  BY <1>1, <1>2 DEF Squared
<1>4. \A x \in R : q[x] = f[x] * f[x]
  BY <1>1 DEF Squared
<1> QED BY <1>1, <1>3, <1>4

LEMMA SizeFacts ==
  ASSUME NEW R, IsFiniteSet(R), NEW s \in SUBSET R
  PROVE  /\ Cardinality(s) \in Nat
         /\ \A x \in s : Cardinality(s) = Cardinality(s \ {x}) + 1
         /\ s = {} => Cardinality(s) = 0
<1>1. IsFiniteSet(s)
  BY FS_Subset
<1>2. Cardinality(s) \in Nat
  BY <1>1, FS_CardinalityType
<1>3. \A x \in s : Cardinality(s \ {x}) = Cardinality(s) - 1
  BY <1>1, FS_RemoveElement
<1> QED BY <1>2, <1>3, FS_EmptySet

\* Numbers that are at least L sum up to at least L for each.
LEMMA SumAtLeast ==
  ASSUME NEW R, IsFiniteSet(R), NEW f \in [R -> Int], NEW g \in Sums(R, f), NEW L \in Int
  PROVE  \A s \in SUBSET R : (\A x \in s : f[x] >= L) => g[s] >= L * Cardinality(s)
<1> DEFINE P == {s \in SUBSET R : (\A x \in s : f[x] >= L) => g[s] >= L * Cardinality(s)}
<1>1. ASSUME NEW s \in SUBSET R, \A x \in s : s \ {x} \in P, \A x \in s : f[x] >= L
      PROVE  g[s] >= L * Cardinality(s)
  <2>1. CASE s = {}
    BY <2>1, SizeFacts DEF Sums
  <2>2. CASE s # {}
    <3>1. PICK x \in s : TRUE
      BY <2>2
    <3>2. g[s] = f[x] + g[s \ {x}] /\ g[s \ {x}] \in Int /\ f[x] \in Int
      BY <3>1 DEF Sums
    <3>3. g[s \ {x}] >= L * Cardinality(s \ {x}) /\ f[x] >= L
      BY <1>1, <3>1
    <3>4. PICK n \in Nat : n = Cardinality(s \ {x}) /\ Cardinality(s) = n + 1
      BY <3>1, SizeFacts
    <3>5. L * (n + 1) = L * n + L /\ L * n \in Int
      OBVIOUS
    <3> QED BY <3>2, <3>3, <3>4, <3>5
  <2> QED BY <2>1, <2>2
<1>2. ASSUME NEW s \in SUBSET R, \A x \in s : s \ {x} \in P PROVE s \in P
  BY <1>1, <1>2, Zenon
<1>3. SUBSET R \subseteq P
  <2> HIDE DEF P
  <2> QED BY <1>2, Shrinking
<1> QED BY <1>3

\* Equal numbers sum up to a multiple.
LEMMA SumConstant ==
  ASSUME NEW R, IsFiniteSet(R), NEW f \in [R -> Int], NEW g \in Sums(R, f), NEW d \in Int
  PROVE  \A s \in SUBSET R : (\A x \in s : f[x] = d) => g[s] = d * Cardinality(s)
<1> DEFINE P == {s \in SUBSET R : (\A x \in s : f[x] = d) => g[s] = d * Cardinality(s)}
<1>1. ASSUME NEW s \in SUBSET R, \A x \in s : s \ {x} \in P, \A x \in s : f[x] = d
      PROVE  g[s] = d * Cardinality(s)
  <2>1. CASE s = {}
    BY <2>1, SizeFacts DEF Sums
  <2>2. CASE s # {}
    <3>1. PICK x \in s : TRUE
      BY <2>2
    <3>2. g[s] = f[x] + g[s \ {x}]
      BY <3>1 DEF Sums
    <3>3. g[s \ {x}] = d * Cardinality(s \ {x}) /\ f[x] = d
      BY <1>1, <3>1
    <3>4. PICK n \in Nat : n = Cardinality(s \ {x}) /\ Cardinality(s) = n + 1
      BY <3>1, SizeFacts
    <3>5. d * (n + 1) = d + d * n
      OBVIOUS
    <3> QED BY <3>2, <3>3, <3>4, <3>5
  <2> QED BY <2>1, <2>2
<1>2. ASSUME NEW s \in SUBSET R, \A x \in s : s \ {x} \in P PROVE s \in P
  BY <1>1, <1>2, Zenon
<1>3. SUBSET R \subseteq P
  <2> HIDE DEF P
  <2> QED BY <1>2, Shrinking
<1> QED BY <1>3

\* The sum of a set is that of a part and that of the rest.
LEMMA SumSplit ==
  ASSUME NEW R, IsFiniteSet(R), NEW f \in [R -> Int], NEW g \in Sums(R, f)
  PROVE  \A s \in SUBSET R : \A t \in SUBSET s : g[s] = g[t] + g[s \ t]
<1> DEFINE P == {s \in SUBSET R : \A t \in SUBSET s : g[s] = g[t] + g[s \ t]}
<1>0. \A s \in SUBSET R : g[s] \in Int
  BY DEF Sums
<1>1. ASSUME NEW s \in SUBSET R, \A x \in s : s \ {x} \in P, NEW t \in SUBSET s
      PROVE  g[s] = g[t] + g[s \ t]
  <2>1. CASE s \ t = {}
    <3>1. s = t /\ g[s \ t] = 0
      BY <2>1 DEF Sums
    <3> QED BY <1>0, <3>1
  <2>2. CASE s \ t # {}
    <3>1. PICK x \in s \ t : TRUE
      BY <2>2
    <3>2. g[s] = f[x] + g[s \ {x}] /\ f[x] \in Int
      BY <3>1 DEF Sums
    <3>3. g[s \ {x}] = g[t] + g[(s \ {x}) \ t]
      BY <1>1, <3>1
    <3>4. g[s \ t] = f[x] + g[(s \ t) \ {x}]
      BY <3>1 DEF Sums
    <3>5. (s \ {x}) \ t = (s \ t) \ {x}
      OBVIOUS
    <3>6. PICK u \in SUBSET R : u = (s \ t) \ {x}
      OBVIOUS
    <3>7. g[s] = f[x] + (g[t] + g[u]) /\ g[s \ t] = f[x] + g[u]
      BY <3>2, <3>3, <3>4, <3>5, <3>6, Zenon
    <3>8. g[t] \in Int /\ g[u] \in Int
      BY <1>0
    <3> QED BY <3>2, <3>7, <3>8
  <2> QED BY <2>1, <2>2
<1>2. ASSUME NEW s \in SUBSET R, \A x \in s : s \ {x} \in P PROVE s \in P
  BY <1>1, <1>2, Zenon
<1>3. SUBSET R \subseteq P
  <2> HIDE DEF P
  <2> QED BY <1>2, Shrinking
<1> QED BY <1>3

\* A square is not negative.
LEMMA SquareFacts == \A a \in Int : a * a >= 0
OBVIOUS

\* The sum of squares with one number more.
LEMMA OneMore ==
  ASSUME NEW R, NEW f \in [R -> Int], NEW h \in Sums(R, Squared(R, f))
  PROVE  \A s \in SUBSET R : \A x \in s :
           h[s] = f[x] * f[x] + h[s \ {x}] /\ h[s \ {x}] \in Int
<1> TAKE s \in SUBSET R
<1> TAKE x \in s
<1>1. PICK q : q = Squared(R, f)
  OBVIOUS
<1>2. q[x] = f[x] * f[x]
  BY <1>1 DEF Squared
<1>3. h[s] = q[x] + h[s \ {x}] /\ h[s \ {x}] \in Int
  BY <1>1 DEF Sums
<1> QED BY <1>2, <1>3

\* The squares of the distances from any number are not negative.
LEMMA DistancesSquared ==
  ASSUME NEW R, IsFiniteSet(R), NEW f \in [R -> Int], NEW g \in Sums(R, f),
         NEW h \in Sums(R, Squared(R, f)), NEW d \in Int
  PROVE  \A s \in SUBSET R : h[s] - 2 * d * g[s] + Cardinality(s) * d * d >= 0
<1> DEFINE P == {s \in SUBSET R : h[s] - 2 * d * g[s] + Cardinality(s) * d * d >= 0}
<1>0. \A s \in SUBSET R : \A x \in s :
        h[s] = f[x] * f[x] + h[s \ {x}] /\ h[s \ {x}] \in Int
  BY OneMore
<1>1. ASSUME NEW s \in SUBSET R, \A x \in s : s \ {x} \in P
      PROVE  h[s] - 2 * d * g[s] + Cardinality(s) * d * d >= 0
  <2>1. CASE s = {}
    <3>1. g[s] = 0 /\ h[s] = 0 /\ Cardinality(s) = 0
      BY <2>1, SizeFacts DEF Sums
    <3> QED BY <3>1
  <2>2. CASE s # {}
    <3>1. PICK x \in s : TRUE
      BY <2>2
    <3>2. PICK a \in Int, S \in Int, Q \in Int :
            /\ a = f[x] /\ S = g[s \ {x}] /\ Q = h[s \ {x}]
            /\ g[s] = a + S /\ h[s] = a * a + Q
      <4>1. f[x] \in Int /\ g[s \ {x}] \in Int /\ g[s] = f[x] + g[s \ {x}]
        BY <3>1 DEF Sums
      <4> QED BY <1>0, <4>1
    <3>3. PICK n \in Nat : n = Cardinality(s \ {x}) /\ Cardinality(s) = n + 1
      BY <3>1, SizeFacts
    <3>4. Q - 2 * d * S + n * d * d >= 0
      BY <1>1, <3>1, <3>2, <3>3
    <3>5. (a - d) * (a - d) >= 0
      BY SquareFacts
    <3>6. (a * a + Q) - 2 * d * (a + S) + (n + 1) * d * d
            = (Q - 2 * d * S + n * d * d) + (a - d) * (a - d)
      OBVIOUS
    <3>7. (a * a + Q) - 2 * d * (a + S) + (n + 1) * d * d >= 0
      BY <3>4, <3>5, <3>6
    <3> QED BY <3>2, <3>3, <3>7
  <2> QED BY <2>1, <2>2
<1>2. ASSUME NEW s \in SUBSET R, \A x \in s : s \ {x} \in P PROVE s \in P
  BY <1>1, <1>2, Zenon
<1>3. SUBSET R \subseteq P
  <2> HIDE DEF P
  <2> QED BY <1>2, Shrinking
<1> QED BY <1>3

\* The variance of some numbers is not negative.
LEMMA SpreadOfSums ==
  ASSUME NEW R, IsFiniteSet(R), NEW f \in [R -> Int], NEW g \in Sums(R, f),
         NEW h \in Sums(R, Squared(R, f))
  PROVE  \A s \in SUBSET R : Cardinality(s) * h[s] >= g[s] * g[s]
<1> DEFINE P == {s \in SUBSET R : Cardinality(s) * h[s] >= g[s] * g[s]}
<1>0. \A s \in SUBSET R : \A x \in s :
        h[s] = f[x] * f[x] + h[s \ {x}] /\ h[s \ {x}] \in Int
  BY OneMore
<1>1. ASSUME NEW s \in SUBSET R, \A x \in s : s \ {x} \in P
      PROVE  Cardinality(s) * h[s] >= g[s] * g[s]
  <2>1. CASE s = {}
    <3>1. g[s] = 0 /\ h[s] = 0 /\ Cardinality(s) = 0
      BY <2>1, SizeFacts DEF Sums
    <3> QED BY <3>1
  <2>2. CASE s # {}
    <3>1. PICK x \in s : TRUE
      BY <2>2
    <3>2. PICK a \in Int, S \in Int, Q \in Int :
            /\ a = f[x] /\ S = g[s \ {x}] /\ Q = h[s \ {x}]
            /\ g[s] = a + S /\ h[s] = a * a + Q
      <4>1. f[x] \in Int /\ g[s \ {x}] \in Int /\ g[s] = f[x] + g[s \ {x}]
        BY <3>1 DEF Sums
      <4> QED BY <1>0, <4>1
    <3>3. PICK n \in Nat : n = Cardinality(s \ {x}) /\ Cardinality(s) = n + 1
      BY <3>1, SizeFacts
    <3>4. n * Q >= S * S
      BY <1>1, <3>1, <3>2, <3>3
    <3>5. Q - 2 * a * S + n * a * a >= 0
      BY <3>1, <3>2, <3>3, DistancesSquared
    <3>6. (n + 1) * (a * a + Q) - (a + S) * (a + S) = (n * Q - S * S) + (Q - 2 * a * S + n * a * a)
      OBVIOUS
    <3>7. (n + 1) * (a * a + Q) >= (a + S) * (a + S)
      <4>1. PICK u \in Int, v \in Int, w \in Int :
              /\ u = (n + 1) * (a * a + Q) /\ v = (a + S) * (a + S) /\ w = Q - 2 * a * S + n * a * a
        OBVIOUS
      <4>2. PICK y \in Int, z \in Int : y = n * Q /\ z = S * S
        OBVIOUS
      <4>3. u - v = (y - z) + w /\ y >= z /\ w >= 0
        BY <3>4, <3>5, <3>6, <4>1, <4>2
      <4>4. u >= v
        BY <4>3
      <4> QED BY <4>1, <4>4
    <3> QED BY <3>2, <3>3, <3>7
  <2> QED BY <2>1, <2>2
<1>2. ASSUME NEW s \in SUBSET R, \A x \in s : s \ {x} \in P PROVE s \in P
  BY <1>1, <1>2, Zenon
<1>3. SUBSET R \subseteq P
  <2> HIDE DEF P
  <2> QED BY <1>2, Shrinking
<1> QED BY <1>3

\* Cantelli's inequality for m numbers that are at least L, of m + k in all: TA and QA are
\* the sum and the sum of squares of the former, TB and QB of the latter.
LEMMA Cantelli ==
  ASSUME NEW m \in Nat \ {0}, NEW k \in Nat, NEW L \in Int,
         NEW TA \in Int, NEW TB \in Int, NEW QA \in Int, NEW QB \in Int,
         m * QA >= TA * TA, k * QB >= TB * TB, TA >= L * m,
         (m + k) * L - (TA + TB) > 0
  PROVE  LET lead   == (m + k) * L - (TA + TB)
             spread == (m + k) * (QA + QB) - (TA + TB) * (TA + TB)
         IN  k * spread >= m * (lead * lead)
<1>1. PICK lead \in Int : lead = (m + k) * L - (TA + TB)
  OBVIOUS
<1>2. PICK spread \in Int : spread = (m + k) * (QA + QB) - (TA + TB) * (TA + TB)
  OBVIOUS
<1>3. PICK W \in Int : W = k * TA - m * TB
  OBVIOUS
<1>4. PICK x \in Nat : x = m * QA - TA * TA
  <2>1. PICK u \in Int, v \in Int : u = m * QA /\ v = TA * TA /\ u >= v
    OBVIOUS
  <2> QED BY <2>1
<1>5. PICK y \in Nat : y = k * QB - TB * TB
  <2>1. PICK u \in Int, v \in Int : u = k * QB /\ v = TB * TB /\ u >= v
    OBVIOUS
  <2> QED BY <2>1
<1>6. PICK e \in Nat : TA = L * m + e
  <2>1. PICK u \in Int : u = L * m
    OBVIOUS
  <2>2. TA - u \in Nat
    BY <2>1
  <2> QED BY <2>1, <2>2
<1>7. W = m * lead + (m + k) * e
  BY <1>1, <1>3, <1>6
<1>8. m * (k * spread) = W * W + (m + k) * (k * x + m * y)
  BY <1>2, <1>3, <1>4, <1>5
<1>9. m * lead >= 0 /\ (m + k) * e >= 0
  BY <1>1
<1>10. W * W >= (m * lead) * (m * lead)
  BY <1>7, <1>9
<1>11. (m + k) * (k * x + m * y) >= 0
  OBVIOUS
<1>12. m * (k * spread) >= m * (m * (lead * lead))
  BY <1>8, <1>10, <1>11
<1>13. k * spread >= m * (lead * lead)
  BY <1>12
<1> QED BY <1>1, <1>2, <1>13

--------------------------------------------------------------------------------
(* Verdicts.                                                               *)

\* Total adds the durations, Squares their squares.
LEMMA TotalFacts ==
  ASSUME NEW rows, IsFiniteSet(rows), NEW f \in [rows -> Int],
         \A r \in rows : f[r] = Duration(r)
  PROVE  \E g \in Sums(rows, f) : Total(rows) = g[rows]
<1> DEFINE Body(g) == [s \in SUBSET rows |->
                        IF s = {} THEN 0 ELSE Duration(First(s)) + g[s \ {First(s)}]]
           sum == CHOOSE g : g = Body(g)
<1>1. Total(rows) = sum[rows]
  BY Zenon DEF Total, MapThenSumSet, MapThenFoldSet, First
<1>2. ASSUME NEW g PROVE IsFold(g, rows, f) <=> g = Body(g)
  <2>1. \A s \in SUBSET rows : s # {} => f[First(s)] = Duration(First(s))
    BY FirstFacts
  <2>2. [s \in SUBSET rows |-> IF s = {} THEN 0 ELSE f[First(s)] + g[s \ {First(s)}]] = Body(g)
    BY <2>1
  <2> QED BY <2>2, Zenon DEF IsFold
<1>3. \E g : g = Body(g)
  BY <1>2, FoldExists, Zenon
<1>4. sum = Body(sum)
  <2> HIDE DEF Body
  <2> QED BY <1>3, Zenon
<1> HIDE DEF sum, Body
<1>5. sum \in Sums(rows, f)
  BY <1>2, <1>4, FoldAdds
<1> QED BY <1>1, <1>5

LEMMA SquaresFacts ==
  ASSUME NEW rows, IsFiniteSet(rows), NEW f \in [rows -> Int],
         \A r \in rows : f[r] = Duration(r)
  PROVE  \E h \in Sums(rows, Squared(rows, f)) : Squares(rows) = h[rows]
<1> DEFINE Body(g) == [s \in SUBSET rows |->
                        IF s = {} THEN 0
                        ELSE Duration(First(s)) * Duration(First(s)) + g[s \ {First(s)}]]
           sum == CHOOSE g : g = Body(g)
<1>1. Squares(rows) = sum[rows]
  BY Zenon DEF Squares, MapThenSumSet, MapThenFoldSet, First
<1>2. PICK q \in [rows -> Int] :
        q = Squared(rows, f) /\ \A r \in rows : q[r] = Duration(r) * Duration(r)
  <2>1. PICK q \in [rows -> Int] : q = Squared(rows, f) /\ \A r \in rows : q[r] = f[r] * f[r]
    BY SquaredFacts
  <2> QED BY <2>1
<1>3. ASSUME NEW g PROVE IsFold(g, rows, q) <=> g = Body(g)
  <2>1. \A s \in SUBSET rows : s # {} => q[First(s)] = Duration(First(s)) * Duration(First(s))
    BY <1>2, FirstFacts
  <2>2. [s \in SUBSET rows |-> IF s = {} THEN 0 ELSE q[First(s)] + g[s \ {First(s)}]] = Body(g)
    BY <2>1
  <2> QED BY <2>2, Zenon DEF IsFold
<1>4. \E g : g = Body(g)
  BY <1>3, FoldExists, Zenon
<1>5. sum = Body(sum)
  <2> HIDE DEF Body
  <2> QED BY <1>4, Zenon
<1> HIDE DEF sum, Body
<1>6. sum \in Sums(rows, q)
  BY <1>3, <1>5, FoldAdds
<1> QED BY <1>1, <1>2, <1>6

\* The numbers of AnomalyRare.
LEMMA RareNumbers ==
  ASSUME NEW m \in Nat, NEW k \in Nat, NEW lead \in Int, lead > 0, NEW spread \in Int,
         NEW p \in Nat, NEW q \in Nat,
         k * spread >= m * (lead * lead), q * q * lead * lead >= p * p * spread
  PROVE  m * (q * q + p * p) <= (m + k) * q * q
<1>1. PICK l \in Nat : l = lead * lead /\ l > 0
  <2>1. lead * lead \in Int /\ lead * lead > 0
    OBVIOUS
  <2> QED BY <2>1
<1>2. PICK u \in Nat, v \in Nat : u = q * q /\ v = p * p
  OBVIOUS
<1>3. u * l >= v * spread /\ k * spread >= m * l
  <2>1. q * q * lead * lead = u * l
    BY <1>1, <1>2
  <2> QED BY <1>1, <1>2, <2>1
<1>4. k * (u * l) >= k * (v * spread)
  <2>1. PICK a \in Int, b \in Int : a = u * l /\ b = v * spread
    OBVIOUS
  <2>2. k * a >= k * b
    BY <1>3, <2>1
  <2> QED BY <2>1, <2>2
<1>5. v * (k * spread) >= v * (m * l)
  <2>1. PICK a \in Int, b \in Int : a = k * spread /\ b = m * l
    OBVIOUS
  <2>2. v * a >= v * b
    BY <1>3, <2>1
  <2> QED BY <2>1, <2>2
<1>6. k * (v * spread) = v * (k * spread)
  OBVIOUS
<1>7. (k * u - v * m) * l >= 0
  <2>1. (k * u - v * m) * l = k * (u * l) - v * (m * l)
    OBVIOUS
  <2>2. PICK a \in Int, b \in Int, c \in Int :
          a = k * (u * l) /\ b = v * (m * l) /\ c = k * (v * spread)
    OBVIOUS
  <2>3. a >= c /\ c >= b
    BY <1>4, <1>5, <1>6, <2>2
  <2> QED BY <2>1, <2>2, <2>3
<1>8. k * u - v * m >= 0
  <2>1. PICK a \in Int : a = k * u - v * m
    OBVIOUS
  <2>2. a * l >= 0
    BY <1>7, <2>1
  <2>3. a >= 0
    BY <1>1, <2>2
  <2> QED BY <2>1, <2>3
<1>9. (m + k) * u = m * u + k * u /\ m * (u + v) = m * u + v * m
  OBVIOUS
<1>10. m * (u + v) <= (m + k) * u
  BY <1>8, <1>9
<1>11. (m + k) * q * q = (m + k) * u
  BY <1>2
<1> QED BY <1>2, <1>10, <1>11

\* The numbers of SpikeReported: k durations of d and one more by e.
LEMMA SpikeNumbers ==
  ASSUME NEW k \in Nat \ {0}, NEW d \in Int, NEW e \in Nat \ {0}, NEW p \in Nat, NEW q \in Nat,
         (k + 1) * q * q > q * q + p * p
  PROVE  LET L      == d + e
             lead   == (k + 1) * L - (L + d * k)
             spread == (k + 1) * (L * L + d * d * k) - (L + d * k) * (L + d * k)
         IN  lead > 0 /\ spread > 0 /\ q * q * lead * lead > p * p * spread
<1>1. PICK lead \in Int : lead = (k + 1) * (d + e) - ((d + e) + d * k)
  OBVIOUS
<1>2. PICK spread \in Int :
        spread = (k + 1) * ((d + e) * (d + e) + d * d * k) - ((d + e) + d * k) * ((d + e) + d * k)
  OBVIOUS
<1>3. lead = k * e
  BY <1>1
<1>4. spread = k * (e * e)
  BY <1>2
<1>5. lead > 0
  BY <1>3
<1>6. PICK y \in Nat : y = e * e /\ y > 0
  <2>1. e * e \in Nat /\ e * e > 0
    OBVIOUS
  <2> QED BY <2>1
<1>7. k * y > 0
  BY <1>6
<1>8. PICK u \in Nat, v \in Nat : u = q * q /\ v = p * p
  OBVIOUS
<1>9. k * u - v > 0
  <2>1. (k + 1) * q * q = k * u + u
    BY <1>8
  <2> QED BY <1>8, <2>1
<1>10. q * q * lead * lead - p * p * spread = (k * u - v) * (k * y)
  BY <1>3, <1>4, <1>6, <1>8
<1>11. (k * u - v) * (k * y) > 0
  <2>1. PICK a \in Nat, b \in Nat : a = k * u - v /\ b = k * y /\ a > 0 /\ b > 0
    BY <1>7, <1>9
  <2>2. a * b > 0
    BY <2>1
  <2> QED BY <2>1, <2>2
<1>12. q * q * lead * lead > p * p * spread
  <2>1. PICK a \in Int, b \in Int : a = q * q * lead * lead /\ b = p * p * spread
    OBVIOUS
  <2> QED BY <1>10, <1>11, <2>1
<1>13. spread > 0
  BY <1>4, <1>6, <1>7
<1> QED BY <1>1, <1>2, <1>5, <1>12, <1>13

\* The sums of some runs, as far as the two need them.
LEMMA RunSums ==
  ASSUME NEW rows, IsFiniteSet(rows), \A r \in rows : Duration(r) \in Int
  PROVE  \E f \in [rows -> Int] :
           /\ \A r \in rows : f[r] = Duration(r)
           /\ \E g \in Sums(rows, f) : Total(rows) = g[rows]
           /\ \E h \in Sums(rows, Squared(rows, f)) : Squares(rows) = h[rows]
<1>1. PICK f : f = [r \in rows |-> Duration(r)]
  OBVIOUS
<1>2. f \in [rows -> Int]
  BY <1>1
<1>3. \A r \in rows : f[r] = Duration(r)
  BY <1>1
<1>4. \E g \in Sums(rows, f) : Total(rows) = g[rows]
  BY <1>2, <1>3, TotalFacts
<1>5. \E h \in Sums(rows, Squared(rows, f)) : Squares(rows) = h[rows]
  BY <1>2, <1>3, SquaresFacts
<1> QED BY <1>2, <1>3, <1>4, <1>5

LEMMA ThresholdFacts ==
  Threshold[1] \in Nat \ {0} /\ Threshold[2] \in Nat \ {0}
BY ThresholdAssumption

LEMMA VerdictRare ==
  ASSUME NEW rows, IsFiniteSet(rows), \A r \in rows : Duration(r) \in Int, Max(rows) \in rows,
         NEW flagged \in Verdicts(rows)
  PROVE  Rare(rows, flagged)
<1> SUFFICES ASSUME Threshold[1] > Threshold[2], flagged
             PROVE  Cardinality({r \in rows : Duration(r) >= Duration(Max(rows))})
                      * (Threshold[2] * Threshold[2] + Threshold[1] * Threshold[1])
                    <= Cardinality(rows) * Threshold[2] * Threshold[2]
  BY DEF Rare
<1>1. PICK p \in Nat, q \in Nat : p = Threshold[1] /\ q = Threshold[2] /\ p > q
  BY ThresholdFacts
<1>2. PICK f \in [rows -> Int] :
        /\ \A r \in rows : f[r] = Duration(r)
        /\ \E g \in Sums(rows, f) : Total(rows) = g[rows]
        /\ \E h \in Sums(rows, Squared(rows, f)) : Squares(rows) = h[rows]
  BY RunSums
<1>3. PICK g \in Sums(rows, f) : Total(rows) = g[rows]
  BY <1>2
<1>4. PICK h \in Sums(rows, Squared(rows, f)) : Squares(rows) = h[rows]
  BY <1>2
<1>5. PICK L \in Int : L = Duration(Max(rows))
  OBVIOUS
<1> DEFINE A == {r \in rows : Duration(r) >= Duration(Max(rows))}
           B == rows \ A
<1>6. A \in SUBSET rows /\ B \in SUBSET rows /\ Max(rows) \in A
  BY <1>5
<1>7. \A r \in A : f[r] >= L
  BY <1>2, <1>5
<1>8. A \cup B = rows /\ A \cap B = {}
  OBVIOUS
<1> HIDE DEF A, B
<1>9. IsFiniteSet(A) /\ IsFiniteSet(B)
  BY <1>6, FS_Subset
<1>10. PICK m \in Nat, k \in Nat : m = Cardinality(A) /\ k = Cardinality(B)
  BY <1>9, FS_CardinalityType
<1>11. Cardinality(rows) = m + k
  BY <1>8, <1>9, <1>10, DisjointCount
<1>12. m # 0
  BY <1>6, <1>9, <1>10, FS_EmptySet
<1>13. PICK TA \in Int, TB \in Int : TA = g[A] /\ TB = g[B]
  BY <1>6 DEF Sums
<1>14. PICK QA \in Int, QB \in Int : QA = h[A] /\ QB = h[B]
  BY <1>6 DEF Sums
<1>15. Total(rows) = TA + TB
  <2>1. g[rows] = g[A] + g[rows \ A]
    BY <1>6, SumSplit
  <2> QED BY <1>3, <1>13, <2>1 DEF B
<1>16. Squares(rows) = QA + QB
  <2>1. PICK s \in [rows -> Int] : s = Squared(rows, f)
    BY SquaredFacts
  <2>2. h \in Sums(rows, s)
    BY <2>1
  <2>3. h[rows] = h[A] + h[rows \ A]
    BY <1>6, <2>2, SumSplit
  <2> QED BY <1>4, <1>14, <2>3 DEF B
<1>17. TA >= L * m
  BY <1>6, <1>7, <1>10, <1>13, SumAtLeast
<1>18. m * QA >= TA * TA /\ k * QB >= TB * TB
  BY <1>6, <1>10, <1>13, <1>14, SpreadOfSums
<1>19. PICK lead \in Int : lead = (m + k) * L - (TA + TB) /\ lead = Lead(rows)
  BY <1>5, <1>11, <1>15 DEF Lead
<1>20. PICK spread \in Int : /\ spread = (m + k) * (QA + QB) - (TA + TB) * (TA + TB)
                             /\ spread = Spread(rows)
  BY <1>11, <1>15, <1>16 DEF Spread
<1>21. lead > 0 /\ q * q * lead * lead >= p * p * spread
  <2>1. Spread(rows) # 0
    <3>1. SUFFICES ASSUME Spread(rows) = 0 PROVE FALSE
      OBVIOUS
    <3>2. ~ (Threshold[1] = Threshold[2])
      BY <1>1
    <3>3. flagged \in {FALSE, Threshold[1] = Threshold[2]} \/ flagged \in {FALSE}
      BY <3>1, Zenon DEF Verdicts
    <3>4. ~ flagged
      BY <3>2, <3>3, Zenon
    <3> QED BY <3>4
  <2>2. Against(rows, spread) # "below"
    BY <1>20, <2>1 DEF Verdicts
  <2>3. PICK left \in Int, right \in Int : left = q * q * lead * lead /\ right = p * p * spread
    OBVIOUS
  <2>4. ~ (lead <= 0 \/ left < right)
    BY <1>1, <1>19, <2>2, <2>3 DEF Against
  <2> QED BY <2>3, <2>4
<1>22. k * spread >= m * (lead * lead)
  BY <1>12, <1>17, <1>18, <1>19, <1>20, <1>21, Cantelli
<1>23. m * (q * q + p * p) <= (m + k) * q * q
  BY <1>21, <1>22, RareNumbers
<1> QED BY <1>1, <1>10, <1>11, <1>23 DEF A

LEMMA VerdictSpiking ==
  ASSUME NEW rows, IsFiniteSet(rows), \A r \in rows : Duration(r) \in Int, Max(rows) \in rows,
         NEW flagged \in Verdicts(rows)
  PROVE  Spiking(rows, flagged)
<1> DEFINE B == rows \ {Max(rows)}
<1> SUFFICES ASSUME Cardinality(rows) >= MinRuns,
                    \A q, r \in B : Duration(q) = Duration(r),
                    \A r \in B : Duration(r) < Duration(Max(rows)),
                    Cardinality(rows) * Threshold[2] * Threshold[2]
                      > Threshold[2] * Threshold[2] + Threshold[1] * Threshold[1]
             PROVE  flagged
  BY DEF Spiking
<1>1. PICK p \in Nat, q \in Nat : p = Threshold[1] /\ q = Threshold[2]
  BY ThresholdFacts
<1>2. PICK f \in [rows -> Int] :
        /\ \A r \in rows : f[r] = Duration(r)
        /\ \E g \in Sums(rows, f) : Total(rows) = g[rows]
        /\ \E h \in Sums(rows, Squared(rows, f)) : Squares(rows) = h[rows]
  BY RunSums
<1>3. PICK g \in Sums(rows, f) : Total(rows) = g[rows]
  BY <1>2
<1>4. PICK s \in [rows -> Int] : s = Squared(rows, f) /\ \A r \in rows : s[r] = f[r] * f[r]
  BY SquaredFacts
<1>5. PICK h \in Sums(rows, s) : Squares(rows) = h[rows]
  BY <1>2, <1>4
<1>6. PICK L \in Int : L = Duration(Max(rows)) /\ f[Max(rows)] = L
  BY <1>2
<1>7. PICK k \in Nat : k = Cardinality(B) /\ Cardinality(rows) = k + 1
  BY SizeFacts
<1>8. (k + 1) * q * q > q * q + p * p
  BY <1>1, <1>7
<1>9. k # 0
  <2>1. PICK u \in Nat, v \in Nat : u = q * q /\ v = p * p
    OBVIOUS
  <2>2. k = 0 => (k + 1) * q * q = u
    BY <2>1
  <2> QED BY <1>8, <2>1, <2>2
<1>10. PICK d \in Int : (\A r \in B : f[r] = d) /\ d < L
  <2>1. B # {}
    BY <1>7, <1>9, FS_EmptySet
  <2>2. PICK b \in B : TRUE
    BY <2>1
  <2>3. Duration(b) \in Int /\ Duration(b) < L /\ \A r \in B : f[r] = Duration(b)
    BY <1>2, <1>6, <2>2
  <2> QED BY <2>3
<1>11. PICK e \in Nat \ {0} : L = d + e
  <2>1. L - d \in Nat \ {0} /\ L = d + (L - d)
    BY <1>10
  <2> QED BY <2>1
<1> HIDE DEF B
<1>12. B \in SUBSET rows
  BY DEF B
<1>13. Total(rows) = L + d * k
  <2>1. g[rows] = f[Max(rows)] + g[B]
    BY DEF Sums, B
  <2>2. g[B] = d * k
    BY <1>7, <1>10, <1>12, SumConstant
  <2> QED BY <1>3, <1>6, <2>1, <2>2
<1>14. Squares(rows) = L * L + d * d * k
  <2>1. h[rows] = s[Max(rows)] + h[B]
    BY DEF Sums, B
  <2>2. d * d \in Int /\ \A r \in B : s[r] = d * d
    BY <1>4, <1>10, <1>12
  <2>3. h[B] = (d * d) * k
    BY <1>7, <1>12, <2>2, SumConstant
  <2> QED BY <1>4, <1>5, <1>6, <2>1, <2>3
<1>15. PICK lead \in Int : lead = (k + 1) * L - (L + d * k) /\ lead = Lead(rows)
  BY <1>6, <1>7, <1>13 DEF Lead
<1>16. PICK spread \in Int : /\ spread = (k + 1) * (L * L + d * d * k) - (L + d * k) * (L + d * k)
                             /\ spread = Spread(rows)
  BY <1>7, <1>13, <1>14 DEF Spread
<1>17. lead > 0 /\ spread > 0 /\ q * q * lead * lead > p * p * spread
  BY <1>8, <1>9, <1>11, <1>15, <1>16, SpikeNumbers
<1>18. Against(rows, spread) = "above"
  <2>1. PICK left \in Int, right \in Int : left = q * q * lead * lead /\ right = p * p * spread
    OBVIOUS
  <2>2. ~ (lead <= 0 \/ left < right) /\ left # right
    BY <1>17, <2>1
  <2> QED BY <1>1, <1>15, <2>1, <2>2 DEF Against
<1>19. Verdicts(rows) = {TRUE}
  <2>1. ~ (Cardinality(rows) < MinRuns) /\ Spread(rows) # 0
    BY <1>7, <1>16, <1>17, SampleAssumption
  <2>2. Against(rows, Spread(rows)) = "above"
    BY <1>16, <1>18
  <2> QED BY <2>1, <2>2 DEF Verdicts
<1> QED BY <1>19

--------------------------------------------------------------------------------
(* The table and the request in a step.                                    *)

LEMMA RowFacts ==
  ASSUME TypeOK
  PROVE  /\ now \in Int /\ Len(runs) \in Nat /\ DOMAIN runs = 1 .. Len(runs)
         /\ \A r \in DOMAIN runs : runs[r] \in Row /\ runs[r].started \in Int
<1>1. runs \in Seq(Row) /\ now \in Int
  BY ClockAssumption DEF TypeOK
<1>2. Len(runs) \in Nat /\ DOMAIN runs = 1 .. Len(runs) /\ \A r \in DOMAIN runs : runs[r] \in Row
  BY <1>1
<1> QED BY <1>1, <1>2 DEF Row

\* Only three actions touch the table or the clock.
LEMMA Elsewhere ==
  ASSUME Next
  PROVE  \/ Tick
         \/ \E j \in Job : OpenRun(j)
         \/ \E r \in DOMAIN runs, status \in Ending : CloseRun(r, status)
         \/ UNCHANGED <<now, runs>>
BY DEF Next, Judge, Ask, CountJobs, Summarise, GroupByDay, FillIn, ReadTrend, ListJobs, AllJudged,
       Sent, At

LEMMA TableStep ==
  ASSUME TypeOK, StartedBefore, Next
  PROVE  /\ now' \in MinTime .. MaxTime /\ now <= now'
         /\ runs' \in Seq(Row) /\ StartedBefore'
<1>1. /\ now \in Int /\ runs \in Seq(Row)
      /\ DOMAIN runs = 1 .. Len(runs) /\ Len(runs) \in Nat
      /\ \A r \in DOMAIN runs : runs[r] \in Row /\ runs[r].started \in Int /\ runs[r].started <= now
  BY RowFacts DEF TypeOK, StartedBefore
<1>2. CASE Tick
  <2>1. now' = now + 1 /\ runs' = runs /\ now < MaxTime
    BY <1>2 DEF Tick
  <2>2. now' \in MinTime .. MaxTime /\ now <= now'
    BY <1>1, <2>1, ClockAssumption DEF TypeOK
  <2>3. StartedBefore'
    BY <1>1, <2>1 DEF StartedBefore
  <2> QED BY <1>1, <2>1, <2>2, <2>3
<1>3. ASSUME NEW j \in Job, OpenRun(j)
      PROVE  now' = now /\ runs' \in Seq(Row) /\ StartedBefore'
  <2>1. PICK late \in 0 .. InsertDelay :
          runs' = Append(runs, [job |-> j, started |-> now - late,
                                finished |-> None, status |-> "running"])
    BY <1>3 DEF OpenRun
  <2>2. late \in Nat
    BY ClockAssumption
  <2>3. PICK row : row = [job |-> j, started |-> now - late, finished |-> None, status |-> "running"]
    OBVIOUS
  <2>4. row.started \in Int /\ row.started <= now
    BY <1>1, <2>2, <2>3
  <2>5. row \in Row
    BY <1>1, <2>2, <2>3 DEF Row, RunStatus
  <2>6. runs' = Append(runs, row)
    BY <2>1, <2>3
  <2>7. runs' \in Seq(Row)
    BY <1>1, <2>5, <2>6
  <2>8. now' = now
    BY <1>3 DEF OpenRun
  <2>9. DOMAIN runs' = 1 .. Len(runs) + 1
    BY <1>1, <2>5, <2>6
  <2>10. ASSUME NEW r \in DOMAIN runs' PROVE runs'[r].started <= now
    <3>1. CASE r = Len(runs) + 1
      <4>1. runs'[r] = row
        BY <1>1, <2>5, <2>6, <3>1
      <4> QED BY <2>4, <4>1
    <3>2. CASE r # Len(runs) + 1
      <4>1. r \in DOMAIN runs
        BY <1>1, <2>9, <3>2
      <4>2. runs'[r] = runs[r]
        BY <1>1, <2>5, <2>6, <4>1
      <4> QED BY <1>1, <4>1, <4>2
    <3> QED BY <3>1, <3>2
  <2>11. StartedBefore'
    BY <2>8, <2>10 DEF StartedBefore
  <2> QED BY <2>7, <2>8, <2>11
<1>4. ASSUME NEW r \in DOMAIN runs, NEW status \in Ending, CloseRun(r, status)
      PROVE  now' = now /\ runs' \in Seq(Row) /\ StartedBefore'
  <2>1. PICK row : row = [runs[r] EXCEPT !.finished = now, !.status = status]
    OBVIOUS
  <2>2. runs' = [runs EXCEPT ![r] = row] /\ now' = now
    BY <1>4, <2>1 DEF CloseRun
  <2>3. row \in Row /\ row.started = runs[r].started
    BY <1>1, <2>1, EndingAssumption DEF Row
  <2>4. runs' \in Seq(Row)
    BY <1>1, <2>2, <2>3
  <2>5. DOMAIN runs' = DOMAIN runs /\ \A q \in DOMAIN runs : runs'[q].started = runs[q].started
    BY <1>1, <2>2, <2>3
  <2>6. StartedBefore'
    BY <1>1, <2>2, <2>5 DEF StartedBefore
  <2> QED BY <2>2, <2>4, <2>6
<1>5. CASE UNCHANGED <<now, runs>>
  <2>1. StartedBefore'
    BY <1>5 DEF StartedBefore
  <2> QED BY <1>1, <1>5, <2>1 DEF TypeOK
<1>6. now' = now => now' \in MinTime .. MaxTime /\ now <= now'
  BY <1>1 DEF TypeOK
<1> QED BY <1>2, <1>3, <1>4, <1>5, <1>6, Elsewhere

\* Windows have a length, except that of the trend and that of the anomalies.
LEMMA WindowFacts ==
  /\ Window("summary") = Day /\ Day \in Nat /\ Day > 0
  /\ Window("heatmap") = Days * Day /\ Days * Day \in Nat /\ Days * Day > 0
  /\ Window("trend") = 0 /\ Window("anomalies") = 0
<1>1. Day \in Nat /\ Day > 0 /\ Days \in Nat /\ Days > 0
  BY WindowAssumption
<1>2. Days * Day \in Nat /\ Days * Day > 0
  BY <1>1
<1> QED BY <1>1, <1>2 DEF Window
\* What a request becomes when rows are found for it.
LEMMA FoundFacts ==
  ASSUME CallShape, NEW stage \in {"idle", "count", "jobs", "query", "read", "done"}, NEW result,
         Found(stage, result)
  PROVE  /\ CallShape'
         /\ call'.op = call.op /\ call'.job = call.job /\ call'.since = call.since
         /\ call'.stage = stage /\ call'.result = result
BY DEF Found, CallShape

LEMMA CallStep ==
  ASSUME TypeOK, StartedBefore, CallShape, SinceEarly, Next
  PROVE  CallShape' /\ SinceEarly'
<1>1. now \in Int /\ now' \in Int /\ now <= now'
  BY TableStep, RowFacts, ClockAssumption
<1>2. call.since \in Int /\ Day \in Int /\ Days * Day \in Int
  BY WindowFacts DEF CallShape
<1>3. ASSUME call' = call PROVE CallShape' /\ SinceEarly'
  <2>1. CallShape'
    BY <1>3 DEF CallShape
  <2>2. SinceEarly'
    BY <1>1, <1>2, <1>3 DEF SinceEarly
  <2> QED BY <2>1, <2>2
<1>4. ASSUME CallShape', call'.op = call.op, call'.since = call.since
      PROVE  SinceEarly'
  BY <1>1, <1>2, <1>4 DEF SinceEarly
<1>5. CASE Tick
  BY <1>3, <1>5 DEF Tick
<1>6. ASSUME NEW j \in Job, OpenRun(j) PROVE CallShape' /\ SinceEarly'
  BY <1>3, <1>6 DEF OpenRun
<1>7. ASSUME NEW r \in DOMAIN runs, NEW status \in Ending, CloseRun(r, status)
      PROVE  CallShape' /\ SinceEarly'
  BY <1>3, <1>7 DEF CloseRun
<1>8. ASSUME NEW op \in Op, NEW j \in Job \cup {None}, Ask(op, j)
      PROVE  CallShape' /\ SinceEarly'
  <2>1. PICK since \in Int : since = IF Window(op) > 0 THEN now - Window(op) ELSE 0
    BY <1>1, WindowFacts DEF Op
  <2>2. PICK stage \in {"count", "jobs", "query"} : stage = FirstStage(op)
    BY DEF FirstStage, Op
  <2>3. call' = [op |-> op, stage |-> stage, job |-> j, since |-> since, todo |-> {}, result |-> None]
    BY <1>8, <2>1, <2>2 DEF Ask, NoCall
  <2>4. CallShape'
    BY <2>3 DEF CallShape
  <2>5. call'.op = op /\ call'.since = since
    BY <2>3
  <2>9. now' = now
    BY <1>8 DEF Ask
  <2>6. op = "summary" => since = now - Day
    BY <2>1, WindowFacts
  <2>7. op = "heatmap" => since = now - Days * Day
    BY <2>1, WindowFacts
  <2>8. SinceEarly'
    BY <1>1, <1>2, <2>5, <2>6, <2>7, <2>9 DEF SinceEarly
  <2> QED BY <2>4, <2>8
<1>9. CASE CountJobs
  <2>1. call' = [call EXCEPT !.stage = "query"]
    BY <1>9 DEF CountJobs
  <2>2. CallShape' /\ call'.op = call.op /\ call'.since = call.since
    BY <2>1 DEF CallShape
  <2> QED BY <1>4, <2>2
<1>10. CASE Summarise \/ GroupByDay \/ ReadTrend
  <2>1. PICK stage, result : stage \in {"read", "done"} /\ Found(stage, result)
    BY <1>10 DEF Summarise, GroupByDay, ReadTrend
  <2>2. CallShape' /\ call'.op = call.op /\ call'.since = call.since
    BY <2>1, FoundFacts
  <2> QED BY <1>4, <2>2
<1>11. CASE FillIn \/ AllJudged
  <2>1. PICK result : call' = [call EXCEPT !.stage = "done", !.result = result]
    BY <1>11 DEF FillIn, AllJudged
  <2>2. CallShape' /\ call'.op = call.op /\ call'.since = call.since
    BY <2>1 DEF CallShape
  <2> QED BY <1>4, <2>2
<1>12. CASE ListJobs
  <2>1. PICK active \in SUBSET Job : call' = [call EXCEPT !.stage = "query", !.todo = active]
    BY <1>12 DEF ListJobs
  <2>2. CallShape' /\ call'.op = call.op /\ call'.since = call.since
    BY <2>1 DEF CallShape
  <2> QED BY <1>4, <2>2
<1>13. ASSUME NEW j \in Job, Judge(j) PROVE CallShape' /\ SinceEarly'
  <2>1. PICK todo, result : todo \in SUBSET Job /\ call' = [call EXCEPT !.todo = todo, !.result = result]
    <3>1. PICK flagged : call' = [call EXCEPT !.todo = call.todo \ {j},
                 !.result = [rows |-> Newest(RunsOf(j), Cap), flagged |-> flagged]]
      BY <1>13 DEF Judge
    <3>2. call.todo \ {j} \in SUBSET Job
      BY DEF CallShape
    <3> QED BY <3>1, <3>2
  <2>2. CallShape' /\ call'.op = call.op /\ call'.since = call.since
    BY <2>1 DEF CallShape
  <2> QED BY <1>4, <2>2
<1>14. CASE Sent
  <2>1. call' = NoCall
    BY <1>14 DEF Sent
  <2>2. CallShape' /\ call'.op = "none"
    BY <2>1 DEF CallShape, NoCall
  <2>3. SinceEarly'
    BY <2>2 DEF SinceEarly
  <2> QED BY <2>2, <2>3
<1> QED BY <1>5, <1>6, <1>7, <1>8, <1>9, <1>10, <1>11, <1>12, <1>13, <1>14 DEF Next

--------------------------------------------------------------------------------
(* Answers.                                                                *)

\* What is said of answers.
AnswersTyped ==
  /\ Answered("heatmap") => \A d \in DOMAIN call.result : call.result[d] \in EntryType
  /\ Answered("trend") => call.result \subseteq Finished

AnswersRight == AnswersTyped /\ GroupedStands /\ WindowCovered /\ OpenRunsTakeNoPlace

\* Nothing is said of a request that is not answered.
LEMMA Unanswered ==
  ASSUME call'.stage \notin {"read", "done"} \/ call'.op \in {"none", "anomalies"}
  PROVE  AnswersRight'
BY DEF AnswersRight, AnswersTyped, GroupedStands, WindowCovered, SummaryCovers, HeatmapCovers,
       OpenRunsTakeNoPlace, Answered

LEMMA SummaryRight ==
  ASSUME TypeOK, CallShape, SinceEarly, Summarise
  PROVE  AnswersRight'
<1> DEFINE rows == {r \in DOMAIN runs : runs[r].started >= call.since}
<1>1. /\ call.op = "summary" /\ UNCHANGED <<now, runs>>
      /\ Found("done", Counts(rows))
  BY DEF Summarise, At
<1> HIDE DEF rows
<1>2. call'.op = "summary" /\ call'.result = Counts(rows)
  BY <1>1, FoundFacts
<1>3. rows \subseteq DOMAIN runs
  BY DEF rows
<1>4. Recent(Day) \subseteq rows
  <2>1. now \in Int /\ Day \in Int /\ call.since \in Int /\ call.since <= now - Day
    BY <1>1, RowFacts, WindowFacts DEF SinceEarly, CallShape
  <2>2. \A r \in DOMAIN runs : runs[r].started \in Int
    BY RowFacts
  <2> QED BY <2>1, <2>2 DEF Recent, rows
<1>5. Ended(Recent(Day)) \subseteq Ended(rows) /\ Ended(rows) \subseteq DOMAIN runs
  BY <1>3, <1>4 DEF Ended
<1>6. Cardinality(Ended(Recent(Day))) <= Cardinality(Ended(rows))
  BY <1>5, FewerRows
<1>7. Sum(Counts(rows)) = Cardinality(Ended(rows))
  BY <1>3, CountsFacts
<1>8. Cardinality(Ended(Recent(Day))) \in Nat /\ Cardinality(Ended(rows)) \in Nat
  BY <1>5, RowsFinite
<1>9. Sum(call'.result) >= Cardinality(Ended(Recent(Day)))
  BY <1>2, <1>6, <1>7, <1>8
<1>10. Ended(Recent(Day))' = Ended(Recent(Day)) /\ Sum(call.result)' = Sum(call'.result)
  BY <1>1 DEF Ended, Recent, Sum
<1>11. SummaryCovers'
  BY <1>9, <1>10 DEF SummaryCovers
<1> QED BY <1>2, <1>11 DEF AnswersRight, AnswersTyped, GroupedStands, WindowCovered, HeatmapCovers,
                           OpenRunsTakeNoPlace, Answered
\* An entry found or fallen back on is that of its day.
LEMMA LookupFacts ==
  ASSUME TypeOK, NEW d
  PROVE  /\ Lookup(Grouped, d) \in EntryType
         /\ DateIsText => Lookup(Grouped, d) = Entry(On(d))
<1>1. On(d) \subseteq DOMAIN runs /\ {} \subseteq DOMAIN runs
  BY DEF On, InWindow, RunsOf
<1>2. Entry(On(d)) \in EntryType /\ Entry({}) \in EntryType
  BY <1>1, EntryFacts
<1>3. d \in DOMAIN Grouped => Grouped[d] = Entry(On(d))
  BY DEF Grouped
<1>4. d \notin DOMAIN Grouped => On(d) = {}
  BY DEF Grouped, On
<1> QED BY <1>2, <1>3, <1>4 DEF Lookup

LEMMA GroupedRight ==
  ASSUME TypeOK, CallShape, GroupByDay
  PROVE  AnswersRight'
<1>1. call.op = "heatmap" /\ UNCHANGED <<now, runs>> /\ Found("read", Grouped)
  BY DEF GroupByDay, At, Grouped, InWindow, On
<1>2. /\ call'.op = "heatmap" /\ call'.stage = "read" /\ call'.result = Grouped
      /\ call'.job = call.job /\ call'.since = call.since
  BY <1>1, FoundFacts
<1>3. InWindow' = InWindow
  BY <1>1, <1>2 DEF InWindow, RunsOf
<1>4. Grouped' = Grouped
  BY <1>1, <1>3 DEF Grouped, On, Entry, Counts, DayOf
<1>5. GroupedStands'
  BY <1>2, <1>4 DEF GroupedStands
<1> QED BY <1>2, <1>5 DEF AnswersRight, AnswersTyped, WindowCovered, SummaryCovers, HeatmapCovers,
                          OpenRunsTakeNoPlace, Answered

\* HeatmapCovers, of a table, a time, a job and an answer.
DaysCovered(table, time, job, answer) ==
  LET recent   == {r \in DOMAIN table : table[r].started >= time - Days * Day}
      rows     == {r \in DOMAIN table : table[r].job = job}
      on(d)    == {r \in rows : DayOf(table[r].started) = d}
      ended(q) == {r \in q : table[r].status \in FinalStatus}
  IN  /\ \A r \in recent \cap rows : DayOf(table[r].started) \in DOMAIN answer
      /\ \A d \in DOMAIN answer :
           /\ Cardinality(recent \cap on(d)) <= answer[d].total
           /\ answer[d].total <= Cardinality(on(d))
           /\ Cardinality(ended(recent \cap on(d))) <= Sum(answer[d].counts)
           /\ Sum(answer[d].counts) <= answer[d].total

LEMMA HeatmapCoversNext ==
  (DateIsText => DaysCovered(runs', now', call'.job, call'.result)) => HeatmapCovers'
BY DEF DaysCovered, HeatmapCovers, Recent, RunsOf, Ended, DayOf, Sum

LEMMA HeatmapRight ==
  ASSUME TypeOK, CallShape, SinceEarly, StartedBefore, GroupedStands, FillIn
  PROVE  AnswersRight'
<1> DEFINE days == HeatmapDays(DayOf(now))
           result == [d \in days |-> Lookup(Grouped, d)]
           Due == Recent(Days * Day)
           OfDay(d) == {r \in RunsOf(call.job) : DayOf(runs[r].started) = d}
<1>1. call.op = "heatmap" /\ call.stage = "read" /\ UNCHANGED <<now, runs>>
  BY DEF FillIn, At
<1>2. call' = [call EXCEPT !.stage = "done", !.result = result]
  BY <1>1 DEF FillIn, GroupedStands
<1> HIDE DEF result
<1>3. call'.op = "heatmap" /\ call'.stage = "done" /\ call'.result = result /\ call'.job = call.job
  <2>1. PICK new : new = result
    OBVIOUS
  <2>2. call' = [call EXCEPT !.stage = "done", !.result = new]
    BY <1>2, <2>1
  <2>3. call'.op = call.op /\ call'.stage = "done" /\ call'.job = call.job
    BY <2>2 DEF CallShape
  <2>4. call'.result = new
    BY <2>2 DEF CallShape
  <2> QED BY <1>1, <2>1, <2>3, <2>4
<1>4. DOMAIN result = days /\ \A d \in days : result[d] = Lookup(Grouped, d)
  BY DEF result
<1> HIDE DEF days
<1>5. \A d \in DOMAIN result : result[d] \in EntryType
  BY <1>4, LookupFacts
<1>6. ASSUME NEW r \in Due \cap RunsOf(call.job)
      PROVE  DayOf(runs[r].started) \in days /\ runs[r].started >= call.since
  <2>1. r \in DOMAIN runs /\ runs[r].started >= now - Days * Day
    BY DEF Recent
  <2>2. /\ now \in Int /\ runs[r].started \in Int /\ runs[r].started <= now
        /\ Days * Day \in Int /\ call.since \in Int /\ call.since <= now - Days * Day
    BY <1>1, <2>1, RowFacts, WindowFacts DEF StartedBefore, SinceEarly, CallShape
  <2>3. now - Days * Day <= runs[r].started
    BY <2>1, <2>2
  <2>4. DayOf(runs[r].started) \in days
    BY <2>2, <2>3, InHeatmap DEF days
  <2> QED BY <2>1, <2>2, <2>4
<1>7. ASSUME DateIsText, NEW d \in days
      PROVE  /\ Cardinality(Due \cap OfDay(d)) <= result[d].total
             /\ result[d].total <= Cardinality(OfDay(d))
             /\ Cardinality(Ended(Due \cap OfDay(d))) <= Sum(result[d].counts)
             /\ Sum(result[d].counts) <= result[d].total
  <2>1. result[d].total = Cardinality(On(d)) /\ result[d].counts = Counts(On(d))
    BY <1>4, <1>7, LookupFacts DEF Entry
  <2>2. Due \cap OfDay(d) \in SUBSET On(d)
    BY <1>6 DEF On, InWindow
  <2>3. On(d) \subseteq OfDay(d) /\ OfDay(d) \subseteq DOMAIN runs
    BY DEF On, InWindow, RunsOf
  <2> HIDE DEF Due, OfDay
  <2>4. On(d) \subseteq DOMAIN runs
    BY <2>3
  <2>5. Sum(Counts(On(d))) = Cardinality(Ended(On(d)))
    BY <2>4, CountsFacts
  <2>6. Ended(Due \cap OfDay(d)) \subseteq Ended(On(d)) /\ Ended(On(d)) \subseteq On(d)
    BY <2>2 DEF Ended
  <2>7. /\ Cardinality(Due \cap OfDay(d)) <= Cardinality(On(d))
        /\ Cardinality(On(d)) <= Cardinality(OfDay(d))
    BY <2>2, <2>3, <2>4, FewerRows
  <2>8. /\ Cardinality(Ended(Due \cap OfDay(d))) <= Cardinality(Ended(On(d)))
        /\ Cardinality(Ended(On(d))) <= Cardinality(On(d))
    BY <2>4, <2>6, FewerRows
  <2> QED BY <2>1, <2>5, <2>7, <2>8
<1>8. ASSUME DateIsText PROVE DaysCovered(runs, now, call.job, result)
  <2>1. Due = {r \in DOMAIN runs : runs[r].started >= now - Days * Day}
    BY DEF Recent
  <2>2. RunsOf(call.job) = {r \in DOMAIN runs : runs[r].job = call.job}
    BY DEF RunsOf
  <2>3. \A r \in Due \cap RunsOf(call.job) : DayOf(runs[r].started) \in DOMAIN result
    BY <1>4, <1>6
  <2>4. ASSUME NEW d \in DOMAIN result
        PROVE  /\ Cardinality(Due \cap OfDay(d)) <= result[d].total
               /\ result[d].total <= Cardinality(OfDay(d))
               /\ Cardinality(Ended(Due \cap OfDay(d))) <= Sum(result[d].counts)
               /\ Sum(result[d].counts) <= result[d].total
    <3> HIDE DEF Due, OfDay
    <3> QED BY <1>4, <1>7, <1>8
  <2> QED BY <2>1, <2>2, <2>3, <2>4 DEF DaysCovered, Ended
<1>9. HeatmapCovers'
  <2>1. runs' = runs /\ now' = now
    BY <1>1
  <2> QED BY <1>3, <1>8, <2>1, HeatmapCoversNext
<1> QED BY <1>3, <1>5, <1>9 DEF AnswersRight, AnswersTyped, GroupedStands, WindowCovered,
                                SummaryCovers, OpenRunsTakeNoPlace, Answered
LEMMA TrendRight ==
  ASSUME TypeOK, CallShape, ReadTrend
  PROVE  AnswersRight'
<1> DEFINE F == RunsOf(call.job) \cap Finished
           top == {t \in F : Cardinality({q \in F : q > t}) < Limit}
<1>1. call.op = "trend" /\ UNCHANGED <<now, runs>> /\ Found("done", top)
  BY DEF ReadTrend, At, Newest
<1> HIDE DEF top
<1>2. call'.op = "trend" /\ call'.result = top /\ call'.job = call.job
  BY <1>1, FoundFacts
<1>3. top \subseteq F
  BY DEF top
<1>4. F \subseteq Nat /\ IsFiniteSet(F)
  <2>1. F \subseteq DOMAIN runs
    BY DEF RunsOf
  <2>2. \A r \in DOMAIN runs : r \in Nat
    BY RowFacts
  <2> HIDE DEF F
  <2> QED BY <2>1, <2>2, RowsFinite
<1>5. ASSUME NEW r \in F \ top PROVE Cardinality(top) = Limit /\ \A q \in top : q > r
  <2> HIDE DEF F
  <2>1. r \in F /\ ~ (Cardinality({q \in F : q > r}) < Limit)
    BY DEF top
  <2>2. Limit \in Nat \ {0}
    BY SampleAssumption
  <2> QED BY <1>4, <2>1, <2>2, LargestFacts DEF top
<1>6. Finished' = Finished /\ RunsOf(call.job)' = RunsOf(call.job)
  BY <1>1, <1>2 DEF Finished, RunsOf
<1>7. OpenRunsTakeNoPlace'
  BY <1>2, <1>5, <1>6 DEF OpenRunsTakeNoPlace
<1>8. AnswersTyped'
  BY <1>2, <1>3, <1>6 DEF AnswersTyped, Answered
<1> QED BY <1>2, <1>7, <1>8 DEF AnswersRight, GroupedStands, WindowCovered, SummaryCovers,
                                HeatmapCovers, Answered

\* An answer stands until it is sent, the rows of the heatmap until it is filled in.
LEMMA AnswersStep ==
  ASSUME TypeOK, CallShape, SinceEarly, StartedBefore, AnswersRight, Next
  PROVE  AnswersRight'
<1>1. CASE Tick
  <2>1. call' = call /\ runs' = runs /\ call.stage # "done"
    BY <1>1 DEF Tick
  <2>2. Grouped' = Grouped
    BY <2>1 DEF Grouped, InWindow, On, Entry, Counts, RunsOf, DayOf
  <2>3. GroupedStands'
    BY <2>1, <2>2 DEF AnswersRight, GroupedStands
  <2> QED BY <2>1, <2>3 DEF AnswersRight, AnswersTyped, WindowCovered, SummaryCovers,
                             HeatmapCovers, OpenRunsTakeNoPlace, Answered
<1>2. ASSUME NEW j \in Job, OpenRun(j) PROVE AnswersRight'
  BY <1>2, Unanswered DEF OpenRun, Waiting
<1>3. ASSUME NEW r \in DOMAIN runs, NEW status \in Ending, CloseRun(r, status)
      PROVE  AnswersRight'
  BY <1>3, Unanswered DEF CloseRun, Waiting
<1>4. ASSUME NEW op \in Op, NEW j \in Job \cup {None}, Ask(op, j) PROVE AnswersRight'
  <2>1. call'.stage = FirstStage(op)
    BY <1>4 DEF Ask, NoCall
  <2>2. FirstStage(op) \notin {"read", "done"}
    BY DEF FirstStage, Op
  <2> QED BY <2>1, <2>2, Unanswered
<1>5. CASE CountJobs
  <2>1. call'.stage = "query"
    BY <1>5 DEF CountJobs, CallShape
  <2> QED BY <2>1, Unanswered
<1>6. CASE Summarise
  BY <1>6, SummaryRight
<1>7. CASE GroupByDay
  BY <1>7, GroupedRight
<1>8. CASE FillIn
  BY <1>8, HeatmapRight DEF AnswersRight
<1>9. CASE ReadTrend
  BY <1>9, TrendRight
<1>10. CASE ListJobs
  <2>1. call'.stage = "query"
    BY <1>10 DEF ListJobs, CallShape
  <2> QED BY <2>1, Unanswered
<1>11. ASSUME NEW j \in Job, Judge(j) PROVE AnswersRight'
  <2>1. call'.op = "anomalies"
    BY <1>11 DEF Judge, At, CallShape
  <2> QED BY <2>1, Unanswered
<1>12. CASE AllJudged
  <2>1. call'.op = "anomalies"
    BY <1>12 DEF AllJudged, At, CallShape
  <2> QED BY <2>1, Unanswered
<1>13. CASE Sent
  <2>1. call'.op = "none"
    BY <1>13 DEF Sent, NoCall
  <2> QED BY <2>1, Unanswered
<1> QED BY <1>1, <1>2, <1>3, <1>4, <1>5, <1>6, <1>7, <1>8, <1>9, <1>10, <1>11, <1>12, <1>13 DEF Next

--------------------------------------------------------------------------------
(* Reports.                                                                *)

LEMMA JudgeRight ==
  ASSUME TypeOK, CallShape, NEW j \in Job, Judge(j)
  PROVE  ReportsRight'
<1>1. PICK rows : rows = Newest(RunsOf(j), Cap)
  OBVIOUS
<1>2. PICK flagged \in Verdicts(rows) :
        call' = [call EXCEPT !.todo = @ \ {j}, !.result = [rows |-> rows, flagged |-> flagged]]
  BY <1>1 DEF Judge
<1>3. runs' = runs
  BY DEF Judge, At
<1>4. call'.result = [rows |-> rows, flagged |-> flagged]
  BY <1>2 DEF CallShape
<1>5. rows \subseteq Finished /\ rows \subseteq DOMAIN runs
  BY <1>1 DEF Newest, RunsOf, Finished
<1>6. IsFiniteSet(rows)
  BY <1>5, RowsFinite
<1>7. \A r \in rows : Duration(r) \in Int
  BY <1>5, RowFacts DEF Duration, Finished, Row
<1>8. rows = {} \/ Max(rows) \in rows
  <2>1. rows \subseteq Nat
    BY <1>5, RowFacts
  <2>2. PICK b \in Nat : \A r \in rows : r <= b
    BY <1>6, <2>1, FiniteBounded
  <2> QED BY <2>1, <2>2, MaxFacts
<1>9. Rare(rows, flagged) /\ Spiking(rows, flagged)
  <2>1. CASE rows = {}
    <3>1. Cardinality(rows) = 0 /\ Cardinality(rows) < MinRuns /\ ~ (Cardinality(rows) >= MinRuns)
      BY <2>1, FS_EmptySet, SampleAssumption
    <3>2. Verdicts(rows) = {FALSE}
      BY <3>1 DEF Verdicts
    <3>3. ~ flagged
      BY <3>2
    <3> QED BY <3>1, <3>3 DEF Rare, Spiking
  <2>2. CASE Max(rows) \in rows
    BY <1>6, <1>7, <2>2, VerdictRare, VerdictSpiking
  <2> QED BY <1>8, <2>1, <2>2
<1>10. Finished' = Finished /\ \A r \in rows : Duration(r)' = Duration(r)
  BY <1>3 DEF Finished, Duration
<1>11. call'.result.rows = rows /\ call'.result.flagged = flagged
  BY <1>4
<1> QED BY <1>3, <1>5, <1>8, <1>9, <1>11 DEF ReportsRight, Finished, Rare, Spiking, Duration

\* A report stands while other runs begin and end.
LEMMA ReportStands ==
  ASSUME ReportsRight, call'.op = call.op, call'.result = call.result,
         \A r \in Finished : r \in Finished' /\ runs'[r].finished - runs'[r].started = Duration(r)
  PROVE  ReportsRight'
<1> SUFFICES ASSUME Judged' PROVE ReportsRight'
  BY DEF ReportsRight
<1>1. Judged
  BY DEF Judged
<1>2. PICK rows, flagged : rows = call.result.rows /\ flagged = call.result.flagged
  OBVIOUS
<1>3. /\ rows \subseteq Finished /\ (rows = {} \/ Max(rows) \in rows)
      /\ Rare(rows, flagged) /\ Spiking(rows, flagged)
  BY <1>1, <1>2 DEF ReportsRight
<1>4. \A r \in rows : runs'[r].finished - runs'[r].started = runs[r].finished - runs[r].started
  BY <1>3 DEF Duration
<1>5. rows \subseteq Finished'
  BY <1>3
<1>6. PICK m : m = Max(rows)
  OBVIOUS
<1>7. rows = {} \/ \A r \in rows : /\ Duration(r)' = Duration(r)
                                  /\ (Duration(r) >= Duration(m))' = (Duration(r) >= Duration(m))
  BY <1>3, <1>4, <1>6 DEF Duration
<1>8. {r \in rows : Duration(r) >= Duration(m)}' = {r \in rows : Duration(r) >= Duration(m)}
  BY <1>7
<1>9. Rare(rows, flagged)'
  BY <1>3, <1>6, <1>8 DEF Rare
<1>10. Spiking(rows, flagged)'
  BY <1>3, <1>6, <1>7 DEF Spiking
<1>11. call'.result.rows = rows /\ call'.result.flagged = flagged
  BY <1>2
<1> QED BY <1>3, <1>5, <1>9, <1>10, <1>11 DEF ReportsRight, Rare, Spiking, Duration

\* Without a report there is nothing to say.
LEMMA Unreported ==
  ASSUME call'.op # "anomalies" \/ call'.result = None
  PROVE  ReportsRight'
BY DEF ReportsRight, Judged

LEMMA ReportsStep ==
  ASSUME TypeOK, CallShape, ReportsRight, Next
  PROVE  ReportsRight'
<1>1. CASE Tick
  <2>1. runs' = runs /\ call' = call
    BY <1>1 DEF Tick
  <2> QED BY <2>1, ReportStands DEF Finished, Duration
<1>2. ASSUME NEW j \in Job, OpenRun(j) PROVE ReportsRight'
  <2>1. call' = call
    BY <1>2 DEF OpenRun
  <2>2. PICK row : runs' = Append(runs, row)
    BY <1>2 DEF OpenRun
  <2>3. runs \in Seq(Row)
    BY DEF TypeOK
  <2>4. \A r \in DOMAIN runs : r \in DOMAIN runs' /\ runs'[r] = runs[r]
    BY <2>2, <2>3
  <2> QED BY <2>1, <2>4, ReportStands DEF Finished, Duration
<1>3. ASSUME NEW r \in DOMAIN runs, NEW status \in Ending, CloseRun(r, status) PROVE ReportsRight'
  <2>1. call' = call /\ r \notin Finished
    BY <1>3 DEF CloseRun
  <2>2. \A q \in Finished : q \in DOMAIN runs' /\ runs'[q] = runs[q]
    BY <1>3, <2>1 DEF CloseRun, Finished
  <2> QED BY <2>1, <2>2, ReportStands DEF Finished, Duration
<1>4. ASSUME NEW op \in Op, NEW j \in Job \cup {None}, Ask(op, j) PROVE ReportsRight'
  <2>1. call'.result = None
    BY <1>4 DEF Ask, NoCall
  <2> QED BY <2>1, Unreported
<1>5. CASE CountJobs \/ Summarise
  <2>1. call'.op = "summary"
    BY <1>5 DEF CountJobs, Summarise, Found, At, CallShape
  <2> QED BY <2>1, Unreported
<1>6. CASE GroupByDay \/ FillIn
  <2>1. call'.op = "heatmap"
    BY <1>6 DEF GroupByDay, FillIn, Found, At, CallShape
  <2> QED BY <2>1, Unreported
<1>7. CASE ReadTrend
  <2>1. call'.op = "trend"
    BY <1>7 DEF ReadTrend, Found, At, CallShape
  <2> QED BY <2>1, Unreported
<1>8. CASE ListJobs
  <2>1. runs' = runs /\ call'.op = call.op /\ call'.result = call.result
    BY <1>8 DEF ListJobs, At, CallShape
  <2> QED BY <2>1, ReportStands DEF Finished, Duration
<1>9. ASSUME NEW j \in Job, Judge(j) PROVE ReportsRight'
  BY <1>9, JudgeRight
<1>10. CASE AllJudged
  <2>1. call'.result = None
    BY <1>10 DEF AllJudged, CallShape
  <2> QED BY <2>1, Unreported
<1>11. CASE Sent
  <2>1. call'.result = None
    BY <1>11 DEF Sent, NoCall
  <2> QED BY <2>1, Unreported
<1> QED BY <1>1, <1>2, <1>3, <1>4, <1>5, <1>6, <1>7, <1>8, <1>9, <1>10, <1>11 DEF Next

--------------------------------------------------------------------------------
(* The invariant.                                                          *)

LEMMA InitIndInv == Init => IndInv
<1> SUFFICES ASSUME Init PROVE IndInv
  OBVIOUS
<1>1. now = MinTime /\ runs = << >> /\ call = NoCall
  BY DEF Init
<1>2. call.op = "none" /\ call.stage = "idle"
  BY <1>1 DEF NoCall
<1>3. CallShape
  BY <1>1 DEF CallShape, NoCall
<1>4. now \in MinTime .. MaxTime /\ runs \in Seq(Row)
  BY <1>1, ClockAssumption
<1>5. TypeOK
  BY <1>2, <1>3, <1>4 DEF TypeOK, CallShape, Answered
<1>6. StartedBefore
  BY <1>1 DEF StartedBefore
<1>7. ReportsRight
  BY <1>2 DEF ReportsRight, Judged
<1> QED BY <1>2, <1>3, <1>5, <1>6, <1>7 DEF IndInv, SinceEarly, GroupedStands, WindowCovered,
          SummaryCovers, HeatmapCovers, OpenRunsTakeNoPlace, Answered

LEMMA StepIndInv == IndInv /\ [Next]_vars => IndInv'
<1> SUFFICES ASSUME IndInv, [Next]_vars PROVE IndInv'
  OBVIOUS
<1>1. CASE Next
  <2>1. TypeOK /\ CallShape /\ SinceEarly /\ StartedBefore /\ AnswersRight
    BY DEF IndInv, AnswersRight, AnswersTyped, TypeOK
  <2>2. now' \in MinTime .. MaxTime /\ runs' \in Seq(Row) /\ StartedBefore'
    BY <1>1, <2>1, TableStep
  <2>3. CallShape' /\ SinceEarly'
    BY <1>1, <2>1, CallStep
  <2>4. AnswersRight'
    BY <1>1, <2>1, AnswersStep
  <2>5. TypeOK'
    BY <2>2, <2>3, <2>4 DEF TypeOK, CallShape, AnswersRight, AnswersTyped
  <2>6. ReportsRight'
    BY <1>1, <2>1, ReportsStep DEF IndInv
  <2> QED BY <2>2, <2>3, <2>4, <2>5, <2>6 DEF IndInv, AnswersRight
<1>2. CASE UNCHANGED vars
  <2>1. now' = now /\ runs' = runs /\ call' = call
    BY <1>2 DEF vars
  <2>2. TypeOK'
    BY <2>1 DEF IndInv, TypeOK, Answered, Finished
  <2>3. CallShape' /\ SinceEarly' /\ StartedBefore'
    BY <2>1 DEF IndInv, CallShape, SinceEarly, StartedBefore
  <2>4. Grouped' = Grouped
    BY <2>1 DEF Grouped, InWindow, On, Entry, Counts, RunsOf, DayOf
  <2>5. GroupedStands'
    BY <2>1, <2>4 DEF IndInv, GroupedStands
  <2>6. SummaryCovers'
    BY <2>1 DEF IndInv, WindowCovered, SummaryCovers, Answered, Recent, Ended, Sum
  <2>7. HeatmapCovers'
    BY <2>1 DEF IndInv, WindowCovered, HeatmapCovers, Answered, Recent, Ended, Sum, RunsOf, DayOf
  <2>8. OpenRunsTakeNoPlace'
    BY <2>1 DEF IndInv, OpenRunsTakeNoPlace, Answered, Finished, RunsOf
  <2>9. ReportsRight'
    BY <2>1, ReportStands DEF IndInv, Finished, Duration
  <2> QED BY <2>2, <2>3, <2>5, <2>6, <2>7, <2>8, <2>9 DEF IndInv, WindowCovered
<1> QED BY <1>1, <1>2

\* The clock, the table, requests and answers have their types, always.
THEOREM TypeCorrect == Spec => []TypeOK
<1>1. IndInv => TypeOK
  BY DEF IndInv
<1> QED BY <1>1, InitIndInv, StepIndInv, PTL DEF Spec

\* Whatever had started within the window before the answer is in the summary, and in the
\* entry of its day of the heatmap, though time passes and runs begin and end between the
\* cutoff, the query and the answer: for every length of a day and number of days.
THEOREM WindowsCovered == Spec => []WindowCovered
<1>1. IndInv => WindowCovered
  BY DEF IndInv
<1> QED BY <1>1, InitIndInv, StepIndInv, PTL DEF Spec

\* The trend leaves a finished run out only for `limit` newer ones, for every limit.
THEOREM TrendComplete == Spec => []OpenRunsTakeNoPlace
<1>1. IndInv => OpenRunsTakeNoPlace
  BY DEF IndInv
<1> QED BY <1>1, InitIndInv, StepIndInv, PTL DEF Spec

\* A report is news: at most one in 1 + t * t of the runs compared took as long as the
\* one reported at threshold t > 1, for every threshold, number of runs and durations.
THEOREM ReportsRare == Spec => []AnomalyRare
<1>1. IndInv => AnomalyRare
  BY DEF IndInv, ReportsRight, Rare, AnomalyRare
<1> QED BY <1>1, InitIndInv, StepIndInv, PTL DEF Spec

\* No spike is missed: a run longer than runs that were all alike is reported, once there
\* are more than 1 + t * t runs and no fewer than the minimum.
THEOREM SpikesReported == Spec => []SpikeReported
<1>1. IndInv => SpikeReported
  BY DEF IndInv, ReportsRight, Spiking, SpikeReported
<1> QED BY <1>1, InitIndInv, StepIndInv, PTL DEF Spec
================================================================================
