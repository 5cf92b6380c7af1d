-------------------------- MODULE LabSchedule_proofs --------------------------
(***************************************************************************)
(* Proofs about LabSchedule: the cascade proposes the earliest allowed     *)
(* windows, compared schedules stay where they are, and open schedules     *)
(* overlap only with a cause.                                              *)
(***************************************************************************)
EXTENDS LabSchedule, FiniteSetTheorems, WellFoundedInduction, TLAPS

-----------------------------------------------------------------------------
(* Types.                                                                   *)

Interval == {w \in [start : Nat, end : Nat] : w.start < w.end}
Row == {r \in [start : Nat, end : Nat, orig : Interval \cup {None}, wait : Ids \cup {0}, done : BOOLEAN] :
            r.start < r.end}
Rows == [Ids -> Row \cup {None}]
Run == [id : Ids, end : Int, paused : BOOLEAN, since : Nat]
Snapshot == [rows : Rows, lab : [Ids -> {"idle", "compared", "running", "done"}], run : Run \cup {None}]

TypeOK ==
    /\ now \in Nat /\ store \in Snapshot /\ view \in [Pages -> Snapshot]
    /\ loading \subseteq Pages /\ requests \in Nat /\ excused \in BOOLEAN
    /\ resumed # None => resumed \in Snapshot /\ resumed.run # None

\* A schedule whose trays are compared exists, and so does that of the run.
LabInv ==
    /\ \A i \in Ids : store.lab[i] # "idle" => store.rows[i] # None
    /\ store.run # None => store.lab[store.run.id] = "running"

\* No record of the schedule is the absent one.
LEMMA NoneIsNone == None \notin Interval /\ None \notin Row /\ None \notin Run /\ None \notin Snapshot
  BY DEF None, Interval, Row, Run, Snapshot

LEMMA OriginalType ==
    ASSUME NEW row \in Row
    PROVE  Original(row) \in Interval
  BY DEF Original, Row, Interval

LEMMA PresentRow ==
    ASSUME NEW rows \in Rows, NEW i \in Present(rows)
    PROVE  /\ i \in Ids /\ rows[i] \in Row
           /\ Original(rows[i]) \in Interval /\ Original(rows[i]).start \in Nat
           /\ Original(rows[i]).end \in Nat /\ Original(rows[i]).start < Original(rows[i]).end
           /\ rows[i].start \in Nat /\ rows[i].end \in Nat /\ rows[i].start < rows[i].end
<1>1. i \in Ids /\ rows[i] \in Row
  BY DEF Present, Rows
<1>2. Original(rows[i]) \in Interval
  BY <1>1, OriginalType
<1> QED
  BY <1>1, <1>2 DEF Interval, Row

-----------------------------------------------------------------------------
(* The order of the schedules.                                              *)

\* A non-empty set of naturals has a least element.
LEMMA LeastNatural ==
    ASSUME NEW T, T \subseteq Nat, T # {}
    PROVE  \E n \in T : \A m \in T : n <= m
<1> DEFINE Less == {p \in Nat \X Nat : p[1] < p[2]}
<1>1. IsWellFoundedOn(Less, Nat)
  BY NatLessThanWellFounded, Zenon DEF OpToRel
<1>2. \A m, n \in Nat : m < n => <<m, n>> \in Less
  OBVIOUS
<1> HIDE DEF Less
<1>3. PICK n \in T : \A m \in T : ~ (<<m, n>> \in Less)
  BY <1>1, WFMin
<1>4. \A m \in T : ~ (m < n)
  BY <1>2, <1>3
<1>5. \A m \in T : n <= m
  BY <1>4
<1> QED
  BY <1>5

\* Original starts, then ids, put the schedules in a strict total order.
LEMMA TotalOrder ==
    ASSUME NEW rows \in Rows
    PROVE  /\ \A i \in Present(rows) : ~ Precedes(rows, i, i)
           /\ \A i, j \in Present(rows) : i = j \/ Precedes(rows, i, j) \/ Precedes(rows, j, i)
           /\ \A i, j, k \in Present(rows) :
                 Precedes(rows, i, j) /\ Precedes(rows, j, k) => Precedes(rows, i, k)
<1>1. \A i \in Present(rows) : i \in Nat /\ Original(rows[i]).start \in Nat
  BY PresentRow, ScheduleAssumption
<1> QED
  BY <1>1 DEF Precedes

\* A non-empty set of schedules has a first one.
LEMMA FirstSchedule ==
    ASSUME NEW rows \in Rows, NEW T \in SUBSET Present(rows), T # {}
    PROVE  \E i \in T : \A j \in T \ {i} : Precedes(rows, i, j)
<1>1. \A i \in T : i \in Nat /\ Original(rows[i]).start \in Nat
  BY PresentRow, ScheduleAssumption
<1> DEFINE Starts_ == {Original(rows[i]).start : i \in T}
<1>2. PICK s \in Starts_ : \A t \in Starts_ : s <= t
  <2>1. Starts_ \subseteq Nat /\ Starts_ # {}
    BY <1>1
  <2> HIDE DEF Starts_
  <2> QED
    BY <2>1, LeastNatural
<1> DEFINE Same == {i \in T : Original(rows[i]).start = s}
<1>3. PICK i \in Same : \A j \in Same : i <= j
  <2>1. Same \subseteq Nat /\ Same # {}
    BY <1>1, <1>2
  <2> HIDE DEF Same
  <2> QED
    BY <2>1, LeastNatural
<1>4. ASSUME NEW j \in T \ {i} PROVE Precedes(rows, i, j)
  <2>1. Original(rows[i]).start = s /\ s <= Original(rows[j]).start
    BY <1>2, <1>3
  <2>2. Original(rows[j]).start = s => i < j
    BY <1>1, <1>3
  <2> QED
    BY <2>1, <2>2, <1>1 DEF Precedes
<1> QED
  BY <1>3, <1>4

\* A non-empty set of schedules has a last one: that with the most before it.
LEMMA LastSchedule ==
    ASSUME NEW rows \in Rows, NEW T \in SUBSET Present(rows), T # {}
    PROVE  \E i \in T : \A j \in T \ {i} : Precedes(rows, j, i)
<1> DEFINE Preds(i) == {j \in T : Precedes(rows, j, i)}
           Rank == [i \in T |-> Cardinality(Preds(i))]
           Rest == {Cardinality(T) - Rank[i] : i \in T}
<1>1. IsFiniteSet(T)
  BY FS_Subset, ScheduleAssumption DEF Present
<1>2. Cardinality(T) \in Nat
  BY <1>1, FS_CardinalityType
<1>3. \A i \in T : IsFiniteSet(Preds(i)) /\ Rank[i] \in Nat /\ Rank[i] <= Cardinality(T)
  <2> SUFFICES ASSUME NEW i \in T
               PROVE  IsFiniteSet(Preds(i)) /\ Rank[i] \in Nat /\ Rank[i] <= Cardinality(T)
    OBVIOUS
  <2>1. Preds(i) \subseteq T
    OBVIOUS
  <2> HIDE DEF Preds
  <2>2. IsFiniteSet(Preds(i)) /\ Rank[i] <= Cardinality(T)
    BY <2>1, <1>1, FS_Subset
  <2> QED
    BY <2>2, FS_CardinalityType
<1>4. \A i \in T : Cardinality(T) - Rank[i] \in Nat
  <2> SUFFICES ASSUME NEW i \in T PROVE Cardinality(T) - Rank[i] \in Nat
    OBVIOUS
  <2> HIDE DEF Rank, Preds
  <2>1. Rank[i] \in Nat /\ Rank[i] <= Cardinality(T)
    BY <1>3
  <2> QED
    BY <2>1, <1>2
<1>5. PICK i \in T : \A j \in T : Rank[j] <= Rank[i]
  <2> HIDE DEF Rank
  <2>1. Rest \subseteq Nat /\ Rest # {}
    BY <1>4
  <2>2. PICK n \in Rest : \A m \in Rest : n <= m
    <3> HIDE DEF Rest
    <3> QED
      BY <2>1, LeastNatural
  <2>3. PICK i \in T : n = Cardinality(T) - Rank[i]
    OBVIOUS
  <2>4. ASSUME NEW j \in T PROVE Rank[j] <= Rank[i]
    <3>1. Cardinality(T) - Rank[i] <= Cardinality(T) - Rank[j]
      BY <2>2, <2>3
    <3>2. Rank[i] \in Nat /\ Rank[j] \in Nat
      BY <1>3
    <3> QED
      BY <3>1, <3>2, <1>2
  <2> QED
    BY <2>4
<1>6. \A j \in T \ {i} : Precedes(rows, j, i)
  <2> SUFFICES ASSUME NEW j \in T \ {i}, Precedes(rows, i, j)
               PROVE  FALSE
    BY TotalOrder
  <2>1. Preds(i) \cup {i} \subseteq Preds(j) /\ i \notin Preds(i)
    BY TotalOrder
  <2>2. j \in T
    OBVIOUS
  <2> HIDE DEF Preds
  <2>3. Cardinality(Preds(i) \cup {i}) = Rank[i] + 1
    BY <1>3, <2>1, FS_AddElement
  <2>4. Cardinality(Preds(i) \cup {i}) <= Rank[j]
    BY <1>3, <2>1, <2>2, FS_Subset
  <2> QED
    BY <2>2, <2>3, <2>4, <1>3, <1>5
<1> QED
  BY <1>6

-----------------------------------------------------------------------------
(* The chain of a cascade.                                                  *)

\* The completed schedule and those after it.
Chain(rows, c) == Later(rows, c) \cup {c}

\* The schedule right before a later one is in the chain, and nothing is between them.
LEMMA BeforeFacts ==
    ASSUME NEW rows \in Rows, NEW c \in Present(rows), NEW i \in Later(rows, c)
    PROVE  /\ Before(rows, c, i) \in Chain(rows, c)
           /\ Precedes(rows, Before(rows, c, i), i)
           /\ \A k \in Chain(rows, c) :
                 Precedes(rows, k, i) => k = Before(rows, c, i) \/ Precedes(rows, k, Before(rows, c, i))
<1> DEFINE T == {j \in Later(rows, c) \cup {c} : Precedes(rows, j, i)}
<1>1. T \in SUBSET Present(rows) /\ c \in T
  BY DEF Later
<1>2. \E j \in T : \A k \in T \ {j} : Precedes(rows, k, j)
  <2> HIDE DEF T
  <2> QED
    BY <1>1, LastSchedule
<1>3. Before(rows, c, i) = CHOOSE j \in T : \A k \in T \ {j} : Precedes(rows, k, j)
  BY Zenon DEF Before
<1>4. Before(rows, c, i) \in T /\ \A k \in T \ {Before(rows, c, i)} : Precedes(rows, k, Before(rows, c, i))
  <2> HIDE DEF T
  <2> QED
    BY <1>2, <1>3
<1> QED
  BY <1>4 DEF Chain

\* A later schedule of the chain comes after the first of it.
LEMMA ChainFacts ==
    ASSUME NEW rows \in Rows, NEW c \in Present(rows)
    PROVE  /\ Chain(rows, c) \subseteq Present(rows) /\ Later(rows, c) \subseteq Present(rows)
           /\ c \in Chain(rows, c) /\ c \notin Later(rows, c)
           /\ \A i \in Chain(rows, c) : i # c => i \in Later(rows, c) /\ Precedes(rows, c, i)
           /\ \A i \in Present(rows) : Precedes(rows, c, i) <=> i \in Later(rows, c)
  BY TotalOrder DEF Chain, Later

\* The recursion of Windows, one step of it.
WindowsStep(rows, c, end, w) ==
    [i \in Later(rows, c) \cup {c} |->
        IF i = c THEN [start |-> rows[c].start, end |-> end]
        ELSE Proposed(rows[i], Original(rows[Before(rows, c, i)]).end, w[Before(rows, c, i)].end)]

\* The windows exist: they are built up along the chain.
LEMMA WindowsExist ==
    ASSUME NEW rows \in Rows, NEW c \in Present(rows), NEW end
    PROVE  \E w : w = WindowsStep(rows, c, end, w)
<1> DEFINE D == Chain(rows, c)
           Value(w, i) == IF i = c THEN [start |-> rows[c].start, end |-> end]
                          ELSE Proposed(rows[i], Original(rows[Before(rows, c, i)]).end, w[Before(rows, c, i)].end)
           Down(i) == {j \in D : j = i \/ Precedes(rows, j, i)}
           Good(i) == \E w : w = [j \in Down(i) |-> Value(w, j)]
<1>1. D \in SUBSET Present(rows) /\ D # {}
  BY ChainFacts
<1>2. \A i \in D : Good(i)
  <2> DEFINE Bad == {i \in D : ~ Good(i)}
  <2>1. SUFFICES ASSUME Bad # {} PROVE FALSE
    BY Zenon
  <2>2. PICK i \in Bad : \A j \in Bad \ {i} : Precedes(rows, i, j)
    <3>1. Bad \in SUBSET Present(rows)
      BY <1>1, Zenon
    <3> HIDE DEF Bad
    <3> QED
      BY <2>1, <3>1, FirstSchedule
  <2>3. CASE i = c
    <3>1. Down(c) = {c}
      BY <1>1, ChainFacts, TotalOrder
    <3> DEFINE w == [j \in {c} |-> [start |-> rows[c].start, end |-> end]]
    <3>2. w = [j \in {c} |-> Value(w, j)]
      OBVIOUS
    <3>3. Good(c)
      BY <3>1, <3>2, Zenon
    <3> QED
      BY <2>3, <3>3, Zenon
  <2>4. CASE i # c
    <3> DEFINE b == Before(rows, c, i)
    <3>1. i \in Later(rows, c) /\ i \in D
      BY <2>4, ChainFacts
    <3>2. b \in D /\ Precedes(rows, b, i) /\ \A k \in D : Precedes(rows, k, i) => k = b \/ Precedes(rows, k, b)
      BY <3>1, BeforeFacts
    <3> HIDE DEF b
    <3>3. Down(i) = Down(b) \cup {i} /\ i \notin Down(b) /\ b \in Down(b)
      BY <1>1, <3>1, <3>2, TotalOrder
    <3>4. b \notin Bad
      BY <1>1, <2>2, <3>2, <3>1, TotalOrder
    <3>5. PICK w : w = [j \in Down(b) |-> Value(w, j)]
      BY <3>2, <3>4, Zenon
    <3> DEFINE x == [j \in Down(i) |-> IF j = i THEN Value(w, i) ELSE w[j]]
    <3>6. \A j \in Down(i) : x[j] = Value(x, j)
      <4> SUFFICES ASSUME NEW j \in Down(i) PROVE x[j] = Value(x, j)
        OBVIOUS
      <4>1. CASE j = c
        <5>1. j # i /\ j \in Down(b)
          BY <4>1, <2>4, <3>3
        <5>2. x[j] = w[j] /\ w[j] = Value(w, j)
          BY <5>1, <3>5
        <5> QED
          BY <4>1, <5>2
      <4>2. CASE j # c
        <5> DEFINE d == Before(rows, c, j)
        <5>1. j \in Later(rows, c)
          BY <4>2, ChainFacts
        <5>2. d \in D /\ Precedes(rows, d, j)
          BY <5>1, BeforeFacts
        <5>3. d \in Down(b) /\ d # i
          <6>1. Precedes(rows, d, i)
            BY <5>1, <5>2, <3>1, <1>1, TotalOrder
          <6> QED
            BY <6>1, <5>2, <3>2, <3>3, <1>1, TotalOrder
        <5>4. x[d] = w[d]
          BY <5>3, <3>3
        <5>5. Value(x, j) = Value(w, j)
          BY <5>4
        <5>6. x[j] = Value(w, j)
          BY <3>3, <3>5
        <5> QED
          BY <5>5, <5>6
      <4> QED
        BY <4>1, <4>2
    <3>7. x = [j \in Down(i) |-> Value(x, j)]
      <4> HIDE DEF Value, Down
      <4> QED
        BY <3>6
    <3>8. Good(i)
      BY <3>7, Zenon
    <3> QED
      BY <3>8, Zenon
  <2> QED
    BY <2>3, <2>4
<1>3. PICK l \in D : \A j \in D \ {l} : Precedes(rows, j, l)
  <2> HIDE DEF D
  <2> QED
    BY <1>1, LastSchedule
<1>4. Down(l) = D
  BY <1>3
<1>5. \E w : w = [j \in D |-> Value(w, j)]
  BY <1>2, <1>3, <1>4, Zenon
<1> QED
  BY <1>5, Zenon DEF WindowsStep, Chain

LEMMA WindowsUnfold ==
    ASSUME NEW rows \in Rows, NEW c \in Present(rows), NEW end
    PROVE  Windows(rows, c, end) = WindowsStep(rows, c, end, Windows(rows, c, end))
<1>1. Windows(rows, c, end) = CHOOSE w : w = WindowsStep(rows, c, end, w)
  BY Zenon DEF Windows, WindowsStep
<1> QED
  BY <1>1, WindowsExist

-----------------------------------------------------------------------------
(* The windows of a cascade.                                                *)

LEMMA MaxOfTwo ==
    ASSUME NEW a \in Int, NEW b \in Int
    PROVE  /\ Max({a, b}) \in {a, b} /\ Max({a, b}) >= a /\ Max({a, b}) >= b
<1>1. \E x \in {a, b} : \A y \in {a, b} : x >= y
  OBVIOUS
<1>2. Max({a, b}) = CHOOSE x \in {a, b} : \A y \in {a, b} : x >= y
  BY Zenon DEF Max
<1> DEFINE m == CHOOSE x \in {a, b} : \A y \in {a, b} : x >= y
<1>3. m \in {a, b} /\ \A y \in {a, b} : m >= y
  BY <1>1
<1> QED
  BY <1>2, <1>3

LEMMA MaxOfThree ==
    ASSUME NEW a \in Int, NEW b \in Int, NEW d \in Int
    PROVE  /\ Max({a, b, d}) \in {a, b, d}
           /\ Max({a, b, d}) >= a /\ Max({a, b, d}) >= b /\ Max({a, b, d}) >= d
<1>1. \E x \in {a, b, d} : \A y \in {a, b, d} : x >= y
  OBVIOUS
<1>2. Max({a, b, d}) = CHOOSE x \in {a, b, d} : \A y \in {a, b, d} : x >= y
  BY Zenon DEF Max
<1> DEFINE m == CHOOSE x \in {a, b, d} : \A y \in {a, b, d} : x >= y
<1>3. m \in {a, b, d} /\ \A y \in {a, b, d} : m >= y
  BY <1>1
<1> QED
  BY <1>2, <1>3

\* A row goes to the earliest start that its present one, its original one, the
\* end of the one before and the original gap allow, with its original length.
LEMMA ProposedFacts ==
    ASSUME NEW row \in Row, NEW orig \in Int, NEW end \in Int,
           NEW o, o = Original(row), NEW p, p = Proposed(row, orig, end)
    PROVE  /\ p \in Interval /\ p.end = p.start + (o.end - o.start)
           /\ p.start >= row.start /\ p.start >= o.start
           /\ p.start >= end /\ p.start >= end + (o.start - orig)
           /\ p.start \in {row.start, o.start, end, end + (o.start - orig)}
<1>1. o \in Interval /\ row.start \in Nat
  BY OriginalType DEF Row
<1>2. o.start \in Nat /\ o.end \in Nat /\ o.start < o.end
  BY <1>1 DEF Interval
<1> DEFINE g == Max({o.start - orig, 0})
           s == Max({row.start, o.start, end + g})
<1>3. g \in {o.start - orig, 0} /\ g >= o.start - orig /\ g >= 0
  <2> DEFINE d == o.start - orig
  <2>1. d \in Int
    BY <1>2
  <2> HIDE DEF d
  <2>2. Max({d, 0}) \in {d, 0} /\ Max({d, 0}) >= d /\ Max({d, 0}) >= 0
    BY <2>1, MaxOfTwo
  <2> USE DEF d
  <2> QED
    BY <2>2, Zenon
<1>4. p = [start |-> s, end |-> s + (o.end - o.start)]
  BY Zenon DEF Proposed, Window
<1> HIDE DEF g
<1>5. /\ s \in {row.start, o.start, end + g}
      /\ s >= row.start /\ s >= o.start /\ s >= end + g
  <2>1. row.start \in Int /\ o.start \in Int /\ end + g \in Int
    BY <1>1, <1>2, <1>3
  <2> QED
    BY <2>1, MaxOfThree
<1> HIDE DEF s
<1>6. s \in Nat
  BY <1>1, <1>2, <1>3, <1>5
<1>7. p.start = s /\ p.end = s + (o.end - o.start)
  BY <1>4
<1>8. p \in Interval
  BY <1>2, <1>4, <1>6 DEF Interval
<1> QED
  BY <1>1, <1>2, <1>3, <1>5, <1>6, <1>7, <1>8

\* What the recursion gives for the first of the chain and for a later schedule.
LEMMA WindowsValues ==
    ASSUME NEW rows \in Rows, NEW c \in Present(rows), NEW end,
           NEW w, w = Windows(rows, c, end)
    PROVE  /\ DOMAIN w = Chain(rows, c) /\ w[c] = [start |-> rows[c].start, end |-> end]
           /\ \A i \in Later(rows, c) :
                 w[i] = Proposed(rows[i], Original(rows[Before(rows, c, i)]).end, w[Before(rows, c, i)].end)
<1>1. w = WindowsStep(rows, c, end, w)
  BY WindowsUnfold
<1>2. DOMAIN w = Chain(rows, c)
  BY <1>1 DEF WindowsStep, Chain
<1>3. \A i \in Chain(rows, c) :
        w[i] = IF i = c THEN [start |-> rows[c].start, end |-> end]
               ELSE Proposed(rows[i], Original(rows[Before(rows, c, i)]).end, w[Before(rows, c, i)].end)
  BY <1>1 DEF WindowsStep, Chain
<1>4. \A i \in Later(rows, c) : i \in Chain(rows, c) /\ i # c
  BY ChainFacts DEF Chain
<1>5. c \in Chain(rows, c)
  BY ChainFacts
<1> QED
  BY <1>2, <1>3, <1>4, <1>5, Zenon

\* Every window of a plan ends at some time; those of later schedules are intervals.
LEMMA WindowsType ==
    ASSUME NEW rows \in Rows, NEW c \in Present(rows), NEW end \in Int,
           NEW w, w = Windows(rows, c, end)
    PROVE  /\ \A i \in Chain(rows, c) : w[i].end \in Int
           /\ \A i \in Later(rows, c) : w[i] \in Interval
<1>1. /\ w[c] = [start |-> rows[c].start, end |-> end]
      /\ \A i \in Later(rows, c) :
            w[i] = Proposed(rows[i], Original(rows[Before(rows, c, i)]).end, w[Before(rows, c, i)].end)
  BY WindowsValues
<1>2. ASSUME NEW i \in Later(rows, c), w[Before(rows, c, i)].end \in Int
      PROVE  w[i] \in Interval
  <2>1. Before(rows, c, i) \in Present(rows)
    BY BeforeFacts, ChainFacts
  <2>2. Original(rows[Before(rows, c, i)]).end \in Int /\ rows[i] \in Row
    BY <2>1, PresentRow, ChainFacts
  <2> QED
    BY <2>2, <1>1, <1>2, ProposedFacts
<1>3. \A i \in Interval : i.end \in Int
  BY DEF Interval
<1>4. \A i \in Chain(rows, c) : w[i].end \in Int
  <2> DEFINE Bad == {i \in Chain(rows, c) : w[i].end \notin Int}
  <2>1. SUFFICES ASSUME Bad # {} PROVE FALSE
    OBVIOUS
  <2>2. Bad \in SUBSET Present(rows)
    BY ChainFacts
  <2>3. PICK i \in Bad : \A j \in Bad \ {i} : Precedes(rows, i, j)
    <3> HIDE DEF Bad
    <3> QED
      BY <2>1, <2>2, FirstSchedule
  <2>4. i \in Later(rows, c)
    BY <1>1, ChainFacts
  <2>5. Before(rows, c, i) \in Chain(rows, c) /\ Precedes(rows, Before(rows, c, i), i)
    BY <2>4, BeforeFacts
  <2>6. Before(rows, c, i) \notin Bad
    BY <2>2, <2>3, <2>5, ChainFacts, TotalOrder
  <2> QED
    BY <1>2, <1>3, <2>4, <2>5, <2>6
<1>5. \A i \in Later(rows, c) : Before(rows, c, i) \in Chain(rows, c)
  BY BeforeFacts
<1> QED
  BY <1>2, <1>4, <1>5

\* The window of a later schedule, against that of the one before it.
LEMMA WindowFacts ==
    ASSUME NEW rows \in Rows, NEW c \in Present(rows), NEW end \in Int,
           NEW w, w = Windows(rows, c, end), NEW i \in Later(rows, c)
    PROVE  LET b == Before(rows, c, i)
               o == Original(rows[i])
               gap == o.start - Original(rows[b]).end
           IN  /\ w[i] \in Interval /\ w[b].end \in Int /\ gap \in Int
               /\ w[i].end = w[i].start + (o.end - o.start)
               /\ w[i].start >= rows[i].start /\ w[i].start >= o.start
               /\ w[i].start >= w[b].end /\ w[i].start >= w[b].end + gap
               /\ w[i].start \in {rows[i].start, o.start, w[b].end, w[b].end + gap}
<1> DEFINE b == Before(rows, c, i)
           x == Original(rows[b]).end
           e == w[b].end
           r == rows[i]
           o == Original(r)
<1>1. b \in Chain(rows, c) /\ b \in Present(rows)
  BY BeforeFacts, ChainFacts
<1>2. r \in Row /\ o.start \in Nat /\ x \in Nat
  BY <1>1, PresentRow, ChainFacts
<1>3. e \in Int
  BY <1>1, WindowsType
<1>4. w[i] = Proposed(r, x, e)
  <2>1. /\ w[c] = [start |-> rows[c].start, end |-> end]
        /\ \A k \in Later(rows, c) :
              w[k] = Proposed(rows[k], Original(rows[Before(rows, c, k)]).end, w[Before(rows, c, k)].end)
    BY WindowsValues
  <2> QED
    BY <2>1, Zenon
<1>5. x \in Int /\ o.start - x \in Int
  BY <1>2
<1> HIDE DEF x, e, r
<1>6. /\ w[i] \in Interval /\ w[i].end = w[i].start + (o.end - o.start)
      /\ w[i].start >= r.start /\ w[i].start >= o.start
      /\ w[i].start >= e /\ w[i].start >= e + (o.start - x)
      /\ w[i].start \in {r.start, o.start, e, e + (o.start - x)}
  BY <1>2, <1>3, <1>4, <1>5, ProposedFacts
<1> USE DEF x, e, r
<1> QED
  BY <1>3, <1>5, <1>6, Zenon

\* The windows of later schedules follow each other in the order of these.
LEMMA WindowsInOrder ==
    ASSUME NEW rows \in Rows, NEW c \in Present(rows), NEW end \in Int,
           NEW w, w = Windows(rows, c, end)
    PROVE  \A i, j \in Later(rows, c) : Precedes(rows, j, i) => w[j].end <= w[i].start
<1> DEFINE Bad == {i \in Later(rows, c) :
                      \E j \in Later(rows, c) : Precedes(rows, j, i) /\ ~ (w[j].end <= w[i].start)}
<1>1. SUFFICES ASSUME Bad # {} PROVE FALSE
  OBVIOUS
<1>2. PICK i \in Bad : \A k \in Bad \ {i} : Precedes(rows, i, k)
  <2>1. Bad \in SUBSET Present(rows)
    BY ChainFacts
  <2> HIDE DEF Bad
  <2> QED
    BY <1>1, <2>1, FirstSchedule
<1>3. PICK j \in Later(rows, c) : Precedes(rows, j, i) /\ ~ (w[j].end <= w[i].start)
  OBVIOUS
<1> DEFINE b == Before(rows, c, i)
<1>4. i \in Later(rows, c) /\ j \in Chain(rows, c) /\ j \in Present(rows) /\ i \in Present(rows)
  BY ChainFacts DEF Chain
<1>5. /\ b \in Chain(rows, c) /\ b \in Present(rows) /\ Precedes(rows, b, i)
      /\ j = b \/ Precedes(rows, j, b)
  BY <1>3, <1>4, BeforeFacts, ChainFacts
<1>6. w[i].start \in Nat /\ w[b].end \in Int /\ w[i].start >= w[b].end
  <2>1. w[i] \in Interval /\ w[b].end \in Int /\ w[i].start >= w[b].end
    BY <1>4, WindowFacts
  <2> QED
    BY <2>1 DEF Interval
<1> HIDE DEF b
<1>7. j # b
  BY <1>3, <1>6
<1>8. b \in Later(rows, c)
  BY <1>4, <1>5, <1>7, ChainFacts, TotalOrder
<1>9. w[j].end <= w[b].start
  <2>1. b \notin Bad
    BY <1>2, <1>4, <1>5, TotalOrder
  <2> QED
    BY <2>1, <1>5, <1>7, <1>8
<1>10. w[b] \in Interval /\ w[j] \in Interval
  BY <1>8, WindowsType
<1>11. w[b].start < w[b].end /\ w[b].start \in Nat /\ w[b].end \in Nat /\ w[j].end \in Nat
  BY <1>10 DEF Interval
<1> QED
  BY <1>3, <1>6, <1>9, <1>11

-----------------------------------------------------------------------------
(* The updates of a cascade.                                                *)

\* A delayed row has the proposed window, which is later than its own; a row
\* that is not delayed starts where its window does.
LEMMA DelaysFacts ==
    ASSUME NEW rows \in Rows, NEW c \in Present(rows), NEW end \in Int,
           NEW w, w = Windows(rows, c, end), NEW d, d = Delays(rows, c, w)
    PROVE  /\ DOMAIN d \subseteq Later(rows, c)
           /\ \A i \in DOMAIN d :
                 /\ d[i] \in Row /\ d[i].done = rows[i].done
                 /\ d[i].start = w[i].start /\ d[i].end = w[i].end
           /\ \A i \in Later(rows, c) \ DOMAIN d :
                 w[i].start = rows[i].start /\ w[i].end <= rows[i].end
<1> DEFINE D == {j \in Later(rows, c) : Moves(rows[j], w[j])}
<1>1. DOMAIN d = D /\ \A i \in D : d[i] = Delayed(rows[i], w[i])
  BY DEF Delays
<1>2. ASSUME NEW i \in D
      PROVE  /\ d[i] \in Row /\ d[i].done = rows[i].done
             /\ d[i].start = w[i].start /\ d[i].end = w[i].end
  <2> DEFINE r == rows[i]
             o == Original(r)
             v == w[i]
  <2>1. r \in Row /\ o \in Interval
    BY PresentRow, ChainFacts
  <2>2. v \in Interval
    BY WindowsType
  <2>3. d[i] = [r EXCEPT !.start = v.start, !.end = v.end, !.orig = o, !.wait = 0]
    BY <1>1 DEF Delayed
  <2> HIDE DEF r, o, v
  <2>4. /\ d[i] \in Row /\ d[i].done = r.done
        /\ d[i].start = v.start /\ d[i].end = v.end
    BY <2>1, <2>2, <2>3 DEF Row, Interval
  <2> QED
    BY <2>4 DEF r, v
<1>3. ASSUME NEW i \in Later(rows, c) \ D
      PROVE  w[i].start = rows[i].start /\ w[i].end <= rows[i].end
  <2>1. ~ (w[i].start > rows[i].start) /\ ~ (w[i].end > rows[i].end)
    BY DEF Moves
  <2>2. w[i].start >= rows[i].start /\ w[i] \in Interval
    BY WindowFacts
  <2>3. rows[i].start \in Nat /\ rows[i].end \in Nat
    BY PresentRow, ChainFacts
  <2> QED
    BY <2>1, <2>2, <2>3 DEF Interval
<1> HIDE DEF D
<1>4. D \subseteq Later(rows, c)
  BY DEF D
<1> QED
  BY <1>1, <1>2, <1>3, <1>4

\* A plan is made of the delays, and moves no schedule that is locked; or it is empty.
LEMMA UpdatesFacts ==
    ASSUME NEW s \in Snapshot, NEW c \in Ids, NEW end \in Int,
           NEW u, u = Updates(s, c, end)
    PROVE  /\ \A i \in DOMAIN u :
                 /\ i \in Present(s.rows) /\ ~ Locked(s, i)
                 /\ u[i] \in Row /\ u[i].done = s.rows[i].done
           /\ DOMAIN u # {} =>
                 c \in Present(s.rows) /\ u = Delays(s.rows, c, Windows(s.rows, c, end))
<1>1. DOMAIN NoUpdates = {}
  BY DEF NoUpdates
<1>2. CASE u = NoUpdates
  BY <1>1, <1>2
<1>3. CASE u # NoUpdates
  <2> DEFINE w == Windows(s.rows, c, end)
  <2>1. /\ u = Delays(s.rows, c, w) /\ s.rows[c] # None
        /\ \A i \in DOMAIN u : ~ Locked(s, i)
    BY <1>3, Zenon DEF Updates
  <2>2. s.rows \in Rows /\ c \in Present(s.rows)
    BY <2>1 DEF Snapshot, Present
  <2>3. /\ DOMAIN u \subseteq Later(s.rows, c)
        /\ \A i \in DOMAIN u : u[i] \in Row /\ u[i].done = s.rows[i].done
    BY <2>1, <2>2, DelaysFacts
  <2>4. Later(s.rows, c) \subseteq Present(s.rows)
    BY <2>2, ChainFacts
  <2> QED
    BY <2>1, <2>2, <2>3, <2>4
<1> QED
  BY <1>2, <1>3

LEMMA UpsertFacts ==
    ASSUME NEW rows \in Rows, NEW u, \A i \in DOMAIN u : u[i] \in Row
    PROVE  /\ Upsert(rows, u) \in Rows
           /\ \A i \in Ids : Upsert(rows, u)[i] = IF i \in DOMAIN u THEN u[i] ELSE rows[i]
           /\ Present(rows) \subseteq Present(Upsert(rows, u))
           /\ DOMAIN u \subseteq Present(rows) => Present(Upsert(rows, u)) = Present(rows)
  BY NoneIsNone DEF Upsert, Rows, Present

\* Windows that follow each other do not overlap, and the other way round when
\* one starts no later.
LEMMA OverlapFacts ==
    ASSUME NEW a, NEW b, a.start \in Nat, a.end \in Nat, b.start \in Nat, b.end \in Nat
    PROVE  /\ a.end <= b.start => ~ Overlap(a, b) /\ ~ Overlap(b, a)
           /\ Overlap(a, b) <=> Overlap(b, a)
           /\ ~ Overlap(a, b) /\ a.start <= b.start /\ b.start < b.end => a.end <= b.start
  BY DEF Overlap

\* A cascade planned on schedules in their original order and lengths keeps
\* them apart.
LEMMA CascadeApart ==
    ASSUME NEW s \in Snapshot, NEW c \in Ids, NEW end \in Int,
           NEW u, u = Updates(s, c, end), Apart(s.rows), Aligned(s.rows)
    PROVE  Apart(Upsert(s.rows, u))
<1> DEFINE rows == s.rows
           after == Upsert(rows, u)
           later == Later(rows, c)
           w == Windows(rows, c, end)
<1>1. rows \in Rows
  BY DEF Snapshot
<1>2. /\ \A i \in DOMAIN u : i \in Present(rows) /\ u[i] \in Row /\ u[i].done = rows[i].done
      /\ DOMAIN u # {} => c \in Present(rows) /\ u = Delays(rows, c, w)
  BY UpdatesFacts
<1>3. after \in Rows /\ Present(after) = Present(rows)
      /\ \A i \in Ids : after[i] = IF i \in DOMAIN u THEN u[i] ELSE rows[i]
  BY <1>1, <1>2, UpsertFacts
<1>4. Open(after) = Open(rows)
  BY <1>2, <1>3 DEF Open, Present
<1>5. CASE DOMAIN u = {}
  <2>1. \A i \in Ids : after[i] = rows[i]
    BY <1>3, <1>5
  <2>2. Open(rows) \subseteq Ids
    BY DEF Open, Present
  <2> QED
    BY <1>4, <2>1, <2>2 DEF Apart
<1>6. CASE DOMAIN u # {}
  <2>1. c \in Present(rows) /\ u = Delays(rows, c, w)
    BY <1>2, <1>6
  <2> HIDE DEF after, w, rows
  <2>2. ASSUME NEW i \in later
        PROVE  /\ after[i].start = w[i].start /\ after[i].end = w[i].end
               /\ w[i].start \in Nat /\ w[i].end \in Nat /\ w[i].start >= rows[i].start
    <3>1. /\ w[i] \in Interval /\ w[i].start >= rows[i].start
          /\ w[i].end = w[i].start + (Original(rows[i]).end - Original(rows[i]).start)
      BY <1>1, <2>1, WindowFacts DEF w
    <3>2. i \in Present(rows) /\ i \in Ids
      BY <1>1, <2>1, ChainFacts, PresentRow
    <3>3. CASE i \in DOMAIN u
      BY <1>1, <1>3, <2>1, <3>1, <3>2, <3>3, DelaysFacts DEF w, Interval
    <3>4. CASE i \notin DOMAIN u
      <4>1. after[i] = rows[i] /\ w[i].start = rows[i].start
        BY <1>1, <1>3, <2>1, <3>2, <3>4, DelaysFacts DEF w
      <4>2. rows[i].end - rows[i].start = Original(rows[i]).end - Original(rows[i]).start
        BY <3>2 DEF Aligned, rows
      <4>3. /\ rows[i].end \in Nat /\ rows[i].start \in Nat
            /\ Original(rows[i]).end \in Nat /\ Original(rows[i]).start \in Nat
        BY <1>1, <3>2, PresentRow
      <4>4. w[i].end = rows[i].end
        BY <3>1, <4>1, <4>2, <4>3
      <4> QED
        BY <3>1, <4>1, <4>4 DEF Interval
    <3> QED
      BY <3>3, <3>4
  <2>3. \A i \in Present(rows) \ later : after[i] = rows[i]
    <3>1. DOMAIN u \subseteq later
      BY <1>1, <2>1, DelaysFacts DEF w
    <3> QED
      BY <1>3, <3>1 DEF Present
  <2>4. ASSUME NEW i \in Open(rows), NEW j \in Open(rows), Precedes(rows, i, j)
        PROVE  ~ Overlap(after[i], after[j]) /\ ~ Overlap(after[j], after[i])
    <3>1. i \in Present(rows) /\ j \in Present(rows) /\ i # j
      BY <1>1, <2>4, TotalOrder DEF Open
    <3>2. /\ rows[i].start \in Nat /\ rows[i].end \in Nat
          /\ rows[j].start \in Nat /\ rows[j].end \in Nat /\ rows[j].start < rows[j].end
      BY <1>1, <3>1, PresentRow
    <3>3. rows[i].end <= rows[j].start
      <4>1. ~ Overlap(rows[i], rows[j])
        BY <3>1 DEF Apart, rows
      <4>2. rows[i].start <= rows[j].start
        BY <2>4, <3>1 DEF Aligned, rows
      <4> QED
        BY <3>2, <4>1, <4>2, OverlapFacts
    <3>4. /\ after[i].start \in Nat /\ after[i].end \in Nat
          /\ after[j].start \in Nat /\ after[j].end \in Nat
      BY <2>2, <2>3, <3>1, <3>2
    <3>5. after[i].end <= after[j].start
      <4>1. CASE i \in later
        <5>1. j \in later
          BY <1>1, <2>1, <2>4, <3>1, <4>1, TotalOrder, ChainFacts
        <5>2. w[i].end <= w[j].start
          BY <1>1, <2>1, <2>4, <4>1, <5>1, WindowsInOrder DEF w
        <5> QED
          BY <2>2, <4>1, <5>1, <5>2
      <4>2. CASE i \notin later /\ j \in later
        BY <2>2, <2>3, <3>1, <3>2, <3>3, <4>2
      <4>3. CASE i \notin later /\ j \notin later
        BY <2>3, <3>1, <3>3, <4>3
      <4> QED
        BY <4>1, <4>2, <4>3
    <3> QED
      BY <3>4, <3>5, OverlapFacts
  <2>5. ASSUME NEW i \in Open(rows), NEW j \in Open(rows), i # j
        PROVE  ~ Overlap(after[i], after[j])
    <3>1. i \in Present(rows) /\ j \in Present(rows)
      BY DEF Open
    <3>2. Precedes(rows, i, j) \/ Precedes(rows, j, i)
      BY <1>1, <2>5, <3>1, TotalOrder
    <3> QED
      BY <2>4, <3>2
  <2>6. Apart(after)
    BY <1>4, <2>5 DEF Apart
  <2> QED
    BY <2>6 DEF after, rows
<1> QED
  BY <1>5, <1>6

-----------------------------------------------------------------------------
(* The cascade against its definition.                                      *)

\* The windows of a cascade start at the earliest allowed times.
LEMMA WindowsAreLeast ==
    ASSUME NEW rows \in Rows, NEW run \in Run, rows[run.id] # None,
           NEW w, w = Windows(rows, run.id, run.end),
           NEW starts, \A i \in Later(rows, run.id) : starts[i] = w[i].start
    PROVE  /\ Allowed(starts, rows, run)
           /\ \A other \in [Later(rows, run.id) -> Nat] :
                 Allowed(other, rows, run) => \A i \in Later(rows, run.id) : starts[i] <= other[i]
<1> DEFINE c == run.id
           later == Later(rows, c)
           Len_(i) == Original(rows[i]).end - Original(rows[i]).start
           End(f, b) == IF b = c THEN run.end ELSE f[b] + Len_(b)
           Gap(i) == Original(rows[i]).start - Original(rows[Before(rows, c, i)]).end
<1>1. c \in Present(rows) /\ run.end \in Int
  BY DEF Run, Present
<1>2. w[c].end = run.end
  <2>1. /\ w[c] = [start |-> rows[c].start, end |-> run.end]
        /\ \A i \in later :
              w[i] = Proposed(rows[i], Original(rows[Before(rows, c, i)]).end, w[Before(rows, c, i)].end)
    BY <1>1, WindowsValues
  <2> QED
    BY <2>1
<1>3. ASSUME NEW i \in later
      PROVE  /\ Before(rows, c, i) \in later \cup {c} /\ Precedes(rows, Before(rows, c, i), i)
             /\ rows[i].start \in Nat /\ Original(rows[i]).start \in Nat /\ Len_(i) \in Int
             /\ w[i].start \in Nat /\ w[i].end = w[i].start + Len_(i)
             /\ w[Before(rows, c, i)].end \in Int /\ Gap(i) \in Int
  <2>1. /\ w[i] \in Interval /\ w[i].end = w[i].start + Len_(i)
        /\ w[Before(rows, c, i)].end \in Int /\ Gap(i) \in Int
    BY <1>1, WindowFacts
  <2>2. Before(rows, c, i) \in later \cup {c} /\ Precedes(rows, Before(rows, c, i), i)
    BY <1>1, BeforeFacts DEF Chain
  <2>3. rows[i].start \in Nat /\ Original(rows[i]).start \in Nat /\ Original(rows[i]).end \in Nat
    BY <1>1, ChainFacts, PresentRow
  <2> QED
    BY <2>1, <2>2, <2>3 DEF Interval
<1>4. ASSUME NEW i \in later
      PROVE  LET e == w[Before(rows, c, i)].end
             IN  /\ w[i].start >= rows[i].start /\ w[i].start >= Original(rows[i]).start
                 /\ w[i].start >= e /\ w[i].start >= e + Gap(i)
                 /\ w[i].start \in {rows[i].start, Original(rows[i]).start, e, e + Gap(i)}
  BY <1>1, WindowFacts
<1>5. \A i \in later : End(starts, Before(rows, c, i)) = w[Before(rows, c, i)].end
  BY <1>2, <1>3
<1> HIDE DEF Gap, Len_
<1>6. \A f : Allowed(f, rows, run) <=>
               \A i \in later :
                  LET e == End(f, Before(rows, c, i))
                  IN  /\ f[i] >= rows[i].start /\ f[i] >= Original(rows[i]).start
                      /\ f[i] >= e + Gap(i) /\ f[i] >= e
  BY Zenon DEF Allowed, Gap, Len_
<1>7. Allowed(starts, rows, run)
  <2>1. ASSUME NEW i \in later
        PROVE  LET e == End(starts, Before(rows, c, i))
               IN  /\ starts[i] >= rows[i].start /\ starts[i] >= Original(rows[i]).start
                   /\ starts[i] >= e + Gap(i) /\ starts[i] >= e
    <3>1. End(starts, Before(rows, c, i)) = w[Before(rows, c, i)].end /\ starts[i] = w[i].start
      BY <1>5
    <3> HIDE DEF End
    <3> QED
      BY <1>4, <3>1
  <2> QED
    BY <1>6, <2>1
<1>8. ASSUME NEW other \in [later -> Nat], Allowed(other, rows, run)
      PROVE  \A i \in later : starts[i] <= other[i]
  <2> DEFINE Bad == {i \in later : ~ (w[i].start <= other[i])}
  <2>1. SUFFICES ASSUME Bad # {} PROVE FALSE
    OBVIOUS
  <2>2. PICK i \in Bad : \A j \in Bad \ {i} : Precedes(rows, i, j)
    <3>1. Bad \in SUBSET Present(rows)
      BY <1>1, ChainFacts
    <3> HIDE DEF Bad
    <3> QED
      BY <2>1, <3>1, FirstSchedule
  <2> DEFINE b == Before(rows, c, i)
             e == End(other, b)
  <2>3. i \in later /\ ~ (w[i].start <= other[i]) /\ other[i] \in Nat
    OBVIOUS
  <2>4. /\ other[i] >= rows[i].start /\ other[i] >= Original(rows[i]).start
        /\ other[i] >= e + Gap(i) /\ other[i] >= e
    BY <1>6, <1>8, <2>3
  <2>5. w[b].end <= e /\ e \in Int /\ w[b].end \in Int
    <3>1. CASE b = c
      BY <1>1, <1>2, <3>1
    <3>2. CASE b # c
      <4>1. b \in later /\ Precedes(rows, b, i)
        BY <1>3, <2>3, <3>2
      <4>2. b \notin Bad
        BY <1>1, <2>2, <2>3, <4>1, ChainFacts, TotalOrder
      <4>3. w[b].start <= other[b] /\ other[b] \in Nat
        BY <4>1, <4>2
      <4>4. w[b].start \in Nat /\ Len_(b) \in Int /\ w[b].end = w[b].start + Len_(b)
        BY <1>3, <4>1
      <4>5. e = other[b] + Len_(b)
        BY <3>2
      <4> HIDE DEF e, b
      <4> QED
        BY <4>3, <4>4, <4>5
    <3> QED
      BY <3>1, <3>2
  <2>6. /\ rows[i].start \in Nat /\ Original(rows[i]).start \in Nat /\ Gap(i) \in Int
        /\ w[i].start \in {rows[i].start, Original(rows[i]).start, w[b].end, w[b].end + Gap(i)}
    BY <1>3, <1>4, <2>3
  <2> HIDE DEF e, b, Bad
  <2> QED
    BY <2>3, <2>4, <2>5, <2>6
<1> QED
  BY <1>7, <1>8

-----------------------------------------------------------------------------
(* Changes of a snapshot.                                                   *)

LabStates == {"idle", "compared", "running", "done"}

LEMMA SnapshotFields ==
    ASSUME NEW s \in Snapshot
    PROVE  /\ s = [rows |-> s.rows, lab |-> s.lab, run |-> s.run]
           /\ s.rows \in Rows /\ s.lab \in [Ids -> LabStates] /\ s.run \in Run \cup {None}
  BY DEF Snapshot, LabStates

LEMMA NewRows ==
    ASSUME NEW s \in Snapshot, NEW rows \in Rows, NEW t, t = [s EXCEPT !.rows = rows]
    PROVE  t \in Snapshot /\ t.rows = rows /\ t.lab = s.lab /\ t.run = s.run
<1> HIDE DEF Rows, Run
<1> QED
  BY DEF Snapshot

LEMMA OneRow ==
    ASSUME NEW s \in Snapshot, NEW i \in Ids, NEW row \in Row \cup {None},
           NEW t, t = [s EXCEPT !.rows[i] = row]
    PROVE  /\ t \in Snapshot /\ t.lab = s.lab /\ t.run = s.run
           /\ t.rows = [s.rows EXCEPT ![i] = row]
<1>1. [s.rows EXCEPT ![i] = row] \in Rows
  BY SnapshotFields DEF Rows
<1>2. t = [s EXCEPT !.rows = [s.rows EXCEPT ![i] = row]]
  BY SnapshotFields
<1> QED
  BY <1>1, <1>2, NewRows

LEMMA NewRun ==
    ASSUME NEW s \in Snapshot, NEW run \in Run \cup {None}, NEW t, t = [s EXCEPT !.run = run]
    PROVE  t \in Snapshot /\ t.rows = s.rows /\ t.lab = s.lab /\ t.run = run
<1> HIDE DEF Rows, Run
<1> QED
  BY DEF Snapshot

LEMMA NewRowType ==
    ASSUME NEW w, w \in Interval
    PROVE  NewRow(w) \in Row
  BY NoneIsNone DEF NewRow, Interval, Row

-----------------------------------------------------------------------------
(* One step.                                                                *)

Inv == TypeOK /\ LabInv

\* What is shown of every action.
StepOK == Inv' /\ KeepsCompared /\ (OverlapHasCause => OverlapHasCause')

\* A step that leaves the rows alone keeps them apart and where they are.
LEMMA RowsKept ==
    ASSUME store'.rows = store.rows, excused' = excused
    PROVE  KeepsCompared /\ (OverlapHasCause => OverlapHasCause')
  BY DEF KeepsCompared, OverlapHasCause

\* Locked schedules are kept by a write the lock policy accepts.
LEMMA LockedKept ==
    ASSUME KeepsLocked(store'.rows)
    PROVE  KeepsCompared
  BY DEF KeepsCompared, KeepsLocked

\* The cascade of a lab event removes no row, moves none that is locked, and
\* keeps them apart unless it is excused.
LEMMA CascadedFacts ==
    ASSUME NEW next \in Snapshot, NEW c \in Ids, NEW end \in Int,
           excused \in BOOLEAN, Cascaded(next, c, end)
    PROVE  /\ store' \in Snapshot /\ store'.lab = next.lab /\ store'.run = next.run
           /\ excused' \in BOOLEAN /\ (excused => excused')
           /\ Present(next.rows) \subseteq Present(store'.rows)
           /\ \A i \in Ids : next.lab[i] # "idle" => store'.rows[i] = next.rows[i]
           /\ (~ Apart(next.rows) => excused) => (~ Apart(store'.rows) => excused')
<1> DEFINE u == Updates(next, c, end)
           rows == Upsert(next.rows, u)
<1>1. next.rows \in Rows
  BY SnapshotFields
<1>2. \A i \in DOMAIN u : i \in Present(next.rows) /\ ~ Locked(next, i) /\ u[i] \in Row
  BY UpdatesFacts
<1>3. /\ rows \in Rows /\ Present(next.rows) \subseteq Present(rows)
      /\ \A i \in Ids : rows[i] = IF i \in DOMAIN u THEN u[i] ELSE next.rows[i]
  BY <1>1, <1>2, UpsertFacts
<1>4. /\ store' = [next EXCEPT !.rows = rows]
      /\ excused' = (excused \/ (DOMAIN u # {} /\ ~ Aligned(next.rows)))
  <2>1. store' = [next EXCEPT !.rows = Upsert(next.rows, u)]
    BY SnapshotFields DEF Cascaded
  <2> QED
    BY <2>1, Zenon DEF Cascaded
<1>5. store' \in Snapshot /\ store'.rows = rows /\ store'.lab = next.lab /\ store'.run = next.run
  BY <1>3, <1>4, NewRows
<1>6. \A i \in Ids : next.lab[i] # "idle" => rows[i] = next.rows[i]
  BY <1>2, <1>3 DEF Locked
<1>7. ASSUME ~ Apart(next.rows) => excused, ~ Apart(rows)
      PROVE  excused'
  <2>1. CASE DOMAIN u = {}
    <3>1. rows = next.rows
      <4>1. rows = [i \in Ids |-> next.rows[i]]
        BY <2>1, Zenon DEF Upsert
      <4> QED
        BY <1>1, <4>1 DEF Rows
    <3> QED
      BY <1>4, <1>7, <3>1
  <2>2. CASE DOMAIN u # {} /\ Aligned(next.rows)
    <3>1. ~ Apart(next.rows)
      BY <1>7, <2>2, CascadeApart
    <3> QED
      BY <1>4, <1>7, <3>1
  <2>3. CASE DOMAIN u # {} /\ ~ Aligned(next.rows)
    BY <1>4, <2>3
  <2> QED
    BY <2>1, <2>2, <2>3
<1> HIDE DEF rows, u
<1> QED
  BY <1>3, <1>4, <1>5, <1>6, <1>7

LEMMA CompareStep ==
    ASSUME Inv, NEW i \in Ids, Compare(i) \/ Withdraw(i)
    PROVE  StepOK
<1>1. PICK x \in LabStates :
         /\ store' = [store EXCEPT !.lab[i] = x]
         /\ x # "idle" => store.rows[i] # None
         /\ store.lab[i] # "running"
  BY DEF Compare, Withdraw, LabStates
<1>2. UNCHANGED <<now, view, loading, resumed, requests, excused>>
  BY DEF Compare, Withdraw
<1>3. /\ store' \in Snapshot /\ store'.rows = store.rows /\ store'.run = store.run
      /\ store'.lab = [store.lab EXCEPT ![i] = x]
  <2>1. store \in Snapshot
    BY DEF Inv, TypeOK
  <2> QED
    BY <1>1, <2>1, SnapshotFields DEF Snapshot, LabStates
<1>4. TypeOK'
  BY <1>2, <1>3 DEF Inv, TypeOK
<1>5. LabInv'
  <2>1. store.lab \in [Ids -> LabStates]
    BY SnapshotFields DEF Inv, TypeOK
  <2> QED
    BY <1>1, <1>3, <2>1 DEF Inv, LabInv
<1> QED
  BY <1>2, <1>3, <1>4, <1>5, RowsKept DEF StepOK, Inv

\* Changes of the run alone.
LEMMA RunStep ==
    ASSUME Inv, NEW run \in Run, run.id = store.run.id, store.run # None,
           store' = [store EXCEPT !.run = run],
           resumed' \in {resumed, store'}, UNCHANGED <<now, view, loading, requests, excused>>
    PROVE  StepOK
<1>1. store' \in Snapshot /\ store'.rows = store.rows /\ store'.lab = store.lab /\ store'.run = run
  BY NewRun DEF Inv, TypeOK
<1>2. TypeOK'
  BY <1>1, NoneIsNone DEF Inv, TypeOK
<1>3. LabInv'
  BY <1>1 DEF Inv, LabInv
<1> QED
  BY <1>1, <1>2, <1>3, RowsKept DEF StepOK, Inv

LEMMA PauseStep ==
    ASSUME Inv, Pause \/ Resume
    PROVE  StepOK
<1>1. store \in Snapshot /\ store.run \in Run /\ now \in Nat
  BY SnapshotFields DEF Inv, TypeOK, Pause, Resume
<1>2. CASE Pause
  <2> DEFINE run == [store.run EXCEPT !.paused = TRUE, !.since = now]
  <2>1. run \in Run /\ run.id = store.run.id
    BY <1>1 DEF Run
  <2>2. store' = [store EXCEPT !.run = run]
    BY <1>1, <1>2, SnapshotFields DEF Pause
  <2> HIDE DEF run
  <2> QED
    BY <1>2, <2>1, <2>2, RunStep DEF Pause
<1>3. CASE Resume
  <2> DEFINE run == [store.run EXCEPT !.end = @ + (now - store.run.since), !.paused = FALSE, !.since = 0]
  <2>1. run \in Run /\ run.id = store.run.id
    <3>1. store.run.end + (now - store.run.since) \in Int
      BY <1>1 DEF Run
    <3> QED
      BY <1>1, <3>1 DEF Run
  <2>2. store' = [store EXCEPT !.run = run]
    BY <1>1, <1>3, SnapshotFields DEF Resume
  <2> HIDE DEF run
  <2> QED
    BY <1>3, <2>1, <2>2, RunStep DEF Resume
<1> QED
  BY <1>2, <1>3

LEMMA TickStep ==
    ASSUME Inv, Tick
    PROVE  StepOK
<1>1. TypeOK'
  BY DEF Inv, TypeOK, Tick
<1>2. LabInv'
  BY DEF Inv, LabInv, Tick
<1> QED
  BY <1>1, <1>2, RowsKept DEF StepOK, Inv, Tick

LEMMA StartStep ==
    ASSUME Inv, NEW i \in Ids, NEW d \in Durations, Start(i, d)
    PROVE  StepOK
<1> DEFINE run == [id |-> i, end |-> now + d, paused |-> FALSE, since |-> 0]
           next == [store EXCEPT !.lab[i] = "running", !.run = run]
<1>1. store \in Snapshot /\ now \in Nat /\ excused \in BOOLEAN
  BY DEF Inv, TypeOK
<1>2. now + d \in Int
  BY <1>1, ScheduleAssumption
<1>3. run \in Run /\ run.id = i /\ run # None
  <2>1. run.id = i
    OBVIOUS
  <2>2. run \in Run
    <3> DEFINE end == now + d
    <3>1. end \in Int
      BY <1>2
    <3> HIDE DEF end
    <3>2. [id |-> i, end |-> end, paused |-> FALSE, since |-> 0] \in Run
      BY <3>1 DEF Run
    <3> USE DEF end
    <3> QED
      BY <3>2
  <2> HIDE DEF run
  <2> QED
    BY <2>1, <2>2, NoneIsNone
<1>4. Cascaded(next, i, now + d) /\ store.lab[i] = "compared" /\ UNCHANGED <<now, view, loading, resumed, requests>>
  BY Zenon DEF Start
<1> HIDE DEF run
<1>5. /\ next \in Snapshot /\ next.rows = store.rows /\ next.run = run
      /\ next.lab = [store.lab EXCEPT ![i] = "running"]
  BY <1>1, <1>3, SnapshotFields DEF Snapshot, LabStates
<1> HIDE DEF next
<1>6. /\ store' \in Snapshot /\ store'.lab = next.lab /\ store'.run = next.run
      /\ excused' \in BOOLEAN
      /\ Present(next.rows) \subseteq Present(store'.rows)
      /\ \A j \in Ids : next.lab[j] # "idle" => store'.rows[j] = next.rows[j]
      /\ (~ Apart(next.rows) => excused) => (~ Apart(store'.rows) => excused')
  BY <1>1, <1>2, <1>4, <1>5, CascadedFacts
<1>7. \A j \in Ids : next.lab[j] = IF j = i THEN "running" ELSE store.lab[j]
  BY <1>1, <1>5, SnapshotFields
<1>8. TypeOK'
  BY <1>4, <1>6 DEF Inv, TypeOK
<1>9. LabInv'
  <2>1. \A j \in Ids : next.lab[j] # "idle" => store.rows[j] # None
    BY <1>4, <1>7 DEF Inv, LabInv
  <2>2. \A j \in Ids : next.lab[j] # "idle" => store'.rows[j] # None
    BY <1>5, <1>6, <2>1
  <2>3. store'.lab[store'.run.id] = "running"
    BY <1>3, <1>5, <1>6, <1>7
  <2> QED
    BY <1>6, <2>2, <2>3 DEF LabInv
<1>10. KeepsCompared
  BY <1>5, <1>6, <1>7 DEF KeepsCompared
<1>11. OverlapHasCause => OverlapHasCause'
  BY <1>5, <1>6 DEF OverlapHasCause
<1> QED
  BY <1>8, <1>9, <1>10, <1>11 DEF StepOK, Inv

LEMMA CompleteStep ==
    ASSUME Inv, Complete
    PROVE  StepOK
<1> DEFINE c == store.run.id
           row == [store.rows[c] EXCEPT !.done = TRUE]
           next == [store EXCEPT !.lab[c] = "done", !.rows[c].done = TRUE, !.run = None]
<1>1. store \in Snapshot /\ now \in Int /\ excused \in BOOLEAN
  BY DEF Inv, TypeOK
<1>2. /\ Cascaded(next, c, now) /\ store.run # None
      /\ UNCHANGED <<now, view, loading, resumed, requests>>
  BY Zenon DEF Complete
<1>3. c \in Ids /\ store.lab[c] = "running" /\ store.rows[c] # None
  BY <1>1, <1>2, SnapshotFields DEF Inv, LabInv, Run
<1>4. store.rows \in Rows /\ store.rows[c] \in Row
  BY <1>1, <1>3, SnapshotFields DEF Rows
<1>5. row \in Row /\ row.done /\ row.start = store.rows[c].start /\ row.end = store.rows[c].end
  BY <1>4 DEF Row
<1> DEFINE rows == [store.rows EXCEPT ![c] = row]
<1> HIDE DEF row
<1>6. rows \in Rows
  BY <1>4, <1>5 DEF Rows
<1>7. /\ next \in Snapshot /\ next.rows = rows /\ next.run = None
      /\ next.lab = [store.lab EXCEPT ![c] = "done"]
  <2>1. next = [store EXCEPT !.lab[c] = "done", !.rows = rows, !.run = None]
    BY <1>1, <1>4, SnapshotFields DEF row
  <2> HIDE DEF rows, next
  <2> QED
    BY <1>1, <1>3, <1>6, <2>1, SnapshotFields DEF Snapshot, LabStates
<1>8. \A j \in Ids : /\ next.lab[j] = IF j = c THEN "done" ELSE store.lab[j]
                     /\ rows[j] = IF j = c THEN row ELSE store.rows[j]
  <2>1. store.lab \in [Ids -> LabStates]
    BY <1>1, SnapshotFields
  <2> QED
    BY <1>3, <1>4, <1>7, <2>1 DEF Rows
<1> HIDE DEF next, rows
<1>9. /\ store' \in Snapshot /\ store'.lab = next.lab /\ store'.run = next.run
      /\ excused' \in BOOLEAN
      /\ \A j \in Ids : next.lab[j] # "idle" => store'.rows[j] = next.rows[j]
      /\ (~ Apart(next.rows) => excused) => (~ Apart(store'.rows) => excused')
  BY <1>1, <1>2, <1>3, <1>7, CascadedFacts
<1>10. \A j \in Ids : store.lab[j] # "idle" => store'.rows[j] = rows[j] /\ rows[j] # None
  BY <1>3, <1>5, <1>7, <1>8, <1>9, NoneIsNone DEF Inv, LabInv
<1>11. TypeOK'
  BY <1>2, <1>9 DEF Inv, TypeOK
<1>12. LabInv'
  BY <1>3, <1>7, <1>8, <1>9, <1>10 DEF LabInv
<1>13. KeepsCompared
  BY <1>5, <1>8, <1>10 DEF KeepsCompared
<1>14. OverlapHasCause => OverlapHasCause'
  <2>1. \A j \in Open(rows) : j \in Open(store.rows) /\ j \in Ids /\ rows[j] = store.rows[j]
    BY <1>5, <1>8 DEF Open, Present
  <2>2. Apart(store.rows) => Apart(rows)
    BY <2>1 DEF Apart
  <2> QED
    BY <1>7, <1>9, <2>2 DEF OverlapHasCause
<1> QED
  BY <1>11, <1>12, <1>13, <1>14 DEF StepOK, Inv

LEMMA WriteResumedStep ==
    ASSUME Inv, WriteResumed
    PROVE  StepOK
<1> DEFINE c == resumed.run.id
           u == Updates(resumed, c, resumed.run.end)
           rows == Upsert(store.rows, u)
<1>1. store \in Snapshot /\ resumed \in Snapshot /\ excused \in BOOLEAN /\ resumed # None
  BY DEF Inv, TypeOK, WriteResumed
<1>2. c \in Ids /\ resumed.run.end \in Int
  BY <1>1, SnapshotFields DEF Inv, TypeOK, Run
<1>3. /\ store' = [store EXCEPT !.rows = rows] /\ resumed' = None
      /\ excused' = (excused \/ (DOMAIN u # {} /\ (~ Aligned(resumed.rows) \/ resumed.rows # store.rows)))
      /\ UNCHANGED <<now, view, loading, requests>>
  <2>1. store' = [store EXCEPT !.rows = Upsert(store.rows, u)]
    BY <1>1, SnapshotFields DEF WriteResumed
  <2> QED
    BY <2>1, Zenon DEF WriteResumed
<1>4. store.rows \in Rows
  BY <1>1, SnapshotFields
<1>5. \A i \in DOMAIN u : i \in Present(resumed.rows) /\ ~ Locked(resumed, i) /\ u[i] \in Row
  BY <1>1, <1>2, UpdatesFacts
<1>6. /\ rows \in Rows /\ Present(store.rows) \subseteq Present(rows)
      /\ \A i \in Ids : rows[i] = IF i \in DOMAIN u THEN u[i] ELSE store.rows[i]
  BY <1>4, <1>5, UpsertFacts
<1>7. store' \in Snapshot /\ store'.rows = rows /\ store'.lab = store.lab /\ store'.run = store.run
  BY <1>1, <1>3, <1>6, NewRows
<1>8. TypeOK'
  BY <1>1, <1>3, <1>7 DEF Inv, TypeOK
<1>9. LabInv'
  BY <1>6, <1>7 DEF Inv, LabInv, Present
<1>10. KeepsCompared
  <2> SUFFICES ASSUME NEW i \in Ids, store.lab[i] # "idle", store.rows[i] # None, ~ StaleResumption
               PROVE  store'.rows[i] = store.rows[i]
    BY DEF KeepsCompared
  <2>1. resumed = store
    BY <1>1, <1>3 DEF StaleResumption
  <2>2. i \notin DOMAIN u
    BY <1>5, <2>1 DEF Locked
  <2> QED
    BY <1>6, <1>7, <2>2
<1>11. OverlapHasCause => OverlapHasCause'
  <2> SUFFICES ASSUME OverlapHasCause, ~ Apart(rows), ~ excused'
               PROVE  FALSE
    BY <1>7 DEF OverlapHasCause
  <2>1. Apart(store.rows)
    BY <1>3 DEF OverlapHasCause
  <2>2. CASE DOMAIN u = {}
    <3>1. rows = [i \in Ids |-> store.rows[i]]
      BY <2>2, Zenon DEF Upsert
    <3>2. rows = store.rows
      BY <1>4, <3>1 DEF Rows
    <3> QED
      BY <2>1, <3>2
  <2>3. CASE DOMAIN u # {}
    <3>1. Aligned(resumed.rows) /\ resumed.rows = store.rows
      BY <1>3, <2>3
    <3>2. Apart(Upsert(resumed.rows, u))
      BY <1>1, <1>2, <2>1, <3>1, CascadeApart
    <3> QED
      BY <3>1, <3>2
  <2> QED
    BY <2>2, <2>3
<1> QED
  BY <1>8, <1>9, <1>10, <1>11 DEF StepOK, Inv

-----------------------------------------------------------------------------
(* One step of a page.                                                      *)

LEMMA LoadStep ==
    ASSUME Inv, NEW p \in Pages, Load(p) \/ LoadEnds(p)
    PROVE  StepOK
<1>1. TypeOK'
  <2>1. CASE Load(p)
    BY <2>1, ScheduleAssumption DEF Inv, TypeOK, Load, Request
  <2>2. CASE LoadEnds(p)
    BY <2>2 DEF Inv, TypeOK, LoadEnds
  <2> QED
    BY <2>1, <2>2
<1>2. store' = store /\ excused' = excused
  BY DEF Load, LoadEnds
<1>3. LabInv'
  BY <1>2 DEF Inv, LabInv
<1> QED
  BY <1>1, <1>2, <1>3, RowsKept DEF StepOK, Inv

\* Marking changes no window.
LEMMA MarkedFacts ==
    ASSUME NEW v \in Snapshot
    PROVE  /\ Marked(v) \in Rows
           /\ \A i \in Ids :
                 /\ Marked(v)[i] = None <=> v.rows[i] = None
                 /\ v.rows[i] # None =>
                       /\ Marked(v)[i].start = v.rows[i].start /\ Marked(v)[i].end = v.rows[i].end
                       /\ Marked(v)[i].done = v.rows[i].done
<1>1. v.rows \in Rows /\ v.run \in Run \cup {None}
  BY SnapshotFields
<1>2. ASSUME NEW i \in Unmarked(v)
      PROVE  /\ [v.rows[i] EXCEPT !.wait = v.run.id, !.orig = Original(v.rows[i])] \in Row
             /\ LET r == [v.rows[i] EXCEPT !.wait = v.run.id, !.orig = Original(v.rows[i])]
                IN  r.start = v.rows[i].start /\ r.end = v.rows[i].end /\ r.done = v.rows[i].done
             /\ v.rows[i] # None
  <2>1. i \in Present(v.rows) /\ v.run # None
    BY DEF Unmarked, Blocked
  <2>2. v.rows[i] \in Row /\ Original(v.rows[i]) \in Interval /\ v.rows[i] # None
    BY <1>1, <2>1, PresentRow DEF Present
  <2>3. v.run.id \in Ids
    BY <1>1, <2>1 DEF Run
  <2> DEFINE r == v.rows[i]
             o == Original(r)
             n == v.run.id
  <2> HIDE DEF r, o, n
  <2>4. r \in Row /\ o \in Interval /\ n \in Ids
    BY <2>2, <2>3 DEF r, o, n
  <2>5. LET x == [r EXCEPT !.wait = n, !.orig = o]
        IN  x \in Row /\ x.start = r.start /\ x.end = r.end /\ x.done = r.done
    BY <2>4 DEF Row
  <2> USE DEF r, o, n
  <2> QED
    BY <2>2, <2>5, Zenon
<1>3. \A i \in Ids : Marked(v)[i] = IF i \in Unmarked(v)
                                    THEN [v.rows[i] EXCEPT !.wait = v.run.id, !.orig = Original(v.rows[i])]
                                    ELSE v.rows[i]
  BY DEF Marked
<1>4. ASSUME NEW i \in Ids
      PROVE  /\ Marked(v)[i] \in Row \cup {None}
             /\ Marked(v)[i] = None <=> v.rows[i] = None
             /\ v.rows[i] # None =>
                   /\ Marked(v)[i].start = v.rows[i].start /\ Marked(v)[i].end = v.rows[i].end
                   /\ Marked(v)[i].done = v.rows[i].done
  <2>1. CASE i \in Unmarked(v)
    <3> DEFINE x == [v.rows[i] EXCEPT !.wait = v.run.id, !.orig = Original(v.rows[i])]
    <3>1. Marked(v)[i] = x
      BY <1>3, <2>1
    <3>2. /\ x \in Row /\ v.rows[i] # None
          /\ x.start = v.rows[i].start /\ x.end = v.rows[i].end /\ x.done = v.rows[i].done
      BY <1>2, <2>1, Zenon
    <3> HIDE DEF x
    <3> QED
      BY <3>1, <3>2, NoneIsNone
  <2>2. CASE i \notin Unmarked(v)
    BY <1>1, <1>3, <2>2 DEF Rows
  <2> QED
    BY <2>1, <2>2
<1>5. Marked(v) \in Rows
  <2>1. Marked(v) = [i \in Ids |-> Marked(v)[i]]
    BY Zenon DEF Marked
  <2> QED
    BY <1>4, <2>1 DEF Rows
<1> QED
  BY <1>4, <1>5

LEMMA WithoutFacts ==
    ASSUME NEW rows \in Rows, NEW ids
    PROVE  /\ Without(rows, ids) \in Rows
           /\ \A i \in Ids : Without(rows, ids)[i] = IF i \in ids THEN None ELSE rows[i]
  BY DEF Without, Rows

\* A page shows a snapshot after it has changed rows of it.
LEMMA ViewRows ==
    ASSUME view \in [Pages -> Snapshot], NEW p \in Pages, NEW rows \in Rows
    PROVE  [view EXCEPT ![p].rows = rows] \in [Pages -> Snapshot]
<1> DEFINE t == [view[p] EXCEPT !.rows = rows]
<1>1. t \in Snapshot
  BY NewRows
<1>2. [view EXCEPT ![p].rows = rows] = [view EXCEPT ![p] = t]
  OBVIOUS
<1> HIDE DEF t
<1> QED
  BY <1>1, <1>2

\* A write of rows that the lock policy accepts.
LEMMA WrittenRows ==
    ASSUME Inv, NEW rows \in Rows, store' = [store EXCEPT !.rows = rows], KeepsLocked(rows),
           view' \in [Pages -> Snapshot], loading' \subseteq Pages, requests' \in Nat,
           excused' \in BOOLEAN, UNCHANGED <<now, resumed>>,
           OverlapHasCause => (~ Apart(rows) => excused')
    PROVE  StepOK
<1>1. store' \in Snapshot /\ store'.rows = rows /\ store'.lab = store.lab /\ store'.run = store.run
  BY NewRows DEF Inv, TypeOK
<1>2. TypeOK'
  BY <1>1 DEF Inv, TypeOK
<1>3. LabInv'
  BY <1>1 DEF Inv, LabInv, KeepsLocked
<1>4. KeepsCompared
  BY <1>1, LockedKept
<1>5. OverlapHasCause => OverlapHasCause'
  BY <1>1 DEF OverlapHasCause
<1> QED
  BY <1>2, <1>3, <1>4, <1>5 DEF StepOK, Inv

LEMMA DeleteMissedStep ==
    ASSUME Inv, NEW p \in Pages, DeleteMissed(p)
    PROVE  StepOK
<1> DEFINE missed == Missed(view[p])
           rows == Without(store.rows, missed)
           shown == Without(Marked(view[p]), missed)
<1>1. store \in Snapshot /\ view \in [Pages -> Snapshot] /\ view[p] \in Snapshot
  BY DEF Inv, TypeOK
<1>2. store.rows \in Rows /\ Marked(view[p]) \in Rows
  BY <1>1, SnapshotFields, MarkedFacts
<1>3. /\ rows \in Rows /\ shown \in Rows
      /\ \A i \in Ids : rows[i] = IF i \in missed THEN None ELSE store.rows[i]
  <2> HIDE DEF missed
  <2> QED
    BY <1>2, WithoutFacts
<1>4. /\ store' = [store EXCEPT !.rows = Without(store.rows, missed)]
      /\ view' = [view EXCEPT ![p].rows = shown]
      /\ loading' = loading \ {p} /\ UNCHANGED <<now, resumed, requests, excused>>
  BY <1>1, SnapshotFields DEF DeleteMissed
<1>5. KeepsLocked(rows)
  BY Zenon DEF DeleteMissed, Reconciles
<1> HIDE DEF missed, rows, shown
<1>6. view' \in [Pages -> Snapshot]
  BY <1>1, <1>3, <1>4, ViewRows
<1>7. Apart(store.rows) => Apart(rows)
  <2>1. \A i \in Open(rows) : i \in Open(store.rows) /\ rows[i] = store.rows[i]
    BY <1>3 DEF Open, Present
  <2> QED
    BY <2>1 DEF Apart
<1> QED
  BY <1>3, <1>4, <1>5, <1>6, <1>7, WrittenRows DEF rows, OverlapHasCause, Inv, TypeOK

LEMMA MarkWaitingStep ==
    ASSUME Inv, NEW p \in Pages, MarkWaiting(p)
    PROVE  StepOK
<1> DEFINE rows == Marked(view[p])
<1>1. store \in Snapshot /\ view \in [Pages -> Snapshot] /\ view[p] \in Snapshot /\ excused \in BOOLEAN
  BY DEF Inv, TypeOK
<1>2. /\ store' = [store EXCEPT !.rows = rows] /\ view' = [view EXCEPT ![p].rows = rows]
      /\ loading' = loading \ {p} /\ UNCHANGED <<now, resumed, requests>>
      /\ excused' = (excused \/ view[p].rows # store.rows)
  BY Zenon DEF MarkWaiting
<1>3. KeepsLocked(rows)
  BY Zenon DEF MarkWaiting, Reconciles
<1>4. /\ rows \in Rows
      /\ \A i \in Ids :
            /\ rows[i] = None <=> view[p].rows[i] = None
            /\ view[p].rows[i] # None =>
                  /\ rows[i].start = view[p].rows[i].start /\ rows[i].end = view[p].rows[i].end
                  /\ rows[i].done = view[p].rows[i].done
  BY <1>1, MarkedFacts
<1> HIDE DEF rows
<1>5. view' \in [Pages -> Snapshot]
  BY <1>1, <1>2, <1>4, ViewRows
<1>6. ASSUME view[p].rows = store.rows, Apart(store.rows)
      PROVE  Apart(rows)
  <2>1. \A i \in Open(rows) : /\ i \in Open(store.rows) /\ rows[i].start = store.rows[i].start
                              /\ rows[i].end = store.rows[i].end
    BY <1>4, <1>6 DEF Open, Present
  <2> QED
    BY <1>6, <2>1 DEF Apart, Overlap
<1>7. OverlapHasCause => (~ Apart(rows) => excused')
  BY <1>2, <1>6 DEF OverlapHasCause
<1>8. excused' \in BOOLEAN /\ loading' \subseteq Pages /\ requests' \in Nat
  BY <1>1, <1>2 DEF Inv, TypeOK
<1> QED
  BY <1>2, <1>3, <1>4, <1>5, <1>7, <1>8, WrittenRows

LEMMA PatchStep ==
    ASSUME Inv, NEW p \in Pages, NEW i \in Ids, NEW row \in Row \cup {None},
           Patch(p, i, row), Request
    PROVE  StepOK
<1>1. store \in Snapshot /\ view \in [Pages -> Snapshot] /\ excused \in BOOLEAN
  BY DEF Inv, TypeOK
<1>2. requests' \in Nat /\ loading' \subseteq Pages /\ UNCHANGED <<now, resumed, excused>>
  BY DEF Inv, TypeOK, Request, Patch
<1>3. CASE ~ Accepted(i, row)
  <2>1. UNCHANGED <<store, view>>
    BY <1>3 DEF Patch
  <2>2. TypeOK'
    BY <1>2, <2>1 DEF Inv, TypeOK
  <2>3. LabInv'
    BY <2>1 DEF Inv, LabInv
  <2> QED
    BY <1>2, <2>1, <2>2, <2>3, RowsKept DEF StepOK, Inv
<1>4. CASE Accepted(i, row)
  <2> DEFINE rows == [store.rows EXCEPT ![i] = row]
  <2>1. store.rows \in Rows
    BY <1>1, SnapshotFields
  <2>2. rows \in Rows /\ \A j \in Ids : rows[j] = IF j = i THEN row ELSE store.rows[j]
    BY <2>1 DEF Rows
  <2>3. store' = [store EXCEPT !.rows = rows]
    BY <1>1, <1>4, SnapshotFields DEF Patch
  <2>4. view' \in [Pages -> Snapshot]
    <3> DEFINE t == [view[p] EXCEPT !.rows[i] = row]
    <3>1. t \in Snapshot
      BY <1>1, OneRow
    <3>2. view' = [view EXCEPT ![p] = t]
      BY <1>4 DEF Patch
    <3> HIDE DEF t
    <3> QED
      BY <1>1, <3>1, <3>2
  <2>5. /\ KeepsLocked(rows)
        /\ row # None => \A j \in Open(store.rows) \ {i} : ~ Overlap(row, store.rows[j])
    BY <1>4, Zenon DEF Accepted
  <2> HIDE DEF rows
  <2>6. Apart(store.rows) => Apart(rows)
    <3> SUFFICES ASSUME Apart(store.rows), NEW a \in Open(rows), NEW b \in Open(rows), a # b
                 PROVE  ~ Overlap(rows[a], rows[b])
      BY DEF Apart
    <3>1. /\ a \in Ids /\ b \in Ids
          /\ a # i => a \in Open(store.rows) /\ rows[a] = store.rows[a]
          /\ b # i => b \in Open(store.rows) /\ rows[b] = store.rows[b]
          /\ a = i \/ b = i => row # None /\ rows[i] = row
      BY <2>2 DEF Open, Present
    <3>2. CASE a = i
      BY <2>5, <3>1, <3>2
    <3>3. CASE b = i
      <4>1. ~ Overlap(row, store.rows[a])
        BY <2>5, <3>1, <3>3
      <4> QED
        BY <3>1, <3>3, <4>1 DEF Overlap
    <3>4. CASE a # i /\ b # i
      BY <3>1, <3>4 DEF Apart
    <3> QED
      BY <3>2, <3>3, <3>4
  <2> QED
    BY <1>1, <1>2, <2>2, <2>3, <2>4, <2>5, <2>6, WrittenRows DEF OverlapHasCause
<1> QED
  BY <1>3, <1>4

\* Rows a page writes are schedules.
LEMMA WindowType ==
    ASSUME now \in Nat, NEW s \in Starts, NEW d \in Nat \ {0}
    PROVE  Window(s, d) \in Interval
  BY ScheduleAssumption DEF Window, Interval, Starts

LEMMA PageStep ==
    ASSUME Inv, NEW p \in Pages, PageNext(p)
    PROVE  StepOK
<1>1. now \in Nat /\ view[p] \in Snapshot /\ view[p].rows \in Rows
  BY SnapshotFields DEF Inv, TypeOK
<1>2. ASSUME NEW i \in Ids, Movable(p, i)
      PROVE  /\ view[p].rows[i] \in Row
             /\ view[p].rows[i].end - view[p].rows[i].start \in Nat \ {0}
  <2>1. i \in Present(view[p].rows)
    BY <1>2 DEF Movable, Present
  <2> QED
    BY <1>1, <2>1, PresentRow
<1>3. ASSUME NEW i \in Ids, Delete(p, i)
      PROVE  StepOK
  BY <1>3, PatchStep DEF Delete
<1>4. ASSUME NEW i \in Ids, NEW s \in Starts, Drag(p, i, s)
      PROVE  StepOK
  <2> DEFINE d == view[p].rows[i].end - view[p].rows[i].start
  <2>1. Request /\ Movable(p, i) /\ Patch(p, i, NewRow(Window(s, d)))
    BY <1>4, Zenon DEF Drag
  <2>2. d \in Nat \ {0}
    BY <1>2, <2>1
  <2> HIDE DEF d
  <2>3. NewRow(Window(s, d)) \in Row
    BY <1>1, <2>2, WindowType, NewRowType
  <2> QED
    BY <2>1, <2>3, PatchStep
<1>5. ASSUME NEW i \in Ids, NEW s \in Starts, NEW d \in Durations, Create(p, i, Window(s, d))
      PROVE  StepOK
  <2>1. NewRow(Window(s, d)) \in Row
    BY <1>1, WindowType, NewRowType, ScheduleAssumption
  <2> QED
    BY <1>5, <2>1, PatchStep DEF Create
<1>6. ASSUME NEW i \in Ids, NEW s \in Starts, NEW d \in Durations, Edit(p, i, Window(s, d))
      PROVE  StepOK
  <2> DEFINE w == Window(s, d)
             r == view[p].rows[i]
             row == [r EXCEPT !.start = w.start, !.end = w.end]
  <2>1. w \in Interval
    BY <1>1, WindowType, ScheduleAssumption
  <2>2. Request /\ Movable(p, i) /\ Patch(p, i, row)
    BY <1>6, Zenon DEF Edit
  <2>3. r \in Row
    BY <1>2, <2>2
  <2> HIDE DEF w, r
  <2>4. row \in Row
    BY <2>1, <2>3 DEF Row, Interval
  <2> QED
    BY <2>2, <2>4, PatchStep
<1> QED
  BY <1>3, <1>4, <1>5, <1>6, LoadStep, DeleteMissedStep, MarkWaitingStep DEF PageNext

-----------------------------------------------------------------------------
(* The theorems.                                                            *)

LEMMA NextStep ==
    ASSUME Inv, [Next]_vars
    PROVE  StepOK
<1>1. CASE UNCHANGED vars
  <2>1. Inv'
    BY <1>1 DEF Inv, TypeOK, LabInv, vars
  <2> QED
    BY <1>1, <2>1, RowsKept DEF StepOK, vars
<1>2. CASE Next
  BY <1>2, CompareStep, StartStep, CompleteStep, PauseStep, WriteResumedStep, TickStep, PageStep DEF Next
<1> QED
  BY <1>1, <1>2

LEMMA InitOK ==
    ASSUME Init
    PROVE  Inv /\ OverlapHasCause
<1> DEFINE rows == [i \in Ids |-> IF i \in DOMAIN Planned THEN NewRow(Planned[i]) ELSE None]
           lab == [i \in Ids |-> "idle"]
<1>1. rows \in Rows
  <2>1. \A i \in DOMAIN Planned : NewRow(Planned[i]) \in Row
    BY ScheduleAssumption, NewRowType DEF Interval
  <2> QED
    BY <2>1 DEF Rows
<1>2. Apart(rows)
  <2> SUFFICES ASSUME NEW i \in Open(rows), NEW j \in Open(rows), i # j
               PROVE  ~ Overlap(rows[i], rows[j])
    BY DEF Apart
  <2>1. i \in DOMAIN Planned /\ j \in DOMAIN Planned /\ i \in Ids /\ j \in Ids
    BY DEF Open, Present
  <2>2. /\ rows[i].start = Planned[i].start /\ rows[i].end = Planned[i].end
        /\ rows[j].start = Planned[j].start /\ rows[j].end = Planned[j].end
    BY <2>1 DEF NewRow
  <2>3. /\ Planned[i].start \in Nat /\ Planned[i].end \in Nat
        /\ Planned[j].start \in Nat /\ Planned[j].end \in Nat
        /\ Planned[i].end <= Planned[j].start \/ Planned[j].end <= Planned[i].start
    BY <2>1, ScheduleAssumption
  <2> HIDE DEF rows
  <2> QED
    BY <2>2, <2>3 DEF Overlap
<1>3. store = [rows |-> rows, lab |-> lab, run |-> None]
  BY DEF Init
<1> HIDE DEF rows
<1>4. store \in Snapshot /\ store.rows = rows /\ store.lab = lab /\ store.run = None
  BY <1>1, <1>3 DEF Snapshot
<1>5. TypeOK
  BY <1>4 DEF Init, TypeOK
<1>6. LabInv
  BY <1>4 DEF LabInv
<1> QED
  BY <1>2, <1>4, <1>5, <1>6 DEF Inv, OverlapHasCause

\* What the store, the pages and a resumption hold are schedules of positive
\* length, compared schedules exist, and the run is that of a running one
\* (laboratory_start.py, laboratory_completion.py, schedule_cascade.py).
THEOREM ScheduleTypes == Spec => [](TypeOK /\ LabInv)
<1>1. Init => Inv
  BY InitOK
<1>2. Inv /\ [Next]_vars => Inv'
  BY NextStep DEF StepOK
<1> QED
  BY <1>1, <1>2, PTL DEF Spec, Inv

\* Compared schedules stay where they are, whatever the pages show, whenever
\* they load and wherever the cascades lead (storage_schedule_lock_policy.py).
THEOREM ComparedStaysHolds == Spec => ComparedStays
<1>1. Inv /\ [Next]_vars => KeepsCompared
  BY NextStep DEF StepOK
<1>2. Spec => []Inv
  BY ScheduleTypes DEF Inv
<1> QED
  BY <1>1, <1>2, PTL DEF Spec, ComparedStays

\* Schedules of the laboratory overlap only with one of the three causes
\* (schedule_cascade.py, storage_schedule_patch.py, useStorageSnapshot.js).
THEOREM OverlapHasCauseHolds == Spec => []OverlapHasCause
<1>1. Init => OverlapHasCause
  BY InitOK
<1>2. Inv /\ OverlapHasCause /\ [Next]_vars => OverlapHasCause'
  BY NextStep DEF StepOK
<1>3. Spec => []Inv
  BY ScheduleTypes DEF Inv
<1> QED
  BY <1>1, <1>2, <1>3, PTL DEF Spec

\* The cascade gives every later schedule the earliest window that its own, its
\* original gap and the window before it allow (plan_same_lab_schedule_cascade).
THEOREM CascadeIsLeastHolds == Spec => []CascadeIsLeast
<1>1. Inv => CascadeIsLeast
  <2> SUFFICES ASSUME Inv, store.run # None, store.rows[store.run.id] # None
               PROVE  CascadeIsLeast
    BY DEF CascadeIsLeast
  <2> DEFINE rows == store.rows
             run == store.run
             later == Later(rows, run.id)
             w == Windows(rows, run.id, run.end)
             delays == Delays(rows, run.id, w)
             starts == [i \in later |-> Upsert(rows, delays)[i].start]
  <2>1. rows \in Rows /\ run \in Run
    BY SnapshotFields DEF Inv, TypeOK
  <2>2. run.id \in Present(rows) /\ run.end \in Int
    BY <2>1 DEF Run, Present
  <2> HIDE DEF rows, run
  <2>3. /\ DOMAIN delays \subseteq later
        /\ \A i \in DOMAIN delays :
              /\ delays[i] \in Row
              /\ delays[i].start = w[i].start /\ delays[i].end = w[i].end
        /\ \A i \in later \ DOMAIN delays : w[i].start = rows[i].start
    BY <2>1, <2>2, DelaysFacts
  <2>4. \A i \in later : i \in Ids /\ starts[i] = w[i].start
    <3>1. later \subseteq Ids
      BY <2>1, <2>2, ChainFacts DEF Present
    <3> HIDE DEF delays, w, later
    <3>2. \A i \in Ids : Upsert(rows, delays)[i] = IF i \in DOMAIN delays THEN delays[i] ELSE rows[i]
      BY DEF Upsert
    <3> QED
      BY <2>3, <3>1, <3>2
  <2>5. \A i \in later : w[i] \in Interval /\ w[i].end = w[i].start + (Original(rows[i]).end - Original(rows[i]).start)
    BY <2>1, <2>2, WindowFacts
  <2>6. \A i \in DOMAIN delays :
          delays[i].end - delays[i].start = Original(rows[i]).end - Original(rows[i]).start
    <3>1. \A i \in later : Original(rows[i]).end \in Nat /\ Original(rows[i]).start \in Nat
      BY <2>1, <2>2, ChainFacts, PresentRow
    <3> HIDE DEF delays, w, later
    <3> QED
      BY <2>3, <2>5, <3>1 DEF Interval
  <2> HIDE DEF starts
  <2>7. /\ Allowed(starts, rows, run)
        /\ \A other \in [later -> Nat] :
              Allowed(other, rows, run) => \A i \in later : starts[i] <= other[i]
    BY <2>1, <2>2, <2>4, WindowsAreLeast DEF Present
  <2>8. \A other \in [later -> 0..Horizon] : other \in [later -> Nat]
    BY ScheduleAssumption
  <2> QED
    BY <2>6, <2>7, <2>8, Zenon DEF CascadeIsLeast, starts, rows, run
<1> QED
  BY <1>1, ScheduleTypes, PTL DEF Inv
===============================================================================
