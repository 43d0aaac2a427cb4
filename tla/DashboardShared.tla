-------------------------- MODULE DashboardShared ---------------------------
(***************************************************************************)
(* Dashboard: what the mutex protects is the aggregate of the events       *)
(* pushed, and so is every frame.                                          *)
(***************************************************************************)
EXTENDS DashboardProofs, WellFoundedInduction

(* Aggregate, field by field.                                              *)
TcpRows(rows) == {i \in DOMAIN rows : IsTcp(rows[i])}
FileRows(rows) == {i \in DOMAIN rows : ~IsTcp(rows[i])}
OwnRows(rows, p) == {i \in DOMAIN rows : rows[i].pid = p}
EventRows(rows, e) == {i \in DOMAIN rows : rows[i].event = e}
PidsOf(rows) == {rows[i].pid : i \in DOMAIN rows}
EventsOf(rows) == {rows[i].event : i \in DOMAIN rows}

TotalsMatch(s, rows) ==
  /\ s.total = Len(rows)
  /\ s.tcp = Cardinality(TcpRows(rows)) /\ s.file = Cardinality(FileRows(rows))

ProcessesOf(rows) ==
  [p \in PidsOf(rows) |-> [comm |-> rows[Max(OwnRows(rows, p))].comm,
                           count |-> Cardinality(OwnRows(rows, p))]]

DistributionOf(rows) == [e \in EventsOf(rows) |-> Cardinality(EventRows(rows, e))]

TalliesMatch(s, rows) ==
  s.processes = ProcessesOf(rows) /\ s.byEvent = DistributionOf(rows)

Kept(rows) == Min({Len(rows), STREAM_MAX})

RecentMatches(s, rows) ==
  s.recent = [i \in 1..Kept(rows) |-> rows[Len(rows) - Kept(rows) + i]]

LEMMA MatchesParts ==
  ASSUME NEW s, NEW rows
  PROVE  Matches(s, rows) <=> TotalsMatch(s, rows) /\ TalliesMatch(s, rows) /\ RecentMatches(s, rows)
<1>1. /\ Aggregate(rows).total = Len(rows)
      /\ Aggregate(rows).tcp = Cardinality(TcpRows(rows))
      /\ Aggregate(rows).file = Cardinality(FileRows(rows))
  BY DEF Aggregate, Tally, RowsWith, TcpRows, FileRows
<1>2. Aggregate(rows).processes = ProcessesOf(rows)
  BY DEF Aggregate, ProcessOf, RowsWith, ProcessesOf, PidsOf, OwnRows
<1>3. Aggregate(rows).byEvent = DistributionOf(rows)
  BY DEF Aggregate, Tally, RowsWith, DistributionOf, EventsOf, EventRows
<1>4. Aggregate(rows).recent = [i \in 1..Kept(rows) |-> rows[Len(rows) - Kept(rows) + i]]
  BY DEF Aggregate, Kept
<1>5. DOMAIN Aggregate(rows) = Fields \ {"dropped"}
  BY DEF Aggregate, Fields
<1> QED BY <1>1, <1>2, <1>3, <1>4, <1>5 DEF Matches, TotalsMatch, TalliesMatch, RecentMatches, Fields

(* The rows that fit a description are the rows before and perhaps one.    *)
LEMMA OneMore ==
  ASSUME NEW rows \in Seq(Rows), NEW row \in Rows
  PROVE  /\ Append(rows, row) \in Seq(Rows)
         /\ Len(Append(rows, row)) = Len(rows) + 1
         /\ DOMAIN Append(rows, row) = DOMAIN rows \cup {Len(rows) + 1}
         /\ Len(rows) + 1 \notin DOMAIN rows
         /\ \A i \in DOMAIN rows : Append(rows, row)[i] = rows[i]
         /\ Append(rows, row)[Len(rows) + 1] = row
         /\ IsFiniteSet(DOMAIN rows) /\ Len(rows) \in Nat
<1>1. DOMAIN rows = 1..Len(rows) /\ Len(rows) \in Nat
  OBVIOUS
<1>2. IsFiniteSet(1..Len(rows))
  BY <1>1, FS_Interval
<1> QED BY <1>1, <1>2

LEMMA CountOneMore ==
  ASSUME NEW S, NEW D, NEW n, IsFiniteSet(D), S \subseteq D, n \notin D
  PROVE  /\ IsFiniteSet(S) /\ Cardinality(S) \in Nat
         /\ Cardinality(S \cup {n}) = Cardinality(S) + 1
<1>1. IsFiniteSet(S)
  BY FS_Subset
<1> QED BY <1>1, FS_AddElement, FS_CardinalityType

LEMMA TotalsOneMore ==
  ASSUME NEW rows \in Seq(Rows), NEW row \in Rows
  PROVE  /\ Cardinality(TcpRows(rows)) \in Nat /\ Cardinality(FileRows(rows)) \in Nat
         /\ Cardinality(TcpRows(Append(rows, row))) =
              Cardinality(TcpRows(rows)) + (IF IsTcp(row) THEN 1 ELSE 0)
         /\ Cardinality(FileRows(Append(rows, row))) =
              Cardinality(FileRows(rows)) + (IF IsTcp(row) THEN 0 ELSE 1)
<1> DEFINE n == Len(rows) + 1
<1>1. TcpRows(Append(rows, row)) = TcpRows(rows) \cup (IF IsTcp(row) THEN {n} ELSE {})
  BY OneMore DEF TcpRows
<1>2. FileRows(Append(rows, row)) = FileRows(rows) \cup (IF IsTcp(row) THEN {} ELSE {n})
  BY OneMore DEF FileRows
<1>3. /\ Cardinality(TcpRows(rows)) \in Nat
      /\ Cardinality(TcpRows(rows) \cup {n}) = Cardinality(TcpRows(rows)) + 1
  BY OneMore, CountOneMore DEF TcpRows
<1>4. /\ Cardinality(FileRows(rows)) \in Nat
      /\ Cardinality(FileRows(rows) \cup {n}) = Cardinality(FileRows(rows)) + 1
  BY OneMore, CountOneMore DEF FileRows
<1> HIDE DEF n
<1>5. CASE IsTcp(row)
  BY <1>1, <1>2, <1>3, <1>4, <1>5
<1>6. CASE ~IsTcp(row)
  BY <1>1, <1>2, <1>3, <1>4, <1>6
<1> QED BY <1>5, <1>6

LEMMA DistributionOneMore ==
  ASSUME NEW rows \in Seq(Rows), NEW row \in Rows
  PROVE  DistributionOf(Append(rows, row)) =
           [e \in EventsOf(rows) \cup {row.event} |->
             (IF e \in EventsOf(rows) THEN DistributionOf(rows)[e] ELSE 0)
               + (IF e = row.event THEN 1 ELSE 0)]
<1> DEFINE n == Len(rows) + 1
           more == Append(rows, row)
<1>1. EventsOf(more) = EventsOf(rows) \cup {row.event}
  BY OneMore DEF EventsOf
<1>2. ASSUME NEW e PROVE Cardinality(EventRows(more, e)) =
        (IF e \in EventsOf(rows) THEN Cardinality(EventRows(rows, e)) ELSE 0)
          + (IF e = row.event THEN 1 ELSE 0)
  <2>1. EventRows(more, e) = EventRows(rows, e) \cup (IF e = row.event THEN {n} ELSE {})
    BY OneMore DEF EventRows
  <2>2. /\ Cardinality(EventRows(rows, e)) \in Nat
        /\ Cardinality(EventRows(rows, e) \cup {n}) = Cardinality(EventRows(rows, e)) + 1
    BY OneMore, CountOneMore DEF EventRows
  <2>3. e \notin EventsOf(rows) => EventRows(rows, e) = {}
    BY DEF EventsOf, EventRows
  <2>4. e \notin EventsOf(rows) => Cardinality(EventRows(rows, e)) = 0
    BY <2>3, FS_EmptySet
  <2> HIDE DEF n, more
  <2>5. CASE e = row.event
    BY <2>1, <2>2, <2>4, <2>5
  <2>6. CASE e # row.event
    BY <2>1, <2>2, <2>4, <2>6
  <2> QED BY <2>5, <2>6
<1>3. \A e \in EventsOf(rows) : DistributionOf(rows)[e] = Cardinality(EventRows(rows, e))
  BY DEF DistributionOf
<1> HIDE DEF more
<1>4. DistributionOf(more) =
        [e \in EventsOf(rows) \cup {row.event} |-> Cardinality(EventRows(more, e))]
  BY <1>1 DEF DistributionOf
<1>5. DistributionOf(more) =
        [e \in EventsOf(rows) \cup {row.event} |->
          (IF e \in EventsOf(rows) THEN DistributionOf(rows)[e] ELSE 0)
            + (IF e = row.event THEN 1 ELSE 0)]
  BY <1>2, <1>3, <1>4
<1> QED BY <1>5 DEF more

(* The newest of the rows of a process is the one that was added.          *)
LEMMA MaxIs ==
  ASSUME NEW S \in SUBSET Nat, NEW n \in S, \A m \in S : m <= n PROVE Max(S) = n
<1>1. Max(S) \in S /\ \A y \in S : Max(S) >= y
  BY DEF Max
<1>2. Max(S) \in Nat /\ Max(S) >= n /\ Max(S) <= n
  BY <1>1
<1> QED BY <1>2

LEMMA MaxExists ==
  ASSUME NEW n \in Nat, NEW S, S \subseteq 1..n, S # {}
  PROVE  Max(S) \in S
<1> DEFINE R == {pair \in Nat \X Nat : pair[1] < pair[2]}
           T == {n - x : x \in S}
<1>1. IsWellFoundedOn(R, Nat)
  BY NatLessThanWellFounded DEF OpToRel
<1>2. T \subseteq Nat /\ T # {}
  <2>1. \A x \in S : n - x \in Nat
    OBVIOUS
  <2> QED BY <2>1
<1> HIDE DEF R
<1>3. PICK y \in T : \A z \in T : ~(<<z, y>> \in R)
  <2> HIDE DEF T
  <2> QED BY <1>1, <1>2, WFMin
<1>4. PICK x \in S : y = n - x
  BY <1>3
<1>5. ASSUME NEW z \in S PROVE x >= z
  <2>1. n - z \in T /\ n - z \in Nat /\ n - x \in Nat
    BY <1>2, <1>4
  <2>2. ~(n - z < n - x)
    BY <1>3, <1>4, <2>1 DEF R
  <2> QED BY <2>2
<1> QED BY <1>4, <1>5 DEF Max

LEMMA ProcessesOneMore ==
  ASSUME NEW rows \in Seq(Rows), NEW row \in Rows
  PROVE  ProcessesOf(Append(rows, row)) =
           [p \in PidsOf(rows) \cup {row.pid} |->
             IF p = row.pid
             THEN [comm |-> row.comm,
                   count |-> (IF row.pid \in PidsOf(rows) THEN ProcessesOf(rows)[row.pid].count
                              ELSE 0) + 1]
             ELSE ProcessesOf(rows)[p]]
<1> DEFINE n == Len(rows) + 1
           more == Append(rows, row)
           q == row.pid
<1>1. PidsOf(more) = PidsOf(rows) \cup {q}
  BY OneMore DEF PidsOf
<1>2. OwnRows(more, q) = OwnRows(rows, q) \cup {n}
  BY OneMore DEF OwnRows
<1>3. \A p : p # q => OwnRows(more, p) = OwnRows(rows, p)
  BY OneMore DEF OwnRows
<1>4. /\ Cardinality(OwnRows(rows, q)) \in Nat
      /\ Cardinality(OwnRows(more, q)) = Cardinality(OwnRows(rows, q)) + 1
  <2>1. OwnRows(rows, q) \subseteq DOMAIN rows
    BY DEF OwnRows
  <2>2. IsFiniteSet(DOMAIN rows) /\ n \notin DOMAIN rows
    BY OneMore
  <2> HIDE DEF n
  <2> QED BY <1>2, <2>1, <2>2, CountOneMore
<1>5. q \notin PidsOf(rows) => Cardinality(OwnRows(rows, q)) = 0
  <2>1. q \notin PidsOf(rows) => OwnRows(rows, q) = {}
    BY DEF PidsOf, OwnRows
  <2> QED BY <2>1, FS_EmptySet
<1>6. Max(OwnRows(more, q)) = n /\ more[n] = row
  <2>1. OwnRows(more, q) \in SUBSET Nat /\ n \in OwnRows(more, q)
        /\ \A m \in OwnRows(more, q) : m <= n
    BY <1>2, OneMore DEF OwnRows
  <2> QED BY <2>1, MaxIs, OneMore
<1>7. \A p \in PidsOf(rows) : ProcessesOf(rows)[p] =
        [comm |-> rows[Max(OwnRows(rows, p))].comm, count |-> Cardinality(OwnRows(rows, p))]
  BY DEF ProcessesOf
<1>8. \A p \in PidsOf(rows) : more[Max(OwnRows(rows, p))] = rows[Max(OwnRows(rows, p))]
  <2> SUFFICES ASSUME NEW p \in PidsOf(rows)
               PROVE  Max(OwnRows(rows, p)) \in DOMAIN rows
    BY OneMore
  <2>1. OwnRows(rows, p) # {} /\ OwnRows(rows, p) \subseteq DOMAIN rows
    BY DEF PidsOf, OwnRows
  <2>2. OwnRows(rows, p) \subseteq 1..Len(rows) /\ Len(rows) \in Nat
    BY <2>1
  <2>3. Max(OwnRows(rows, p)) \in OwnRows(rows, p)
    BY <2>1, <2>2, MaxExists
  <2> QED BY <2>1, <2>3
<1> HIDE DEF more, q, n
<1>9. ProcessesOf(more) =
        [p \in PidsOf(rows) \cup {q} |->
          [comm |-> more[Max(OwnRows(more, p))].comm, count |-> Cardinality(OwnRows(more, p))]]
  BY <1>1 DEF ProcessesOf
<1>10. ProcessesOf(more) =
        [p \in PidsOf(rows) \cup {q} |->
          IF p = q
          THEN [comm |-> row.comm,
                count |-> (IF q \in PidsOf(rows) THEN ProcessesOf(rows)[q].count ELSE 0) + 1]
          ELSE ProcessesOf(rows)[p]]
  <2>1. ASSUME NEW p \in PidsOf(rows) \cup {q}
        PROVE  ProcessesOf(more)[p] =
                 IF p = q
                 THEN [comm |-> row.comm,
                       count |-> (IF q \in PidsOf(rows) THEN ProcessesOf(rows)[q].count ELSE 0) + 1]
                 ELSE ProcessesOf(rows)[p]
    <3>1. CASE p = q
      <4>1. ProcessesOf(more)[p] =
              [comm |-> row.comm, count |-> Cardinality(OwnRows(rows, q)) + 1]
        BY <1>4, <1>6, <1>9, <3>1
      <4>2. (IF q \in PidsOf(rows) THEN ProcessesOf(rows)[q].count ELSE 0)
              = Cardinality(OwnRows(rows, q))
        <5>1. CASE q \in PidsOf(rows)
          <6>1. ProcessesOf(rows)[q] = [comm |-> rows[Max(OwnRows(rows, q))].comm,
                                        count |-> Cardinality(OwnRows(rows, q))]
            BY <1>7, <5>1
          <6> QED BY <5>1, <6>1
        <5>2. CASE q \notin PidsOf(rows)
          BY <1>5, <5>2
        <5> QED BY <5>1, <5>2
      <4> QED BY <3>1, <4>1, <4>2
    <3>2. CASE p # q
      BY <1>3, <1>7, <1>8, <1>9, <3>2
    <3> QED BY <3>1, <3>2
  <2> QED BY <1>9, <2>1
<1> QED BY <1>10 DEF more, q

(* The newest STREAM_MAX rows.                                             *)
LEMMA KeptIs ==
  ASSUME NEW rows \in Seq(Rows)
  PROVE  Kept(rows) = IF Len(rows) <= STREAM_MAX THEN Len(rows) ELSE STREAM_MAX
<1>1. Len(rows) \in Nat /\ STREAM_MAX \in Nat
  BY DashboardAssumption
<1> DEFINE S == {Len(rows), STREAM_MAX}
<1>2. Min(S) \in S /\ \A y \in S : Min(S) <= y
  BY <1>1 DEF Min
<1> QED BY <1>1, <1>2 DEF Kept

LEMMA RecentOneMore ==
  ASSUME NEW rows \in Seq(Rows), NEW row \in Rows, NEW s, NEW t,
         RecentMatches(s, rows), t.recent = Capped(Append(s.recent, row))
  PROVE  RecentMatches(t, Append(rows, row))
<1> DEFINE more == Append(rows, row)
           N == Len(rows)
           k == Kept(rows)
<1>1. N \in Nat /\ STREAM_MAX \in Nat \ {0}
  BY DashboardAssumption
<1>2. k = IF N <= STREAM_MAX THEN N ELSE STREAM_MAX
  BY KeptIs
<1>3. more \in Seq(Rows) /\ Len(more) = N + 1 /\ more[N + 1] = row
      /\ \A i \in 1..N : more[i] = rows[i]
  OBVIOUS
<1>4. Kept(more) = IF N + 1 <= STREAM_MAX THEN N + 1 ELSE STREAM_MAX
  BY <1>3, KeptIs
<1>5. s.recent = [i \in 1..k |-> rows[N - k + i]] /\ s.recent \in Seq(Rows) /\ Len(s.recent) = k
  <2>1. s.recent = [i \in 1..k |-> rows[N - k + i]]
    BY DEF RecentMatches
  <2>2. k \in Nat /\ k <= N
    BY <1>1, <1>2
  <2>3. \A i \in 1..k : rows[N - k + i] \in Rows
    BY <1>1, <2>2
  <2> HIDE DEF N, k
  <2> QED BY <2>1, <2>2, <2>3
<1> DEFINE long == Append(s.recent, row)
<1>6. long \in Seq(Rows) /\ Len(long) = k + 1 /\ long[k + 1] = row
      /\ \A i \in 1..k : long[i] = rows[N - k + i]
  <2> HIDE DEF N, k
  <2>1. s.recent \in Seq(Rows) /\ Len(s.recent) = k /\ k \in Nat
    BY <1>1, <1>2, <1>5
  <2>2. long \in Seq(Rows) /\ Len(long) = k + 1 /\ long[k + 1] = row
        /\ \A i \in 1..k : long[i] = s.recent[i]
    BY <2>1
  <2> QED BY <1>5, <2>2
<1> HIDE DEF more, N, k, long
<1>7. CASE k + 1 <= STREAM_MAX
  <2>1. t.recent = long /\ k = N /\ Kept(more) = N + 1
    BY <1>1, <1>2, <1>4, <1>6, <1>7 DEF Capped, long
  <2>2. long = [i \in 1..(N + 1) |-> more[i]]
    BY <1>1, <1>3, <1>6, <2>1
  <2>3. [i \in 1..Kept(more) |-> more[Len(more) - Kept(more) + i]] = [i \in 1..(N + 1) |-> more[i]]
    BY <1>1, <1>3, <2>1
  <2> QED BY <2>1, <2>2, <2>3 DEF RecentMatches, more
<1>8. CASE k + 1 > STREAM_MAX
  <2>1. k = STREAM_MAX /\ Kept(more) = STREAM_MAX /\ N >= STREAM_MAX
    BY <1>1, <1>2, <1>4, <1>8
  <2>2. t.recent = SubSeq(long, 2, k + 1)
    BY <1>1, <1>6, <2>1 DEF Capped, long
  <2>3. SubSeq(long, 2, k + 1) = [i \in 1..k |-> long[i + 1]]
    BY <1>1, <1>6, <2>1
  <2>4. \A i \in 1..k : long[i + 1] = more[N + 1 - k + i]
    <3> SUFFICES ASSUME NEW i \in 1..k PROVE long[i + 1] = more[N + 1 - k + i]
      OBVIOUS
    <3>1. CASE i = k
      BY <1>1, <1>3, <1>6, <2>1, <3>1
    <3>2. CASE i < k
      <4>1. long[i + 1] = rows[N - k + (i + 1)]
        BY <1>1, <1>6, <2>1, <3>2
      <4>2. N - k + (i + 1) \in 1..N /\ N - k + (i + 1) = N + 1 - k + i
        BY <1>1, <2>1, <3>2
      <4> QED BY <1>3, <4>1, <4>2
    <3> QED BY <1>1, <2>1, <3>1, <3>2
  <2>5. t.recent = [i \in 1..Kept(more) |-> more[Len(more) - Kept(more) + i]]
    <3>1. \A i \in 1..k : more[Len(more) - Kept(more) + i] = more[N + 1 - k + i]
      <4>1. Len(more) - Kept(more) = N + 1 - k
        BY <1>1, <1>3, <2>1
      <4> QED BY <4>1
    <3>2. Kept(more) = k
      BY <2>1
    <3>3. t.recent = [i \in 1..k |-> long[i + 1]]
      BY <2>2, <2>3
    <3> QED BY <2>4, <3>1, <3>2, <3>3
  <2> QED BY <2>5 DEF RecentMatches, more
<1> QED BY <1>1, <1>2, <1>7, <1>8

-----------------------------------------------------------------------------
(* Shared.                                                                 *)

(* In the middle of Shared::push: the parts that are already updated       *)
(* belong to the row at the head of the ring, too.                         *)
Staged ==
  LET more == Append(pushed, Row(ring[1]))
  IN  /\ TotalsMatch(shared, IF phase = "totals" THEN pushed ELSE more)
      /\ TalliesMatch(shared, IF phase = "row" THEN more ELSE pushed)
      /\ RecentMatches(shared, pushed)

AggInv == SharedIsAggregate /\ (phase \in Pushing => Staged)

(* What the rows are compared with does not look at the drop counter.      *)
LEMMA MatchesFrame ==
  ASSUME NEW s, NEW t, NEW rows, \A field \in Fields \ {"dropped"} : t[field] = s[field],
         Matches(s, rows)
  PROVE  Matches(t, rows)
<1>1. DOMAIN Aggregate(rows) = Fields \ {"dropped"}
  BY DEF Aggregate, Fields
<1> QED BY <1>1 DEF Matches

LEMMA InitAggInv == Init => AggInv
<1> SUFFICES ASSUME Init PROVE AggInv
  OBVIOUS
<1>1. shared = Empty /\ pushed = <<>> /\ phase = "none"
  BY DEF Init
<1>2. TcpRows(<<>>) = {} /\ FileRows(<<>>) = {} /\ PidsOf(<<>>) = {} /\ EventsOf(<<>>) = {}
  BY DEF TcpRows, FileRows, PidsOf, EventsOf
<1>3. TotalsMatch(Empty, <<>>)
  BY <1>2, FS_EmptySet DEF TotalsMatch, Empty
<1>4. TalliesMatch(Empty, <<>>)
  <2>1. ProcessesOf(<<>>) = <<>> /\ DistributionOf(<<>>) = <<>>
    BY <1>2 DEF ProcessesOf, DistributionOf
  <2> QED BY <2>1 DEF TalliesMatch, Empty
<1>5. RecentMatches(Empty, <<>>)
  <2>1. <<>> \in Seq(Rows) /\ Len(<<>>) = 0
    OBVIOUS
  <2>2. Kept(<<>>) = 0
    <3>1. Kept(<<>>) = IF Len(<<>>) <= STREAM_MAX THEN Len(<<>>) ELSE STREAM_MAX
      BY <2>1, KeptIs
    <3>2. STREAM_MAX \in Nat /\ 0 <= STREAM_MAX
      BY DashboardAssumption
    <3> QED BY <2>1, <3>1, <3>2
  <2> QED BY <2>1, <2>2 DEF RecentMatches, Empty
<1>6. Matches(Empty, <<>>)
  BY <1>3, <1>4, <1>5, MatchesParts
<1> QED BY <1>1, <1>6 DEF AggInv, SharedIsAggregate, Pushing

(* The steps of the critical section that adds a row.                      *)
LEMMA PushAggInv ==
  ASSUME TInv, Shaped(shared), AggInv, LockShared \/ PushTotals \/ PushTallies \/ PushRow
  PROVE  AggInv'
<1> DEFINE row == Row(ring[1])
           more == Append(pushed, row)
<1>1. pushed \in Seq(Rows) /\ row \in Rows
  <2>1. phase \in Holding
    BY DEF LockShared, PushTotals, PushTallies, PushRow, Holding, Pushing
  <2>2. HeadReady /\ ring \in Seq(Record)
    BY <2>1 DEF TInv, HoldsRecord, TypeOK, ProbeTypeOK
  <2>3. ring[1] \in Record
    BY <2>2 DEF HeadReady
  <2> QED BY <2>3, RowType DEF TInv, HistoryOK
<1>2. CASE LockShared
  <2>1. Matches(shared, pushed)
    BY <1>2 DEF LockShared, AggInv, SharedIsAggregate
  <2>2. UNCHANGED <<ring, shared, pushed>> /\ phase' = "totals" /\ lock' = "collector"
    BY <1>2 DEF LockShared, Goto, probeVars, kernel
  <2>3. Staged'
    BY <2>1, <2>2, MatchesParts DEF Staged
  <2> QED BY <2>2, <2>3 DEF AggInv, SharedIsAggregate
<1>3. CASE PushTotals
  <2>0. phase = "totals" /\ lock = "collector" /\ Staged
    BY <1>3 DEF PushTotals, TInv, TypeOK, AggInv, Pushing
  <2>1. UNCHANGED <<ring, pushed, lock>> /\ phase' = "tallies"
    BY <1>3 DEF PushTotals, Goto, probeVars, kernel
  <2>2. /\ shared'.total = shared.total + 1
        /\ shared'.tcp = IF IsTcp(row) THEN shared.tcp + 1 ELSE shared.tcp
        /\ shared'.file = IF IsTcp(row) THEN shared.file ELSE shared.file + 1
        /\ shared'.processes = shared.processes /\ shared'.byEvent = shared.byEvent
        /\ shared'.recent = shared.recent
    BY <1>3 DEF PushTotals, Shaped, Fields
  <2>3. TotalsMatch(shared, pushed) /\ TalliesMatch(shared, pushed) /\ RecentMatches(shared, pushed)
    BY <2>0 DEF Staged
  <2>4. TotalsMatch(shared', more)
    <3>1. Len(more) = Len(pushed) + 1
      BY <1>1, OneMore
    <3> HIDE DEF row, more
    <3>2. /\ Cardinality(TcpRows(pushed)) \in Nat /\ Cardinality(FileRows(pushed)) \in Nat
          /\ Cardinality(TcpRows(more)) =
               Cardinality(TcpRows(pushed)) + (IF IsTcp(row) THEN 1 ELSE 0)
          /\ Cardinality(FileRows(more)) =
               Cardinality(FileRows(pushed)) + (IF IsTcp(row) THEN 0 ELSE 1)
      BY <1>1, TotalsOneMore DEF more
    <3>3. CASE IsTcp(row)
      BY <2>2, <2>3, <3>1, <3>2, <3>3 DEF TotalsMatch
    <3>4. CASE ~IsTcp(row)
      BY <2>2, <2>3, <3>1, <3>2, <3>4 DEF TotalsMatch
    <3> QED BY <3>3, <3>4
  <2>5. TalliesMatch(shared', pushed) /\ RecentMatches(shared', pushed)
    BY <2>2, <2>3 DEF TalliesMatch, RecentMatches
  <2> QED BY <2>0, <2>1, <2>4, <2>5 DEF AggInv, SharedIsAggregate, Staged
<1>4. CASE PushTallies
  <2>0. phase = "tallies" /\ lock = "collector" /\ Staged
    BY <1>4 DEF PushTallies, TInv, TypeOK, AggInv, Pushing
  <2>1. UNCHANGED <<ring, pushed, lock>> /\ phase' = "row"
    BY <1>4 DEF PushTallies, Goto, probeVars, kernel
  <2>2. TotalsMatch(shared, more) /\ TalliesMatch(shared, pushed) /\ RecentMatches(shared, pushed)
    BY <2>0 DEF Staged
  <2>3. /\ shared'.total = shared.total /\ shared'.tcp = shared.tcp /\ shared'.file = shared.file
        /\ shared'.recent = shared.recent
    BY <1>4 DEF PushTallies, Shaped, Fields
  <2>4. shared'.processes = ProcessesOf(more)
    <3>1. DOMAIN shared.processes = PidsOf(pushed) /\ shared.processes = ProcessesOf(pushed)
      BY <2>2 DEF TalliesMatch, ProcessesOf
    <3>2. shared'.processes = [p \in PidsOf(pushed) \cup {row.pid} |->
             IF p = row.pid
             THEN [comm |-> row.comm,
                   count |-> (IF row.pid \in PidsOf(pushed) THEN ProcessesOf(pushed)[row.pid].count
                              ELSE 0) + 1]
             ELSE ProcessesOf(pushed)[p]]
      BY <1>4, <3>1 DEF PushTallies, Shaped, Fields
    <3> QED BY <1>1, <3>2, ProcessesOneMore
  <2>5. shared'.byEvent = DistributionOf(more)
    <3>1. DOMAIN shared.byEvent = EventsOf(pushed) /\ shared.byEvent = DistributionOf(pushed)
      BY <2>2 DEF TalliesMatch, DistributionOf
    <3>2. shared'.byEvent = [e \in EventsOf(pushed) \cup {row.event} |->
             (IF e \in EventsOf(pushed) THEN DistributionOf(pushed)[e] ELSE 0)
               + (IF e = row.event THEN 1 ELSE 0)]
      BY <1>4, <3>1 DEF PushTallies, Shaped, Fields
    <3> QED BY <1>1, <3>2, DistributionOneMore
  <2>6. TotalsMatch(shared', more) /\ RecentMatches(shared', pushed)
    BY <2>2, <2>3 DEF TotalsMatch, RecentMatches
  <2>7. TalliesMatch(shared', more)
    BY <2>4, <2>5 DEF TalliesMatch
  <2> QED BY <2>0, <2>1, <2>6, <2>7 DEF AggInv, SharedIsAggregate, Staged
<1>5. CASE PushRow
  <2>0. phase = "row" /\ Staged
    BY <1>5 DEF PushRow, AggInv, Pushing
  <2>1. pushed' = more /\ phase' = "drain"
    BY <1>5 DEF PushRow, Goto
  <2>2. /\ shared'.total = shared.total /\ shared'.tcp = shared.tcp /\ shared'.file = shared.file
        /\ shared'.processes = shared.processes /\ shared'.byEvent = shared.byEvent
        /\ shared'.recent = Capped(Append(shared.recent, row))
    BY <1>5 DEF PushRow, Shaped, Fields
  <2>3. TotalsMatch(shared, more) /\ TalliesMatch(shared, more) /\ RecentMatches(shared, pushed)
    BY <2>0 DEF Staged
  <2>4. TotalsMatch(shared', more) /\ TalliesMatch(shared', more)
    BY <2>2, <2>3 DEF TotalsMatch, TalliesMatch
  <2>5. RecentMatches(shared', more)
    BY <1>1, <2>2, <2>3, RecentOneMore
  <2>6. Matches(shared', pushed')
    BY <2>1, <2>4, <2>5, MatchesParts
  <2> QED BY <2>1, <2>6 DEF AggInv, SharedIsAggregate, Pushing
<1> QED BY <1>2, <1>3, <1>4, <1>5

(* Steps that leave the mutex, the phase and the rows alone.               *)
LEMMA AggFrame ==
  ASSUME AggInv, Shaped(shared), Shaped(shared'), UNCHANGED pushed,
         \A field \in Fields \ {"dropped"} : shared'[field] = shared[field],
         lock # "collector" \/ lock' = "collector",
         phase' \in Pushing => phase' = phase /\ ring'[1] = ring[1]
  PROVE  AggInv'
<1>1. SharedIsAggregate'
  <2>1. lock' # "collector" => Matches(shared, pushed)
    BY DEF AggInv, SharedIsAggregate
  <2> QED BY <2>1, MatchesFrame DEF SharedIsAggregate
<1>2. ASSUME phase' \in Pushing PROVE Staged'
  <2>1. Staged /\ phase' = phase /\ Row(ring[1])' = Row(ring[1])
    BY <1>2 DEF AggInv, Row
  <2>2. /\ shared'.total = shared.total /\ shared'.tcp = shared.tcp /\ shared'.file = shared.file
        /\ shared'.processes = shared.processes /\ shared'.byEvent = shared.byEvent
        /\ shared'.recent = shared.recent
    BY DEF Fields
  <2> QED BY <2>1, <2>2 DEF Staged, TotalsMatch, TalliesMatch, RecentMatches
<1> QED BY <1>1, <1>2 DEF AggInv

(* A frame is the aggregate of the rows up to some moment.                 *)
LEMMA FrameKept ==
  ASSUME NEW rows \in Seq(Rows), NEW row \in Rows, NEW n \in 0..Len(rows)
  PROVE  SubSeq(Append(rows, row), 1, n) = SubSeq(rows, 1, n)
OBVIOUS

LEMMA WholeFrame ==
  ASSUME NEW rows \in Seq(Rows) PROVE SubSeq(rows, 1, Len(rows)) = rows
OBVIOUS

SInv == TInv /\ DInv /\ AggInv /\ FramesAreConsistent

LEMMA InitSInv == Init => SInv
<1> SUFFICES ASSUME Init PROVE FramesAreConsistent
  BY InitTInv, InitDInv, InitAggInv DEF SInv
<1>1. SharedIsAggregate /\ shared = Empty /\ shown = Empty /\ pushed = <<>> /\ lock = "free"
  BY InitAggInv DEF AggInv, Init
<1>2. SubSeq(pushed, 1, 0) = pushed /\ 0 \in 0..Len(pushed)
  BY <1>1
<1> QED BY <1>1, <1>2 DEF SharedIsAggregate, FramesAreConsistent

LEMMA NextAggInv ==
  ASSUME TInv, DInv, AggInv, [Next]_vars PROVE AggInv'
<1>0. Shaped(shared) /\ Shaped(shared')
  BY NextDInv DEF DInv, Counters
<1>1. CASE ProbeNext /\ UNCHANGED <<opts, running, collector, interface, memory>>
  <2>1. UNCHANGED <<phase, lock, shared, pushed>>
    BY <1>1 DEF collector, memory
  <2>2. phase \in Pushing => ring'[1] = ring[1]
    BY <1>1, HeadStays DEF TInv, TypeOK, HoldsRecord, Holding
  <2> QED BY <1>0, <2>1, <2>2, AggFrame
<1>2. CASE LockShared \/ PushTotals \/ PushTallies \/ PushRow
  BY <1>0, <1>2, PushAggInv
<1>3. CASE CopyDropped
  <2>1. UNCHANGED <<lock, pushed>> /\ phase' = "warn"
        /\ \A field \in Fields \ {"dropped"} : shared'[field] = shared[field]
    BY <1>0, <1>3 DEF CopyDropped, Goto, Shaped
  <2> QED BY <1>0, <2>1, AggFrame DEF Pushing
<1>4. CASE Aside \/ Reject
  <2>1. UNCHANGED <<lock, shared, pushed>>
    BY <1>4, AsideFrame DEF Reject, memory
  <2>2. phase' \notin Pushing
    BY <1>4, AsideFrame DEF Reject, Pushing, Teardown, Ended
  <2> QED BY <1>0, <2>1, <2>2, AggFrame
<1>5. CASE Spawn \/ SpawnFails \/ Interface \/ TerminalFails
           \/ (\E action \in KeyActions : Key(action)) \/ Second \/ Signal \/ Interrupt
  <2>1. UNCHANGED <<ring, shared, pushed>>
    BY <1>5 DEF Spawn, SpawnFails, Interface, UiCheck, NoKey, TakeSnapshot, Draw, TerminalFails,
       Key, Second, Signal, Interrupt, Show, Exit, probeVars, kernel, memory
  <2>2. phase' = phase \/ phase' \notin Pushing
    BY <1>5 DEF Spawn, SpawnFails, Interface, UiCheck, NoKey, TakeSnapshot, Draw, TerminalFails,
       Key, Second, Signal, Interrupt, Show, Exit, collector, Pushing, SpawnsOnce
  <2>3. lock # "collector" \/ lock' = "collector"
    BY <1>5 DEF Spawn, SpawnFails, Interface, UiCheck, NoKey, TakeSnapshot, Draw, TerminalFails,
       Key, Second, Signal, Interrupt, Show, Exit, memory, TInv, TypeOK
  <2> QED BY <1>0, <2>1, <2>2, <2>3, AggFrame
<1>6. CASE UNCHANGED vars
  BY <1>0, <1>6, AggFrame DEF vars, probeVars, kernel, collector, memory
<1> QED BY <1>1, <1>2, <1>3, <1>4, <1>5, <1>6 DEF Next, Collect, Aside

LEMMA NextFrames ==
  ASSUME TInv, AggInv, FramesAreConsistent, [Next]_vars PROVE FramesAreConsistent'
<1>1. pushed \in Seq(Rows)
  BY DEF TInv, HistoryOK
<1>2. PICK n \in 0..Len(pushed) : Matches(shown, SubSeq(pushed, 1, n))
  BY DEF FramesAreConsistent
<1>3. CASE UNCHANGED <<shown, pushed>>
  BY <1>2, <1>3 DEF FramesAreConsistent
<1>4. CASE PushRow
  <2>1. ring[1] \in Record
    BY <1>4 DEF PushRow, TInv, TypeOK, ProbeTypeOK, HoldsRecord, HeadReady, Holding, Pushing
  <2>2. Row(ring[1]) \in Rows
    BY <2>1, RowType
  <2>3. shown' = shown /\ pushed' = Append(pushed, Row(ring[1]))
    BY <1>4 DEF PushRow, Goto, interface
  <2>4. SubSeq(pushed', 1, n) = SubSeq(pushed, 1, n)
    BY <1>1, <2>2, <2>3, FrameKept
  <2>5. n \in 0..Len(pushed')
    BY <1>1, <2>2, <2>3
  <2> QED BY <1>2, <2>3, <2>4, <2>5 DEF FramesAreConsistent
<1>5. CASE TakeSnapshot
  <2>1. shown' = shared /\ pushed' = pushed /\ Matches(shared, pushed)
    BY <1>5 DEF TakeSnapshot, Show, AggInv, SharedIsAggregate
  <2>2. SubSeq(pushed, 1, Len(pushed)) = pushed /\ Len(pushed) \in 0..Len(pushed)
    BY <1>1, WholeFrame
  <2> QED BY <2>1, <2>2 DEF FramesAreConsistent
<1>6. UNCHANGED <<shown, pushed>> \/ PushRow \/ TakeSnapshot
  <2>1. CASE Reject
    BY <2>1 DEF Reject, interface, memory
  <2>2. CASE ProbeNext /\ UNCHANGED <<opts, running, collector, interface, memory>>
    BY <2>2 DEF interface, memory
  <2>3. CASE Elsewhere /\ ~TakeSnapshot
    <3>1. UNCHANGED pushed
      BY <2>3, ElsewhereFrame
    <3>2. UNCHANGED shown
      BY <2>3, AsideFrame DEF Elsewhere, LockShared, PushTotals, PushTallies, CopyDropped, Goto,
         Spawn, SpawnFails, Interface, UiCheck, NoKey, Draw, TerminalFails, Key, Second, Signal,
         Interrupt, Show, Exit, interface, vars
    <3> QED BY <3>1, <3>2
  <2> QED BY <2>1, <2>2, <2>3, NextCases
<1> QED BY <1>3, <1>4, <1>5, <1>6

LEMMA SInvHolds == Spec => []SInv
<1>1. ASSUME SInv, [Next]_vars PROVE SInv'
  BY <1>1, NextTInv, NextDInv, NextAggInv, NextFrames DEF SInv
<1> QED BY <1>1, InitSInv, PTL DEF Spec

(* Whoever gets the mutex finds totals, processes, distribution and stream *)
(* of the same events, though Shared::push updates them one by one.        *)
THEOREM SharedAggregates == Spec => []SharedIsAggregate
<1>1. SInv => SharedIsAggregate
  BY DEF SInv, AggInv
<1> QED BY <1>1, SInvHolds, PTL

(* No frame of the interface mixes two moments.                            *)
THEOREM FramesConsistent == Spec => []FramesAreConsistent
<1>1. SInv => FramesAreConsistent
  BY DEF SInv
<1> QED BY <1>1, SInvHolds, PTL
=============================================================================
