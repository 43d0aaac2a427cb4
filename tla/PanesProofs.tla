---------------------------- MODULE PanesProofs -----------------------------
(***************************************************************************)
(* Proofs about Panes, for every set of processes, every length of the two *)
(* lists and every page.                                                   *)
(***************************************************************************)
EXTENDS Panes, FiniteSetTheorems, TLAPS

(* The counts are finite in number and none exceeds the number of events.  *)
CountsOK ==
  /\ IsFiniteSet(DOMAIN processes) /\ DOMAIN processes \subseteq Nat
  /\ \A p \in DOMAIN processes : processes[p] \in 1..events

-----------------------------------------------------------------------------
(* The list of processes.                                                  *)

LEMMA BeforeIsOrder ==
  ASSUME CountsOK, events \in Nat
  PROVE  /\ \A p \in DOMAIN processes : ~Before(p, p)
         /\ \A p, q \in DOMAIN processes : p # q => Before(p, q) \/ Before(q, p)
         /\ \A p, q, r \in DOMAIN processes : Before(p, q) /\ Before(q, r) => Before(p, r)
<1>1. \A p \in DOMAIN processes : processes[p] \in Nat /\ p \in Nat
  BY DEF CountsOK
<1> QED BY <1>1 DEF Before

(* The number of processes before one is its place in the list.            *)
Rank(p) == Cardinality({q \in DOMAIN processes : Before(q, p)})

LEMMA RankType ==
  ASSUME CountsOK, events \in Nat, NEW p \in DOMAIN processes
  PROVE  /\ Rank(p) \in 0..(Cardinality(DOMAIN processes) - 1)
         /\ \A q \in DOMAIN processes : Before(p, q) => Rank(p) < Rank(q)
<1> DEFINE S == DOMAIN processes
           Ahead(q) == {r \in S : Before(r, q)}
<1>0. IsFiniteSet(S) /\ Cardinality(S) \in Nat
  BY FS_CardinalityType DEF CountsOK
<1>1. ASSUME NEW q \in S
      PROVE  IsFiniteSet(Ahead(q)) /\ Cardinality(Ahead(q)) \in Nat /\ Rank(q) = Cardinality(Ahead(q))
  <2>1. Ahead(q) \in SUBSET S
    OBVIOUS
  <2>2. IsFiniteSet(Ahead(q))
    BY <1>0, <2>1, FS_Subset
  <2>3. Rank(q) = Cardinality(Ahead(q))
    BY DEF Rank
  <2> HIDE DEF Ahead
  <2> QED BY <2>2, <2>3, FS_CardinalityType
<1>2. \A A, B : IsFiniteSet(B) /\ A \subseteq B /\ A # B
        => Cardinality(A) < Cardinality(B)
  <2> SUFFICES ASSUME NEW A, NEW B, IsFiniteSet(B), A \subseteq B, A # B
               PROVE  Cardinality(A) < Cardinality(B)
    OBVIOUS
  <2>1. IsFiniteSet(A) /\ Cardinality(A) <= Cardinality(B) /\ Cardinality(A) # Cardinality(B)
    BY FS_Subset
  <2>2. Cardinality(A) \in Nat /\ Cardinality(B) \in Nat
    BY <2>1, FS_CardinalityType
  <2> QED BY <2>1, <2>2
<1>3. Rank(p) < Cardinality(S)
  <2>1. Ahead(p) \subseteq S /\ Ahead(p) # S
    BY BeforeIsOrder
  <2> HIDE DEF Ahead
  <2> QED BY <1>0, <1>1, <1>2, <2>1
<1>4. ASSUME NEW q \in S, Before(p, q) PROVE Rank(p) < Rank(q)
  <2>1. Ahead(p) \subseteq Ahead(q) /\ p \in Ahead(q) /\ p \notin Ahead(p)
    BY <1>4, BeforeIsOrder
  <2> HIDE DEF Ahead
  <2> QED BY <1>1, <1>2, <2>1
<1>5. Rank(p) \in Nat
  BY <1>1
<1> QED BY <1>0, <1>3, <1>4, <1>5

LEMMA SortedExists ==
  ASSUME CountsOK, events \in Nat
  PROVE  \E seq \in [1..Cardinality(DOMAIN processes) -> DOMAIN processes] :
           \A i, j \in DOMAIN seq : i < j => Before(seq[i], seq[j])
<1> DEFINE S == DOMAIN processes
           n == Cardinality(S)
           rank == [p \in S |-> Rank(p)]
<1>0. IsFiniteSet(S) /\ n \in Nat
  BY FS_CardinalityType DEF CountsOK
<1>1. \A p, q \in S : rank[p] = rank[q] => p = q
  <2> SUFFICES ASSUME NEW p \in S, NEW q \in S, p # q PROVE rank[p] # rank[q]
    OBVIOUS
  <2>1. Rank(p) < Rank(q) \/ Rank(q) < Rank(p)
    BY BeforeIsOrder, RankType
  <2>2. Rank(p) \in Int /\ Rank(q) \in Int
    BY <1>0, RankType
  <2> QED BY <2>1, <2>2
<1>2. rank \in [S -> 0..(n - 1)]
  BY RankType
<1>3. IsFiniteSet(0..(n - 1)) /\ Cardinality(0..(n - 1)) = n
  BY <1>0, FS_Interval
<1> HIDE DEF rank, n, S
<1>4. rank \in Surjection(S, 0..(n - 1))
  <2>1. rank \in Injection(S, 0..(n - 1))
    BY <1>1, <1>2 DEF Injection, IsInjective
  <2>2. Cardinality(S) = Cardinality(0..(n - 1))
    BY <1>3 DEF n
  <2> QED BY <1>3, <2>1, <2>2, FS_Injection
<1>5. \A i \in 1..n : \E p \in S : rank[p] = i - 1
  BY <1>0, <1>4 DEF Surjection
<1> DEFINE seq == [i \in 1..n |-> CHOOSE p \in S : rank[p] = i - 1]
<1>6. \A i \in 1..n : seq[i] \in S /\ rank[seq[i]] = i - 1
  BY <1>5
<1>7. seq \in [1..n -> S]
  BY <1>6
<1> HIDE DEF seq
<1>8. ASSUME NEW i \in 1..n, NEW j \in 1..n, i < j PROVE Before(seq[i], seq[j])
  <2>1. seq[i] \in S /\ seq[j] \in S /\ rank[seq[i]] < rank[seq[j]]
    BY <1>0, <1>6, <1>8
  <2>2. Rank(seq[i]) < Rank(seq[j])
    BY <2>1 DEF rank
  <2>3. Before(seq[j], seq[i]) => Rank(seq[j]) < Rank(seq[i])
    BY <2>1, RankType DEF S
  <2>4. Rank(seq[i]) \in Int /\ Rank(seq[j]) \in Int
    BY <1>0, <2>1, RankType DEF S, n
  <2> QED BY <2>1, <2>2, <2>3, <2>4, BeforeIsOrder DEF S
<1> QED BY <1>7, <1>8 DEF n, S

(* The whole list, before it is cut.                                       *)
LEMMA SortedList ==
  ASSUME CountsOK, events \in Nat
  PROVE  LET seq == Sorted(DOMAIN processes)
             n == Cardinality(DOMAIN processes)
         IN  /\ n \in Nat /\ seq \in [1..n -> DOMAIN processes]
             /\ seq \in Seq(DOMAIN processes) /\ Len(seq) = n
             /\ \A i, j \in 1..n : i < j => Before(seq[i], seq[j])
             /\ \A p \in DOMAIN processes : \E i \in 1..n : seq[i] = p
<1> DEFINE S == DOMAIN processes
           n == Cardinality(S)
           seq == Sorted(S)
<1>0. IsFiniteSet(S) /\ n \in Nat
  BY FS_CardinalityType DEF CountsOK
<1>1. seq \in [1..n -> S] /\ \A i, j \in DOMAIN seq : i < j => Before(seq[i], seq[j])
  BY SortedExists DEF Sorted
<1> HIDE DEF seq
<1>2. \A i, j \in 1..n : i < j => Before(seq[i], seq[j])
  BY <1>1
<1>3. \A i, j \in 1..n : seq[i] = seq[j] => i = j
  <2> SUFFICES ASSUME NEW i \in 1..n, NEW j \in 1..n, i # j PROVE seq[i] # seq[j]
    OBVIOUS
  <2>1. i < j \/ j < i
    BY <1>0
  <2>2. Before(seq[i], seq[j]) \/ Before(seq[j], seq[i])
    BY <1>2, <2>1
  <2>3. seq[i] \in S /\ ~Before(seq[i], seq[i])
    BY <1>1, BeforeIsOrder
  <2> QED BY <2>2, <2>3
<1>4. seq \in Surjection(1..n, S)
  <2> HIDE DEF n
  <2>1. seq \in Injection(1..n, S)
    BY <1>1, <1>3 DEF Injection, IsInjective
  <2>2. Cardinality(1..n) = n
    BY <1>0, FS_Interval
  <2> QED BY <1>0, <2>1, <2>2, FS_Injection DEF n
<1>5. \A p \in S : \E i \in 1..n : seq[i] = p
  BY <1>4 DEF Surjection
<1>6. seq \in Seq(S) /\ Len(seq) = n
  <2> HIDE DEF n, S
  <2> QED BY <1>0, <1>1
<1> QED BY <1>0, <1>1, <1>2, <1>5, <1>6 DEF seq

(* What a frame shows of it.                                               *)
LEMMA TopList ==
  ASSUME CountsOK, events \in Nat
  PROVE  LET out == DOMAIN processes \ {Top[i] : i \in DOMAIN Top}
         IN  /\ Top \in Seq(DOMAIN processes) /\ Len(Top) <= TOP_MAX
             /\ \A i, j \in DOMAIN Top : i < j => /\ Top[i] # Top[j]
                                                  /\ processes[Top[i]] >= processes[Top[j]]
             /\ out # {} => Len(Top) = TOP_MAX
             /\ \A p \in out : \A i \in DOMAIN Top : processes[p] <= processes[Top[i]]
<1> DEFINE S == DOMAIN processes
<1>0. TOP_MAX \in Nat \ {0}
  BY PanesAssumption
<1>1. PICK n, seq : n \in Nat /\ seq = Sorted(S) /\ n = Cardinality(S)
  BY FS_CardinalityType DEF CountsOK
<1>2. /\ n \in Nat /\ seq \in [1..n -> S] /\ seq \in Seq(S) /\ Len(seq) = n
      /\ \A i, j \in 1..n : i < j => Before(seq[i], seq[j])
      /\ \A p \in S : \E i \in 1..n : seq[i] = p
  BY <1>1, SortedList
<1>3. PICK m \in Nat : /\ m = (IF n <= TOP_MAX THEN n ELSE TOP_MAX)
                       /\ m <= n /\ m <= TOP_MAX /\ (m < n => m = TOP_MAX)
  BY <1>0, <1>1
<1>4. PICK top : top = Top
  OBVIOUS
<1>5. top \in Seq(S) /\ Len(top) = m /\ \A i \in 1..m : top[i] = seq[i]
  <2>1. top = IF n <= TOP_MAX THEN seq ELSE SubSeq(seq, 1, TOP_MAX)
    BY <1>1, <1>2, <1>4 DEF Top, FirstOf
  <2>2. CASE n <= TOP_MAX
    BY <1>2, <1>3, <2>1, <2>2
  <2>3. CASE ~(n <= TOP_MAX)
    <3> HIDE DEF S
    <3> QED BY <1>0, <1>2, <1>3, <2>1, <2>3
  <2> QED BY <2>2, <2>3
<1>6. DOMAIN top = 1..m
  BY <1>5
<1>7. \A p \in S : processes[p] \in Nat
  BY DEF CountsOK
<1>8. \A i \in 1..n, j \in 1..n : i < j =>
        seq[i] # seq[j] /\ processes[seq[i]] >= processes[seq[j]]
  <2> SUFFICES ASSUME NEW i \in 1..n, NEW j \in 1..n, i < j
               PROVE  seq[i] # seq[j] /\ processes[seq[i]] >= processes[seq[j]]
    OBVIOUS
  <2>1. seq[i] \in S /\ seq[j] \in S /\ Before(seq[i], seq[j]) /\ ~Before(seq[j], seq[j])
    BY <1>2, BeforeIsOrder
  <2>2. processes[seq[i]] \in Nat /\ processes[seq[j]] \in Nat
    BY <1>7, <2>1
  <2>3. processes[seq[i]] >= processes[seq[j]]
    BY <2>1, <2>2 DEF Before
  <2> QED BY <2>1, <2>3
<1>9. \A i, j \in 1..m : i < j => top[i] # top[j] /\ processes[top[i]] >= processes[top[j]]
  <2>1. \A i \in 1..m : i \in 1..n /\ top[i] = seq[i]
    BY <1>3, <1>5
  <2> QED BY <1>8, <2>1
<1>10. ASSUME NEW p \in S, \A i \in 1..m : top[i] # p
       PROVE  m = TOP_MAX /\ \A i \in 1..m : processes[p] <= processes[top[i]]
  <2>1. PICK j \in 1..n : seq[j] = p
    BY <1>2
  <2>2. m < j
    BY <1>5, <1>10, <2>1
  <2>3. ASSUME NEW i \in 1..m PROVE processes[p] <= processes[top[i]]
    <3>1. i \in 1..n /\ i < j /\ top[i] = seq[i] /\ seq[i] \in S
      BY <1>2, <1>3, <1>5, <2>2
    <3>2. processes[seq[i]] >= processes[seq[j]]
      BY <1>8, <3>1
    <3>3. processes[seq[i]] \in Nat /\ processes[seq[j]] \in Nat
      BY <1>7, <2>1, <3>1
    <3> QED BY <2>1, <3>1, <3>2, <3>3
  <2>4. m < n
    <3>1. n \in Nat /\ m \in Nat /\ j \in 1..n
      BY <1>2, <1>3, <2>1
    <3> QED BY <2>2, <3>1
  <2> QED BY <1>3, <2>3, <2>4
<1> QED BY <1>3, <1>4, <1>5, <1>6, <1>9, <1>10

-----------------------------------------------------------------------------
(* The state.                                                              *)

TInv == TypeOK /\ CountsOK

LEMMA InitTInv == Init => TInv
<1> SUFFICES ASSUME Init PROVE TInv
  OBVIOUS
<1> USE DEF Init
<1>1. recent \in Seq(1..MaxEvents) /\ Len(recent) <= STREAM_MAX
  BY PanesAssumption
<1>2. DOMAIN processes = {} /\ events \in 0..MaxEvents
  BY PanesAssumption
<1>3. selected \in [PaneNames -> 0..USIZE_MAX] /\ last \in [PaneNames -> Moves]
  BY PanesAssumption DEF Moves
<1>4. DOMAIN frame = PaneNames
  BY DEF Frame
<1>5. TypeOK
  BY <1>1, <1>2, <1>3, <1>4 DEF TypeOK, PaneNames
<1>6. CountsOK
  BY <1>2, FS_EmptySet DEF CountsOK
<1> QED BY <1>5, <1>6 DEF TInv

LEMMA EventTInv ==
  ASSUME TInv, NEW p \in Pids, Event(p)
  PROVE  TInv'
<1>0. /\ STREAM_MAX \in Nat \ {0} /\ MaxEvents \in Nat /\ Pids \subseteq Nat
      /\ events \in 0..MaxEvents /\ events < MaxEvents /\ events' = events + 1
  BY PanesAssumption DEF TInv, TypeOK, Event
<1>1. events' \in 1..MaxEvents /\ events' \in Nat
  BY <1>0
<1>2. recent' \in Seq(1..MaxEvents) /\ Len(recent') <= STREAM_MAX
  <2>1. recent \in Seq(1..MaxEvents) /\ Len(recent) <= STREAM_MAX
    BY DEF TInv, TypeOK
  <2>2. PICK kept : kept = IF Len(recent) < STREAM_MAX THEN recent ELSE Tail(recent)
    OBVIOUS
  <2>3. kept \in Seq(1..MaxEvents) /\ Len(kept) < STREAM_MAX
    <3>1. CASE Len(recent) < STREAM_MAX
      BY <2>1, <2>2, <3>1
    <3>2. CASE ~(Len(recent) < STREAM_MAX)
      <4>1. Len(recent) = STREAM_MAX /\ recent # <<>>
        BY <1>0, <2>1, <3>2
      <4> QED BY <1>0, <2>1, <2>2, <3>2, <4>1
    <3> QED BY <3>1, <3>2
  <2>4. recent' = kept \o <<events + 1>>
    BY <2>2 DEF Event
  <2> QED BY <1>0, <1>1, <2>3, <2>4
<1>3. /\ DOMAIN processes' = DOMAIN processes \cup {p}
      /\ \A q \in DOMAIN processes' :
           processes'[q] = (IF q \in DOMAIN processes THEN processes[q] ELSE 0)
                             + (IF q = p THEN 1 ELSE 0)
  BY DEF Event
<1>4. \A q \in DOMAIN processes' : processes'[q] \in 1..events'
  <2> SUFFICES ASSUME NEW q \in DOMAIN processes' PROVE processes'[q] \in 1..events'
    OBVIOUS
  <2>1. q \in DOMAIN processes => processes[q] \in 1..events
    BY DEF TInv, CountsOK
  <2>2. q \in DOMAIN processes \/ q = p
    BY <1>3
  <2> QED BY <1>0, <1>3, <2>1, <2>2
<1>5. CountsOK'
  BY <1>0, <1>3, <1>4, FS_AddElement DEF TInv, CountsOK
<1>6. \A q \in DOMAIN processes' : processes'[q] \in 1..MaxEvents
  BY <1>0, <1>1, <1>4
<1>7. UNCHANGED interface /\ DOMAIN processes' \subseteq Pids /\ events' \in 0..MaxEvents
  BY <1>1, <1>3 DEF Event, TInv, TypeOK
<1> QED BY <1>2, <1>5, <1>6, <1>7 DEF TInv, TypeOK, interface

(* What the keys make of a row number is one.                              *)
LEMMA MovedType ==
  ASSUME NEW row \in 0..USIZE_MAX, NEW move \in Moves
  PROVE  Moved(move, row) \in 0..USIZE_MAX
<1>1. USIZE_MAX \in Nat /\ PAGE \in Nat \ {0}
  BY PanesAssumption
<1>2. \A n \in Nat : Minus(row, n) \in 0..USIZE_MAX /\ Plus(row, n) \in 0..USIZE_MAX
  BY <1>1 DEF Minus, Plus
<1> QED BY <1>1, <1>2 DEF Moved, Moves

LEMMA KeyTInv ==
  ASSUME TInv, (\E move \in Moves : Move(move)) \/ NextPane \/ TogglePause \/ Redraw
  PROVE  TInv'
<1>1. UNCHANGED <<recent, processes, events>> /\ DOMAIN frame' = PaneNames
  BY DEF Move, NextPane, TogglePause, Redraw, memory, Frame
<1>2. focus' \in PaneNames /\ paused' \in BOOLEAN
  BY DEF Move, NextPane, TogglePause, Redraw, TInv, TypeOK
<1>3. selected' \in [PaneNames -> 0..USIZE_MAX] /\ last' \in [PaneNames -> Moves]
  <2>1. ASSUME NEW move \in Moves, Move(move)
        PROVE  selected' \in [PaneNames -> 0..USIZE_MAX] /\ last' \in [PaneNames -> Moves]
    <3>1. Moved(move, selected[focus]) \in 0..USIZE_MAX
      BY MovedType DEF TInv, TypeOK
    <3> QED BY <2>1, <3>1 DEF Move, TInv, TypeOK
  <2> QED BY <2>1 DEF NextPane, TogglePause, Redraw, TInv, TypeOK
<1> QED BY <1>1, <1>2, <1>3 DEF TInv, TypeOK, CountsOK

LEMMA NextTInv == ASSUME TInv, [Next]_vars PROVE TInv'
<1>1. CASE UNCHANGED vars
  BY <1>1 DEF vars, memory, interface, TInv, TypeOK, CountsOK
<1> QED BY <1>1, EventTInv, KeyTInv DEF Next

LEMMA TInvHolds == Spec => []TInv
BY InitTInv, NextTInv, PTL DEF Spec

(* Every variable keeps its type, and no key takes a row number out of     *)
(* usize.                                                                  *)
THEOREM TypeCorrect == Spec => []TypeOK
<1>1. TInv => TypeOK
  BY DEF TInv
<1> QED BY <1>1, TInvHolds, PTL

-----------------------------------------------------------------------------
(* The frames.                                                             *)

(* A list turned round is a list of the same length.                       *)
LEMMA ReverseType ==
  ASSUME NEW D, NEW seq \in Seq(D)
  PROVE  Reverse(seq) \in Seq(D) /\ Len(Reverse(seq)) = Len(seq) /\ Len(seq) \in Nat
<1>1. PICK n \in Nat : n = Len(seq)
  OBVIOUS
<1>2. \A i \in 1..n : (n - i) + 1 \in 1..n
  BY <1>1
<1>3. \A i \in 1..n : seq[i] \in D
  BY <1>1
<1>4. PICK turned : turned = [i \in 1..n |-> seq[(n - i) + 1]]
  OBVIOUS
<1>5. turned \in [1..n -> D]
  BY <1>2, <1>3, <1>4
<1>6. turned \in Seq(D) /\ Len(turned) = n
  BY <1>1, <1>5
<1>7. Reverse(seq) = turned
  BY <1>1, <1>4 DEF Reverse
<1> QED BY <1>1, <1>6, <1>7

(* What either pane has to show fits a row number.                         *)
LEMMA ItemsType ==
  ASSUME TInv, NEW pane \in PaneNames
  PROVE  /\ \E S : Items(pane) \in Seq(S)
         /\ Len(Items(pane)) \in 0..USIZE_MAX
<1>0. STREAM_MAX \in Nat /\ TOP_MAX \in Nat /\ USIZE_MAX \in Nat
      /\ STREAM_MAX <= USIZE_MAX /\ TOP_MAX <= USIZE_MAX
  BY PanesAssumption
<1>1. CASE pane = "Stream"
  <2>1. PICK D, seq : D = 1..MaxEvents /\ seq = recent /\ seq \in Seq(D)
    BY DEF TInv, TypeOK
  <2>2. Reverse(seq) \in Seq(D) /\ Len(Reverse(seq)) = Len(seq) /\ Len(seq) \in Nat
    BY <2>1, ReverseType
  <2>3. Len(seq) <= STREAM_MAX
    BY <2>1 DEF TInv, TypeOK
  <2>4. Items(pane) = Reverse(seq)
    BY <1>1, <2>1 DEF Items
  <2>5. Len(Items(pane)) \in 0..USIZE_MAX
    BY <1>0, <2>2, <2>3, <2>4
  <2> QED BY <2>2, <2>4, <2>5
<1>2. CASE pane = "Top"
  <2>1. Top \in Seq(DOMAIN processes) /\ Len(Top) <= TOP_MAX
    BY TopList DEF TInv, TypeOK
  <2>2. Len(Top) \in Nat
    BY <2>1
  <2> QED BY <1>0, <1>2, <2>1, <2>2 DEF Items
<1> QED BY <1>1, <1>2 DEF PaneNames

(* What is true of any list and row number once it is drawn.               *)
LEMMA Drawn ==
  ASSUME TInv, NEW pane \in PaneNames, NEW rows, rows[pane] \in 0..USIZE_MAX
  PROVE  LET items == Frame(rows)[pane].items
             highlight == Frame(rows)[pane].highlight
         IN  /\ items = Items(pane)
             /\ rows[pane] = 0 /\ items # <<>> => highlight = 1
             /\ rows[pane] = USIZE_MAX => highlight = Len(items)
<1>0. USIZE_MAX \in Nat
  BY PanesAssumption
<1>1. PICK items, row : items = Items(pane) /\ row = rows[pane]
  OBVIOUS
<1>2. Frame(rows)[pane].items = items /\ Frame(rows)[pane].highlight = Highlight(items, row)
  BY <1>1 DEF Frame
<1>3. PICK n : /\ n = Len(items) /\ n \in 0..USIZE_MAX /\ DOMAIN items = 1..n
               /\ (items = <<>> <=> n = 0)
  <2>1. PICK S : Items(pane) \in Seq(S)
    BY ItemsType
  <2> QED BY <1>1, <2>1, ItemsType
<1>4. Highlight(items, row) = IF n = 0 THEN 0 ELSE IF row < n THEN row + 1 ELSE n
  BY <1>3 DEF Highlight
<1>5. row \in 0..USIZE_MAX
  BY <1>1
<1> QED BY <1>0, <1>1, <1>2, <1>3, <1>4, <1>5

(* Where `home` and `end` leave the row number, it stays until another key *)
(* moves the pane.                                                         *)
RowsInv ==
  \A pane \in PaneNames : /\ last[pane] = "First" => selected[pane] = 0
                          /\ last[pane] = "Last" => selected[pane] = USIZE_MAX

FrameInv == RowsInv /\ HomeAndEndStay

(* A step that draws.                                                      *)
LEMMA DrawFrameInv ==
  ASSUME TInv, TInv', RowsInv', frame' = Frame(selected')
  PROVE  FrameInv'
<1>1. ASSUME NEW pane \in PaneNames
      PROVE  LET items == frame'[pane].items
                 highlight == frame'[pane].highlight
             IN  /\ selected'[pane] = 0 /\ items # <<>> => highlight = 1
                 /\ selected'[pane] = USIZE_MAX => highlight = Len(items)
  <2>1. PICK rows : rows = selected' /\ rows[pane] \in 0..USIZE_MAX
    BY DEF TInv, TypeOK
  <2> QED BY <2>1, Drawn
<1>2. HomeAndEndStay'
  BY <1>1 DEF HomeAndEndStay, RowsInv
<1> QED BY <1>2 DEF FrameInv

LEMMA NextFrameInv == ASSUME TInv, TInv', FrameInv, [Next]_vars PROVE FrameInv'
<1>1. CASE UNCHANGED <<selected, last, frame>>
  BY <1>1 DEF FrameInv, RowsInv, HomeAndEndStay
<1>2. ASSUME NEW move \in Moves, Move(move) PROVE FrameInv'
  <2>1. /\ selected' = [selected EXCEPT ![focus] = Moved(move, selected[focus])]
        /\ last' = [last EXCEPT ![focus] = move] /\ frame' = Frame(selected')
    BY <1>2 DEF Move
  <2>2. /\ move = "First" => Moved(move, selected[focus]) = 0
        /\ move = "Last" => Moved(move, selected[focus]) = USIZE_MAX
    BY DEF Moved
  <2>3. RowsInv'
    <3> SUFFICES ASSUME NEW pane \in PaneNames
                 PROVE  /\ last'[pane] = "First" => selected'[pane] = 0
                        /\ last'[pane] = "Last" => selected'[pane] = USIZE_MAX
      BY DEF RowsInv
    <3>1. CASE pane = focus
      BY <2>1, <2>2, <3>1 DEF TInv, TypeOK
    <3>2. CASE pane # focus
      BY <2>1, <3>2 DEF FrameInv, RowsInv, TInv, TypeOK
    <3> QED BY <3>1, <3>2
  <2> QED BY <2>1, <2>3, DrawFrameInv
<1>3. CASE NextPane \/ TogglePause \/ Redraw
  <2>1. frame' = Frame(selected') /\ UNCHANGED <<selected, last>>
    BY <1>3 DEF NextPane, TogglePause, Redraw, Frame
  <2>2. RowsInv'
    BY <2>1 DEF FrameInv, RowsInv
  <2> QED BY <2>1, <2>2, DrawFrameInv
<1>4. (\E p \in Pids : Event(p)) \/ UNCHANGED vars => UNCHANGED <<selected, last, frame>>
  BY DEF Event, vars, interface
<1> QED BY <1>1, <1>2, <1>3, <1>4 DEF Next

LEMMA FrameInvHolds == Spec => []FrameInv
<1>1. Init => FrameInv
  <2> SUFFICES ASSUME Init PROVE FrameInv
    OBVIOUS
  <2>1. TInv /\ RowsInv /\ frame = Frame(selected)
    BY InitTInv DEF Init, RowsInv
  <2>2. ASSUME NEW pane \in PaneNames
        PROVE  LET items == frame[pane].items
                   highlight == frame[pane].highlight
               IN  /\ selected[pane] = 0 /\ items # <<>> => highlight = 1
                   /\ selected[pane] = USIZE_MAX => highlight = Len(items)
    <3>1. PICK rows : rows = selected /\ rows[pane] \in 0..USIZE_MAX
      BY <2>1 DEF TInv, TypeOK
    <3> QED BY <2>1, <3>1, Drawn
  <2>3. HomeAndEndStay
    BY <2>1, <2>2 DEF HomeAndEndStay, RowsInv
  <2> QED BY <2>1, <2>3 DEF FrameInv
<1> QED BY <1>1, NextFrameInv, TInvHolds, PTL DEF Spec

(* A pane stays on its first item after `home` and on its last after       *)
(* `end`, in every frame until another key moves it.                       *)
THEOREM HomeAndEndHold == Spec => []HomeAndEndStay
<1>1. FrameInv => HomeAndEndStay
  BY DEF FrameInv
<1> QED BY <1>1, FrameInvHolds, PTL

(* The pane of processes is the top of the counts, in order, and never     *)
(* cut before it is sorted.                                                *)
THEOREM TopIsTheHighest == Spec => TopIsHighest
<1>1. ASSUME TInv, [Next]_vars
      PROVE  [frame' # frame =>
                LET top == frame'.Top.items
                    out == DOMAIN processes \ {top[i] : i \in DOMAIN top}
                IN  /\ \A i, j \in DOMAIN top : i < j => /\ top[i] # top[j]
                                                         /\ processes[top[i]] >= processes[top[j]]
                    /\ out # {} => Len(top) = TOP_MAX
                    /\ \A p \in out : \A i \in DOMAIN top : processes[p] <= processes[top[i]]]_vars
  <2>1. CASE frame' = frame
    BY <2>1
  <2>2. CASE \E rows : frame' = Frame(rows)
    <3>1. frame'.Top.items = Top
      BY <2>2 DEF Frame, PaneNames, Items
    <3>2. events \in Nat
      BY PanesAssumption, <1>1 DEF TInv, TypeOK
    <3> QED BY <1>1, <3>1, <3>2, TopList DEF TInv
  <2>3. frame' = frame \/ \E rows : frame' = Frame(rows)
    BY <1>1 DEF Next, Event, Move, NextPane, TogglePause, Redraw, vars, interface
  <2> QED BY <2>1, <2>2, <2>3
<1> QED BY <1>1, TInvHolds, PTL DEF Spec, TopIsHighest
=============================================================================
