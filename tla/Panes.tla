-------------------------------- MODULE Panes --------------------------------
(***************************************************************************)
(* The two panes of `tracelet dashboard` that scroll: the stream of events *)
(* and the processes with the most events.  Keys move a selection that is  *)
(* kept as a row number (struct Ui in src/dashboard.rs); a frame shows the *)
(* rows of Snapshot::take and highlights one of them.                      *)
(*                                                                         *)
(* Module Dashboard shows that a frame is taken from one state of Shared,  *)
(* so that here a snapshot is one step.  The row numbers are those of a    *)
(* machine whose usize ends at USIZE_MAX.                                  *)
(***************************************************************************)
EXTENDS Integers, Sequences, SequencesExt

CONSTANTS Pids,        \* processes that cause events
          STREAM_MAX,  \* rows of the stream that Shared keeps
          TOP_MAX,     \* rows of the pane of processes
          PAGE,        \* rows that page up and page down move by
          USIZE_MAX,   \* the greatest row number, past 512 rows and 10 rows
          MaxEvents    \* bound: events

ASSUME PanesAssumption ==
  /\ Pids \subseteq Nat
  /\ STREAM_MAX \in Nat \ {0} /\ TOP_MAX \in Nat \ {0} /\ PAGE \in Nat \ {0}
  /\ USIZE_MAX \in Nat /\ STREAM_MAX <= USIZE_MAX /\ TOP_MAX <= USIZE_MAX
  /\ MaxEvents \in Nat

VARIABLES
  recent,     \* Shared: the rows of the stream, the newest one last
  processes,  \* Shared: the events of each process
  events,     \* history: number of events
  focus,      \* the pane that the keys move
  selected,   \* the row number selected in each pane
  paused,
  frame,      \* the frame on the screen: items and number of the highlighted one, 0 for none
  last        \* history: the key that last moved each pane

memory == <<recent, processes, events>>
interface == <<focus, selected, paused, frame, last>>
vars == <<memory, interface>>

PaneNames == {"Stream", "Top"}

(* The order of the pane of processes: by count, then by PID, descending.  *)
Before(p, q) == processes[p] > processes[q] \/ (processes[p] = processes[q] /\ p > q)

Sorted(S) ==
  CHOOSE seq \in [1..Cardinality(S) -> S] :
    \A i, j \in DOMAIN seq : i < j => Before(seq[i], seq[j])

FirstOf(seq, n) == IF Len(seq) <= n THEN seq ELSE SubSeq(seq, 1, n)

MutTop ==  \* truncated before it is sorted
  LET some == FirstOf(SetToSeq(DOMAIN processes), TOP_MAX)
  IN  Sorted({some[i] : i \in DOMAIN some})

Top == FirstOf(Sorted(DOMAIN processes), TOP_MAX)

Items(pane) == IF pane = "Stream" THEN Reverse(recent) ELSE Top

(* Drawing a list brings the row number back into it, in a copy.           *)
Highlight(items, row) ==
  IF items = <<>> THEN 0 ELSE IF row < Len(items) THEN row + 1 ELSE Len(items)

Frame(rows) ==
  [pane \in PaneNames |->
    [items |-> Items(pane), highlight |-> Highlight(Items(pane), rows[pane])]]

Init ==
  /\ recent = <<>> /\ processes = <<>> /\ events = 0
  /\ focus = "Stream"
  /\ selected = [pane \in PaneNames |-> 0]
  /\ paused = FALSE
  /\ last = [pane \in PaneNames |-> "First"]
  /\ frame = Frame(selected)

-----------------------------------------------------------------------------

(* Shared::push                                                            *)
Event(p) ==
  /\ events < MaxEvents
  /\ events' = events + 1
  /\ recent' = (IF Len(recent) < STREAM_MAX THEN recent ELSE Tail(recent)) \o <<events + 1>>
  /\ processes' = [q \in DOMAIN processes \cup {p} |->
                    (IF q \in DOMAIN processes THEN processes[q] ELSE 0) + (IF q = p THEN 1 ELSE 0)]
  /\ UNCHANGED interface

Moves == {"ScrollUp", "ScrollDown", "PageUp", "PageDown", "First", "Last"}

Minus(row, n) == IF row < n THEN 0 ELSE row - n
Plus(row, n) == IF row + n > USIZE_MAX THEN USIZE_MAX ELSE row + n

MutMoved(move, row) ==  \* the last row of now, in place of the greatest number
  CASE move = "ScrollUp"   -> Minus(row, 1)
    [] move = "ScrollDown" -> Plus(row, 1)
    [] move = "PageUp"     -> Minus(row, PAGE)
    [] move = "PageDown"   -> Plus(row, PAGE)
    [] move = "First"      -> 0
    [] move = "Last"       -> Minus(Len(Items(focus)), 1)

MutMovedWraps(move, row) ==  \* a plain subtraction
  CASE move = "ScrollUp"   -> row - 1
    [] move = "ScrollDown" -> Plus(row, 1)
    [] move = "PageUp"     -> row - PAGE
    [] move = "PageDown"   -> Plus(row, PAGE)
    [] move = "First"      -> 0
    [] move = "Last"       -> USIZE_MAX

Moved(move, row) ==
  CASE move = "ScrollUp"   -> Minus(row, 1)
    [] move = "ScrollDown" -> Plus(row, 1)
    [] move = "PageUp"     -> Minus(row, PAGE)
    [] move = "PageDown"   -> Plus(row, PAGE)
    [] move = "First"      -> 0
    [] move = "Last"       -> USIZE_MAX

(* Each key draws a frame, paused or not.                                  *)
Move(move) ==
  /\ selected' = [selected EXCEPT ![focus] = Moved(move, @)]
  /\ last' = [last EXCEPT ![focus] = move]
  /\ frame' = Frame(selected')
  /\ UNCHANGED <<memory, focus, paused>>

NextPane ==
  /\ focus' \in PaneNames \ {focus}
  /\ frame' = Frame(selected)
  /\ UNCHANGED <<memory, selected, paused, last>>

TogglePause ==
  /\ paused' = ~paused
  /\ frame' = Frame(selected)
  /\ UNCHANGED <<memory, focus, selected, last>>

(* One second without a key.                                               *)
Redraw ==
  /\ ~paused
  /\ frame' = Frame(selected)
  /\ UNCHANGED <<memory, focus, selected, paused, last>>

Next ==
  \/ \E p \in Pids : Event(p)
  \/ \E move \in Moves : Move(move)
  \/ NextPane \/ TogglePause \/ Redraw

Spec == Init /\ [][Next]_vars

-----------------------------------------------------------------------------
(* Properties.                                                             *)

(* The values of every variable; a row number never leaves its type.       *)
TypeOK ==
  /\ recent \in Seq(1..MaxEvents) /\ Len(recent) <= STREAM_MAX
  /\ DOMAIN processes \subseteq Pids /\ \A p \in DOMAIN processes : processes[p] \in 1..MaxEvents
  /\ events \in 0..MaxEvents
  /\ focus \in PaneNames /\ paused \in BOOLEAN
  /\ selected \in [PaneNames -> 0..USIZE_MAX]
  /\ last \in [PaneNames -> Moves]
  /\ DOMAIN frame = PaneNames

(* After `home` a pane stays on its first item and after `end` on its      *)
(* last, in every frame until another key moves the pane, though rows come *)
(* and go under it (README.md:478 "home newest, end oldest").  README.md:  *)
(* 495-498 has the positions clamped back to these rows "only as new       *)
(* events arrive"; the code does it in every frame, new events or not.     *)
HomeAndEndStay ==
  \A pane \in PaneNames :
    LET items == frame[pane].items
    IN  /\ last[pane] = "First" /\ items # <<>> => frame[pane].highlight = 1
        /\ last[pane] = "Last" => frame[pane].highlight = Len(items)

(* No process left out of a new frame has more events than one in it, the  *)
(* list is in the order of the counts, and it is full unless it is         *)
(* complete.                                                               *)
TopIsHighest ==
  [][frame' # frame =>
       LET top == frame'.Top.items
           out == DOMAIN processes \ {top[i] : i \in DOMAIN top}
       IN  /\ \A i, j \in DOMAIN top : i < j => /\ top[i] # top[j]
                                                /\ processes[top[i]] >= processes[top[j]]
           /\ out # {} => Len(top) = TOP_MAX
           /\ \A p \in out : \A i \in DOMAIN top : processes[p] <= processes[top[i]]]_vars

-----------------------------------------------------------------------------
(* What the documents say and the code does not do.                        *)

(* README.md:477 "arrows scroll one row": `up` moves the highlight to the  *)
(* item before, when there is one and the list is still the same.          *)
UpScrollsOneRow ==
  [][\A pane \in PaneNames :
       /\ last'[pane] = "ScrollUp" /\ selected'[pane] # selected[pane]
       /\ frame'[pane].items = frame[pane].items
       /\ frame[pane].highlight > 1
       => frame'[pane].highlight = frame[pane].highlight - 1]_vars
=============================================================================
