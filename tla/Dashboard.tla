------------------------------ MODULE Dashboard ------------------------------
(***************************************************************************)
(* `tracelet dashboard`: two threads of one process and a mutex.           *)
(*                                                                         *)
(* The collector thread (collect in src/collector.rs, variable phase) has  *)
(* all five event programs attached, drains the ring buffer and adds each  *)
(* event to Shared under the mutex.  The main thread (event_loop in        *)
(* src/dashboard.rs, variable ui) handles keys and, every second or on a   *)
(* key, takes a snapshot under the mutex and draws it.  When the main      *)
(* thread returns the process ends, wherever the collector thread is.      *)
(*                                                                         *)
(* Shared is a record; a row of the stream is a record [seq, pid, comm,    *)
(* event] in which seq stands for the time and the details.  The latency   *)
(* histograms of Shared are left out: no latency program is attached.      *)
(***************************************************************************)
EXTENDS Probes, FiniteSetsExt

CONSTANTS STREAM_MAX,  \* rows that Shared keeps
          Options      \* the filters of the command lines considered

ASSUME DashboardAssumption ==
  /\ STREAM_MAX \in Nat \ {0}
  /\ Options \subseteq FilterArgs

VARIABLES
  opts,                     \* the filters of the command line
  running,                  \* RUNNING
  phase, seen,              \* the collector thread; its drops_seen[0]
  ui, paused, due, shown,   \* the main thread; one second since the last frame; the last frame
  lock, shared,             \* the mutex: who holds it; what it protects
  pushed,                   \* history: the rows of all events added to Shared
  rejected,                 \* history: records that decode_stream refused
  dropsNow, dropsBefore     \* history: drops when the last poll and the one before returned

interface == <<ui, paused, due, shown>>
collector == <<phase, seen, rejected, dropsNow, dropsBefore>>
memory == <<lock, shared, pushed>>
vars == <<probeVars, opts, running, collector, interface, memory>>

Programs == <<"trace_exec", "trace_open", "trace_openat", "trace_openat2", "trace_tcp">>

Empty ==
  [ total |-> 0, tcp |-> 0, file |-> 0, processes |-> <<>>, byEvent |-> <<>>,
    recent |-> <<>>, dropped |-> 0 ]

Init ==
  /\ ProbeInit
  /\ opts \in Options /\ running = TRUE
  /\ phase = "none" /\ seen = 0
  /\ ui = "start" /\ paused = FALSE /\ due = TRUE /\ shown = Empty
  /\ lock = "free" /\ shared = Empty
  /\ pushed = <<>> /\ rejected = 0 /\ dropsNow = 0 /\ dropsBefore = 0

-----------------------------------------------------------------------------
(* The collector thread: set-up.                                           *)

Goto(next) ==
  /\ phase' = next
  /\ UNCHANGED <<opts, running, seen, rejected, dropsNow, dropsBefore, interface>>

Load ==
  /\ phase = "load"
  /\ Goto("loaded")
  /\ UNCHANGED <<probeVars, memory>>

MutApplyMap ==  \* without the options
  /\ phase = "loaded"
  /\ filterMap' = [ZeroConfig EXCEPT !.event_mask = TcpEvents]
  /\ Goto("attach")
  /\ UNCHANGED <<attached, kernel, memory>>

ApplyMap ==
  /\ phase = "loaded"
  /\ filterMap' = Config(opts, TcpEvents)
  /\ Goto("attach")
  /\ UNCHANGED <<attached, kernel, memory>>

Attach ==
  /\ phase = "attach" /\ Len(attached) < Len(Programs)
  /\ attached' = Append(attached, Programs[Len(attached) + 1])
  /\ Goto(IF Len(attached) + 1 = Len(Programs) THEN "build" ELSE "attach")
  /\ UNCHANGED <<filterMap, kernel, memory>>

BuildRing ==
  /\ phase = "build"
  /\ Goto("check")
  /\ UNCHANGED <<probeVars, memory>>

(* An error ends the thread; the interface goes on.                        *)
SetupFails ==
  /\ phase \in {"load", "loaded", "attach", "build"}
  /\ Goto("abort")
  /\ UNCHANGED <<probeVars, memory>>

(* On return of collect() the links are dropped one by one, the first one  *)
(* attached first; the kernel does the same when the process has ended.    *)
Teardown == {"detach", "abort", "killed"}

DropLink ==
  /\ phase \in Teardown /\ attached # <<>>
  /\ attached' = Tail(attached)
  /\ Goto(phase)
  /\ UNCHANGED <<filterMap, kernel, memory>>

Return ==
  /\ phase \in {"detach", "abort"} /\ attached = <<>>
  /\ Goto(IF phase = "detach" THEN "done" ELSE "failed")
  /\ UNCHANGED <<probeVars, memory>>

-----------------------------------------------------------------------------
(* The collector thread: the loop.                                         *)

Check ==
  /\ phase = "check"
  /\ Goto(IF running THEN "poll" ELSE "detach")
  /\ UNCHANGED <<probeVars, memory>>

PollReady ==
  /\ phase = "poll" /\ ring # <<>>
  /\ Goto("drain")
  /\ UNCHANGED <<probeVars, memory>>

PollReturns ==
  /\ phase' = "copy"
  /\ dropsNow' = drops /\ dropsBefore' = dropsNow
  /\ UNCHANGED <<probeVars, opts, running, seen, rejected, interface, memory>>

PollTimeout == phase = "poll" /\ ~HeadReady /\ PollReturns

DrainEnds == phase = "drain" /\ ~HeadReady /\ PollReturns

(* decode_stream refuses a record silently ...                             *)
Reject ==
  /\ phase = "drain" /\ HeadReady /\ ~Decodes(ring[1])
  /\ Release
  /\ rejected' = rejected + 1
  /\ UNCHANGED <<opts, running, phase, seen, dropsNow, dropsBefore, interface, memory>>

(* ... or the callback waits for the mutex.                                *)
Callback ==
  /\ phase = "drain" /\ HeadReady /\ Decodes(ring[1])
  /\ Goto("lock")
  /\ UNCHANGED <<probeVars, memory>>

MutLockShared ==  \* try_lock: the event is ignored when the mutex is taken
  /\ phase = "lock"
  /\ IF lock = "free"
     THEN Goto("totals") /\ lock' = "collector" /\ UNCHANGED probeVars
     ELSE Goto("drain") /\ Release /\ UNCHANGED lock
  /\ UNCHANGED <<shared, pushed>>

LockShared ==
  /\ phase = "lock" /\ lock = "free"
  /\ lock' = "collector"
  /\ Goto("totals")
  /\ UNCHANGED <<probeVars, shared, pushed>>

Row(r) == [seq |-> r.seq, pid |-> PidOf[r.task], comm |-> r.comm, event |-> r.event]

IsTcp(row) == row.event \in TcpEvents

(* Shared::push, with the mutex held.                                      *)
PushTotals ==
  /\ phase = "totals"
  /\ shared' = [shared EXCEPT !.total = @ + 1,
                              !.tcp = IF IsTcp(Row(ring[1])) THEN @ + 1 ELSE @,
                              !.file = IF IsTcp(Row(ring[1])) THEN @ ELSE @ + 1]
  /\ Goto("tallies")
  /\ UNCHANGED <<probeVars, lock, pushed>>

PushTallies ==
  /\ phase = "tallies"
  /\ LET row == Row(ring[1])
         before == IF row.pid \in DOMAIN shared.processes THEN shared.processes[row.pid].count ELSE 0
         process == [comm |-> row.comm, count |-> before + 1]
     IN  shared' = [shared EXCEPT
           !.processes = [p \in DOMAIN @ \cup {row.pid} |-> IF p = row.pid THEN process ELSE @[p]],
           !.byEvent = [e \in DOMAIN @ \cup {row.event} |->
             (IF e \in DOMAIN @ THEN @[e] ELSE 0) + (IF e = row.event THEN 1 ELSE 0)]]
  /\ Goto("row")
  /\ UNCHANGED <<probeVars, lock, pushed>>

MutCapped(rows) ==  \* pop_back in place of pop_front
  IF Len(rows) <= STREAM_MAX THEN rows ELSE SubSeq(rows, 1, STREAM_MAX)

Capped(rows) ==
  IF Len(rows) <= STREAM_MAX THEN rows ELSE SubSeq(rows, Len(rows) - STREAM_MAX + 1, Len(rows))

PushRow ==
  /\ phase = "row"
  /\ shared' = [shared EXCEPT !.recent = Capped(Append(@, Row(ring[1])))]
  /\ pushed' = Append(pushed, Row(ring[1]))
  /\ lock' = "free"
  /\ Release
  /\ Goto("drain")

(* The total of drops_seen, which warn_on_drops refreshes only afterwards. *)
CopyDropped ==
  /\ phase = "copy" /\ lock = "free"
  /\ shared' = [shared EXCEPT !.dropped = IF seen > @ THEN seen ELSE @]
  /\ Goto("warn")
  /\ UNCHANGED <<probeVars, lock, pushed>>

MutWarnOnDrops ==  \* warns but does not remember
  /\ phase = "warn"
  /\ Goto("refresh")
  /\ UNCHANGED <<probeVars, memory>>

WarnOnDrops ==
  /\ phase = "warn"
  /\ seen' = IF drops > seen THEN drops ELSE seen
  /\ phase' = "refresh"
  /\ UNCHANGED <<probeVars, opts, running, rejected, dropsNow, dropsBefore, interface, memory>>

RefreshLatency ==
  /\ phase = "refresh" /\ lock = "free"
  /\ Goto("check")
  /\ UNCHANGED <<probeVars, memory>>

Collect ==
  \/ Load \/ ApplyMap \/ Attach \/ BuildRing \/ DropLink \/ Return
  \/ Check \/ PollReady \/ PollTimeout \/ DrainEnds \/ Reject \/ Callback
  \/ LockShared \/ PushTotals \/ PushTallies \/ PushRow
  \/ CopyDropped \/ WarnOnDrops \/ RefreshLatency

-----------------------------------------------------------------------------
(* The main thread.                                                        *)

(* The process ends, and its other thread wherever it is.                  *)
Exit ==
  /\ ui' = "exited"
  /\ phase' = IF phase \in {"none", "done", "failed"} THEN phase ELSE "killed"
  /\ lock' = (IF lock = "ui" THEN "free" ELSE lock)
  /\ UNCHANGED <<probeVars, opts, running, seen, rejected, dropsNow, dropsBefore,
                 paused, due, shown, shared, pushed>>

Show(next) ==
  /\ ui' = next
  /\ UNCHANGED <<probeVars, opts, running, collector, shared, pushed>>

(* spawn: the thread starts once the options are known to be valid.        *)
Spawn ==
  /\ ui = "start" /\ ValidArgs(opts)
  /\ ui' = "check" /\ phase' = "load"
  /\ UNCHANGED <<probeVars, opts, running, seen, rejected, dropsNow, dropsBefore, paused, due,
                 shown, memory>>

SpawnFails ==
  /\ ui = "start" /\ Exit

MutUiCheck ==  \* only the q key ends the loop
  /\ ui = "check"
  /\ Show("input") /\ UNCHANGED <<paused, due, shown, lock>>

UiCheck ==
  /\ ui = "check"
  /\ IF running
     THEN Show("input") /\ UNCHANGED <<paused, due, shown, lock>>
     ELSE Exit

(* A key that means something draws a frame, also while paused.            *)
Key(action) ==
  /\ ui = "input"
  /\ IF action = "Quit"
     THEN Exit
     ELSE /\ Show("lock")
          /\ paused' = (IF action = "TogglePause" THEN ~paused ELSE paused)
          /\ due' = FALSE
          /\ UNCHANGED <<shown, lock>>

MutNoKey ==  \* draws on keys only
  /\ ui = "input"
  /\ Show("check") /\ UNCHANGED <<paused, due, shown, lock>>

(* 100 ms without such a key.                                              *)
NoKey ==
  /\ ui = "input"
  /\ IF ~paused /\ due
     THEN Show("lock") /\ due' = FALSE
     ELSE Show("check") /\ UNCHANGED due
  /\ UNCHANGED <<paused, shown, lock>>

MutTakeSnapshot ==  \* does not wait for the mutex
  /\ ui = "lock"
  /\ lock' = (IF lock = "free" THEN "ui" ELSE lock)
  /\ shown' = shared
  /\ Show("draw")
  /\ UNCHANGED <<paused, due>>

TakeSnapshot ==
  /\ ui = "lock" /\ lock = "free"
  /\ lock' = "ui"
  /\ shown' = shared
  /\ Show("draw")
  /\ UNCHANGED <<paused, due>>

(* The guard is dropped at the end of the block, after the frame is drawn. *)
Draw ==
  /\ ui = "draw"
  /\ lock' = "free"
  /\ Show("check")
  /\ UNCHANGED <<paused, due, shown>>

(* The terminal fails: poll, read or draw return an error.                 *)
TerminalFails ==
  /\ ui \in {"input", "draw"} /\ Exit

Interface == UiCheck \/ NoKey \/ TakeSnapshot \/ Draw

KeyActions == {"TogglePause", "Quit", "Scroll"}

-----------------------------------------------------------------------------
(* The environment.                                                        *)

Second ==
  /\ ui # "exited" /\ ~due /\ due' = TRUE
  /\ UNCHANGED <<probeVars, opts, running, collector, ui, paused, shown, memory>>

Signal ==
  /\ ui # "exited" /\ running /\ running' = FALSE
  /\ UNCHANGED <<probeVars, opts, collector, interface, memory>>

(* A signal that finds the collector thread asleep in epoll_wait.          *)
Interrupt ==
  /\ phase = "poll" /\ ~HeadReady
  /\ running' = FALSE
  /\ phase' = "abort"
  /\ UNCHANGED <<probeVars, opts, seen, rejected, dropsNow, dropsBefore, interface, memory>>

Next ==
  \/ ProbeNext /\ UNCHANGED <<opts, running, collector, interface, memory>>
  \/ Collect
  \/ SetupFails
  \/ Spawn \/ SpawnFails \/ Interface \/ TerminalFails
  \/ \E action \in KeyActions : Key(action)
  \/ Second \/ Signal \/ Interrupt

Spec == Init /\ [][Next]_vars

(* config() turns the command line down.                                   *)
Invalid == ~ValidArgs(opts) /\ SpawnFails

(* Both threads are scheduled, and a second passes.  The interface gets    *)
(* the mutex if it is free again and again: the collector thread leaves it *)
(* free while it waits up to 200 ms for an event.  Nothing is assumed of   *)
(* the programs, nor of the collector's luck with the mutex.               *)
Fairness ==
  /\ WF_vars(Collect)
  /\ WF_vars(Spawn \/ Invalid) /\ WF_vars(Interface) /\ SF_vars(TakeSnapshot)
  /\ WF_vars(Second)

FairSpec == Spec /\ Fairness

-----------------------------------------------------------------------------
(* Properties.                                                             *)

Ended == {"done", "failed"}
Pushing == {"totals", "tallies", "row"}

(* The values of the variables, but for Shared and its copies, whose       *)
(* content SharedIsAggregate and FramesAreConsistent give; the mutex is    *)
(* held exactly by the thread that is inside its critical section.         *)
TypeOK ==
  /\ opts \in Options /\ running \in BOOLEAN
  /\ filterMap \in {ZeroConfig, Config(opts, TcpEvents)}
  /\ \A i \in DOMAIN attached : \E j \in DOMAIN Programs :
       attached[i] = Programs[j] /\ (phase \notin Teardown => j = i)
  /\ ProbeTypeOK
  /\ phase \in {"none", "load", "loaded", "attach", "build", "check", "poll", "drain",
                "lock", "copy", "warn", "refresh"} \cup Pushing \cup Teardown \cup Ended
  /\ ui \in {"start", "check", "input", "lock", "draw", "exited"}
  /\ paused \in BOOLEAN /\ due \in BOOLEAN
  /\ lock \in {"free", "collector", "ui"}
  /\ phase \in Pushing => lock = "collector"
  /\ lock = "collector" => phase \in Pushing \cup {"killed"}
  /\ lock = "ui" <=> ui = "draw"

(* What Shared should hold after the events of these rows.                 *)
RowsWith(rows, P(_)) == {i \in DOMAIN rows : P(rows[i])}

Tally(rows, P(_)) == Cardinality(RowsWith(rows, P))

ProcessOf(rows, p) ==
  LET own == RowsWith(rows, LAMBDA row : row.pid = p)
  IN  [comm |-> rows[Max(own)].comm, count |-> Cardinality(own)]

Aggregate(rows) ==
  [ total |-> Len(rows),
    tcp |-> Tally(rows, IsTcp),
    file |-> Tally(rows, LAMBDA row : ~IsTcp(row)),
    processes |-> [p \in {rows[i].pid : i \in DOMAIN rows} |-> ProcessOf(rows, p)],
    byEvent |-> [e \in {rows[i].event : i \in DOMAIN rows} |->
                   Tally(rows, LAMBDA row : row.event = e)],
    recent |-> [i \in 1..Min({Len(rows), STREAM_MAX}) |->
                  rows[Len(rows) - Min({Len(rows), STREAM_MAX}) + i]] ]

(* s is the aggregate of rows, whatever its drop counter.                  *)
Matches(s, rows) ==
  \A field \in DOMAIN Aggregate(rows) : s[field] = Aggregate(rows)[field]

(* Whoever gets the mutex finds totals, processes, distribution and stream *)
(* that belong to the same events, and the newest rows in the stream.      *)
SharedIsAggregate == lock # "collector" => Matches(shared, pushed)

(* A frame shows the state after some number of events, never a mixture.   *)
FramesAreConsistent ==
  \E n \in 0..Len(pushed) : Matches(shown, SubSeq(pushed, 1, n))

Taken == Len(pushed) + rejected

(* Every record taken from the ring is in the totals or was refused by the *)
(* decoder, whether the display is paused or not, busy or not              *)
(* (README.md:479-480 "the collector keeps draining the ring buffer and    *)
(* updating aggregates, so nothing is lost while paused").                 *)
NothingMissed == reserved = Len(ring) + Taken

(* The drop counter of Shared never overstates, and from one copy to the   *)
(* next it covers what the last poll but one left in the kernel's counter: *)
(* it is one poll behind, not more.  The overview is drawn with the        *)
(* counter of that moment; how old the frame is depends on the interface,  *)
(* a second or as long as a pause.                                         *)
DroppedLagsOnePoll ==
  /\ shown.dropped <= shared.dropped /\ shared.dropped <= drops
  /\ phase \notin {"copy"} \cup Teardown \cup Ended => shared.dropped >= dropsBefore
  /\ ui = "draw" => shown.dropped = shared.dropped

(* Again and again the screen shows every event added to Shared, unless    *)
(* the display is paused or the program ends.                              *)
Refreshes == []<>(shown.total = Len(pushed) \/ paused \/ ui = "exited")

(* A signal ends the program, whoever holds the mutex.                     *)
Stops == ~running ~> (ui = "exited")

(* The programs of all five hooks, the ring and the collector thread are   *)
(* one bounded channel into Shared, whatever the interface does with the   *)
(* mutex.                                                                  *)
Chan == INSTANCE Channel WITH
  Capacity <- RingBytes, Sizes <- Sizes, accepted <- reserved, waiting <- Waiting,
  room <- Room, complete <- Submitted, taken <- Taken, refused <- Refusals, counted <- drops

Implements == Chan!Spec

-----------------------------------------------------------------------------
(* What the documents say and the code does not do.                        *)

(* README.md:488-489 "the TUI drops the lock before rendering".            *)
DrawsUnlocked == ui = "draw" => lock # "ui"
=============================================================================
