------------------------------ MODULE Latency -------------------------------
(***************************************************************************)
(* `tracelet latency`: syscall_enter and syscall_exit of tracelet.bpf.c    *)
(* aggregate durations in BPF maps, and latency::run reads them cell by    *)
(* cell while the threads of the machine go on changing them.              *)
(*                                                                         *)
(* A syscall is its index 0 .. SYSCALL_COUNT-1.  latency_hist is the flat  *)
(* array of the code: LATENCY_SLOTS cells per syscall, HIST_SLOTS buckets, *)
(* then the sum and the maximum.  The programs of an exit change their     *)
(* cells in separate steps; the maximum is compared and stored without an  *)
(* atomic operation.                                                       *)
(***************************************************************************)
EXTENDS Filter, Histogram

CONSTANTS Threads, PidOf, PpidOf, Comms,
          SYSCALL_COUNT,
          StartMax,   \* max_entries of latency_start
          Options,    \* the command lines considered
          MaxTime,    \* bound: clock ticks
          MaxCalls    \* bound: syscalls entered

Syscalls == 0..(SYSCALL_COUNT - 1)

CommandLines == [filter : FilterArgs, syscall : Option(Syscalls), duration : BOOLEAN]

ASSUME LatencyAssumption ==
  /\ IsFiniteSet(Threads)
  /\ PidOf \in [Threads -> Nat] /\ PpidOf \in [Threads -> Nat]
  /\ Comms \subseteq Names \cup {NoName}
  /\ SYSCALL_COUNT \in Nat \ {0}
  /\ StartMax \in Nat /\ MaxTime \in Nat /\ MaxCalls \in Nat
  /\ Options \subseteq CommandLines

VARIABLES
  opts, phase, running, expired,  \* as in Collector
  filterMap, links,               \* links: the programs attached, in order
  now, comm,                      \* the clock; the name of each thread
  pc, local,                      \* of each thread: the step it is at and its locals
  start, hist, drops,             \* latency_start, latency_hist, drops[1]
  cursor, snap, shown,            \* read_histogram and the last snapshot printed
  seen, summary,                  \* drops_seen[1]; the summary line, once printed
  calls,                          \* history: syscalls entered
  enters, overwritten, exits,     \* history: entries to record; those that replaced another;
                                  \* exits that found one
  fresh,                          \* history: the thread recorded the entry of this syscall
  began,                          \* history: these exits, by syscall and delta
  raced                           \* history: a maximum was stored over one not compared

threadVars == <<pc, local>>
mapVars == <<start, hist, drops>>
historyVars == <<calls, enters, overwritten, exits, fresh, began, raced>>
machineVars == <<now, comm, threadVars, mapVars, historyVars>>
readerVars == <<cursor, snap, shown, seen, summary>>
runVars == <<opts, phase, running, expired, filterMap, links>>
vars == <<machineVars, readerVars, runVars>>

LATENCY_SLOTS == HIST_SLOTS + 2
Cells == 0..(SYSCALL_COUNT * LATENCY_SLOTS - 1)
MutCellOf(syscall, slot) == syscall * HIST_SLOTS + slot  \* no room for the sum and the maximum
CellOf(syscall, slot) == syscall * LATENCY_SLOTS + slot
SumCell(syscall) == CellOf(syscall, HIST_SLOTS)
MaxCell(syscall) == CellOf(syscall, HIST_SLOTS + 1)

(* A step of log2_slot: whether v >> n is not zero (the first conjunct     *)
(* follows from the second, which TLC need not compute when it is false),  *)
(* what v becomes, and what is added to r.                                 *)
Reaches(v, n) == n < v /\ Pow2[n] <= v
Shifted(v, n) == IF Reaches(v, n) THEN v \div Pow2[n] ELSE v
Found(v, n) == IF Reaches(v, n) THEN n ELSE 0

(* log2_slot: by halves, from 32 bits down to one.                         *)
Log2Slot(v) ==
  LET a == Shifted(v, 32)
      b == Shifted(a, 16)
      c == Shifted(b, 8)
      d == Shifted(c, 4)
      e == Shifted(d, 2)
  IN  Found(v, 32) + Found(a, 16) + Found(b, 8) + Found(c, 4) + Found(d, 2) + Found(e, 1)

MutSlot(d) == Log2Slot(d)  \* no clamp to the last bucket

Slot(d) == LET r == Log2Slot(d) IN IF r >= HIST_SLOTS THEN HIST_SLOTS - 1 ELSE r

(* selected() and attach(): enter and exit of each syscall, one by one.    *)
Selected(syscall) ==
  IF syscall = {} THEN [i \in 1..SYSCALL_COUNT |-> i - 1] ELSE <<The(syscall)>>

Program(at, k) == [at |-> at, sys |-> k]

Programs(kinds) ==
  [i \in 1..(2 * Len(kinds)) |->
     Program(IF i % 2 = 1 THEN "enter" ELSE "exit", kinds[(i + 1) \div 2])]

Attached(at, k) == \E i \in DOMAIN links : links[i] = Program(at, k)

Attrs(t) == [pid |-> PidOf[t], ppid |-> PpidOf[t], comm |-> comm[t]]

Zeros == [c \in Cells |-> 0]

(* Of a thread that runs no program: nothing is left of its locals.        *)
AtRest == [sys |-> 0, ts |-> 0, delta |-> 0, old |-> 0]

Init ==
  /\ opts \in Options /\ phase = "start" /\ running = TRUE /\ expired = FALSE
  /\ filterMap = ZeroConfig /\ links = <<>>
  /\ now = 0 /\ comm \in [Threads -> Comms]
  /\ pc = [t \in Threads |-> "user"] /\ local = [t \in Threads |-> AtRest]
  /\ start = <<>> /\ hist = Zeros /\ drops = 0
  /\ cursor = 0 /\ snap = Zeros /\ shown = Zeros
  /\ seen = 0 /\ summary = {}
  /\ calls = 0 /\ enters = 0 /\ overwritten = 0 /\ exits = 0
  /\ fresh = [t \in Threads |-> FALSE]
  /\ began = [k \in Syscalls |-> [d \in 0..MaxTime |-> 0]]
  /\ raced = [k \in Syscalls |-> FALSE]

-----------------------------------------------------------------------------
(* The threads of the machine and the programs they run.                   *)

Sys(t) == local[t].sys
Delta(t) == local[t].delta

Goto(t, next, locals) ==
  /\ pc' = [pc EXCEPT ![t] = next]
  /\ local' = [local EXCEPT ![t] = locals]

Leave(t) == Goto(t, "user", AtRest)
EnterSyscall(t) == Goto(t, "inside", [AtRest EXCEPT !.sys = Sys(t)])

(* Entering a syscall: the program, if attached, reads the clock first.    *)
SysEnter(t, k) ==
  /\ pc[t] = "user" /\ calls < MaxCalls
  /\ calls' = calls + 1
  /\ fresh' = [fresh EXCEPT ![t] = FALSE]
  /\ IF Attached("enter", k)
     THEN Goto(t, "store", [AtRest EXCEPT !.sys = k, !.ts = now])
     ELSE Goto(t, "inside", [AtRest EXCEPT !.sys = k])
  /\ UNCHANGED <<now, comm, mapVars, enters, overwritten, exits, began, raced>>

Filtered(t) ==
  /\ pc[t] = "store" /\ ~Allowed(filterMap, Attrs(t))
  /\ EnterSyscall(t)
  /\ UNCHANGED <<now, comm, mapVars, historyVars>>

MutRoom(t) ==  \* BPF_NOEXIST
  t \notin DOMAIN start /\ Cardinality(DOMAIN start) < StartMax

(* bpf_map_update_elem with BPF_ANY: a full map still takes a key it has.  *)
Room(t) == t \in DOMAIN start \/ Cardinality(DOMAIN start) < StartMax

Store(t) ==
  /\ pc[t] = "store" /\ Allowed(filterMap, Attrs(t)) /\ Room(t)
  /\ start' = [u \in DOMAIN start \cup {t} |-> IF u = t THEN local[t].ts ELSE start[u]]
  /\ enters' = enters + 1
  /\ overwritten' = IF t \in DOMAIN start THEN overwritten + 1 ELSE overwritten
  /\ fresh' = [fresh EXCEPT ![t] = TRUE]
  /\ EnterSyscall(t)
  /\ UNCHANGED <<now, comm, hist, drops, calls, exits, began, raced>>

MutStoreFails(t) ==  \* the result of the update is not looked at
  /\ pc[t] = "store" /\ Allowed(filterMap, Attrs(t)) /\ ~Room(t)
  /\ enters' = enters + 1
  /\ EnterSyscall(t)
  /\ UNCHANGED <<now, comm, mapVars, calls, overwritten, exits, fresh, began, raced>>

StoreFails(t) ==
  /\ pc[t] = "store" /\ Allowed(filterMap, Attrs(t)) /\ ~Room(t)
  /\ drops' = drops + 1
  /\ enters' = enters + 1
  /\ EnterSyscall(t)
  /\ UNCHANGED <<now, comm, start, hist, calls, overwritten, exits, fresh, began, raced>>

SysExitUntraced(t) ==
  /\ pc[t] = "inside"
  /\ Attached("exit", Sys(t)) => t \notin DOMAIN start
  /\ Leave(t)
  /\ UNCHANGED <<now, comm, mapVars, historyVars>>

MutElapsed(t) == start[t] - now  \* the operands are swapped
Elapsed(t) == now - start[t]

SysExit(t) ==
  /\ pc[t] = "inside" /\ Attached("exit", Sys(t)) /\ t \in DOMAIN start
  /\ start' = [u \in DOMAIN start \ {t} |-> start[u]]
  /\ exits' = exits + 1
  /\ began' = [began EXCEPT ![Sys(t)][Elapsed(t)] = @ + 1]
  /\ Goto(t, "slot", [local[t] EXCEPT !.delta = Elapsed(t)])
  /\ UNCHANGED <<now, comm, hist, drops, calls, enters, overwritten, fresh, raced>>

AddSlot(t) ==
  /\ pc[t] = "slot"
  /\ hist' = [hist EXCEPT ![CellOf(Sys(t), Slot(Delta(t)))] = @ + 1]
  /\ Goto(t, "sum", local[t])
  /\ UNCHANGED <<now, comm, start, drops, historyVars>>

MutAddSum(t) ==  \* a plain store in place of the atomic addition
  /\ pc[t] = "sum"
  /\ hist' = [hist EXCEPT ![SumCell(Sys(t))] = Delta(t)]
  /\ Goto(t, "max", local[t])
  /\ UNCHANGED <<now, comm, start, drops, historyVars>>

AddSum(t) ==
  /\ pc[t] = "sum"
  /\ hist' = [hist EXCEPT ![SumCell(Sys(t))] = @ + Delta(t)]
  /\ Goto(t, "max", local[t])
  /\ UNCHANGED <<now, comm, start, drops, historyVars>>

MutCompareMax(t) ==  \* the comparison is turned round
  /\ pc[t] = "max"
  /\ IF Delta(t) < hist[MaxCell(Sys(t))]
     THEN Goto(t, "setmax", [local[t] EXCEPT !.old = hist[MaxCell(Sys(t))]])
     ELSE Leave(t)
  /\ UNCHANGED <<now, comm, mapVars, historyVars>>

(* if (delta > *maxp) ...                                                  *)
CompareMax(t) ==
  /\ pc[t] = "max"
  /\ IF Delta(t) > hist[MaxCell(Sys(t))]
     THEN Goto(t, "setmax", [local[t] EXCEPT !.old = hist[MaxCell(Sys(t))]])
     ELSE Leave(t)
  /\ UNCHANGED <<now, comm, mapVars, historyVars>>

(* ... *maxp = delta, whatever another thread stored in between.           *)
SetMax(t) ==
  /\ pc[t] = "setmax"
  /\ hist' = [hist EXCEPT ![MaxCell(Sys(t))] = Delta(t)]
  /\ raced' = [raced EXCEPT ![Sys(t)] = @ \/ hist[MaxCell(Sys(t))] # local[t].old]
  /\ Leave(t)
  /\ UNCHANGED <<now, comm, start, drops, calls, enters, overwritten, exits, fresh, began>>

Tick ==
  /\ now < MaxTime
  /\ now' = now + 1
  /\ UNCHANGED <<comm, threadVars, mapVars, historyVars>>

SetComm(t, c) ==
  /\ c # comm[t]
  /\ comm' = [comm EXCEPT ![t] = c]
  /\ UNCHANGED <<now, threadVars, mapVars, historyVars>>

RunThread(t) ==
  \/ Filtered(t) \/ Store(t) \/ StoreFails(t) \/ SysExitUntraced(t) \/ SysExit(t)
  \/ AddSlot(t) \/ AddSum(t) \/ CompareMax(t) \/ SetMax(t)

MachineNext ==
  \/ Tick
  \/ \E t \in Threads :
       \/ \E k \in Syscalls : SysEnter(t, k)
       \/ RunThread(t)
       \/ \E c \in Comms : SetComm(t, c)

-----------------------------------------------------------------------------
(* latency::run.                                                           *)

Ended == {"stopped", "failed"}

(* run returns after its summary, or with an error.                        *)
Teardown == {"detach", "abort"}

Step(next) ==
  /\ phase' = next
  /\ UNCHANGED <<opts, running, expired>>

Load ==
  /\ phase = "start" /\ ValidArgs(opts.filter)
  /\ Step("loaded")
  /\ UNCHANGED <<filterMap, links, readerVars>>

ApplyMap ==
  /\ phase = "loaded"
  /\ filterMap' = Config(opts.filter, TcpEvents)
  /\ Step("attach")
  /\ UNCHANGED <<links, readerVars>>

Kinds == Selected(opts.syscall)

(* attach() pushes the links one at a time while the threads run.          *)
Attach ==
  /\ phase = "attach" /\ Len(links) < 2 * Len(Kinds)
  /\ links' = Append(links, Programs(Kinds)[Len(links) + 1])
  /\ Step(IF Len(links) + 1 = 2 * Len(Kinds) THEN "check" ELSE "attach")
  /\ UNCHANGED <<filterMap, readerVars>>

SetupFails ==
  /\ phase \in {"start", "loaded", "attach"}
  /\ Step("abort")
  /\ UNCHANGED <<filterMap, links, readerVars>>

MutShouldStop == opts.duration /\ expired  \* RUNNING is not looked at

ShouldStop == ~running \/ (opts.duration /\ expired)

Check ==
  /\ phase = "check"
  /\ Step(IF ShouldStop THEN "summary" ELSE "read")
  /\ cursor' = 0
  /\ UNCHANGED <<filterMap, links, snap, shown, seen, summary>>

(* read_histogram: one lookup per cell.                                    *)
ReadCell ==
  /\ phase = "read" /\ cursor \in Cells
  /\ snap' = [snap EXCEPT ![cursor] = hist[cursor]]
  /\ cursor' = cursor + 1
  /\ Step("read")
  /\ UNCHANGED <<filterMap, links, shown, seen, summary>>

PrintSnapshot ==
  /\ phase = "read" /\ cursor \notin Cells
  /\ shown' = snap
  /\ Step("warn")
  /\ UNCHANGED <<filterMap, links, cursor, snap, seen, summary>>

WarnOnDrops ==
  /\ phase = "warn"
  /\ seen' = IF drops > seen THEN drops ELSE seen
  /\ Step("sleep")
  /\ UNCHANGED <<filterMap, links, cursor, snap, shown, summary>>

(* thread::sleep goes back to sleep when a signal interrupts it.           *)
WakeUp ==
  /\ phase = "sleep"
  /\ Step("check")
  /\ UNCHANGED <<filterMap, links, readerVars>>

PrintSummary ==
  /\ phase = "summary"
  /\ summary' = {seen}
  /\ Step("detach")
  /\ UNCHANGED <<filterMap, links, cursor, snap, shown, seen>>

(* The links are dropped one by one, the program of an entry before that   *)
(* of the exit, while the threads run.                                     *)
DropLink ==
  /\ phase \in Teardown /\ links # <<>>
  /\ links' = Tail(links)
  /\ Step(phase)
  /\ UNCHANGED <<filterMap, readerVars>>

Return ==
  /\ phase \in Teardown /\ links = <<>>
  /\ Step(IF phase = "detach" THEN "stopped" ELSE "failed")
  /\ UNCHANGED <<filterMap, links, readerVars>>

Signal ==
  /\ phase \notin Ended /\ running /\ running' = FALSE
  /\ UNCHANGED <<opts, phase, expired, filterMap, links, readerVars>>

Expire ==
  /\ phase \notin {"start", "loaded", "attach"} \cup Ended
  /\ opts.duration /\ ~expired /\ expired' = TRUE
  /\ UNCHANGED <<opts, phase, running, filterMap, links, readerVars>>

Collect ==
  \/ Load \/ ApplyMap \/ Attach \/ Check \/ ReadCell \/ PrintSnapshot
  \/ WarnOnDrops \/ WakeUp \/ PrintSummary \/ DropLink \/ Return

Next ==
  \/ MachineNext /\ UNCHANGED <<readerVars, runVars>>
  \/ (Collect \/ SetupFails \/ Signal \/ Expire) /\ UNCHANGED machineVars

Spec == Init /\ [][Next]_vars

(* config() turns the command line down.                                   *)
Invalid == phase = "start" /\ ~ValidArgs(opts.filter) /\ SetupFails

(* The collector's thread is scheduled and its sleep ends.                 *)
FairSpec == Spec /\ WF_vars((Collect \/ Invalid) /\ UNCHANGED machineVars)

-----------------------------------------------------------------------------
(* Properties.                                                             *)

Locals == [sys : Syscalls, ts : 0..MaxTime, delta : 0..MaxTime, old : Nat]

(* The values of every variable; an elapsed time is never negative.        *)
TypeOK ==
  /\ opts \in Options
  /\ phase \in {"start", "loaded", "attach", "check", "read", "warn", "sleep", "summary"}
                \cup Teardown \cup Ended
  /\ running \in BOOLEAN /\ expired \in BOOLEAN
  /\ filterMap \in {ZeroConfig, Config(opts.filter, TcpEvents)}
  /\ links \in Seq([at : {"enter", "exit"}, sys : Syscalls])
  /\ Len(links) <= 2 * Len(Kinds)
  /\ \A i \in DOMAIN links : \E j \in DOMAIN Programs(Kinds) :
       links[i] = Programs(Kinds)[j] /\ (phase \notin Teardown => j = i)
  /\ now \in 0..MaxTime
  /\ comm \in [Threads -> Comms]
  /\ pc \in [Threads -> {"user", "store", "inside", "slot", "sum", "max", "setmax"}]
  /\ local \in [Threads -> Locals]
  /\ DOMAIN start \subseteq Threads /\ \A t \in DOMAIN start : start[t] \in 0..now
  /\ hist \in [Cells -> Nat] /\ snap \in [Cells -> Nat] /\ shown \in [Cells -> Nat]
  /\ cursor \in Nat /\ drops \in Nat /\ seen \in Nat /\ summary \subseteq Nat
  /\ calls \in 0..MaxCalls /\ enters \in Nat /\ overwritten \in Nat /\ exits \in Nat
  /\ fresh \in [Threads -> BOOLEAN]
  /\ began \in [Syscalls -> [0..MaxTime -> Nat]]
  /\ raced \in [Syscalls -> BOOLEAN]

At(k, steps) == {t \in Threads : pc[t] \in steps /\ Sys(t) = k}

Samples(k, durations) == SumOver(began[k], durations)

(* The buckets and the sum of a syscall hold every exit that found an      *)
(* entry exactly once, but for the threads still on their way to the cell: *)
(* no increment is lost or lands in a cell of another syscall, at whatever *)
(* duration.                                                               *)
Conserved ==
  \A k \in Syscalls :
    /\ \A slot \in 0..(HIST_SLOTS - 1) :
         hist[CellOf(k, slot)]
           + Cardinality({t \in At(k, {"slot"}) : Slot(Delta(t)) = slot})
         = Samples(k, {d \in 0..MaxTime : Slot(d) = slot})
    /\ hist[SumCell(k)] + SumOver([t \in Threads |-> Delta(t)], At(k, {"slot", "sum"}))
         = SumOver([d \in 0..MaxTime |-> d * began[k][d]], 0..MaxTime)

(* Every entry to record is reported as a drop, waits for its exit, was    *)
(* replaced by a later entry of its thread, or was measured, and is only   *)
(* one of these.                                                           *)
EveryEnterCounted ==
  enters = drops + Cardinality(DOMAIN start) + overwritten + exits

(* Once the programs of a syscall have returned, its maximum is that of    *)
(* all its exits, unless a store raced with another.                       *)
MaxExact ==
  \A k \in Syscalls :
    At(k, {"slot", "sum", "max", "setmax"}) = {} /\ ~raced[k] =>
      hist[MaxCell(k)] = Max({0} \cup {d \in 0..MaxTime : began[k][d] > 0})

(* A line of the last snapshot, as printed.                                *)
Line(k) ==
  Summarize([slot \in Slots |-> shown[CellOf(k, slot)]], shown[SumCell(k)], shown[MaxCell(k)])

(* The snapshot shows what the maps hold of syscall k, and no program is   *)
(* about to change it.                                                     *)
UpToDate(k) ==
  /\ At(k, {"slot", "sum", "max", "setmax"}) = {}
  /\ \A slot \in 0..(HIST_SLOTS + 1) : shown[CellOf(k, slot)] = hist[CellOf(k, slot)]

(* A line that is up to date counts all exits measured and adds up their   *)
(* durations, its maximum is the longest of them unless a store raced with *)
(* another, and each of its percentiles is the bound of the right bucket:  *)
(* that share of the durations lies below it, unless it is the bound of    *)
(* the last bucket, and less than that share in the buckets before         *)
(* (README.md:231-232 "the upper bound of the bucket where the cumulative  *)
(* count reached the requested percentile").                               *)
LineFits ==
  \A k \in Syscalls : UpToDate(k) =>
    LET Below(bound) == Samples(k, {d \in 0..MaxTime : d < bound})
        all == Samples(k, 0..MaxTime)
    IN  /\ Line(k).count = all
        /\ Line(k).sum = SumOver([d \in 0..MaxTime |-> d * began[k][d]], 0..MaxTime)
        /\ ~raced[k] => Line(k).max = Max({0} \cup {d \in 0..MaxTime : began[k][d] > 0})
        /\ \A p \in Percents : all > 0 =>
             LET bound == Line(k).percentile[p]
             IN  /\ 100 * Below(bound) >= p * all \/ bound = UpperBound(HIST_SLOTS - 1)
                 /\ bound > 2 => 100 * Below(bound \div 2) < p * all

(* The counts and the sums that are printed never decrease from one        *)
(* snapshot to the next, though each is read cell by cell (README.md:265   *)
(* "Counters are cumulative since the command started").                   *)
SnapshotsGrow ==
  [][\A k \in Syscalls : \A slot \in 0..HIST_SLOTS :
       shown'[CellOf(k, slot)] >= shown[CellOf(k, slot)]]_vars

(* Until the links are dropped, after which nothing is printed any more,   *)
(* an exit is measured against the entry of the same syscall (README.md:   *)
(* 261-262 "The histogram counts only paired enter/exit events").          *)
OnlyPaired ==
  [][\A t \in Threads :
       phase \notin Teardown \cup Ended /\ pc[t] = "inside" /\ pc'[t] = "slot" => fresh[t]]_vars

(* A signal ends the run, and so does the end of --duration.               *)
Stops == (~running \/ expired) ~> (phase \in Ended)
=============================================================================
